-------------------------------- MODULE SpiOdo --------------------------------
(*****************************************************************************)
(* The motion sensor on the SPI bus (src/src/cli.c:640-905): single register *)
(* reads, pictures and the odometer, all over one callback, cli_spi_dev_cb,  *)
(* that goes by cli_spi_st.                                                  *)
(*                                                                           *)
(* Three contexts share its variables.  The SPI interrupt preempts the       *)
(* motion pin's, which preempts the task (src/src/processor.c:66-79).  A     *)
(* command writes the variables in one step and starts its sequence in       *)
(* another; so does the pin's function, whose callback sets the next state   *)
(* in a third.                                                               *)
(*                                                                           *)
(* The SPI driver and the sensor are external: a sequence is refused while   *)
(* one runs, and may be refused or end in an error at any time.  The byte it *)
(* sends is the one in cli_spi_tx when it was started or when it is sent.    *)
(* What is printed is left out, but for the pixels of a picture.             *)
(*****************************************************************************)
EXTENDS Integers, Sequences

CONSTANTS
    PIXELS,         \* 484 in the code
    MOVES,          \* what the sensor may be moved by at once, as <<dx, dy>>
    MAX_MOVES       \* a bound on how often it is moved

ASSUME SpiAssumption ==
    /\ PIXELS \in Nat \ {0, 1}
    /\ MOVES \subseteq (Int \X Int) \ {<<0, 0>>}
    /\ MAX_MOVES \in Nat

VARIABLES
    cli_spi_st, cli_spi_rx_len,
    cli_spi_tx,         \* the register in its first byte
    cli_spi_rx,         \* the first byte of cli_spi_rx_buf: its bit 7 and its value
    cli_spi_irq,
    cli_spi_dx,         \* cli_spi_dy, _x and _y are only added to: see owed
    task,               \* the command being run, and how far it is
    pin,                \* [odo, edge]: interrupt configured, and pending
    handler,            \* the pin's function, and the state its callback will set
    bus,                \* the sequence of the SPI driver
    sensor              \* its motion not read yet, its next pixel, its moves

\* History variables.
VARIABLES
    clean,      \* nothing came between the steps of what runs, and nothing failed
    stolen,     \* a command took over a chain that holds cli_spi_irq
    owed,       \* motion read from the sensor less what was added to cli_spi_x, _y
    printed,    \* the pixels of this picture
    stale       \* bit 7 of cli_spi_rx when it was asked for

chain == <<cli_spi_st, cli_spi_rx_len, cli_spi_tx>>
vars == <<chain, cli_spi_dx, cli_spi_rx, cli_spi_irq, task, pin, handler, bus, sensor,
          clean, stolen, owed, printed, stale>>

Rest     == [on |-> FALSE, done |-> FALSE, reg |-> "user", len |-> 0]
Still    == sensor.dx = 0 /\ sensor.dy = 0
Nothing  == [dx |-> 0, dy |-> 0]
NoTask   == [cmd |-> "none", at |-> "idle"]
Inactive == [on |-> FALSE, at |-> "none", next |-> 0]
Commands == {"spi", "send", "mot", "pic", "squal"}
Checking == {"mot", "squal"}

Init ==
    /\ cli_spi_st = 0 /\ cli_spi_rx_len = 0 /\ cli_spi_tx = "user"
    /\ cli_spi_rx = [bit |-> FALSE, v |-> 0]
    /\ cli_spi_irq = FALSE
    /\ cli_spi_dx = 0
    /\ task = NoTask /\ pin = [odo |-> FALSE, edge |-> FALSE]
    /\ handler = Inactive /\ bus = Rest
    /\ sensor = [dx |-> 0, dy |-> 0, pixel |-> 1, moves |-> 0]
    /\ clean = TRUE /\ stolen = FALSE /\ owed = Nothing
    /\ printed = <<>> /\ stale = FALSE

-------------------------------------------------------------------------------
(* The sensor and the SPI driver.                                             *)

Move(d) ==
    /\ sensor.moves < MAX_MOVES
    /\ sensor' = [sensor EXCEPT !.dx = @ + d[1], !.dy = @ + d[2], !.moves = @ + 1]
    /\ pin' = [pin EXCEPT !.edge = @ \/ (pin.odo /\ Still)]
    /\ UNCHANGED <<chain, cli_spi_dx, cli_spi_rx, cli_spi_irq, task, handler, bus, clean, stolen,
                   owed, printed, stale>>

\* A history variable is kept up only while it is of interest.
Kept(new, otherwise) == IF clean THEN new ELSE otherwise

Byte(v) == [bit |-> v < 0, v |-> v]

\* The sensor answers register reg; a delta is cleared by reading it, a pixel is
\* there or not yet, other registers hold anything.
Answer(reg) ==
    CASE reg = "status" -> /\ cli_spi_rx' = [bit |-> ~Still, v |-> 0]
                           /\ UNCHANGED <<sensor, owed>>
      [] reg = "dx" -> /\ cli_spi_rx' = Byte(sensor.dx)
                       /\ sensor' = [sensor EXCEPT !.dx = 0]
                       /\ owed' = Kept([owed EXCEPT !.dx = @ + sensor.dx], Nothing)
      [] reg = "dy" -> /\ cli_spi_rx' = Byte(sensor.dy)
                       /\ sensor' = [sensor EXCEPT !.dy = 0]
                       /\ owed' = Kept([owed EXCEPT !.dy = @ + sensor.dy], Nothing)
      [] reg = "pixel" -> /\ \E there \in BOOLEAN :
                               /\ cli_spi_rx' = [bit |-> there, v |-> sensor.pixel]
                               /\ sensor' = IF there
                                            THEN [sensor EXCEPT !.pixel = (@ % PIXELS) + 1]
                                            ELSE sensor
                          /\ UNCHANGED owed
      [] OTHER -> /\ \E b \in BOOLEAN : cli_spi_rx' = [bit |-> b, v |-> 0]
                  /\ UNCHANGED <<sensor, owed>>

Exchange ==
    /\ bus.on /\ ~bus.done
    /\ bus' = [bus EXCEPT !.done = TRUE]
    /\ \E reg \in {bus.reg, cli_spi_tx} :
         IF bus.len > 0 THEN Answer(reg)
         ELSE /\ sensor' = IF reg = "grab" THEN [sensor EXCEPT !.pixel = 1] ELSE sensor
              /\ UNCHANGED <<cli_spi_rx, owed>>
    /\ UNCHANGED <<chain, cli_spi_dx, cli_spi_irq, task, pin, handler, clean, stolen, printed,
                   stale>>

\* SPI_DEV_sequence over the bus as b has it.
Started(b, reg, len) == ~b.on /\ bus' = [on |-> TRUE, done |-> FALSE, reg |-> reg, len |-> len]
Refused(b) == bus' = b /\ clean' = FALSE

-------------------------------------------------------------------------------
(* cli_spi_dev_cb.                                                            *)

Release == cli_spi_irq' = FALSE /\ stolen' = FALSE
Hold    == UNCHANGED <<cli_spi_irq, stolen>>

\* st 0: the register's value is printed.
Quiet(b) ==
    /\ cli_spi_st = 0
    /\ bus' = b
    /\ Hold /\ UNCHANGED <<chain, cli_spi_dx, clean, printed, stale>>

\* Mutant: one pixel less.
FewerLeft == cli_spi_rx_len < PIXELS - 1

Left == cli_spi_rx_len < PIXELS

\* st 1: a pixel is printed and the next one asked for.
Picture(b) ==
    /\ cli_spi_st = 1
    /\ LET valid == cli_spi_rx.bit
           count == cli_spi_rx_len' = IF valid THEN cli_spi_rx_len + 1 ELSE cli_spi_rx_len
       IN  /\ printed' = Kept(IF valid /\ cli_spi_rx_len > 0
                              THEN Append(printed, cli_spi_rx.v) ELSE printed, <<>>)
           /\ IF ~valid \/ Left
              THEN /\ cli_spi_tx' = "pixel"
                   /\ \/ /\ Started(b, "pixel", 1)
                         /\ count
                         /\ UNCHANGED <<cli_spi_st, clean>>
                      \/ /\ Refused(b)
                         /\ cli_spi_st' = 0
                         /\ UNCHANGED cli_spi_rx_len
              ELSE bus' = b /\ count /\ UNCHANGED <<cli_spi_st, cli_spi_tx, clean>>
    /\ Hold /\ UNCHANGED <<cli_spi_dx, stale>>

\* What states 2 to 5 ask for, and where they go then.
Asks == [s \in 2 .. 5 |-> CASE s = 3 -> "dx" [] s = 4 -> "dy" [] OTHER -> "status"]
Then == [s \in 2 .. 5 |-> CASE s = 3 -> 4 [] s = 4 -> 5 [] OTHER -> 3]

\* Mutant: delta x is taken a state early.
TakeEarly ==
    /\ cli_spi_dx' = IF cli_spi_st = 3 THEN cli_spi_rx.v ELSE cli_spi_dx
    /\ owed' = IF cli_spi_st = 5
               THEN Kept([dx |-> owed.dx - cli_spi_dx, dy |-> owed.dy - cli_spi_rx.v], Nothing)
               ELSE owed

\* Delta x is kept until delta y is here; then cli_spi_x and cli_spi_y are raised by
\* them.
Take ==
    /\ cli_spi_dx' = IF cli_spi_st = 4 THEN cli_spi_rx.v ELSE cli_spi_dx
    /\ owed' = IF cli_spi_st = 5
               THEN Kept([dx |-> owed.dx - cli_spi_dx, dy |-> owed.dy - cli_spi_rx.v], Nothing)
               ELSE owed

\* Mutant: the chain ends after one pair of cli_spi_dx.
OverAfterPair == (cli_spi_st = 3 /\ ~cli_spi_rx.bit) \/ cli_spi_st = 5

Over == cli_spi_st = 3 /\ ~cli_spi_rx.bit

\* Mutant: the flag is kept when the sensor has nothing more.
EndHolds == Hold

End == Release

\* st 2 to 5: the odometer.  The state is set after the sequence was started,
\* except in st 5; next is the state that is still to be set.
Odometer(b) ==
    /\ cli_spi_st \in 2 .. 5
    /\ Take
    /\ IF Over
       THEN bus' = b /\ End /\ UNCHANGED <<chain, clean>>
       ELSE /\ cli_spi_tx' = Asks[cli_spi_st]
            /\ \/ /\ Started(b, Asks[cli_spi_st], 1)
                  /\ Hold /\ UNCHANGED clean
               \/ /\ Refused(b)
                  /\ Release
            /\ UNCHANGED cli_spi_rx_len
    /\ UNCHANGED <<printed, stale>>

\* The SPI interrupt: the sequence is over, well or in error.
Succeed ==
    /\ bus.on /\ bus.done
    /\ \/ (Quiet(Rest) \/ Picture(Rest)) /\ UNCHANGED owed
       \/ /\ Odometer(Rest)
          /\ cli_spi_st' = IF Over \/ (~bus'.on /\ cli_spi_st # 5) THEN cli_spi_st
                           ELSE Then[cli_spi_st]
    /\ UNCHANGED <<cli_spi_rx, task, pin, handler, sensor>>

Fail ==
    /\ bus.on
    /\ bus' = Rest /\ clean' = FALSE
    /\ Release
    /\ UNCHANGED <<chain, cli_spi_dx, cli_spi_rx, task, pin, handler, sensor, owed, printed, stale>>

-------------------------------------------------------------------------------
(* cli_spi_io_int_fn, the motion pin's function.                              *)

Busy == cli_spi_irq

PinEnter ==
    /\ pin.edge /\ ~handler.on
    /\ pin' = [pin EXCEPT !.edge = FALSE]
    /\ IF Busy
       THEN UNCHANGED <<cli_spi_irq, cli_spi_st, handler, clean, stolen, owed>>
       ELSE /\ cli_spi_irq' = TRUE /\ cli_spi_st' = 2
            /\ handler' = [on |-> TRUE, at |-> "callback", next |-> 0]
            /\ clean' = (~bus.on /\ task = NoTask) /\ owed' = Nothing
            /\ UNCHANGED stolen
    /\ UNCHANGED <<cli_spi_rx_len, cli_spi_tx, cli_spi_dx, cli_spi_rx, task, bus, sensor, printed,
                   stale>>

PinCallback ==
    /\ handler.on /\ handler.at = "callback"
    /\ Odometer(bus)
    /\ LET went == ~Over /\ bus' # bus IN
         /\ cli_spi_st' = IF ~Over /\ cli_spi_st = 5 THEN 3 ELSE cli_spi_st
         /\ handler' = IF went /\ cli_spi_st # 5
                       THEN [on |-> TRUE, at |-> "started", next |-> Then[cli_spi_st]]
                       ELSE Inactive
    /\ UNCHANGED <<cli_spi_rx, task, pin, sensor>>

\* The SPI interrupt may have been faster.
PinFinish ==
    /\ handler.on /\ handler.at = "started"
    /\ cli_spi_st' = handler.next
    /\ handler' = Inactive
    /\ clean' = (clean /\ cli_spi_st = 2)
    /\ UNCHANGED <<cli_spi_rx_len, cli_spi_tx, cli_spi_dx, cli_spi_rx, cli_spi_irq, task, pin, bus,
                   sensor, stolen, owed, printed, stale>>

-------------------------------------------------------------------------------
(* The commands, run by the task while no handler is.                         *)

Runs == ~handler.on

\* f_spi_mot and f_spi_squal look first; f_spi and f_spi_pic do not.
Check(c) ==
    /\ Runs /\ task = NoTask /\ c \in Checking
    /\ ~bus.on
    /\ task' = [cmd |-> c, at |-> "checked"]
    /\ UNCHANGED <<chain, cli_spi_dx, cli_spi_rx, cli_spi_irq, pin, handler, bus, sensor, clean,
                   stolen, owed, printed, stale>>

\* st, rx_len and the register a command writes; rx_len is left alone by f_spi_mot.
SetUp(c) ==
    /\ Runs
    /\ task = IF c \in Checking THEN [cmd |-> c, at |-> "checked"] ELSE NoTask
    /\ task' = [cmd |-> c, at |-> "ready"]
    /\ cli_spi_st' = CASE c = "mot" -> 2 [] c = "pic" -> 1 [] OTHER -> 0
    /\ cli_spi_rx_len' = CASE c = "mot" -> cli_spi_rx_len [] c \in {"pic", "send"} -> 0
                           [] OTHER -> 1
    /\ cli_spi_tx' = CASE c = "mot" -> "conf" [] c = "pic" -> "grab" [] OTHER -> "user"
    /\ clean' = ~bus.on /\ stolen' = cli_spi_irq
    /\ owed' = Nothing /\ printed' = <<>> /\ stale' = (c = "pic" /\ cli_spi_rx.bit)
    /\ UNCHANGED <<cli_spi_dx, cli_spi_rx, cli_spi_irq, pin, handler, bus, sensor>>

StartSequence ==
    /\ Runs /\ task.at = "ready"
    /\ LET c   == task.cmd
           len == IF c \in {"spi", "squal"} THEN 1 ELSE 0
       IN  \/ /\ Started(bus, cli_spi_tx, len)
              /\ task' = IF c = "squal" THEN [task EXCEPT !.at = "sleep"] ELSE NoTask
              /\ UNCHANGED <<cli_spi_st, clean, stolen>>
           \/ /\ Refused(bus)
              /\ task' = NoTask
              /\ IF c = "squal" THEN cli_spi_st' = 0 /\ stolen' = cli_spi_irq
                 ELSE UNCHANGED <<cli_spi_st, stolen>>
    /\ UNCHANGED <<cli_spi_rx_len, cli_spi_tx, cli_spi_dx, cli_spi_rx, cli_spi_irq, pin, handler,
                   sensor, owed, printed, stale>>

\* f_spi_squal reads again after 300 ms, far longer than a sequence takes ...
SqualAgain ==
    /\ Runs /\ task.at = "sleep"
    /\ clean => ~bus.on
    /\ task' = [task EXCEPT !.at = "ready"]
    /\ UNCHANGED <<chain, cli_spi_dx, cli_spi_rx, cli_spi_irq, pin, handler, bus, sensor, clean,
                   stolen, owed, printed, stale>>

\* ... until there is console input.
SqualEnd ==
    /\ Runs /\ task = [cmd |-> "squal", at |-> "ready"]
    /\ task' = NoTask
    /\ UNCHANGED <<chain, cli_spi_dx, cli_spi_rx, cli_spi_irq, pin, handler, bus, sensor, clean,
                   stolen, owed, printed, stale>>

\* An edge that is pending is dropped, also when the interrupt is enabled anew.
f_spi_odo(enable) ==
    /\ Runs /\ task = NoTask
    /\ pin' = [odo |-> enable, edge |-> FALSE]
    /\ UNCHANGED <<chain, cli_spi_dx, cli_spi_rx, cli_spi_irq, task, handler, bus, sensor, clean,
                   stolen, owed, printed, stale>>

Interrupts == Exchange \/ Succeed \/ PinEnter \/ PinCallback \/ PinFinish

Next ==
    \/ \E d \in MOVES : Move(d)
    \/ Interrupts \/ Fail
    \/ \E c \in Commands : Check(c) \/ SetUp(c)
    \/ StartSequence \/ SqualAgain \/ SqualEnd
    \/ \E enable \in BOOLEAN : f_spi_odo(enable)

\* The bus transfers and interrupts are taken; nobody has to type a command.
Spec == Init /\ [][Next]_vars /\ WF_vars(Interrupts)

-------------------------------------------------------------------------------
\* cli_spi_irq is set only while something runs that will clear it: otherwise no
\* motion would be noticed any more.  Left out is a chain that a command took
\* over by writing cli_spi_st under it (cli.c:828, 841, 853, 882, 895).
FlagHeld == cli_spi_irq /\ ~stolen => handler.on \/ (bus.on /\ cli_spi_st \in 2 .. 5)

\* Between two readings of the sensor all motion that was read is added, in its
\* own direction and once, in a chain nothing interfered with.
MotionAdded == clean /\ cli_spi_st \in {2, 3} => owed = Nothing

\* What the byte before a picture had in bit 7 decides which picture it is, for it is
\* tested as if it were a pixel (cli.c:669).  With the bit set the pixels are printed in
\* order, the first to the last; with the bit clear the first is missing, and the first of
\* the sensor's next sweep comes after the last.  Either way as many are printed as there
\* are.
PictureWhole ==
    clean /\ cli_spi_st = 1 =>
        /\ \A i \in DOMAIN printed : printed[i] = IF stale THEN i ELSE (i % PIXELS) + 1
        /\ ~bus.on /\ task = NoTask => Len(printed) = PIXELS

\* Motion that interrupts is read until the sensor has no more, unless a command
\* interferes or the bus fails.
Attended == handler.at = "callback" ~> Still \/ ~clean
===============================================================================
