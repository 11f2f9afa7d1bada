------------------------------- MODULE SpiProofs -------------------------------
(*****************************************************************************)
(* The odometer's flag has an owner, motion is added once and a picture is   *)
(* whole: proofs.                                                            *)
(*****************************************************************************)
EXTENDS SpiOdo, TLAPS

Registers == {"user", "conf", "grab", "pixel", "status", "dx", "dy"}
Steps == {"none", "callback", "started"}

Sequencers == [on : BOOLEAN, done : BOOLEAN, reg : Registers, len : {0, 1}]

\* While the pin's function runs the chain is the odometer's, and the state it
\* has still to set is one that waits for an answer.
HandlerOwns ==
    /\ cli_spi_st \in 0 .. 5
    /\ handler \in [on : BOOLEAN, at : Steps, next : 0 .. 5]
    /\ bus \in Sequencers
    /\ cli_spi_tx \in Registers
    /\ cli_spi_irq \in BOOLEAN /\ stolen \in BOOLEAN
    /\ handler.on => cli_spi_st \in 2 .. 5
    /\ handler.on /\ handler.at = "started" => handler.next \in 3 .. 5

\* When it has started a sequence that is still what will clear the flag.
StartedRuns == handler.on /\ handler.at = "started" /\ cli_spi_irq /\ ~stolen => bus.on

FlagInv == HandlerOwns /\ StartedRuns /\ FlagHeld

LEMMA Destinations == \A s \in 2 .. 5 : Then[s] \in 3 .. 5 /\ Asks[s] \in Registers
  BY DEF Then, Asks, Registers

LEMMA AtRest == Rest \in Sequencers /\ ~Rest.on
  BY DEF Rest, Sequencers, Registers

LEMMA FlagInit == Init => FlagInv
<1> SUFFICES ASSUME Init PROVE FlagInv
  OBVIOUS
<1>1. /\ cli_spi_st = 0 /\ cli_spi_tx = "user" /\ cli_spi_irq = FALSE /\ stolen = FALSE
      /\ handler = Inactive /\ bus = Rest
  BY DEF Init
<1>2. handler \in [on : BOOLEAN, at : Steps, next : 0 .. 5] /\ ~handler.on
  BY <1>1 DEF Inactive, Steps
<1>3. cli_spi_tx \in Registers
  BY <1>1 DEF Registers
<1>4. cli_spi_irq \in BOOLEAN /\ stolen \in BOOLEAN /\ ~cli_spi_irq
  BY <1>1, Zenon
<1>5. cli_spi_st \in 0 .. 5
  BY <1>1
<1>6. bus \in Sequencers
  BY <1>1, AtRest
<1> QED
  BY <1>2, <1>3, <1>4, <1>5, <1>6 DEF FlagInv, HandlerOwns, StartedRuns, FlagHeld

\* A step of the odometer either has a sequence running or gives the flag back.
LEMMA OdometerOwns ==
    ASSUME NEW b \in Sequencers, Odometer(b), FlagInv
    PROVE  /\ cli_spi_st \in 2 .. 5
           /\ bus' \in Sequencers /\ cli_spi_tx' \in Registers
           /\ \/ bus'.on /\ ~b.on /\ ~Over /\ UNCHANGED <<cli_spi_irq, stolen>>
              \/ bus' = b /\ ~cli_spi_irq' /\ ~stolen' /\ cli_spi_irq' \in BOOLEAN /\ stolen' \in BOOLEAN
<1>1. cli_spi_st \in 2 .. 5 /\ Asks[cli_spi_st] \in Registers
  BY Destinations DEF Odometer
<1>2. CASE Over
  BY <1>1, <1>2 DEF Odometer, End, Release, chain, FlagInv, HandlerOwns
<1>3. CASE ~Over /\ Started(b, Asks[cli_spi_st], 1) /\ Hold /\ cli_spi_tx' = Asks[cli_spi_st]
  <2>1. bus' = [on |-> TRUE, done |-> FALSE, reg |-> Asks[cli_spi_st], len |-> 1] /\ ~b.on
    BY <1>3 DEF Started
  <2> QED
    BY <1>1, <1>3, <2>1 DEF Hold, Sequencers, Registers
<1>4. CASE ~Over /\ Refused(b) /\ Release /\ cli_spi_tx' = Asks[cli_spi_st]
  BY <1>1, <1>4 DEF Refused, Release
<1> QED
  BY <1>1, <1>2, <1>3, <1>4 DEF Odometer

\* The end of a sequence.
LEMMA SucceedKeeps == ASSUME FlagInv, Succeed PROVE FlagInv'
<1>0. UNCHANGED handler
  BY DEF Succeed
<1>1. CASE Quiet(Rest)
  BY <1>0, <1>1, AtRest DEF Quiet, Hold, chain, FlagInv, HandlerOwns, StartedRuns, FlagHeld
<1>2. CASE Picture(Rest)
  <2>1. cli_spi_st = 1 /\ UNCHANGED <<cli_spi_irq, stolen>>
    BY <1>2 DEF Picture, Hold
  <2>2. cli_spi_st' \in {0, 1} /\ cli_spi_tx' \in Registers /\ bus' \in Sequencers
    <3>1. CASE cli_spi_tx' = "pixel" /\ Started(Rest, "pixel", 1) /\ UNCHANGED cli_spi_st
      BY <3>1, <2>1 DEF Started, Sequencers, Registers
    <3>2. CASE cli_spi_tx' = "pixel" /\ Refused(Rest) /\ cli_spi_st' = 0
      BY <3>2, AtRest DEF Refused, Registers
    <3>3. CASE bus' = Rest /\ UNCHANGED <<cli_spi_st, cli_spi_tx>>
      BY <3>3, <2>1, AtRest DEF FlagInv, HandlerOwns
    <3> QED
      BY <1>2, <3>1, <3>2, <3>3 DEF Picture
  <2>3. ~handler.on /\ (cli_spi_irq => stolen)
    BY <2>1 DEF FlagInv, HandlerOwns, FlagHeld
  <2> QED
    BY <1>0, <2>1, <2>2, <2>3 DEF FlagInv, HandlerOwns, StartedRuns, FlagHeld
<1>3. CASE Odometer(Rest) /\ cli_spi_st' = IF Over \/ (~bus'.on /\ cli_spi_st # 5) THEN cli_spi_st
                                          ELSE Then[cli_spi_st]
  <2>1. /\ cli_spi_st \in 2 .. 5
        /\ bus' \in Sequencers /\ cli_spi_tx' \in Registers
        /\ \/ bus'.on /\ ~Over /\ UNCHANGED <<cli_spi_irq, stolen>>
           \/ ~cli_spi_irq' /\ ~stolen' /\ cli_spi_irq' \in BOOLEAN /\ stolen' \in BOOLEAN
    BY <1>3, OdometerOwns, AtRest
  <2>2. cli_spi_st' \in 2 .. 5
    BY <1>3, <2>1, Destinations DEF Steps
  <2> QED
    BY <1>0, <2>1, <2>2 DEF FlagInv, HandlerOwns, StartedRuns, FlagHeld
<1> QED
  BY <1>1, <1>2, <1>3 DEF Succeed

\* The pin's function: it takes the flag, then the chain goes its first step ...
LEMMA PinCallbackKeeps == ASSUME FlagInv, PinCallback PROVE FlagInv'
<1>0. bus \in Sequencers
  BY DEF FlagInv, HandlerOwns
<1>1. /\ cli_spi_st \in 2 .. 5
      /\ bus' \in Sequencers /\ cli_spi_tx' \in Registers
      /\ \/ bus'.on /\ ~bus.on /\ ~Over /\ UNCHANGED <<cli_spi_irq, stolen>>
         \/ bus' = bus /\ ~cli_spi_irq' /\ ~stolen' /\ cli_spi_irq' \in BOOLEAN /\ stolen' \in BOOLEAN
  BY <1>0, OdometerOwns DEF PinCallback
<1>2. cli_spi_st' \in 2 .. 5
  BY <1>1 DEF PinCallback
<1>3. CASE bus' # bus /\ ~Over /\ cli_spi_st # 5
  <2>1. handler' = [on |-> TRUE, at |-> "started", next |-> Then[cli_spi_st]]
    BY <1>3 DEF PinCallback
  <2>2. handler' \in [on : BOOLEAN, at : Steps, next : 0 .. 5] /\ handler'.next \in 3 .. 5
    BY <1>1, <2>1, Destinations DEF Steps
  <2> QED
    BY <1>1, <1>2, <1>3, <2>1, <2>2 DEF FlagInv, HandlerOwns, StartedRuns, FlagHeld
<1>4. CASE ~(bus' # bus /\ ~Over /\ cli_spi_st # 5)
  <2>1. handler' = Inactive
    BY <1>4 DEF PinCallback
  <2>2. handler' \in [on : BOOLEAN, at : Steps, next : 0 .. 5] /\ ~handler'.on
    BY <2>1 DEF Inactive, Steps
  <2> QED
    BY <1>1, <1>2, <2>2 DEF FlagInv, HandlerOwns, StartedRuns, FlagHeld
<1> QED
  BY <1>3, <1>4

\* ... and ends when it has set the state.
LEMMA PinKeeps == ASSUME FlagInv, PinEnter \/ PinFinish PROVE FlagInv'
<1>0. UNCHANGED <<bus, cli_spi_tx>>
  BY DEF PinEnter, PinFinish
<1>1. CASE PinEnter /\ Busy
  BY <1>0, <1>1 DEF PinEnter, FlagInv, HandlerOwns, StartedRuns, FlagHeld
<1>2. CASE PinEnter /\ ~Busy
  <2>1. /\ handler' = [on |-> TRUE, at |-> "callback", next |-> 0]
        /\ cli_spi_irq' = TRUE /\ cli_spi_st' = 2 /\ UNCHANGED stolen
    BY <1>2 DEF PinEnter
  <2>2. /\ handler' \in [on : BOOLEAN, at : Steps, next : 0 .. 5]
        /\ handler'.on /\ handler'.at # "started"
    BY <2>1 DEF Steps
  <2> QED
    BY <1>0, <2>1, <2>2 DEF FlagInv, HandlerOwns, StartedRuns, FlagHeld
<1>3. CASE PinFinish
  <2>1. /\ handler.on /\ handler.at = "started"
        /\ cli_spi_st' = handler.next /\ handler' = Inactive
        /\ UNCHANGED <<cli_spi_irq, stolen>>
    BY <1>3 DEF PinFinish
  <2>2. handler' \in [on : BOOLEAN, at : Steps, next : 0 .. 5] /\ ~handler'.on
    BY <2>1 DEF Inactive, Steps
  <2> QED
    BY <1>0, <2>1, <2>2 DEF FlagInv, HandlerOwns, StartedRuns, FlagHeld
<1> QED
  BY <1>1, <1>2, <1>3

\* A command that writes the state takes the chain over.
LEMMA CommandKeeps ==
    ASSUME FlagInv, NEW c \in Commands, SetUp(c) PROVE FlagInv'
<1>1. cli_spi_st' \in 0 .. 5 /\ cli_spi_tx' \in Registers
  BY DEF SetUp, Registers
<1>2. ~handler.on /\ UNCHANGED <<handler, bus, cli_spi_irq>> /\ stolen' = cli_spi_irq
  BY DEF SetUp, Runs
<1> QED
  BY <1>1, <1>2 DEF FlagInv, HandlerOwns, StartedRuns, FlagHeld

LEMMA StartKeeps == ASSUME FlagInv, StartSequence PROVE FlagInv'
<1>1. UNCHANGED <<handler, cli_spi_irq, cli_spi_tx>> /\ ~handler.on
  BY DEF StartSequence, Runs
<1>2. CASE /\ \E len \in {0, 1} : Started(bus, cli_spi_tx, len)
           /\ UNCHANGED <<cli_spi_st, stolen>>
  <2>1. PICK len \in {0, 1} : Started(bus, cli_spi_tx, len)
    BY <1>2
  <2>2. ~bus.on /\ bus' = [on |-> TRUE, done |-> FALSE, reg |-> cli_spi_tx, len |-> len]
    BY <2>1 DEF Started
  <2>3. bus' \in Sequencers
    BY <2>2 DEF Sequencers, Registers, FlagInv, HandlerOwns
  <2> QED
    BY <1>1, <1>2, <2>2, <2>3 DEF FlagInv, HandlerOwns, StartedRuns, FlagHeld
<1>3. CASE bus' = bus /\ UNCHANGED <<cli_spi_st, stolen>>
  BY <1>1, <1>3 DEF FlagInv, HandlerOwns, StartedRuns, FlagHeld
<1>4. CASE bus' = bus /\ cli_spi_st' = 0 /\ stolen' = cli_spi_irq
  BY <1>1, <1>4 DEF FlagInv, HandlerOwns, StartedRuns, FlagHeld
<1>5. (IF task.cmd \in {"spi", "squal"} THEN 1 ELSE 0) \in {0, 1}
  OBVIOUS
<1> QED
  BY <1>2, <1>3, <1>4, <1>5 DEF StartSequence, Refused

\* The steps that touch none of it.
LEMMA OthersKeep ==
    ASSUME FlagInv,
           \/ \E d \in MOVES : Move(d)
           \/ Exchange
           \/ \E c \in Commands : Check(c)
           \/ SqualAgain \/ SqualEnd
           \/ \E enable \in BOOLEAN : f_spi_odo(enable)
           \/ UNCHANGED vars
    PROVE  FlagInv'
<1>1. UNCHANGED <<cli_spi_st, cli_spi_tx, cli_spi_irq, handler, stolen>>
  BY DEF Move, Exchange, Check, SqualAgain, SqualEnd, f_spi_odo, vars, chain
<1>2. bus' \in Sequencers /\ bus'.on = bus.on
  <2>1. CASE Exchange
    BY <2>1 DEF Exchange, Sequencers, Registers, FlagInv, HandlerOwns
  <2>2. CASE ~Exchange
    <3>1. UNCHANGED bus
      BY <2>2 DEF Move, Check, SqualAgain, SqualEnd, f_spi_odo, vars
    <3> QED
      BY <3>1 DEF FlagInv, HandlerOwns
  <2> QED
    BY <2>1, <2>2
<1> QED
  BY <1>1, <1>2 DEF FlagInv, HandlerOwns, StartedRuns, FlagHeld

LEMMA FailKeeps == ASSUME FlagInv, Fail PROVE FlagInv'
<1>1. /\ bus' = Rest /\ UNCHANGED <<cli_spi_st, cli_spi_tx, handler>>
      /\ cli_spi_irq' = FALSE /\ stolen' = FALSE
  BY DEF Fail, Release, chain
<1> QED
  BY <1>1, AtRest DEF FlagInv, HandlerOwns, StartedRuns, FlagHeld

\* cli_spi_irq is set only while something runs that will clear it, for any picture
\* size, any motion and whatever commands, refusals and errors come in between.
THEOREM FlagOwned == Spec => []FlagHeld
<1>1. FlagInv /\ [Next]_vars => FlagInv'
  BY SucceedKeeps, PinCallbackKeeps, PinKeeps, CommandKeeps, StartKeeps, OthersKeep, FailKeeps
  DEF Next, Interrupts
<1>2. FlagInv => FlagHeld
  BY DEF FlagInv
<1> QED
  BY <1>1, <1>2, FlagInit, PTL DEF Spec
-------------------------------------------------------------------------------
(* Motion is added once, and a picture is whole: the invariant.               *)

Vector == [dx : Int, dy : Int]

\* The sensor's answers are numbers, and one that was given is still to be handled.
Numbers ==
    /\ sensor \in [dx : Int, dy : Int, pixel : 1 .. PIXELS, moves : Nat]
    /\ cli_spi_rx \in [bit : BOOLEAN, v : Int]
    /\ cli_spi_dx \in Int /\ owed \in Vector
    /\ bus.done => bus.on

\* What is on the bus while nothing interfered is what the chain asked for last.
Asked ==
    /\ bus.on => bus.reg = cli_spi_tx
    /\ cli_spi_st = 0 => cli_spi_tx = "user"
    /\ cli_spi_st = 1 => cli_spi_tx \in {"grab", "pixel"}
    /\ cli_spi_st = 2 /\ bus.on => cli_spi_tx \in {"conf", "status"}
    /\ cli_spi_st = 3 /\ bus.on => cli_spi_tx = "status"
    /\ cli_spi_st = 4 => bus.on /\ cli_spi_tx = "dx"
    /\ cli_spi_st = 5 => bus.on /\ cli_spi_tx = "dy"
    /\ bus.on => (bus.len = 0 => cli_spi_tx \in {"user", "conf", "grab"})
    /\ bus.on /\ cli_spi_tx = "grab" => bus.len = 0

\* The pin's function has not started its sequence yet, or nothing has answered it.
PinInStep ==
    /\ handler.on /\ handler.at = "callback" => cli_spi_st = 2 /\ ~bus.on
    /\ handler.on /\ handler.at = "started" /\ cli_spi_st = 2 =>
          bus.on /\ cli_spi_tx = "status" /\ handler.next = 3

\* A command that is about to start its sequence, or waits between two.
TaskInStep ==
    /\ task \in [cmd : Commands \cup {"none"}, at : {"idle", "checked", "ready", "sleep"}]
    /\ task.at = "idle" => task = NoTask
    /\ task.at = "sleep" => task.cmd = "squal" /\ cli_spi_st = 0 /\ ~handler.on
    /\ task.at = "ready" =>
          /\ ~bus.on /\ ~handler.on /\ task.cmd # "none"
          /\ cli_spi_st = CASE task.cmd = "mot" -> 2 [] task.cmd = "pic" -> 1 [] OTHER -> 0
          /\ task.cmd = "mot" => cli_spi_tx = "conf"
          /\ task.cmd = "pic" => cli_spi_tx = "grab"

\* What was read and not added yet is on its way: the delta just read, and the one
\* that waits for it.
OnItsWay ==
    owed = CASE cli_spi_st = 4 /\ bus.done -> [dx |-> cli_spi_rx.v, dy |-> 0]
             [] cli_spi_st = 5 -> [dx |-> cli_spi_dx, dy |-> IF bus.done THEN cli_spi_rx.v ELSE 0]
             [] OTHER -> Nothing

\* The picture's first pixel, by the byte before it.
First == IF stale THEN 1 ELSE 2

\* The pixel at place i of a picture that begins with the pixel first.
PixelAt(first, i) == IF first + i - 2 = PIXELS THEN 1 ELSE first + i - 1

\* The pixel to come is at the sensor, or was read and not printed yet.
ToCome(p) == IF bus.done /\ cli_spi_rx.bit THEN cli_spi_rx.v = p /\ sensor.pixel = (p % PIXELS) + 1
             ELSE sensor.pixel = p

\* How far a picture is: asked for; waiting for its first pixel; as many pixels
\* printed as counted, but for one; over.
PictureSoFar ==
    \/ cli_spi_tx = "grab" /\ printed = <<>> /\ cli_spi_rx_len = 0
       /\ (stale <=> cli_spi_rx.bit)
       /\ (~bus.on => task = [cmd |-> "pic", at |-> "ready"])
       /\ (bus.done => sensor.pixel = 1)
    \/ cli_spi_tx = "pixel" /\ printed = <<>> /\ cli_spi_rx_len = 0 /\ bus.on /\ ToCome(1)
       /\ ~stale
    \/ /\ cli_spi_tx = "pixel"
       /\ cli_spi_rx_len \in 1 .. PIXELS + 1
       /\ printed = [i \in 1 .. cli_spi_rx_len - 1 |-> PixelAt(First, i)]
       /\ bus.on => ToCome(PixelAt(First, cli_spi_rx_len))
       /\ bus.on <=> cli_spi_rx_len <= PIXELS

InStep ==
    /\ Asked /\ PinInStep /\ TaskInStep /\ OnItsWay
    /\ cli_spi_st = 1 => PictureSoFar

MotionInv == Numbers /\ (clean => InStep)

LEMMA SizeIsNat == PIXELS \in Nat /\ PIXELS > 1
  BY SpiAssumption

LEMMA Wraps == \A a, n \in Nat : n > 1 /\ a <= n => a % n = (IF a = n THEN 0 ELSE a)
  OBVIOUS

LEMMA NextPixel == \A p \in 1 .. PIXELS : (p % PIXELS) + 1 \in 1 .. PIXELS
  BY SizeIsNat, Wraps

LEMMA MotionInit == Init => MotionInv
<1> SUFFICES ASSUME Init PROVE MotionInv
  OBVIOUS
<1>1. /\ cli_spi_st = 0 /\ cli_spi_tx = "user" /\ handler = Inactive /\ bus = Rest
      /\ task = NoTask /\ owed = Nothing
  BY DEF Init
<1>2. /\ cli_spi_rx = [bit |-> FALSE, v |-> 0] /\ cli_spi_dx = 0 /\ clean = TRUE
      /\ sensor = [dx |-> 0, dy |-> 0, pixel |-> 1, moves |-> 0]
  BY DEF Init
<1>3. Numbers
  BY <1>1, <1>2, SizeIsNat DEF Numbers, Vector, Nothing, Rest
<1>4. Asked /\ PinInStep /\ OnItsWay
  BY <1>1 DEF Asked, PinInStep, OnItsWay, Rest, Inactive
<1>5. TaskInStep
  BY <1>1 DEF TaskInStep, NoTask
<1> QED
  BY <1>1, <1>2, <1>3, <1>4, <1>5 DEF MotionInv, InStep

\* What the sensor answers are numbers again.
LEMMA AnswerNumbers ==
    ASSUME Numbers, NEW reg, Answer(reg)
    PROVE  /\ sensor' \in [dx : Int, dy : Int, pixel : 1 .. PIXELS, moves : Nat]
           /\ cli_spi_rx' \in [bit : BOOLEAN, v : Int] /\ owed' \in Vector
<1> USE DEF Numbers, Vector
<1>1. CASE reg = "dx"
  <2>1. /\ cli_spi_rx' = Byte(sensor.dx) /\ sensor' = [sensor EXCEPT !.dx = 0]
        /\ owed' = Kept([owed EXCEPT !.dx = @ + sensor.dx], Nothing)
    BY <1>1 DEF Answer
  <2>2. cli_spi_rx' = [bit |-> sensor.dx < 0, v |-> sensor.dx] /\ sensor.dx \in Int
    BY <2>1 DEF Byte
  <2>3. [owed EXCEPT !.dx = @ + sensor.dx] \in Vector /\ Nothing \in Vector
    BY DEF Nothing
  <2> QED
    BY <2>1, <2>2, <2>3 DEF Kept
<1>2. CASE reg = "dy"
  <2>1. /\ cli_spi_rx' = Byte(sensor.dy) /\ sensor' = [sensor EXCEPT !.dy = 0]
        /\ owed' = Kept([owed EXCEPT !.dy = @ + sensor.dy], Nothing)
    BY <1>2 DEF Answer
  <2>2. cli_spi_rx' = [bit |-> sensor.dy < 0, v |-> sensor.dy] /\ sensor.dy \in Int
    BY <2>1 DEF Byte
  <2>3. [owed EXCEPT !.dy = @ + sensor.dy] \in Vector /\ Nothing \in Vector
    BY DEF Nothing
  <2> QED
    BY <2>1, <2>2, <2>3 DEF Kept
<1>3. CASE reg = "pixel"
  <2>1. PICK there \in BOOLEAN :
           /\ cli_spi_rx' = [bit |-> there, v |-> sensor.pixel]
           /\ sensor' = IF there THEN [sensor EXCEPT !.pixel = (@ % PIXELS) + 1] ELSE sensor
    BY <1>3 DEF Answer
  <2>2. UNCHANGED owed
    BY <1>3 DEF Answer
  <2>3. (sensor.pixel % PIXELS) + 1 \in 1 .. PIXELS /\ sensor.pixel \in Int
    BY NextPixel, SizeIsNat
  <2> QED
    BY <2>1, <2>2, <2>3
<1>4. CASE reg = "status"
  <2>1. UNCHANGED <<sensor, owed>> /\ cli_spi_rx' = [bit |-> ~Still, v |-> 0]
    BY <1>4 DEF Answer
  <2> QED
    BY <2>1 DEF Still
<1>5. CASE reg \notin {"status", "dx", "dy", "pixel"}
  <2>1. UNCHANGED <<sensor, owed>> /\ \E b \in BOOLEAN : cli_spi_rx' = [bit |-> b, v |-> 0]
    BY <1>5 DEF Answer
  <2> QED
    BY <2>1
<1> QED
  BY <1>1, <1>2, <1>3, <1>4, <1>5

LEMMA TakeNumbers == ASSUME Numbers, Take PROVE cli_spi_dx' \in Int /\ owed' \in Vector
  BY DEF Take, Kept, Nothing, Numbers, Vector

\* What the driver makes of a sequence: it runs, or is as it was.
LEMMA OdometerNumbers ==
    ASSUME Numbers, NEW b, b.done => b.on, Odometer(b)
    PROVE  cli_spi_dx' \in Int /\ owed' \in Vector /\ (bus'.done => bus'.on)
<1>1. cli_spi_dx' \in Int /\ owed' \in Vector
  BY TakeNumbers DEF Odometer
<1>2. bus' = b \/ bus' = [on |-> TRUE, done |-> FALSE, reg |-> Asks[cli_spi_st], len |-> 1]
  BY Zenon DEF Odometer, Started, Refused
<1> QED
  BY <1>1, <1>2

LEMMA NumbersKeep == ASSUME FlagInv, Numbers, [Next]_vars PROVE Numbers'
<1>1. ASSUME NEW d \in MOVES, Move(d) PROVE Numbers'
  <2>1. d[1] \in Int /\ d[2] \in Int
    BY SpiAssumption
  <2>2. /\ sensor' = [sensor EXCEPT !.dx = @ + d[1], !.dy = @ + d[2], !.moves = @ + 1]
        /\ UNCHANGED <<cli_spi_rx, cli_spi_dx, owed, bus>>
    BY <1>1 DEF Move
  <2>3. ASSUME NEW x \in Int, NEW y \in Int,
               sensor' = [sensor EXCEPT !.dx = @ + x, !.dy = @ + y, !.moves = @ + 1]
        PROVE  sensor' \in [dx : Int, dy : Int, pixel : 1 .. PIXELS, moves : Nat]
    <3>1. /\ sensor.dx + x \in Int /\ sensor.dy + y \in Int
          /\ sensor.moves + 1 \in Nat /\ sensor.pixel \in 1 .. PIXELS
      BY <2>3 DEF Numbers
    <3>2. sensor' = [dx |-> sensor.dx + x, dy |-> sensor.dy + y, pixel |-> sensor.pixel,
                     moves |-> sensor.moves + 1]
      BY <2>3 DEF Numbers
    <3> QED
      BY <3>1, <3>2
  <2>4. sensor' \in [dx : Int, dy : Int, pixel : 1 .. PIXELS, moves : Nat]
    BY <2>1, <2>2, <2>3
  <2> QED
    BY <2>2, <2>4 DEF Numbers
<1>2. CASE Exchange
  <2>1. bus'.on /\ UNCHANGED cli_spi_dx
    BY <1>2 DEF Exchange, FlagInv, HandlerOwns, Sequencers
  <2>2. CASE \E reg : Answer(reg)
    BY <2>1, <2>2, AnswerNumbers DEF Numbers
  <2>3. CASE (sensor' = sensor \/ sensor' = [sensor EXCEPT !.pixel = 1]) /\ UNCHANGED <<cli_spi_rx, owed>>
    BY <2>1, <2>3, SizeIsNat DEF Numbers
  <2> QED
    BY <1>2, <2>2, <2>3 DEF Exchange
<1>3. CASE Succeed
  <2>1. UNCHANGED <<cli_spi_rx, sensor>> /\ ~Rest.done
    BY <1>3 DEF Succeed, Rest
  <2>2. CASE Quiet(Rest) /\ UNCHANGED owed
    BY <2>1, <2>2 DEF Quiet, Numbers
  <2>3. CASE Picture(Rest) /\ UNCHANGED owed
    <3>1. UNCHANGED cli_spi_dx
      BY <2>3 DEF Picture
    <3>2. bus' = Rest \/ bus' = [on |-> TRUE, done |-> FALSE, reg |-> "pixel", len |-> 1]
      BY <2>3, Zenon DEF Picture, Started, Refused
    <3> QED
      BY <2>1, <2>3, <3>1, <3>2 DEF Numbers
  <2>4. CASE Odometer(Rest)
    BY <2>1, <2>4, OdometerNumbers DEF Numbers
  <2> QED
    BY <1>3, <2>2, <2>3, <2>4 DEF Succeed
<1>4. CASE PinCallback
  <2>1. UNCHANGED <<cli_spi_rx, sensor>> /\ Odometer(bus)
    BY <1>4 DEF PinCallback
  <2> QED
    BY <2>1, OdometerNumbers DEF Numbers
<1>5. CASE PinEnter
  <2>1. owed' \in Vector /\ UNCHANGED <<cli_spi_rx, cli_spi_dx, sensor, bus>>
    BY <1>5 DEF PinEnter, Nothing, Vector, Numbers
  <2> QED
    BY <2>1 DEF Numbers
<1>6. ASSUME NEW c, SetUp(c) PROVE Numbers'
  BY <1>6 DEF SetUp, Nothing, Vector, Numbers
<1>7. CASE StartSequence
  <2>1. bus' = bus \/ \E reg, len : bus' = [on |-> TRUE, done |-> FALSE, reg |-> reg, len |-> len]
    BY <1>7, Zenon DEF StartSequence, Started, Refused
  <2>2. UNCHANGED <<cli_spi_rx, cli_spi_dx, sensor, owed>>
    BY <1>7 DEF StartSequence
  <2> QED
    BY <2>1, <2>2 DEF Numbers
<1>8. CASE Fail
  <2>1. ~bus'.done /\ UNCHANGED <<cli_spi_rx, cli_spi_dx, sensor, owed>>
    BY <1>8 DEF Fail, Rest
  <2> QED
    BY <2>1 DEF Numbers
<1>9. CASE \/ PinFinish \/ SqualAgain \/ SqualEnd \/ \E c \in Commands : Check(c)
           \/ \E enable \in BOOLEAN : f_spi_odo(enable)
           \/ UNCHANGED vars
  <2>1. UNCHANGED <<cli_spi_rx, cli_spi_dx, sensor, owed, bus>>
    BY <1>9 DEF PinFinish, SqualAgain, SqualEnd, Check, f_spi_odo, vars
  <2> QED
    BY <2>1 DEF Numbers
<1> QED
  BY <1>1, <1>2, <1>3, <1>4, <1>5, <1>6, <1>7, <1>8, <1>9 DEF Next, Interrupts

\* What a step leaves in step when it touches none of it but the task.
LEMMA Untouched ==
    ASSUME InStep, UNCHANGED <<chain, cli_spi_rx, cli_spi_dx, handler, bus, owed, printed, stale>>,
           sensor'.pixel = sensor.pixel
    PROVE  /\ Asked' /\ PinInStep' /\ OnItsWay'
           /\ task' = task => InStep'
<1>1. Asked' /\ PinInStep' /\ OnItsWay'
  BY DEF InStep, Asked, PinInStep, OnItsWay, chain
<1>2. ASSUME task' = task PROVE TaskInStep'
  BY <1>2 DEF InStep, TaskInStep, chain
<1>3. ASSUME task' = task, cli_spi_st = 1 PROVE PictureSoFar'
  BY <1>3 DEF InStep, PictureSoFar, First, ToCome, chain
<1> QED
  BY <1>1, <1>2, <1>3 DEF InStep, chain

\* The steps of the task that do not touch the chain, and what is outside of it.
LEMMA OthersInStep ==
    ASSUME FlagInv, Numbers, InStep, clean,
           \/ \E d \in MOVES : Move(d)
           \/ \E c \in Commands : Check(c)
           \/ SqualAgain \/ SqualEnd
           \/ \E enable \in BOOLEAN : f_spi_odo(enable)
           \/ UNCHANGED vars
    PROVE  InStep'
<1>1. CASE \/ \E d \in MOVES : Move(d)
           \/ \E enable \in BOOLEAN : f_spi_odo(enable)
           \/ UNCHANGED vars
  <2>1. UNCHANGED <<chain, cli_spi_rx, cli_spi_dx, handler, bus, owed, printed, stale, task>>
    BY <1>1 DEF Move, f_spi_odo, vars
  <2>2. sensor'.pixel = sensor.pixel
    BY <1>1 DEF Move, f_spi_odo, vars, Numbers
  <2> QED
    BY <2>1, <2>2, Untouched
<1>2. CASE SqualAgain \/ SqualEnd \/ \E c \in Commands : Check(c)
  <2>1. /\ UNCHANGED <<chain, cli_spi_rx, cli_spi_dx, handler, bus, owed, printed, stale, sensor>>
        /\ ~handler.on
    BY <1>2 DEF SqualAgain, SqualEnd, Check, Runs
  <2>2. Asked' /\ PinInStep' /\ OnItsWay'
    BY <2>1, Untouched
  <2>3. TaskInStep /\ (cli_spi_st = 1 => PictureSoFar)
    BY DEF InStep
  <2>4. CASE SqualAgain
    <3>1. /\ task' = [task EXCEPT !.at = "ready"] /\ task.cmd = "squal" /\ cli_spi_st = 0
          /\ ~bus.on
      BY <2>3, <2>4 DEF SqualAgain, TaskInStep
    <3>2. task' = [cmd |-> "squal", at |-> "ready"]
      BY <2>3, <3>1 DEF TaskInStep
    <3>3. TaskInStep'
      BY <2>1, <3>1, <3>2 DEF TaskInStep, Commands, chain
    <3> QED
      BY <2>1, <2>2, <3>1, <3>3 DEF InStep, chain
  <2>5. CASE SqualEnd
    <3>1. task = [cmd |-> "squal", at |-> "ready"] /\ task' = NoTask
      BY <2>5 DEF SqualEnd
    <3>2. cli_spi_st = 0
      BY <2>3, <3>1 DEF TaskInStep
    <3>3. TaskInStep'
      BY <3>1 DEF TaskInStep, NoTask
    <3> QED
      BY <2>1, <2>2, <3>2, <3>3 DEF InStep, chain
  <2>6. ASSUME NEW c \in Commands, Check(c) PROVE InStep'
    <3>1. /\ task = NoTask /\ ~bus.on /\ task' = [cmd |-> c, at |-> "checked"]
      BY <2>6 DEF Check
    <3>2. TaskInStep'
      BY <3>1 DEF TaskInStep
    <3>3. ASSUME cli_spi_st = 1 PROVE PictureSoFar'
      <4>1. task # [cmd |-> "pic", at |-> "ready"]
        BY <3>1 DEF NoTask
      <4> QED
        BY <2>1, <2>3, <3>1, <3>3, <4>1 DEF PictureSoFar, First, ToCome, chain
    <3> QED
      BY <2>1, <2>2, <3>2, <3>3 DEF InStep, chain
  <2> QED
    BY <1>2, <2>4, <2>5, <2>6
<1> QED
  BY <1>1, <1>2

\* A command sets the chain up anew, whatever there was before.
LEMMA SetUpInStep ==
    ASSUME FlagInv, Numbers, NEW c \in Commands, SetUp(c), clean' PROVE InStep'
<1>1. /\ ~bus.on /\ ~handler.on /\ UNCHANGED <<bus, handler, cli_spi_rx, cli_spi_dx>>
      /\ task' = [cmd |-> c, at |-> "ready"] /\ owed' = Nothing /\ printed' = <<>>
  BY DEF SetUp, Runs
<1>2. /\ cli_spi_st' = CASE c = "mot" -> 2 [] c = "pic" -> 1 [] OTHER -> 0
      /\ cli_spi_tx' = CASE c = "mot" -> "conf" [] c = "pic" -> "grab" [] OTHER -> "user"
  BY DEF SetUp
<1>3. c = "pic" => cli_spi_rx_len' = 0
  BY DEF SetUp
<1>4. \/ c = "mot" /\ cli_spi_st' = 2 /\ cli_spi_tx' = "conf"
      \/ c = "pic" /\ cli_spi_st' = 1 /\ cli_spi_tx' = "grab"
      \/ c \notin {"mot", "pic", "none"} /\ cli_spi_st' = 0 /\ cli_spi_tx' = "user"
  BY <1>2 DEF Commands
<1>5. Asked' /\ PinInStep'
  BY <1>1, <1>4 DEF Asked, PinInStep
<1>6. OnItsWay'
  BY <1>1, <1>4 DEF OnItsWay
<1>7. TaskInStep'
  BY <1>1, <1>4 DEF TaskInStep
<1>8. ASSUME cli_spi_st' = 1 PROVE PictureSoFar'
  <2>1. c = "pic"
    BY <1>4, <1>8
  <2>2. stale' <=> cli_spi_rx.bit
    BY <2>1, Zenon DEF SetUp
  <2> QED
    BY <1>1, <1>3, <1>4, <2>1, <2>2 DEF PictureSoFar, Numbers
<1> QED
  BY <1>5, <1>6, <1>7, <1>8 DEF InStep

LEMMA StartInStep ==
    ASSUME FlagInv, Numbers, InStep, clean', StartSequence PROVE InStep'
<1>1. /\ ~handler.on /\ task.at = "ready" /\ clean' = clean
      /\ UNCHANGED <<chain, cli_spi_dx, cli_spi_rx, handler, sensor, owed, printed, stale>>
  BY DEF StartSequence, Runs, Refused, chain
<1>2. PICK len \in {0, 1} : /\ Started(bus, cli_spi_tx, len)
                            /\ len = IF task.cmd \in {"spi", "squal"} THEN 1 ELSE 0
                            /\ task' = IF task.cmd = "squal" THEN [task EXCEPT !.at = "sleep"] ELSE NoTask
  BY DEF StartSequence, Refused
<1>3. bus' = [on |-> TRUE, done |-> FALSE, reg |-> cli_spi_tx, len |-> len] /\ ~bus.on
  BY <1>2 DEF Started
<1>4. /\ task \in [cmd : Commands \cup {"none"}, at : {"idle", "checked", "ready", "sleep"}]
      /\ cli_spi_st = CASE task.cmd = "mot" -> 2 [] task.cmd = "pic" -> 1 [] OTHER -> 0
      /\ task.cmd = "mot" => cli_spi_tx = "conf"
      /\ task.cmd = "pic" => cli_spi_tx = "grab"
  BY <1>1 DEF InStep, TaskInStep
<1>5. \/ task.cmd = "mot" /\ cli_spi_st = 2 /\ cli_spi_tx = "conf" /\ len = 0
      \/ task.cmd = "pic" /\ cli_spi_st = 1 /\ cli_spi_tx = "grab" /\ len = 0
      \/ task.cmd \notin {"mot", "pic"} /\ cli_spi_st = 0 /\ cli_spi_tx = "user"
  <2>1. cli_spi_st = 0 => cli_spi_tx = "user"
    BY DEF InStep, Asked
  <2> QED
    BY <1>2, <1>4, <2>1
<1>6. Asked'
  BY <1>1, <1>3, <1>5 DEF Asked, chain
<1>7. PinInStep'
  BY <1>1 DEF PinInStep
<1>8. OnItsWay'
  BY <1>1, <1>5 DEF InStep, OnItsWay, chain
<1>9. TaskInStep'
  <2>1. CASE task.cmd = "squal"
    <3>1. task' = [cmd |-> "squal", at |-> "sleep"]
      BY <1>2, <1>4, <2>1
    <3> QED
      BY <1>1, <1>5, <2>1, <3>1 DEF TaskInStep, Commands, chain
  <2>2. CASE task.cmd # "squal"
    BY <1>2, <2>2 DEF TaskInStep, NoTask
  <2> QED
    BY <2>1, <2>2
<1>10. ASSUME cli_spi_st = 1 PROVE PictureSoFar'
  <2>1. cli_spi_tx = "grab" /\ PictureSoFar
    BY <1>5, <1>10 DEF InStep
  <2> QED
    BY <1>1, <1>3, <2>1 DEF PictureSoFar, chain
<1> QED
  BY <1>1, <1>6, <1>7, <1>8, <1>9, <1>10 DEF InStep, chain

\* The pin's function.
LEMMA PinEnterInStep ==
    ASSUME FlagInv, Numbers, clean => InStep, clean', PinEnter PROVE InStep'
<1>1. CASE Busy
  <2>1. /\ UNCHANGED <<chain, cli_spi_rx, cli_spi_dx, handler, bus, owed, printed, stale, sensor, task>>
        /\ UNCHANGED clean
    BY <1>1 DEF PinEnter, chain
  <2> QED
    BY <2>1, Untouched
<1>2. CASE ~Busy
  <2>1. /\ cli_spi_st' = 2 /\ handler' = [on |-> TRUE, at |-> "callback", next |-> 0]
        /\ ~bus.on /\ task = NoTask /\ owed' = Nothing /\ UNCHANGED <<bus, task, cli_spi_tx>>
    BY <1>2 DEF PinEnter
  <2>2. Asked' /\ PinInStep'
    BY <2>1 DEF Asked, PinInStep
  <2>3. OnItsWay'
    BY <2>1 DEF OnItsWay
  <2>4. TaskInStep'
    BY <2>1 DEF TaskInStep, NoTask
  <2> QED
    BY <2>1, <2>2, <2>3, <2>4 DEF InStep
<1> QED
  BY <1>1, <1>2

LEMMA PinCallbackInStep ==
    ASSUME FlagInv, Numbers, InStep, clean', PinCallback PROVE InStep'
<1>1. /\ handler.on /\ handler.at = "callback" /\ cli_spi_st = 2 /\ ~bus.on /\ ~Over
  BY DEF PinCallback, InStep, PinInStep, Over
<1>2. Asks[2] = "status" /\ Then[2] = 3
  BY DEF Asks, Then
<1>3. /\ Started(bus, "status", 1) /\ cli_spi_tx' = "status"
      /\ Take /\ UNCHANGED <<clean, cli_spi_rx_len, printed>>
  BY <1>1, <1>2 DEF PinCallback, Odometer, Refused
<1>4. bus' = [on |-> TRUE, done |-> FALSE, reg |-> "status", len |-> 1] /\ bus' # bus
  BY <1>1, <1>3 DEF Started
<1>5. /\ handler' = [on |-> TRUE, at |-> "started", next |-> 3]
      /\ UNCHANGED <<cli_spi_st, task>>
  BY <1>1, <1>2, <1>4 DEF PinCallback
<1>6. UNCHANGED <<cli_spi_dx, owed>>
  BY <1>1, <1>3 DEF Take
<1>7. Asked' /\ PinInStep'
  BY <1>1, <1>3, <1>4, <1>5 DEF Asked, PinInStep
<1>8. OnItsWay'
  BY <1>1, <1>5, <1>6 DEF InStep, OnItsWay
<1>9. TaskInStep'
  BY <1>1, <1>5 DEF InStep, TaskInStep
<1> QED
  BY <1>1, <1>5, <1>7, <1>8, <1>9 DEF InStep

LEMMA PinFinishInStep ==
    ASSUME FlagInv, Numbers, InStep, clean', PinFinish PROVE InStep'
<1>1. /\ handler.on /\ handler.at = "started" /\ cli_spi_st = 2 /\ clean
      /\ cli_spi_st' = handler.next /\ handler' = Inactive
      /\ UNCHANGED <<cli_spi_tx, cli_spi_dx, cli_spi_rx, bus, task, owed>>
  BY DEF PinFinish
<1>2. bus.on /\ cli_spi_tx = "status" /\ cli_spi_st' = 3
  BY <1>1 DEF InStep, PinInStep
<1>3. Asked' /\ PinInStep'
  BY <1>1, <1>2 DEF InStep, Asked, PinInStep, Inactive
<1>4. OnItsWay'
  BY <1>1, <1>2 DEF InStep, OnItsWay
<1>5. TaskInStep'
  BY <1>1, <1>2 DEF InStep, TaskInStep
<1> QED
  BY <1>2, <1>3, <1>4, <1>5 DEF InStep

\* The bus is where the sensor and the chain meet: what is read there was asked for.
LEMMA ExchangeInStep ==
    ASSUME FlagInv, Numbers, InStep, clean, Exchange PROVE InStep'
<1>1. /\ bus.on /\ ~bus.done /\ bus' = [bus EXCEPT !.done = TRUE]
      /\ UNCHANGED <<chain, cli_spi_dx, task, handler, printed, stale>>
  BY DEF Exchange
<1>2. bus'.on /\ bus'.done /\ bus'.reg = bus.reg /\ bus'.len = bus.len
  BY <1>1 DEF FlagInv, HandlerOwns, Sequencers
<1>3. bus.reg = cli_spi_tx
  BY <1>1 DEF InStep, Asked
<1>4. IF bus.len > 0 THEN Answer(cli_spi_tx)
      ELSE /\ sensor' = IF cli_spi_tx = "grab" THEN [sensor EXCEPT !.pixel = 1] ELSE sensor
           /\ UNCHANGED <<cli_spi_rx, owed>>
  BY <1>3 DEF Exchange
<1>5. Asked' /\ PinInStep' /\ TaskInStep'
  <2>1. Asked'
    BY <1>1, <1>2 DEF InStep, Asked, chain
  <2>2. PinInStep'
    BY <1>1, <1>2 DEF InStep, PinInStep, chain
  <2>3. TaskInStep'
    BY <1>1, <1>2 DEF InStep, TaskInStep, chain
  <2> QED
    BY <2>1, <2>2, <2>3
<1>6. bus.len \in {0, 1} /\ UNCHANGED cli_spi_st
  BY <1>1 DEF FlagInv, HandlerOwns, Sequencers, chain
<1>7. OnItsWay'
  <2>1. CASE cli_spi_st = 4
    <3>1. cli_spi_tx = "dx" /\ bus.len = 1 /\ owed = Nothing
      BY <1>1, <1>6, <2>1 DEF InStep, Asked, OnItsWay
    <3>2. cli_spi_rx' = Byte(sensor.dx) /\ owed' = [owed EXCEPT !.dx = @ + sensor.dx]
      BY <1>4, <3>1 DEF Answer, Kept
    <3>3. owed' = [dx |-> cli_spi_rx'.v, dy |-> 0]
      BY <3>1, <3>2 DEF Nothing, Byte, Numbers
    <3> QED
      BY <1>2, <1>6, <2>1, <3>3 DEF OnItsWay
  <2>2. CASE cli_spi_st = 5
    <3>1. cli_spi_tx = "dy" /\ bus.len = 1 /\ owed = [dx |-> cli_spi_dx, dy |-> 0]
      BY <1>1, <1>6, <2>2 DEF InStep, Asked, OnItsWay
    <3>2. cli_spi_rx' = Byte(sensor.dy) /\ owed' = [owed EXCEPT !.dy = @ + sensor.dy]
      BY <1>4, <3>1 DEF Answer, Kept
    <3>3. owed' = [dx |-> cli_spi_dx, dy |-> cli_spi_rx'.v]
      BY <3>1, <3>2 DEF Byte, Numbers
    <3> QED
      BY <1>1, <1>2, <1>6, <2>2, <3>3 DEF OnItsWay
  <2>3. CASE cli_spi_st \in 0 .. 3
    <3>1. cli_spi_tx \notin {"dx", "dy"} /\ owed = Nothing
      BY <1>1, <2>3 DEF InStep, Asked, OnItsWay
    <3>2. owed' = Nothing
      <4>1. CASE bus.len > 0 /\ cli_spi_tx = "status"
        BY <1>4, <4>1, <3>1 DEF Answer
      <4>2. CASE bus.len > 0 /\ cli_spi_tx = "pixel"
        BY <1>4, <4>2, <3>1 DEF Answer
      <4>3. CASE bus.len > 0 /\ cli_spi_tx \notin {"status", "pixel"}
        BY <1>4, <4>3, <3>1 DEF Answer
      <4> QED
        BY <4>1, <4>2, <4>3, <1>4, <3>1
    <3> QED
      BY <1>6, <2>3, <3>2 DEF OnItsWay
  <2> QED
    BY <2>1, <2>2, <2>3 DEF FlagInv, HandlerOwns
<1>8. ASSUME cli_spi_st = 1 PROVE PictureSoFar'
  <2>1. PictureSoFar
    BY <1>8 DEF InStep
  <2>2. CASE cli_spi_tx = "grab"
    <3>1. bus.len = 0
      BY <1>1, <2>2 DEF InStep, Asked
    <3>2. sensor' = [sensor EXCEPT !.pixel = 1] /\ UNCHANGED cli_spi_rx
      BY <1>4, <2>2, <3>1
    <3>3. sensor'.pixel = 1
      BY <3>2 DEF Numbers
    <3> QED
      BY <1>1, <1>2, <2>1, <2>2, <3>2, <3>3 DEF PictureSoFar, chain
  <2>3. CASE cli_spi_tx = "pixel"
    <3>1. bus.len = 1
      BY <1>1, <1>6, <2>3 DEF InStep, Asked
    <3>2. PICK there \in BOOLEAN :
             /\ cli_spi_rx' = [bit |-> there, v |-> sensor.pixel]
             /\ sensor' = IF there THEN [sensor EXCEPT !.pixel = (@ % PIXELS) + 1] ELSE sensor
      BY <1>4, <2>3, <3>1 DEF Answer
    <3>3. ASSUME NEW p, ToCome(p) PROVE ToCome(p)'
      <4>1. sensor.pixel = p
        BY <1>1, <3>3 DEF ToCome
      <4>2. CASE there
        <5>1. sensor'.pixel = (sensor.pixel % PIXELS) + 1
          BY <3>2, <4>2 DEF Numbers
        <5> QED
          BY <1>2, <3>2, <4>1, <4>2, <5>1 DEF ToCome
      <4>3. CASE ~there
        BY <1>2, <3>2, <4>1, <4>3 DEF ToCome
      <4> QED
        BY <4>2, <4>3
    <3>4. UNCHANGED <<cli_spi_tx, cli_spi_rx_len, printed, stale>> /\ First' = First
      BY <1>1 DEF chain, First
    <3>5. CASE printed = <<>> /\ cli_spi_rx_len = 0 /\ bus.on /\ ToCome(1) /\ ~stale
      <4>1. ToCome(1)'
        BY <3>3, <3>5
      <4> QED
        BY <1>2, <2>3, <3>4, <3>5, <4>1 DEF PictureSoFar
    <3>6. ASSUME cli_spi_rx_len \in 1 .. PIXELS + 1,
                 printed = [i \in 1 .. cli_spi_rx_len - 1 |-> PixelAt(First, i)],
                 ToCome(PixelAt(First, cli_spi_rx_len)), cli_spi_rx_len <= PIXELS
          PROVE  PictureSoFar'
      <4>1. ToCome(PixelAt(First, cli_spi_rx_len))'
        BY <3>3, <3>4, <3>6 DEF PixelAt
      <4>2. /\ printed' = [i \in 1 .. cli_spi_rx_len' - 1 |-> PixelAt(First', i)]
            /\ bus'.on => ToCome(PixelAt(First, cli_spi_rx_len))'
            /\ bus'.on <=> cli_spi_rx_len' <= PIXELS
        BY <1>2, <3>4, <3>6, <4>1
      <4> QED
        BY <2>3, <3>4, <3>6, <4>2 DEF PictureSoFar
    <3> QED
      BY <1>1, <2>1, <2>3, <3>5, <3>6 DEF PictureSoFar
  <2> QED
    BY <2>2, <2>3, <1>8 DEF InStep, Asked
<1> QED
  BY <1>5, <1>6, <1>7, <1>8 DEF InStep

\* The odometer goes on: what was just read is taken, and the next thing asked for.
LEMMA OdometerInStep ==
    ASSUME FlagInv, Numbers, InStep, clean', Succeed, cli_spi_st \in 2 .. 5
    PROVE  InStep'
<1>1. /\ bus.on /\ bus.done /\ Odometer(Rest)
      /\ cli_spi_st' = IF Over \/ (~bus'.on /\ cli_spi_st # 5) THEN cli_spi_st ELSE Then[cli_spi_st]
      /\ UNCHANGED <<cli_spi_rx, task, handler>>
  <2>1. cli_spi_st # 0 /\ cli_spi_st # 1
    OBVIOUS
  <2>2. ~Quiet(Rest) /\ ~Picture(Rest)
    BY <2>1, Zenon DEF Quiet, Picture
  <2> QED
    BY <2>2, Zenon DEF Succeed
<1>2. UNCHANGED clean /\ clean
  <2>1. UNCHANGED clean \/ clean' = FALSE
    BY <1>1 DEF Odometer, Refused
  <2> QED
    BY <2>1, Zenon
<1>3. \/ Over /\ bus' = Rest /\ UNCHANGED <<cli_spi_st, cli_spi_tx>>
      \/ /\ ~Over /\ bus' = [on |-> TRUE, done |-> FALSE, reg |-> Asks[cli_spi_st], len |-> 1]
         /\ cli_spi_tx' = Asks[cli_spi_st] /\ cli_spi_st' = Then[cli_spi_st]
  <2>1. CASE Over
    BY <1>1, <2>1 DEF Odometer, chain
  <2>2. CASE ~Over
    <3>1. /\ cli_spi_tx' = Asks[cli_spi_st]
          /\ bus' = [on |-> TRUE, done |-> FALSE, reg |-> Asks[cli_spi_st], len |-> 1]
      BY <1>1, <1>2, <2>2 DEF Odometer, Started, Refused
    <3> QED
      BY <1>1, <2>2, <3>1
  <2> QED
    BY <2>1, <2>2
<1>4. /\ Asks[2] = "status" /\ Asks[3] = "dx" /\ Asks[4] = "dy" /\ Asks[5] = "status"
      /\ Then[2] = 3 /\ Then[3] = 4 /\ Then[4] = 5 /\ Then[5] = 3
  BY DEF Asks, Then
<1>5. \/ Over /\ cli_spi_st = 3 /\ cli_spi_st' = 3 /\ ~bus'.on /\ ~bus'.done
      \/ /\ bus' = [on |-> TRUE, done |-> FALSE, reg |-> cli_spi_tx', len |-> 1]
         /\ \/ cli_spi_st \in {2, 5} /\ cli_spi_st' = 3 /\ cli_spi_tx' = "status"
            \/ cli_spi_st = 3 /\ cli_spi_st' = 4 /\ cli_spi_tx' = "dx"
            \/ cli_spi_st = 4 /\ cli_spi_st' = 5 /\ cli_spi_tx' = "dy"
  BY <1>3, <1>4 DEF Over, Rest
<1>6. Asked'
  BY <1>5 DEF Asked
<1>7. PinInStep'
  BY <1>1, <1>5 DEF InStep, PinInStep
<1>8. TaskInStep'
  BY <1>1, <1>5 DEF InStep, TaskInStep
<1>9. OnItsWay'
  <2>1. /\ cli_spi_dx' = IF cli_spi_st = 4 THEN cli_spi_rx.v ELSE cli_spi_dx
        /\ owed' = IF cli_spi_st = 5 THEN [dx |-> owed.dx - cli_spi_dx, dy |-> owed.dy - cli_spi_rx.v]
                   ELSE owed
    BY <1>1, <1>2 DEF Odometer, Take, Kept
  <2>2. CASE cli_spi_st \in {2, 3}
    <3>1. owed' = Nothing
      BY <2>1, <2>2 DEF InStep, OnItsWay
    <3> QED
      BY <1>5, <2>2, <3>1 DEF OnItsWay
  <2>3. CASE cli_spi_st = 4
    <3>1. owed' = [dx |-> cli_spi_dx', dy |-> 0]
      BY <1>1, <2>1, <2>3 DEF InStep, OnItsWay
    <3> QED
      BY <1>5, <2>3, <3>1 DEF OnItsWay
  <2>4. CASE cli_spi_st = 5
    <3>1. owed = [dx |-> cli_spi_dx, dy |-> cli_spi_rx.v]
      BY <1>1, <2>4 DEF InStep, OnItsWay
    <3>2. owed' = Nothing
      BY <2>1, <2>4, <3>1 DEF Nothing, Numbers
    <3> QED
      BY <1>5, <2>4, <3>2 DEF OnItsWay
  <2> QED
    BY <2>2, <2>3, <2>4
<1> QED
  BY <1>5, <1>6, <1>7, <1>8, <1>9 DEF InStep

\* Nothing but the register's value was waited for.
LEMMA QuietInStep ==
    ASSUME FlagInv, Numbers, InStep, clean', Succeed, cli_spi_st = 0
    PROVE  InStep'
<1>1. /\ bus.on /\ bus' = Rest
      /\ UNCHANGED <<chain, task, handler, owed>>
  BY DEF Succeed, Quiet, Picture, Odometer
<1>2. Asked' /\ PinInStep' /\ TaskInStep'
  BY <1>1 DEF InStep, Asked, PinInStep, TaskInStep, FlagInv, HandlerOwns, chain, Rest
<1>3. OnItsWay'
  BY <1>1 DEF InStep, OnItsWay, chain
<1> QED
  BY <1>1, <1>2, <1>3 DEF InStep, chain

\* The sensor goes through its pixels as the picture does.
LEMMA PixelAfter ==
    ASSUME NEW first \in {1, 2}, NEW i \in 1 .. PIXELS - 1
    PROVE  (PixelAt(first, i) % PIXELS) + 1 = PixelAt(first, i + 1)
<1>1. PIXELS \in Nat /\ PIXELS > 1 /\ i \in Nat /\ i >= 1 /\ i < PIXELS
  BY SizeIsNat
<1>2. CASE first = 1
  <2>1. PixelAt(first, i) = i /\ PixelAt(first, i + 1) = i + 1
    BY <1>1, <1>2 DEF PixelAt
  <2>2. i % PIXELS = i
    BY <1>1, Wraps
  <2> QED
    BY <2>1, <2>2
<1>3. CASE first = 2
  <2>1. PixelAt(first, i) = i + 1 /\ PixelAt(first, i + 1) = IF i + 1 = PIXELS THEN 1 ELSE i + 2
    BY <1>1, <1>3 DEF PixelAt
  <2>2. (i + 1) % PIXELS = IF i + 1 = PIXELS THEN 0 ELSE i + 1
    <3>1. i + 1 \in Nat /\ i + 1 <= PIXELS
      BY <1>1
    <3> QED
      BY <1>1, <3>1, Wraps
  <2>3. PixelAt(first, i) % PIXELS = (i + 1) % PIXELS
    BY <2>1
  <2> QED
    BY <1>1, <2>1, <2>2, <2>3
<1> QED
  BY <1>2, <1>3

\* A pixel is printed, when it was there, and the next one asked for.
LEMMA PictureInStep ==
    ASSUME FlagInv, Numbers, InStep, clean', Succeed, cli_spi_st = 1
    PROVE  InStep'
<1>1. /\ bus.on /\ bus.done /\ Picture(Rest)
      /\ UNCHANGED <<cli_spi_rx, task, handler, sensor, owed>>
  BY DEF Succeed, Quiet, Odometer
<1>0. UNCHANGED stale
  BY <1>1 DEF Picture
<1>2. UNCHANGED clean /\ clean
  <2>1. UNCHANGED clean \/ clean' = FALSE
    BY <1>1, Zenon DEF Picture, Refused
  <2> QED
    BY <2>1, Zenon
<1> DEFINE valid == cli_spi_rx.bit
           asks == ~valid \/ Left
<1>3. /\ printed' = IF valid /\ cli_spi_rx_len > 0 THEN Append(printed, cli_spi_rx.v) ELSE printed
      /\ cli_spi_rx_len' = IF valid THEN cli_spi_rx_len + 1 ELSE cli_spi_rx_len
      /\ cli_spi_st' = 1
      /\ asks => /\ bus' = [on |-> TRUE, done |-> FALSE, reg |-> "pixel", len |-> 1]
                 /\ cli_spi_tx' = "pixel"
      /\ ~asks => bus' = Rest /\ cli_spi_tx' = cli_spi_tx
  <2>1. CASE asks
    <3>1. Started(Rest, "pixel", 1) /\ UNCHANGED cli_spi_st /\ cli_spi_tx' = "pixel"
          /\ cli_spi_rx_len' = IF valid THEN cli_spi_rx_len + 1 ELSE cli_spi_rx_len
      BY <1>1, <2>1, <1>2 DEF Picture, Refused
    <3> QED
      BY <1>1, <1>2, <2>1, <3>1 DEF Picture, Kept, Started
  <2>2. CASE ~asks
    BY <1>1, <1>2, <2>2 DEF Picture, Kept
  <2> QED
    BY <2>1, <2>2
<1> HIDE DEF valid, asks
<1>4. Asked'
  <2>1. CASE asks
    BY <1>3, <2>1 DEF Asked
  <2>2. CASE ~asks
    BY <1>3, <2>2 DEF Asked, Rest, InStep
  <2> QED
    BY <2>1, <2>2
<1>5. PinInStep' /\ TaskInStep'
  BY <1>1, <1>3 DEF InStep, PinInStep, TaskInStep, FlagInv, HandlerOwns
<1>6. OnItsWay'
  BY <1>1, <1>3 DEF InStep, OnItsWay
<1>7. PictureSoFar
  BY DEF InStep
<1>10. asks => bus'.on /\ ~bus'.done /\ cli_spi_tx' = "pixel"
  BY <1>3
<1>11. ASSUME NEW p, sensor.pixel = p, asks PROVE ToCome(p)'
  BY <1>1, <1>10, <1>11 DEF ToCome
<1>12. ASSUME NEW first, first = First, NEW n \in 1 .. PIXELS + 1, cli_spi_rx_len' = n,
              cli_spi_tx' = "pixel",
              printed' = [i \in 1 .. n - 1 |-> PixelAt(first, i)],
              bus'.on => sensor.pixel = PixelAt(first, n) /\ asks,
              bus'.on <=> n <= PIXELS
       PROVE  PictureSoFar'
  <2>1. bus'.on => ToCome(PixelAt(first, n))'
    <3>1. PixelAt(first, n)' = PixelAt(first, n)
      BY DEF PixelAt
    <3> QED
      BY <1>11, <1>12, <3>1
  <2> QED
    BY <1>0, <1>12, <2>1 DEF PictureSoFar, First
<1>8. ASSUME cli_spi_rx_len = 0 PROVE PictureSoFar'
  <2>1. asks /\ printed' = <<>> /\ printed = <<>>
    <3>1. printed = <<>>
      BY <1>7, <1>8 DEF PictureSoFar
    <3> QED
      BY <1>3, <1>8, <3>1, SizeIsNat DEF asks, Left
  <2>2. CASE ~valid
    <3>1. sensor.pixel = 1 /\ ~stale
      BY <1>1, <1>7, <1>8, <2>2 DEF PictureSoFar, ToCome, valid
    <3>2. ToCome(1)' /\ cli_spi_rx_len' = 0
      BY <1>3, <1>8, <1>11, <2>1, <2>2, <3>1
    <3> QED
      BY <1>0, <1>10, <2>1, <3>1, <3>2 DEF PictureSoFar
  <2>3. CASE valid
    <3>1. sensor.pixel = First /\ First \in {1, 2}
      <4>1. CASE cli_spi_tx = "grab"
        BY <1>1, <1>7, <2>3, <4>1 DEF PictureSoFar, First, valid
      <4>2. CASE cli_spi_tx # "grab"
        <5>1. sensor.pixel = (1 % PIXELS) + 1 /\ ~stale
          BY <1>1, <1>7, <1>8, <2>3, <4>2 DEF PictureSoFar, ToCome, valid
        <5>2. 1 % PIXELS = 1
          BY SizeIsNat, Wraps
        <5> QED
          BY <5>1, <5>2 DEF First
      <4> QED
        BY <4>1, <4>2
    <3>2. PixelAt(First, 1) = First
      BY <3>1, SizeIsNat DEF PixelAt
    <3>3. cli_spi_rx_len' = 1
      BY <1>3, <1>8, <2>3
    <3>4. printed' = [i \in 1 .. 0 |-> PixelAt(First, i)]
      BY <2>1
    <3> QED
      BY <1>10, <1>12, <2>1, <3>1, <3>2, <3>3, <3>4, SizeIsNat
  <2> QED
    BY <2>2, <2>3
<1>9. ASSUME cli_spi_rx_len # 0 PROVE PictureSoFar'
  <2>1. /\ cli_spi_tx = "pixel" /\ cli_spi_rx_len \in 1 .. PIXELS
        /\ printed = [i \in 1 .. cli_spi_rx_len - 1 |-> PixelAt(First, i)]
        /\ ToCome(PixelAt(First, cli_spi_rx_len))
    BY <1>1, <1>7, <1>9, SizeIsNat DEF PictureSoFar
  <2>2. First \in {1, 2}
    BY DEF First
  <2>3. CASE ~valid
    <3>1. asks /\ sensor.pixel = PixelAt(First, cli_spi_rx_len)
          /\ UNCHANGED <<cli_spi_rx_len, printed>>
      BY <1>1, <1>3, <2>1, <2>3 DEF asks, ToCome, valid
    <3>2. cli_spi_rx_len \in 1 .. PIXELS + 1 /\ cli_spi_rx_len <= PIXELS
      BY <2>1, SizeIsNat
    <3>3. printed' = [i \in 1 .. cli_spi_rx_len - 1 |-> PixelAt(First, i)]
      BY <2>1, <3>1
    <3>4. bus'.on /\ cli_spi_tx' = "pixel" /\ cli_spi_rx_len' = cli_spi_rx_len
      BY <1>10, <3>1
    <3> QED
      BY <1>12, <3>1, <3>2, <3>3, <3>4
  <2>4. CASE valid
    <3>1. /\ cli_spi_rx.v = PixelAt(First, cli_spi_rx_len)
          /\ sensor.pixel = (PixelAt(First, cli_spi_rx_len) % PIXELS) + 1
      BY <1>1, <2>1, <2>4 DEF ToCome, valid
    <3>2. cli_spi_rx_len' = cli_spi_rx_len + 1
      BY <1>3, <2>4
    <3>3. printed' = [i \in 1 .. cli_spi_rx_len |-> PixelAt(First, i)]
      <4>1. cli_spi_rx_len \in Nat /\ cli_spi_rx_len > 0
        BY <2>1, SizeIsNat
      <4>2. printed' = Append([i \in 1 .. cli_spi_rx_len - 1 |-> PixelAt(First, i)],
                              PixelAt(First, cli_spi_rx_len))
        BY <1>3, <2>1, <2>4, <3>1, <4>1
      <4>3. ASSUME NEW n \in Nat, n > 0
            PROVE  Append([i \in 1 .. n - 1 |-> PixelAt(First, i)], PixelAt(First, n))
                     = [i \in 1 .. n |-> PixelAt(First, i)]
        <5> DEFINE s == [i \in 1 .. n - 1 |-> PixelAt(First, i)]
        <5>1. n - 1 \in Nat /\ DOMAIN s = 1 .. n - 1
          BY <4>3
        <5>2. ASSUME NEW i \in 1 .. n - 1 PROVE PixelAt(First, i) \in Int
          BY <2>2, <4>3, SizeIsNat DEF PixelAt
        <5>3. s \in Seq(Int) /\ Len(s) = n - 1
          BY <5>1, <5>2
        <5> QED
          BY <4>3, <5>1, <5>3
      <4> QED
        BY <3>2, <4>1, <4>2, <4>3
    <3>4. CASE Left
      <4>1. cli_spi_rx_len \in 1 .. PIXELS - 1 /\ asks
        BY <2>1, <3>4, SizeIsNat DEF asks, Left
      <4>2. sensor.pixel = PixelAt(First, cli_spi_rx_len + 1)
        BY <2>2, <3>1, <4>1, PixelAfter
      <4>3. cli_spi_rx_len + 1 \in 1 .. PIXELS + 1 /\ cli_spi_rx_len + 1 <= PIXELS
        BY <4>1, SizeIsNat
      <4>4. printed' = [i \in 1 .. (cli_spi_rx_len + 1) - 1 |-> PixelAt(First, i)]
        BY <2>1, <3>3, SizeIsNat
      <4> QED
        BY <1>10, <1>12, <3>2, <4>1, <4>2, <4>3, <4>4
    <3>5. CASE ~Left
      <4>1. cli_spi_rx_len = PIXELS /\ ~asks
        BY <2>1, <2>4, <3>5, SizeIsNat DEF asks, Left
      <4>2. ~bus'.on /\ cli_spi_tx' = "pixel"
        BY <1>3, <2>1, <4>1 DEF Rest
      <4>3. PIXELS + 1 \in 1 .. PIXELS + 1 /\ ~(PIXELS + 1 <= PIXELS) /\ (PIXELS + 1) - 1 = PIXELS
        BY SizeIsNat
      <4> QED
        BY <1>12, <3>2, <3>3, <4>1, <4>2, <4>3
    <3> QED
      BY <3>4, <3>5
  <2> QED
    BY <2>3, <2>4
<1> QED
  BY <1>4, <1>5, <1>6, <1>8, <1>9 DEF InStep

LEMMA MotionStep == FlagInv /\ MotionInv /\ [Next]_vars => MotionInv'
<1> SUFFICES ASSUME FlagInv, MotionInv, [Next]_vars PROVE MotionInv'
  OBVIOUS
<1>1. Numbers /\ Numbers' /\ (clean => InStep)
  BY NumbersKeep DEF MotionInv
\* Only a command and the pin's function begin anew.
<1>2. ASSUME clean', ~clean
      PROVE  (\E c \in Commands : SetUp(c)) \/ PinEnter
  <2>1. ~Exchange /\ ~PinFinish /\ ~(\E d \in MOVES : Move(d)) /\ ~(\E c \in Commands : Check(c))
    BY <1>2, Zenon DEF Exchange, PinFinish, Move, Check
  <2>2. ~SqualAgain /\ ~SqualEnd /\ ~(\E e \in BOOLEAN : f_spi_odo(e)) /\ ~UNCHANGED vars
    BY <1>2, Zenon DEF SqualAgain, SqualEnd, f_spi_odo, vars
  <2>3. ~Succeed /\ ~PinCallback
    <3>1. ASSUME NEW b PROVE ~Quiet(b) /\ ~Picture(b) /\ ~Odometer(b)
      BY <1>2, Zenon DEF Quiet, Picture, Odometer, Refused
    <3> QED
      BY <3>1, Zenon DEF Succeed, PinCallback
  <2>4. ~Fail /\ ~StartSequence
    BY <1>2, Zenon DEF Fail, StartSequence, Refused
  <2> QED
    BY <2>1, <2>2, <2>3, <2>4, Zenon DEF Next, Interrupts
<1>3. ASSUME clean' PROVE InStep'
  <2>1. CASE clean
    <3>1. InStep
      BY <1>1, <2>1
    <3>2. ASSUME NEW c \in Commands, SetUp(c) PROVE InStep'
      BY <1>1, <1>3, <3>2, SetUpInStep
    <3>3. ASSUME Exchange PROVE InStep'
      BY <1>1, <2>1, <3>1, <3>3, ExchangeInStep
    <3>4. ASSUME Succeed PROVE InStep'
      <4>1. cli_spi_st = 0 \/ cli_spi_st = 1 \/ cli_spi_st \in 2 .. 5
        BY DEF FlagInv, HandlerOwns
      <4> QED
        BY <1>1, <1>3, <3>1, <3>4, <4>1, QuietInStep, PictureInStep, OdometerInStep
    <3>5. ASSUME PinEnter \/ PinCallback \/ PinFinish PROVE InStep'
      BY <1>1, <1>3, <3>1, <3>5, PinEnterInStep, PinCallbackInStep, PinFinishInStep
    <3>6. ASSUME StartSequence PROVE InStep'
      BY <1>1, <1>3, <3>1, <3>6, StartInStep
    <3>7. ~Fail
      BY <1>3, Zenon DEF Fail
    <3>8. ASSUME \/ \E d \in MOVES : Move(d)
                 \/ \E c \in Commands : Check(c)
                 \/ SqualAgain \/ SqualEnd
                 \/ \E enable \in BOOLEAN : f_spi_odo(enable)
                 \/ UNCHANGED vars
          PROVE  InStep'
      BY <1>1, <2>1, <3>1, <3>8, OthersInStep
    <3> QED
      BY <3>2, <3>3, <3>4, <3>5, <3>6, <3>7, <3>8 DEF Next, Interrupts
  <2>2. CASE ~clean
    BY <1>1, <1>2, <1>3, <2>2, SetUpInStep, PinEnterInStep
  <2> QED
    BY <2>1, <2>2
<1> QED
  BY <1>1, <1>3 DEF MotionInv

LEMMA MotionAlways == Spec => []MotionInv
<1>1. FlagInv /\ [Next]_vars => FlagInv'
  BY SucceedKeeps, PinCallbackKeeps, PinKeeps, CommandKeeps, StartKeeps, OthersKeep, FailKeeps
  DEF Next, Interrupts
<1> QED
  BY <1>1, FlagInit, MotionInit, MotionStep, PTL DEF Spec

\* All motion read from the sensor is added to the position when its chain comes to
\* ask for more, each delta once and in its own direction, whatever the sensor
\* moves by meanwhile.
THEOREM MotionIsAdded == Spec => []MotionAdded
<1>1. MotionInv => MotionAdded
  BY DEF MotionInv, InStep, OnItsWay, MotionAdded
<1> QED
  BY <1>1, MotionAlways, PTL

\* A picture of any size has as many pixels as the sensor, in order: from the first to
\* the last when the byte before it had bit 7 set, and from the second to the last and
\* then the next sweep's first when it had not.
THEOREM PictureIsWhole == Spec => []PictureWhole
<1>1. MotionInv => PictureWhole
  <2> SUFFICES ASSUME MotionInv, clean, cli_spi_st = 1
               PROVE  /\ \A i \in DOMAIN printed :
                           printed[i] = IF stale THEN i ELSE (i % PIXELS) + 1
                      /\ ~bus.on /\ task = NoTask => Len(printed) = PIXELS
    BY DEF PictureWhole
  <2>1. PictureSoFar
    BY DEF MotionInv, InStep
  <2>2. CASE printed = <<>>
    <3>1. ~bus.on => task # NoTask
      BY <2>1, <2>2, SizeIsNat DEF PictureSoFar, NoTask
    <3> QED
      BY <2>2, <3>1
  <2>3. CASE printed # <<>>
    <3>1. PICK n \in 0 .. PIXELS :
             /\ cli_spi_rx_len = n + 1
             /\ printed = [i \in 1 .. n |-> PixelAt(First, i)]
             /\ bus.on <=> cli_spi_rx_len <= PIXELS
      BY <2>1, <2>3, SizeIsNat DEF PictureSoFar
    <3>2. n \in Nat /\ n <= PIXELS /\ n > 0 /\ DOMAIN printed = 1 .. n
      BY <2>3, <3>1, SizeIsNat
    <3>3. ASSUME NEW i \in 1 .. n PROVE printed[i] = IF stale THEN i ELSE (i % PIXELS) + 1
      <4>1. i \in Nat /\ i <= PIXELS /\ i >= 1
        BY <3>2, SizeIsNat
      <4>2. i % PIXELS = IF i = PIXELS THEN 0 ELSE i
        BY <4>1, SizeIsNat, Wraps
      <4>3. PixelAt(First, i) = IF stale THEN i ELSE (i % PIXELS) + 1
        BY <4>1, <4>2, SizeIsNat DEF PixelAt, First
      <4> QED
        BY <3>1, <4>3
    <3>4. Len(printed) = n
      BY <3>1, <3>2
    <3>5. ~bus.on => n = PIXELS
      BY <3>1, <3>2, SizeIsNat
    <3> QED
      BY <3>2, <3>3, <3>4, <3>5
  <2> QED
    BY <2>2, <2>3
<1> QED
  BY <1>1, MotionAlways, PTL
===============================================================================
