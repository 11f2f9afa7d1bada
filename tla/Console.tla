-------------------------------- MODULE Console --------------------------------
(*****************************************************************************)
(* The console (src/src/cli.c): the line editor, the task that runs a line,  *)
(* and the pipe that connects the console to another serial port.            *)
(*                                                                           *)
(* cli_io_cb runs in the USB interrupt, cli_pipe in that of the piped port;  *)
(* which of them interrupts the other is a matter of the port                *)
(* (src/src/processor.c:68-78).  Both use cli_buf, so a burst is one step    *)
(* for taking it from the driver and one for each character after that.      *)
(* Collecting a line is one step: while no port is piped nothing that could  *)
(* interrupt it touches the console.                                         *)
(*                                                                           *)
(* A command is one character: one that enters a pipe (pipe with a port, or  *)
(* wifi_open with the wifi module's) or any other.  pipe with the console's  *)
(* own port, which is refused, and wifi_open without an answer are others.   *)
(* The user waits for the answer, a prompt or what the bus scan prints,      *)
(* before the next line is typed, and keeps to lines the buffer holds; a     *)
(* burst ends with the line it ends.                                         *)
(*****************************************************************************)
EXTENDS Naturals, Sequences

CONSTANTS
    IOSTD,          \* the console's own port
    PORTS,          \* the other ports
    PREEMPTS,       \* those whose interrupt preempts the console's
    CLI_BUF_LEN,
    MAX_BURST       \* a bound on what comes at once

ASSUME ConsoleAssumption ==
    /\ IOSTD \notin PORTS /\ PREEMPTS \subseteq PORTS
    /\ CLI_BUF_LEN \in Nat \ {0} /\ MAX_BURST \in 1 .. CLI_BUF_LEN

VARIABLES
    cli_buf, cli_buf_ix, cli_pars_buf,
    queued,             \* the length cli_task is queued with, 0 when it is not
    line,               \* the line cli_task_f has parsed, <<>> when it is over
    pipe, pipe_io,
    pipe_cb_func,       \* the callback to restore
    pipe_ends,          \* counted up to three
    callback,           \* of each port, as the IO library has it
    typing,             \* cli_io_cb within a pipe: [on, i, len]
    hearing             \* cli_pipe: [on, io, i, len]

\* History variables.
VARIABLES
    typed,              \* the line typed so far
    submitted,          \* the last line ended that was not empty
    awaiting,           \* it was not answered yet
    stars,              \* stars typed in a row in this pipe, counted up to three
    burst, carried,     \* what is typed into a pipe at once, and what was sent
    said, printed,      \* what a port says at once, and what was printed of it
    mixed               \* one of the two interrupted the other in this pipe

buffers == <<cli_buf, cli_buf_ix>>
task    == <<cli_pars_buf, queued, line>>
piping  == <<pipe, pipe_io, pipe_cb_func, pipe_ends, callback>>
lines   == <<typed, submitted, awaiting>>
sending == <<typing, burst, carried>>
hears   == <<hearing, said, printed>>
vars    == <<buffers, task, piping, lines, sending, hears, stars, mixed>>

Plain(kind) == [kind |-> kind, io |-> IOSTD]
Nul  == Plain("nul")
LF   == Plain("lf")
Star == Plain("star")
Text == Plain("text")
\* A line that leads to f_pipe: pipe, or wifi_open when the wifi module answers.
PipeTo(io) == [kind |-> "pipe", io |-> io]

Typeable == {LF, Star} \cup {PipeTo(io) : io \in PORTS}
Said     == {Star, Text}
Char     == Typeable \cup Said \cup {Nul}
Bursts(C) == UNION {[1 .. n -> C] : n \in 1 .. MAX_BURST}
Indices  == 0 .. CLI_BUF_LEN - 1

NotTyping  == [on |-> FALSE, i |-> 0, len |-> 0]
NotHearing == [on |-> FALSE, io |-> IOSTD, i |-> 0, len |-> 0]

\* IO_get_buf.
Put(buf, at, s) == [k \in Indices |-> IF k \in at .. at + Len(s) - 1 THEN s[k - at + 1]
                                      ELSE buf[k]]
Front(buf, n) == [k \in 1 .. n |-> buf[k - 1]]

Init ==
    /\ cli_buf = [k \in Indices |-> Nul] /\ cli_buf_ix = 0
    /\ cli_pars_buf = [k \in Indices |-> Nul] /\ queued = 0 /\ line = <<>>
    /\ pipe = FALSE /\ pipe_io = IOSTD /\ pipe_cb_func = "none" /\ pipe_ends = 0
    /\ callback = [io \in PORTS |-> "own"]
    /\ typing = NotTyping /\ hearing = NotHearing
    /\ typed = <<>> /\ submitted = <<>> /\ awaiting = FALSE
    /\ stars = 0
    /\ burst = <<>> /\ carried = <<>> /\ said = <<>> /\ printed = <<>> /\ mixed = FALSE

-------------------------------------------------------------------------------
(* The interrupts.                                                            *)

\* The console's interrupt, and one of a port, can start or go on.
ConsoleRuns  == ~(hearing.on /\ hearing.io \in PREEMPTS)
PortRuns(io) == ~(typing.on /\ io \notin PREEMPTS)

\* cli_on_line.
OnLine(s) ==
    IF s = <<>> THEN UNCHANGED <<task, awaiting>>
    ELSE /\ cli_pars_buf' = Put(cli_pars_buf, 0, s)
         /\ queued' = Len(s) /\ awaiting' = TRUE
         /\ UNCHANGED line

\* Mutant: a burst is put at the start of the buffer.
AtStart == 0

Place == cli_buf_ix

\* What the user keeps to outside a pipe; the end of the line needs a place too.
Keeps(s) ==
    /\ ~awaiting
    /\ \A k \in DOMAIN s : s[k] = LF => k = Len(s)
    /\ cli_buf_ix + Len(s) < CLI_BUF_LEN + IF s[Len(s)] = LF THEN 1 ELSE 0

\* cli_io_cb outside a pipe.
LineBurst(s) ==
    /\ ~pipe /\ ~typing.on /\ ConsoleRuns
    /\ Keeps(s)
    /\ LET got  == Put(cli_buf, Place, s)
           ends == {k \in cli_buf_ix .. cli_buf_ix + Len(s) - 1 : got[k] = LF}
           end  == CHOOSE k \in ends : \A j \in ends : k <= j
       IN  IF ends = {}
           THEN /\ cli_buf' = got /\ cli_buf_ix' = cli_buf_ix + Len(s)
                /\ typed' = typed \o s
                /\ UNCHANGED <<task, submitted, awaiting>>
           ELSE /\ cli_buf' = [got EXCEPT ![end] = Nul] /\ cli_buf_ix' = 0
                /\ typed' = <<>>
                /\ submitted' = IF typed = <<>> /\ Len(s) = 1 THEN submitted
                                ELSE typed \o SubSeq(s, 1, Len(s) - 1)
                /\ OnLine(Front(got, end))
    /\ UNCHANGED <<piping, sending, hears, stars, mixed>>

\* cli_io_cb within a pipe takes what was typed ...
TypeBurst(s) ==
    /\ pipe /\ ~typing.on /\ ConsoleRuns
    /\ cli_buf' = Put(cli_buf, 0, s)
    /\ typing' = [on |-> TRUE, i |-> 0, len |-> Len(s)]
    /\ burst' = s /\ carried' = <<>> /\ mixed' = (mixed \/ hearing.on)
    /\ UNCHANGED <<cli_buf_ix, task, piping, lines, hears, stars>>

\* Mutant: the port keeps the pipe's callback.
LeaveKeepsCallback ==
    /\ pipe' = FALSE
    /\ cli_buf_ix' = 0
    /\ UNCHANGED callback

\* cli_pipe_leave.
Leave ==
    /\ callback' = [callback EXCEPT ![pipe_io] = pipe_cb_func]
    /\ pipe' = FALSE
    /\ cli_buf_ix' = 0

UpToThree(n) == IF n > 3 THEN 3 ELSE n

\* Mutant: a fourth star is needed.
FourStars == 4

Ends == 3

\* Mutant: stars are kept from the port.
ForwardNoStar(c) == carried' = IF c = Star THEN carried
                               ELSE Append(carried, [io |-> pipe_io, char |-> c])

Forward(c) == carried' = Append(carried, [io |-> pipe_io, char |-> c])

\* ... and sends it, one character a turn.
SendChar ==
    /\ typing.on /\ typing.i < typing.len /\ ConsoleRuns
    /\ LET c == cli_buf[typing.i] IN
         /\ Forward(c)
         /\ IF c = Star
            THEN /\ pipe_ends' = UpToThree(pipe_ends + 1)
                 /\ IF pipe_ends + 1 >= Ends THEN Leave
                    ELSE UNCHANGED <<pipe, callback, cli_buf_ix>>
            ELSE /\ pipe_ends' = 0
                 /\ UNCHANGED <<pipe, callback, cli_buf_ix>>
    /\ stars' = IF burst[typing.i + 1] = Star THEN UpToThree(stars + 1) ELSE 0
    /\ typing' = [typing EXCEPT !.i = @ + 1]
    /\ UNCHANGED <<cli_buf, task, pipe_io, pipe_cb_func, lines, burst, hears, mixed>>

SendEnd ==
    /\ typing.on /\ typing.i >= typing.len /\ ConsoleRuns
    /\ typing' = NotTyping /\ burst' = <<>> /\ carried' = <<>>
    /\ UNCHANGED <<buffers, task, piping, lines, hears, stars, mixed>>

\* cli_pipe takes what the port says ...
HearBurst(io, s) ==
    /\ callback[io] = "cli_pipe" /\ ~hearing.on /\ PortRuns(io)
    /\ cli_buf_ix + Len(s) <= CLI_BUF_LEN
    /\ cli_buf' = Put(cli_buf, cli_buf_ix, s)
    /\ hearing' = [on |-> TRUE, io |-> io, i |-> cli_buf_ix, len |-> Len(s)]
    /\ said' = s /\ printed' = <<>> /\ mixed' = (mixed \/ typing.on)
    /\ UNCHANGED <<cli_buf_ix, task, piping, lines, sending, stars>>

\* ... and prints it.  The end moves with cli_buf_ix, and when the console has left
\* the pipe meanwhile, may move beyond the buffer, to anything.
PrintChar ==
    /\ hearing.on /\ hearing.i < cli_buf_ix + hearing.len /\ PortRuns(hearing.io)
    /\ \E c \in IF hearing.i \in Indices THEN {cli_buf[hearing.i]} ELSE Char :
         printed' = Append(printed, c)
    /\ hearing' = [hearing EXCEPT !.i = @ + 1]
    /\ UNCHANGED <<buffers, task, piping, lines, sending, said, stars, mixed>>

PrintEnd ==
    /\ hearing.on /\ hearing.i >= cli_buf_ix + hearing.len /\ PortRuns(hearing.io)
    /\ hearing' = NotHearing /\ said' = <<>> /\ printed' = <<>>
    /\ UNCHANGED <<buffers, task, piping, lines, sending, stars, mixed>>

-------------------------------------------------------------------------------
(* The task, which runs when no interrupt does.                               *)

Interrupted == typing.on \/ hearing.on

\* cli_task_f takes the line apart.
Parse ==
    /\ queued > 0 /\ ~Interrupted
    /\ line' = Front(cli_pars_buf, queued)
    /\ queued' = 0
    /\ UNCHANGED <<buffers, cli_pars_buf, piping, lines, sending, hears, stars,
                   mixed>>

\* The command returns, with a prompt or (f_i2c_scan) without one.
Answer == line' = <<>> /\ awaiting' = FALSE

IsPipe == Len(line) = 1 /\ line[1].kind = "pipe" /\ line[1].io \in PORTS

\* f_pipe sets up the pipe within a critical section; its message is left out.
f_pipe ==
    /\ IsPipe /\ ~Interrupted
    /\ pipe_io' = line[1].io
    /\ pipe_cb_func' = callback[pipe_io']
    /\ callback' = [callback EXCEPT ![pipe_io'] = "cli_pipe"]
    /\ pipe' = TRUE
    /\ stars' = 0 /\ mixed' = FALSE
    /\ Answer
    /\ UNCHANGED <<buffers, cli_pars_buf, queued, pipe_ends, typed, submitted, sending,
                   hears>>

\* Mutant: a command does not come back.
CommandHangs == line # <<>> /\ ~IsPipe /\ ~Interrupted /\ UNCHANGED vars

\* Any other command.
OtherCommand ==
    /\ line # <<>> /\ ~IsPipe /\ ~Interrupted
    /\ Answer
    /\ UNCHANGED <<buffers, cli_pars_buf, queued, piping, typed, submitted, sending, hears,
                   stars, mixed>>

ConsoleStep == SendChar \/ SendEnd
PortStep == PrintChar \/ PrintEnd
TaskStep == Parse \/ f_pipe \/ OtherCommand

Next ==
    \/ \E s \in Bursts(Typeable) : LineBurst(s) \/ TypeBurst(s)
    \/ \E s \in Bursts(Said), io \in PORTS : HearBurst(io, s)
    \/ ConsoleStep \/ PortStep \/ TaskStep

\* A handler runs to its end, and a port that talks leaves the task time.
Fairness == WF_vars(ConsoleStep) /\ WF_vars(PortStep) /\ SF_vars(TaskStep)

Spec == Init /\ [][Next]_vars /\ Fairness

-------------------------------------------------------------------------------
Callbacks == {"own", "cli_pipe"}

\* While a pipe is open its port and no other has the pipe's callback, and the
\* port's own waits to be restored; when it is left every port has its own,
\* whatever else was typed with the stars that left it.
CallbacksHeld ==
    /\ \A io \in PORTS : callback[io] = "cli_pipe" <=> pipe /\ io = pipe_io
    /\ pipe => pipe_cb_func = "own"

\* A line is run as it was typed, in however many bursts it came and whatever a
\* pipe left in the buffer they share.
LineAsTyped ==
    /\ ~pipe /\ ~typing.on => Front(cli_buf, cli_buf_ix) = typed
    /\ queued > 0 => Front(cli_pars_buf, queued) = submitted
    /\ line # <<>> => line = submitted

IsPrefixOf(s, t) == Len(s) <= Len(t) /\ \A k \in DOMAIN s : s[k] = t[k]

\* What is typed into a pipe reaches the port and what the port says is printed,
\* in order, in a pipe in which neither interrupted the other.
PipeCarries ==
    ~mixed => /\ \A k \in DOMAIN carried : carried[k] = [io |-> pipe_io, char |-> burst[k]]
              /\ IsPrefixOf(printed, said)

\* Three stars in a row end a pipe, also in several bursts.
StarsEnd == ~mixed /\ stars = 3 => ~pipe

\* A line is run and answered, whatever a port says meanwhile; a command that
\* waits for something itself is taken to return.
LineAnswered == awaiting ~> ~awaiting

-------------------------------------------------------------------------------
(* What the console tells its user, and does not do.                          *)

\* "Connects CLI to another io" (cli.c:233): what is typed is what is sent.
Connects == \A k \in DOMAIN carried : carried[k].char = burst[k]
===============================================================================
