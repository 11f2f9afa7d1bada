----------------------------- MODULE ConsoleProofs -----------------------------
(* What the console's pipe keeps for every set of ports and sizes of buffers. *)
EXTENDS Console, TLAPS

USE ConsoleAssumption

-------------------------------------------------------------------------------
(* The inductive invariant.                                                   *)

\* A line on its way to the task was typed outside a pipe, and it is the only
\* one: this is why f_pipe never finds the pipe's own callback to save.
OneLine ==
    /\ queued \in Nat /\ cli_buf_ix \in Nat
    /\ queued > 0 \/ line # <<>> => awaiting /\ ~pipe
    /\ queued > 0 => line = <<>>

\* cli_io_cb may leave a pipe it has already left: what it restores is still there.
Restorable ==
    /\ pipe \in BOOLEAN /\ callback \in [PORTS -> Callbacks]
    /\ typing.on \/ pipe => pipe_cb_func = "own" /\ pipe_io \in PORTS

\* A burst nothing interrupted is in the buffer as it was typed.
Intact ==
    /\ typing \in [on : BOOLEAN, i : Nat, len : Nat]
    /\ typing.on => /\ burst \in Seq(Char) /\ typing.len = Len(burst)
                    /\ typing.len <= CLI_BUF_LEN
    /\ typing.on /\ ~mixed => \A k \in 1 .. typing.len : cli_buf[k - 1] = burst[k]

\* The code counts at least the stars that were typed in this pipe.
StarsCounted ==
    /\ stars \in Nat /\ pipe_ends \in Nat
    /\ pipe /\ ~mixed => stars <= pipe_ends /\ stars < 3

ConsoleInv == CallbacksHeld /\ OneLine /\ Restorable /\ Intact /\ StarsCounted

LEMMA InitInv == Init => ConsoleInv
  <1> SUFFICES ASSUME Init PROVE ConsoleInv
    OBVIOUS
  <1>1. /\ cli_buf_ix = 0 /\ queued = 0 /\ line = <<>> /\ pipe = FALSE /\ pipe_ends = 0
        /\ callback = [io \in PORTS |-> "own"] /\ typing = NotTyping /\ stars = 0
    BY DEF Init
  <1>2. CallbacksHeld
    BY <1>1 DEF CallbacksHeld
  <1>3. OneLine
    BY <1>1 DEF OneLine
  <1>4. Restorable /\ Intact
    BY <1>1 DEF Restorable, Intact, NotTyping, Callbacks
  <1>5. StarsCounted
    BY <1>1 DEF StarsCounted
  <1> QED
    BY <1>2, <1>3, <1>4, <1>5 DEF ConsoleInv

-------------------------------------------------------------------------------
LEMMA BurstSeq ==
  ASSUME NEW C, NEW s \in Bursts(C)
  PROVE  s \in Seq(C) /\ Len(s) \in Nat /\ Len(s) <= CLI_BUF_LEN /\ Len(s) > 0
  <1>1. PICK n \in 1 .. MAX_BURST : s \in [1 .. n -> C]
    BY DEF Bursts
  <1>2. n \in Nat /\ n <= CLI_BUF_LEN
    OBVIOUS
  <1> QED
    BY <1>1, <1>2

LEMMA FrontLen ==
  ASSUME NEW buf, NEW n \in Nat
  PROVE  Len(Front(buf, n)) = n
  BY DEF Front

\* The line feed the loop of cli_io_cb finds is the last character of the burst.
LEMMA EndIsLast ==
  ASSUME cli_buf_ix \in Nat, NEW s \in Seq(Typeable), Keeps(s),
         NEW ends, NEW end,
         ends = {k \in cli_buf_ix .. cli_buf_ix + Len(s) - 1 :
                   Put(cli_buf, Place, s)[k] = LF},
         ends # {},
         end = CHOOSE k \in ends : \A j \in ends : k <= j
  PROVE  end \in Nat /\ end = cli_buf_ix + Len(s) - 1
  <1>1. ASSUME NEW k \in ends PROVE k = cli_buf_ix + Len(s) - 1
    <2>1. k \in Nat /\ cli_buf_ix <= k /\ k <= cli_buf_ix + Len(s) - 1
      BY <1>1
    <2>2. k \in Indices
      BY <2>1 DEF Keeps, Indices
    <2>3. s[k - cli_buf_ix + 1] = LF
      BY <1>1, <2>1, <2>2 DEF Put, Place
    <2>4. k - cli_buf_ix + 1 \in DOMAIN s
      BY <2>1
    <2>5. k - cli_buf_ix + 1 = Len(s)
      BY <2>3, <2>4 DEF Keeps
    <2> QED
      BY <2>1, <2>5
  <1>2. PICK k \in ends : TRUE
    OBVIOUS
  <1>3. k \in Nat /\ \A j \in ends : k <= j
    BY <1>1, <1>2
  <1>4. end \in ends
    BY <1>3
  <1>5. end \in Nat
    BY <1>4
  <1> QED
    BY <1>1, <1>4, <1>5

LEMMA LineBurstStep ==
  ASSUME ConsoleInv, NEW s \in Bursts(Typeable), LineBurst(s)
  PROVE  ConsoleInv'
  <1>1. /\ UNCHANGED <<pipe, pipe_io, pipe_cb_func, pipe_ends, callback, typing, burst,
                       stars, mixed>>
        /\ ~pipe /\ ~typing.on /\ ~awaiting
    BY DEF LineBurst, Keeps, piping, sending
  <1>2. queued = 0 /\ line = <<>> /\ cli_buf_ix \in Nat
    BY <1>1 DEF ConsoleInv, OneLine
  <1>3. s \in Seq(Typeable)
    BY BurstSeq
  <1> DEFINE got  == Put(cli_buf, Place, s)
             ends == {k \in cli_buf_ix .. cli_buf_ix + Len(s) - 1 : got[k] = LF}
             end  == CHOOSE k \in ends : \A j \in ends : k <= j
  <1>4. cli_buf_ix' \in Nat /\ queued' \in Nat /\ line' = line /\ (queued' > 0 => awaiting')
    <2>1. CASE ends = {}
      <3>1. cli_buf_ix' = cli_buf_ix + Len(s) /\ UNCHANGED task
        BY <2>1 DEF LineBurst
      <3> QED
        BY <3>1, <1>2, <1>3 DEF task
    <2>2. CASE ends # {}
      <3>1. Keeps(s)
        BY DEF LineBurst
      <3>2. end \in Nat
        BY <2>2, <3>1, <1>2, <1>3, EndIsLast
      <3>3. cli_buf_ix' = 0 /\ OnLine(Front(got, end))
        BY <2>2 DEF LineBurst
      <3>4. Len(Front(got, end)) \in Nat
        BY <3>2, FrontLen
      <3>5. \/ UNCHANGED <<task, awaiting>>
            \/ queued' = Len(Front(got, end)) /\ awaiting' = TRUE /\ line' = line
        BY <3>3, Zenon DEF OnLine
      <3> QED
        BY <3>3, <3>4, <3>5, <1>2 DEF task
    <2> QED
      BY <2>1, <2>2
  <1>5. CallbacksHeld' /\ Restorable' /\ StarsCounted'
    BY <1>1 DEF ConsoleInv, CallbacksHeld, Restorable, StarsCounted
  <1>6. OneLine'
    BY <1>1, <1>2, <1>4 DEF OneLine
  <1>7. Intact'
    BY <1>1 DEF ConsoleInv, Intact
  <1> QED
    BY <1>5, <1>6, <1>7 DEF ConsoleInv

LEMMA TypeBurstStep ==
  ASSUME ConsoleInv, NEW s \in Bursts(Typeable), TypeBurst(s)
  PROVE  ConsoleInv'
  <1>1. UNCHANGED <<pipe, pipe_io, pipe_cb_func, pipe_ends, callback, cli_buf_ix, queued,
                    line, awaiting, stars>> /\ pipe
    BY DEF TypeBurst, piping, task, lines
  <1>2. s \in Seq(Char) /\ Len(s) \in Nat /\ Len(s) <= CLI_BUF_LEN
    <2>1. s \in Seq(Typeable) /\ Len(s) \in Nat /\ Len(s) <= CLI_BUF_LEN
      BY BurstSeq
    <2>2. Typeable \subseteq Char
      BY DEF Char
    <2> QED
      BY <2>1, <2>2
  <1>3. typing' = [on |-> TRUE, i |-> 0, len |-> Len(s)] /\ burst' = s
    BY DEF TypeBurst
  <1>4. \A k \in 1 .. Len(s) : cli_buf'[k - 1] = s[k]
    <2> SUFFICES ASSUME NEW k \in 1 .. Len(s) PROVE cli_buf'[k - 1] = s[k]
      OBVIOUS
    <2>1. k - 1 \in Indices /\ k - 1 \in 0 .. 0 + Len(s) - 1
      BY <1>2 DEF Indices
    <2>2. cli_buf' = Put(cli_buf, 0, s)
      BY DEF TypeBurst
    <2>3. cli_buf'[k - 1] = s[k - 1 - 0 + 1]
      BY <2>1, <2>2 DEF Put
    <2>4. k - 1 - 0 + 1 = k
      OBVIOUS
    <2> QED
      BY <2>3, <2>4
  <1>5. CallbacksHeld' /\ OneLine' /\ Restorable'
    BY <1>1 DEF ConsoleInv, CallbacksHeld, OneLine, Restorable
  <1>6. Intact'
    BY <1>2, <1>3, <1>4 DEF Intact
  <1>7. StarsCounted'
    <2>1. ~mixed' => ~mixed
      BY DEF TypeBurst
    <2> QED
      BY <1>1, <2>1 DEF ConsoleInv, StarsCounted
  <1> QED
    BY <1>5, <1>6, <1>7 DEF ConsoleInv

LEMMA SendCharStep == ConsoleInv /\ SendChar => ConsoleInv'
  <1> SUFFICES ASSUME ConsoleInv, SendChar PROVE ConsoleInv'
    OBVIOUS
  <1>1. /\ UNCHANGED <<cli_buf, pipe_io, pipe_cb_func, queued, line, awaiting, burst, mixed>>
        /\ typing.on /\ typing.i < typing.len
    BY DEF SendChar, task, lines
  <1>2. typing' = [typing EXCEPT !.i = @ + 1]
    BY DEF SendChar
  <1>3. \/ Leave
        \/ UNCHANGED <<pipe, callback, cli_buf_ix>>
    BY Zenon DEF SendChar
  <1>4. pipe_cb_func = "own" /\ pipe_io \in PORTS /\ pipe \in BOOLEAN
        /\ callback \in [PORTS -> Callbacks]
    BY <1>1 DEF ConsoleInv, Restorable
  <1>5. CallbacksHeld' /\ Restorable'
    <2>1. CASE Leave
      <3>1. pipe' = FALSE /\ callback' = [callback EXCEPT ![pipe_io] = "own"]
        BY <2>1, <1>4 DEF Leave
      <3>2. \A io \in PORTS : callback'[io] = "own"
        BY <3>1, <1>4 DEF ConsoleInv, CallbacksHeld, Callbacks
      <3>3. callback' \in [PORTS -> Callbacks]
        BY <3>1, <1>4 DEF Callbacks
      <3> QED
        BY <3>1, <3>2, <3>3, <1>1, <1>4 DEF CallbacksHeld, Restorable
    <2>2. CASE UNCHANGED <<pipe, callback, cli_buf_ix>>
      BY <2>2, <1>1, <1>4 DEF ConsoleInv, CallbacksHeld, Restorable
    <2> QED
      BY <1>3, <2>1, <2>2
  <1>6. OneLine'
    BY <1>1, <1>3 DEF ConsoleInv, OneLine, Leave
  <1>7. Intact'
    BY <1>1, <1>2 DEF ConsoleInv, Intact
  <1>8. stars \in Nat /\ pipe_ends \in Nat
    BY DEF ConsoleInv, StarsCounted
  <1>9. stars' = IF burst[typing.i + 1] = Star THEN UpToThree(stars + 1) ELSE 0
    BY DEF SendChar
  <1>10. pipe_ends' = IF cli_buf[typing.i] = Star THEN UpToThree(pipe_ends + 1) ELSE 0
    BY DEF SendChar
  <1>11. ~mixed => cli_buf[typing.i] = burst[typing.i + 1]
    <2>1. typing.i + 1 \in 1 .. typing.len /\ (typing.i + 1) - 1 = typing.i
      BY <1>1 DEF ConsoleInv, Intact
    <2>2. ~mixed => cli_buf[(typing.i + 1) - 1] = burst[typing.i + 1]
      BY <1>1, <2>1 DEF ConsoleInv, Intact
    <2> QED
      BY <2>1, <2>2
  <1>12. StarsCounted'
    <2>1. stars' \in Nat /\ pipe_ends' \in Nat
      BY <1>8, <1>9, <1>10 DEF UpToThree
    <2>2. ASSUME pipe', ~mixed' PROVE stars' <= pipe_ends' /\ stars' < 3
      <3>1. pipe /\ ~mixed
        BY <2>2, <1>1, <1>3 DEF Leave
      <3>2. stars <= pipe_ends /\ stars < 3
        BY <3>1 DEF ConsoleInv, StarsCounted
      <3>3. CASE cli_buf[typing.i] = Star
        <4>1. IF pipe_ends + 1 >= Ends THEN Leave
              ELSE UNCHANGED <<pipe, callback, cli_buf_ix>>
          BY <3>3, Zenon DEF SendChar
        <4>2. ~Leave
          BY <2>2 DEF Leave
        <4>3. ~(pipe_ends + 1 >= Ends)
          BY <4>1, <4>2, Zenon
        <4>4. pipe_ends + 1 < 3
          BY <4>3, <1>8 DEF Ends
        <4> QED
          BY <4>4, <3>1, <3>2, <3>3, <1>8, <1>9, <1>10, <1>11 DEF UpToThree
      <3>4. CASE cli_buf[typing.i] # Star
        BY <3>1, <3>4, <1>9, <1>10, <1>11
      <3> QED
        BY <3>3, <3>4
    <2> QED
      BY <2>1, <2>2 DEF StarsCounted
  <1> QED
    BY <1>5, <1>6, <1>7, <1>12 DEF ConsoleInv

LEMMA SendEndStep == ConsoleInv /\ SendEnd => ConsoleInv'
  <1> SUFFICES ASSUME ConsoleInv, SendEnd PROVE ConsoleInv'
    OBVIOUS
  <1>1. UNCHANGED <<pipe, pipe_io, pipe_cb_func, pipe_ends, callback, cli_buf_ix, queued,
                    line, awaiting, stars, mixed>> /\ typing' = NotTyping
    BY DEF SendEnd, buffers, piping, task, lines
  <1>2. CallbacksHeld' /\ OneLine' /\ Restorable' /\ StarsCounted'
    BY <1>1 DEF ConsoleInv, CallbacksHeld, OneLine, Restorable, StarsCounted, NotTyping
  <1>3. Intact'
    BY <1>1 DEF Intact, NotTyping
  <1> QED
    BY <1>2, <1>3 DEF ConsoleInv

LEMMA HearBurstStep ==
  ASSUME ConsoleInv, NEW io \in PORTS, NEW s \in Bursts(Said), HearBurst(io, s)
  PROVE  ConsoleInv'
  <1>1. UNCHANGED <<pipe, pipe_io, pipe_cb_func, pipe_ends, callback, cli_buf_ix, queued,
                    line, awaiting, stars, typing, burst>>
    BY DEF HearBurst, piping, task, lines, sending
  <1>2. mixed' = (mixed \/ typing.on)
    BY DEF HearBurst
  <1>3. CallbacksHeld' /\ OneLine' /\ Restorable'
    BY <1>1 DEF ConsoleInv, CallbacksHeld, OneLine, Restorable
  <1>4. Intact'
    BY <1>1, <1>2 DEF ConsoleInv, Intact
  <1>5. StarsCounted'
    BY <1>1, <1>2 DEF ConsoleInv, StarsCounted
  <1> QED
    BY <1>3, <1>4, <1>5 DEF ConsoleInv

LEMMA f_pipeStep == ConsoleInv /\ f_pipe => ConsoleInv'
  <1> SUFFICES ASSUME ConsoleInv, f_pipe PROVE ConsoleInv'
    OBVIOUS
  <1>1. /\ line # <<>> /\ line[1].io \in PORTS /\ ~typing.on
        /\ UNCHANGED <<cli_buf_ix, queued, typing, burst, pipe_ends>>
        /\ pipe_io' = line[1].io /\ pipe' = TRUE /\ stars' = 0 /\ mixed' = FALSE
        /\ line' = <<>>
    BY DEF f_pipe, IsPipe, Interrupted, Answer, buffers, sending
  <1>2. ~pipe /\ queued = 0
    BY <1>1 DEF ConsoleInv, OneLine
  <1>3. callback \in [PORTS -> Callbacks] /\ \A io \in PORTS : callback[io] = "own"
    BY <1>2 DEF ConsoleInv, CallbacksHeld, Restorable, Callbacks
  <1>4. pipe_cb_func' = "own" /\ callback' = [callback EXCEPT ![pipe_io'] = "cli_pipe"]
    BY <1>1, <1>3 DEF f_pipe
  <1>5. CallbacksHeld' /\ Restorable'
    BY <1>1, <1>3, <1>4 DEF CallbacksHeld, Restorable, Callbacks
  <1>6. OneLine'
    BY <1>1, <1>2 DEF ConsoleInv, OneLine
  <1>7. Intact' /\ StarsCounted'
    BY <1>1 DEF ConsoleInv, Intact, StarsCounted
  <1> QED
    BY <1>5, <1>6, <1>7 DEF ConsoleInv

LEMMA TaskLineStep == ConsoleInv /\ (Parse \/ OtherCommand) => ConsoleInv'
  <1> SUFFICES ASSUME ConsoleInv, Parse \/ OtherCommand PROVE ConsoleInv'
    OBVIOUS
  <1>1. UNCHANGED <<pipe, pipe_io, pipe_cb_func, pipe_ends, callback, cli_buf, cli_buf_ix,
                    typing, burst, stars, mixed>>
    BY DEF Parse, OtherCommand, piping, buffers, sending
  <1>2. CallbacksHeld' /\ Restorable' /\ Intact' /\ StarsCounted'
    BY <1>1 DEF ConsoleInv, CallbacksHeld, Restorable, Intact, StarsCounted
  <1>3. CASE Parse
    <2>1. queued > 0 /\ queued' = 0 /\ awaiting' = awaiting
      BY <1>3 DEF Parse, lines
    <2> QED
      BY <2>1, <1>1, <1>2 DEF ConsoleInv, OneLine
  <1>4. CASE OtherCommand
    <2>1. line # <<>> /\ line' = <<>> /\ queued' = queued
      BY <1>4 DEF OtherCommand, Answer
    <2> QED
      BY <2>1, <1>1, <1>2 DEF ConsoleInv, OneLine
  <1> QED
    BY <1>3, <1>4

\* Printing touches only what is printed.
LEMMA PrintStep == ConsoleInv /\ (PortStep \/ UNCHANGED vars) => ConsoleInv'
  <1> SUFFICES ASSUME ConsoleInv, PortStep \/ UNCHANGED vars PROVE ConsoleInv'
    OBVIOUS
  <1>1. UNCHANGED <<pipe, pipe_io, pipe_cb_func, pipe_ends, callback, cli_buf, cli_buf_ix,
                    queued, line, awaiting, typing, burst, stars, mixed>>
    BY DEF PortStep, PrintChar, PrintEnd, vars, piping, buffers, sending, task, lines
  <1> QED
    BY <1>1
    DEF ConsoleInv, CallbacksHeld, OneLine, Restorable, Intact, StarsCounted

LEMMA ConsoleInvariance == Spec => []ConsoleInv
  <1>1. ConsoleInv /\ [Next]_vars => ConsoleInv'
    BY LineBurstStep, TypeBurstStep, SendCharStep, SendEndStep, HearBurstStep, f_pipeStep,
       TaskLineStep, PrintStep
    DEF Next, ConsoleStep, TaskStep
  <1> QED
    BY <1>1, InitInv, PTL DEF Spec

\* A pipe's port has the pipe's callback and every other port its own, and after
\* the pipe its own again (cli.c:930-936, 1288-1295), for any number of ports
\* and whichever interrupt preempts the other.
THEOREM CallbacksRestored == Spec => []CallbacksHeld
  <1>1. ConsoleInv => CallbacksHeld
    BY DEF ConsoleInv
  <1> QED
    BY <1>1, ConsoleInvariance, PTL

\* Three stars typed in a row leave the pipe (cli.c:1309-1314), however they are
\* cut into bursts, if no port was heard within one.
THEOREM ThreeStarsSuffice == Spec => []StarsEnd
  <1>1. ConsoleInv => StarsEnd
    BY DEF ConsoleInv, StarsCounted, StarsEnd
  <1> QED
    BY <1>1, ConsoleInvariance, PTL

-------------------------------------------------------------------------------
(* What is typed is run, and what is said is printed: the invariant.          *)

\* What is in the buffer was typed; while a line is under way or a pipe is open
\* nothing else is.
Collected ==
    /\ cli_buf \in [Indices -> Char] /\ cli_buf_ix \in Indices
    /\ typed \in Seq(Char) /\ typed = Front(cli_buf, cli_buf_ix)
    /\ awaiting \/ pipe \/ typing.on => cli_buf_ix = 0

\* The line the task is to take apart, or has taken apart, is the one that was typed.
Handed ==
    /\ queued > 0 => Front(cli_pars_buf, queued) = submitted
    /\ line # <<>> => line = submitted

\* Of a burst as much was sent as the loop has gone through.
SentSoFar ==
    /\ ~typing.on => carried = <<>>
    /\ typing.on => typing.i <= typing.len
    /\ typing.on /\ ~mixed =>
          carried = [k \in 1 .. typing.i |-> [io |-> pipe_io, char |-> burst[k]]]

\* Of what the port said as much was printed; no burst is being typed meanwhile, and
\* the pipe is open.
PrintedSoFar ==
    /\ hearing \in [on : BOOLEAN, io : PORTS \cup {IOSTD}, i : Nat, len : Nat]
    /\ ~hearing.on => said = <<>> /\ printed = <<>>
    /\ hearing.on /\ ~mixed =>
          /\ pipe /\ ~typing.on
          /\ said \in Seq(Char) /\ hearing.len = Len(said) /\ hearing.len <= CLI_BUF_LEN
          /\ \A k \in 1 .. hearing.len : cli_buf[k - 1] = said[k]
          /\ hearing.i \in 0 .. hearing.len
          /\ printed = [k \in 1 .. hearing.i |-> said[k]]

CarryInv == Collected /\ Handed /\ SentSoFar /\ PrintedSoFar

LEMMA FrontSeq ==
  ASSUME NEW buf \in [Indices -> Char], NEW n \in 0 .. CLI_BUF_LEN
  PROVE  Front(buf, n) \in Seq(Char) /\ Len(Front(buf, n)) = n
  <1>1. n \in Nat /\ \A k \in 1 .. n : k - 1 \in Indices
    BY DEF Indices
  <1>2. Front(buf, n) \in [1 .. n -> Char]
    BY <1>1 DEF Front
  <1> QED
    BY <1>1, <1>2

LEMMA FrontNone == ASSUME NEW buf PROVE Front(buf, 0) = <<>>
  BY DEF Front

LEMMA PutType ==
  ASSUME NEW buf \in [Indices -> Char], NEW at \in Nat, NEW s \in Seq(Char)
  PROVE  Put(buf, at, s) \in [Indices -> Char]
  <1>1. ASSUME NEW k \in Indices, k \in at .. at + Len(s) - 1 PROVE s[k - at + 1] \in Char
    <2>1. k - at + 1 \in 1 .. Len(s)
      BY <1>1 DEF Indices
    <2> QED
      BY <2>1
  <1> QED
    BY <1>1 DEF Put

\* What IO_get_buf puts behind what is there.
LEMMA PutAfter ==
  ASSUME NEW buf \in [Indices -> Char], NEW at \in Nat, NEW s \in Seq(Char),
         NEW n \in 0 .. Len(s), at + n <= CLI_BUF_LEN
  PROVE  Front(Put(buf, at, s), at + n) = Front(buf, at) \o SubSeq(s, 1, n)
  <1> DEFINE f == Front(Put(buf, at, s), at + n)
             g == Front(buf, at) \o SubSeq(s, 1, n)
  <1>1. n \in Nat /\ Len(s) \in Nat /\ at \in 0 .. CLI_BUF_LEN /\ at + n \in Nat
    OBVIOUS
  <1>2. Front(buf, at) \in Seq(Char) /\ Len(Front(buf, at)) = at
    BY <1>1, FrontSeq
  <1>3. SubSeq(s, 1, n) \in Seq(Char) /\ Len(SubSeq(s, 1, n)) = n
    BY <1>1
  <1>4. g \in Seq(Char) /\ Len(g) = at + n
    BY <1>2, <1>3
  <1>5. g = [k \in 1 .. at + n |-> g[k]]
    BY <1>4
  <1>6. ASSUME NEW k \in 1 .. at + n PROVE g[k] = Put(buf, at, s)[k - 1]
    <2>1. k \in Nat /\ k - 1 \in Nat /\ k - 1 \in Indices
      BY <1>1 DEF Indices
    <2>2. CASE k <= at
      <3>1. g[k] = Front(buf, at)[k]
        BY <1>2, <1>3, <2>1, <2>2
      <3>2. Front(buf, at)[k] = buf[k - 1]
        BY <2>1, <2>2 DEF Front
      <3>3. k - 1 \notin at .. at + Len(s) - 1
        BY <2>1, <2>2
      <3> QED
        BY <2>1, <3>1, <3>2, <3>3 DEF Put
    <2>3. CASE k > at
      <3>1. g[k] = SubSeq(s, 1, n)[k - at]
        BY <1>1, <1>2, <1>3, <2>1, <2>3
      <3>2. k - at \in 1 .. n /\ k - at \in 1 .. Len(s)
        BY <1>1, <2>1, <2>3
      <3>3. SubSeq(s, 1, n)[k - at] = s[k - at]
        BY <1>1, <3>2
      <3>4. k - 1 \in at .. at + Len(s) - 1 /\ (k - 1) - at + 1 = k - at
        BY <1>1, <2>1, <2>3, <3>2
      <3>5. Put(buf, at, s)[k - 1] = s[(k - 1) - at + 1]
        BY <2>1, <3>4 DEF Put
      <3> QED
        BY <3>1, <3>3, <3>4, <3>5
    <2>4. k <= at \/ k > at
      BY <2>1
    <2> QED
      BY <2>2, <2>3, <2>4, Zenon
  <1>7. f = [k \in 1 .. at + n |-> Put(buf, at, s)[k - 1]]
    BY DEF Front
  <1> QED
    BY <1>5, <1>6, <1>7

LEMMA PutFront ==
  ASSUME NEW buf, NEW s \in Seq(Char), Len(s) <= CLI_BUF_LEN
  PROVE  /\ Front(Put(buf, 0, s), Len(s)) = s
         /\ \A k \in 1 .. Len(s) : Put(buf, 0, s)[k - 1] = s[k]
  <1>1. \A k \in 1 .. Len(s) : Put(buf, 0, s)[k - 1] = s[k]
    <2> SUFFICES ASSUME NEW k \in 1 .. Len(s) PROVE Put(buf, 0, s)[k - 1] = s[k]
      OBVIOUS
    <2>1. k - 1 \in Indices /\ k - 1 \in 0 .. 0 + Len(s) - 1 /\ (k - 1) - 0 + 1 = k
      BY DEF Indices
    <2>2. Put(buf, 0, s)[k - 1] = s[(k - 1) - 0 + 1]
      BY <2>1 DEF Put
    <2> QED
      BY <2>1, <2>2
  <1>2. s = [k \in 1 .. Len(s) |-> s[k]]
    OBVIOUS
  <1> QED
    BY <1>1, <1>2 DEF Front

LEMMA SaidAreChars == Typeable \subseteq Char /\ Said \subseteq Char /\ Nul \in Char
  BY DEF Char

LEMMA CarryInit == Init => CarryInv
  <1> SUFFICES ASSUME Init PROVE CarryInv
    OBVIOUS
  <1>1. /\ cli_buf = [k \in Indices |-> Nul] /\ cli_buf_ix = 0 /\ queued = 0 /\ line = <<>>
        /\ typed = <<>> /\ typing = NotTyping /\ hearing = NotHearing
        /\ carried = <<>> /\ said = <<>> /\ printed = <<>>
    BY DEF Init
  <1>2. Collected
    BY <1>1, FrontNone, SaidAreChars DEF Collected, Indices
  <1>3. Handed /\ SentSoFar
    BY <1>1 DEF Handed, SentSoFar, NotTyping
  <1>4. PrintedSoFar
    BY <1>1 DEF PrintedSoFar, NotHearing
  <1> QED
    BY <1>2, <1>3, <1>4 DEF CarryInv

\* A burst without an end goes behind what was typed before; with one the line is
\* handed over whole.
LEMMA LineBurstCarries ==
  ASSUME ConsoleInv, CarryInv, NEW s \in Bursts(Typeable), LineBurst(s)
  PROVE  CarryInv'
  <1>1. /\ ~pipe /\ ~typing.on /\ ~awaiting /\ Keeps(s)
        /\ UNCHANGED <<pipe, pipe_io, typing, burst, carried, hearing, said, printed, mixed>>
    BY DEF LineBurst, Keeps, piping, sending, hears
  <1>2. queued = 0 /\ line = <<>>
    BY <1>1 DEF ConsoleInv, OneLine
  <1>3. s \in Seq(Typeable) /\ s \in Seq(Char) /\ Len(s) \in Nat /\ Len(s) > 0
    BY BurstSeq, SaidAreChars
  <1>4. /\ cli_buf \in [Indices -> Char] /\ cli_buf_ix \in Indices
        /\ typed \in Seq(Char) /\ typed = Front(cli_buf, cli_buf_ix)
    BY DEF CarryInv, Collected
  <1>5. cli_buf_ix \in Nat /\ cli_buf_ix + Len(s) <= CLI_BUF_LEN
    BY <1>1, <1>3, <1>4 DEF Keeps, Indices
  <1> DEFINE got  == Put(cli_buf, Place, s)
             ends == {k \in cli_buf_ix .. cli_buf_ix + Len(s) - 1 : got[k] = LF}
             end  == CHOOSE k \in ends : \A j \in ends : k <= j
             last == cli_buf_ix + Len(s) - 1
  <1>6. got = Put(cli_buf, cli_buf_ix, s) /\ got \in [Indices -> Char]
    BY <1>3, <1>4, <1>5, PutType DEF Place
  <1>7. SentSoFar'
    BY <1>1 DEF CarryInv, SentSoFar
  <1>8. PrintedSoFar'
    <2>1. ~(hearing.on /\ ~mixed)
      BY <1>1 DEF CarryInv, PrintedSoFar
    <2> QED
      BY <1>1, <2>1 DEF CarryInv, PrintedSoFar
  <1>9. CASE ends = {}
    <2>1. /\ cli_buf' = got /\ cli_buf_ix' = cli_buf_ix + Len(s) /\ typed' = typed \o s
          /\ UNCHANGED <<task, submitted, awaiting>>
      BY <1>9 DEF LineBurst
    <2>2. cli_buf_ix' \in Indices
      <3>1. last \in Indices /\ last \in cli_buf_ix .. cli_buf_ix + Len(s) - 1
        BY <1>3, <1>5 DEF Indices
      <3>2. got[last] = s[last - cli_buf_ix + 1] /\ last - cli_buf_ix + 1 = Len(s)
        BY <1>3, <1>5, <1>6, <3>1 DEF Put
      <3>3. s[Len(s)] # LF
        BY <1>9, <3>1, <3>2
      <3> QED
        BY <1>1, <1>3, <1>5, <2>1, <3>3 DEF Keeps, Indices
    <2>3. typed' = Front(cli_buf', cli_buf_ix')
      <3>1. Front(Put(cli_buf, cli_buf_ix, s), cli_buf_ix + Len(s))
               = Front(cli_buf, cli_buf_ix) \o SubSeq(s, 1, Len(s))
        <4>1. Len(s) \in 0 .. Len(s)
          BY <1>3
        <4> QED
          BY <1>3, <1>4, <1>5, <4>1, PutAfter
      <3>2. SubSeq(s, 1, Len(s)) = s
        BY <1>3
      <3> QED
        BY <1>4, <1>6, <2>1, <3>1, <3>2
    <2>4. typed' \in Seq(Char)
      BY <1>3, <1>4, <2>1
    <2>5. Collected'
      BY <1>1, <1>6, <2>1, <2>2, <2>3, <2>4 DEF Collected
    <2>6. Handed'
      BY <2>1 DEF CarryInv, Handed, task
    <2> QED
      BY <1>7, <1>8, <2>5, <2>6 DEF CarryInv
  <1>10. CASE ends # {}
    <2> DEFINE whole == Front(got, end)
               mine  == SubSeq(s, 1, Len(s) - 1)
    <2>1. /\ cli_buf' = [got EXCEPT ![end] = Nul] /\ cli_buf_ix' = 0 /\ typed' = <<>>
          /\ submitted' = IF typed = <<>> /\ Len(s) = 1 THEN submitted ELSE typed \o mine
          /\ OnLine(whole)
      BY <1>10 DEF LineBurst
    <2>2. end \in Nat /\ end = last
      BY <1>1, <1>3, <1>5, <1>10, EndIsLast
    <2> HIDE DEF got, ends, end, whole, mine
    <2>3. Collected'
      <3>1. cli_buf' \in [Indices -> Char]
        BY <1>6, <2>1, SaidAreChars
      <3> QED
        BY <2>1, <3>1, FrontNone DEF Collected, Indices
    <2>4. whole = typed \o mine /\ whole \in Seq(Char) /\ Len(whole) = end
      <3>1. end = cli_buf_ix + (Len(s) - 1) /\ Len(s) - 1 \in 0 .. Len(s)
            /\ cli_buf_ix + (Len(s) - 1) <= CLI_BUF_LEN /\ end \in 0 .. CLI_BUF_LEN
        BY <1>3, <1>5, <2>2
      <3>2. Front(Put(cli_buf, cli_buf_ix, s), cli_buf_ix + (Len(s) - 1))
               = Front(cli_buf, cli_buf_ix) \o SubSeq(s, 1, Len(s) - 1)
        <4>1. PICK n \in 0 .. Len(s) : n = Len(s) - 1
          BY <3>1
        <4>2. cli_buf_ix + n <= CLI_BUF_LEN
          BY <3>1, <4>1
        <4>3. Front(Put(cli_buf, cli_buf_ix, s), cli_buf_ix + n)
                 = Front(cli_buf, cli_buf_ix) \o SubSeq(s, 1, n)
          BY <1>3, <1>4, <1>5, <4>2, PutAfter
        <4> QED
          BY <4>1, <4>3
      <3>3. whole = typed \o mine
        BY <1>4, <1>6, <3>1, <3>2 DEF whole, mine
      <3> QED
        BY <1>6, <3>1, <3>3, FrontSeq DEF whole
    <2>5. Handed'
      <3>1. CASE whole = <<>>
        BY <1>2, <2>1, <3>1 DEF OnLine, Handed, task
      <3>2. CASE whole # <<>>
        <4>1. cli_pars_buf' = Put(cli_pars_buf, 0, whole) /\ queued' = Len(whole) /\ line' = <<>>
          BY <1>2, <2>1, <3>2 DEF OnLine
        <4>2. Len(whole) <= CLI_BUF_LEN
          BY <1>3, <1>5, <2>2, <2>4
        <4>3. Front(cli_pars_buf', queued') = whole
          BY <2>4, <4>1, <4>2, PutFront
        <4>4. submitted' = whole
          <5>1. ~(typed = <<>> /\ Len(s) = 1)
            <6>1. ASSUME typed = <<>>, Len(s) = 1 PROVE FALSE
              <7>1. Len(typed) = cli_buf_ix
                BY <1>4, <1>5, FrontSeq
              <7>2. Len(whole) = 0
                BY <1>5, <2>2, <2>4, <6>1, <7>1
              <7> QED
                BY <2>4, <3>2, <7>2
            <6> QED
              BY <6>1
          <5> QED
            BY <2>1, <2>4, <5>1
        <4> QED
          BY <4>1, <4>3, <4>4 DEF Handed
      <3> QED
        BY <3>1, <3>2
    <2> QED
      BY <1>7, <1>8, <2>3, <2>5 DEF CarryInv
  <1> QED
    BY <1>9, <1>10

LEMMA TypeBurstCarries ==
  ASSUME ConsoleInv, CarryInv, NEW s \in Bursts(Typeable), TypeBurst(s)
  PROVE  CarryInv'
  <1>1. /\ pipe /\ cli_buf' = Put(cli_buf, 0, s) /\ carried' = <<>>
        /\ typing' = [on |-> TRUE, i |-> 0, len |-> Len(s)] /\ mixed' = (mixed \/ hearing.on)
        /\ UNCHANGED <<pipe, cli_buf_ix, typed, awaiting, queued, line, cli_pars_buf,
                       submitted, hearing, said, printed>>
    BY DEF TypeBurst, task, lines, hears, piping
  <1>2. cli_buf_ix = 0 /\ s \in Seq(Char) /\ Len(s) \in Nat
    BY <1>1, BurstSeq, SaidAreChars DEF CarryInv, Collected
  <1>3. Collected'
    <2>1. cli_buf' \in [Indices -> Char]
      BY <1>1, <1>2, PutType DEF CarryInv, Collected
    <2> QED
      BY <1>1, <1>2, <2>1, FrontNone DEF CarryInv, Collected
  <1>4. Handed'
    BY <1>1 DEF CarryInv, Handed
  <1>5. SentSoFar'
    BY <1>1, <1>2 DEF SentSoFar
  <1>6. PrintedSoFar'
    BY <1>1 DEF CarryInv, PrintedSoFar
  <1> QED
    BY <1>3, <1>4, <1>5, <1>6 DEF CarryInv

\* The character sent is the one typed, when nothing was put over it.
LEMMA SendCharCarries ==
  ASSUME ConsoleInv, CarryInv, SendChar PROVE CarryInv'
  <1>1. /\ typing.on /\ typing.i < typing.len
        /\ carried' = Append(carried, [io |-> pipe_io, char |-> cli_buf[typing.i]])
        /\ typing' = [typing EXCEPT !.i = @ + 1]
        /\ UNCHANGED <<cli_buf, cli_pars_buf, queued, line, pipe_io, typed, submitted,
                       awaiting, burst, hearing, said, printed, mixed>>
    BY DEF SendChar, Forward, task, lines, hears
  <1>2. typing \in [on : BOOLEAN, i : Nat, len : Nat]
    BY DEF ConsoleInv, Intact
  <1>3. typing'.on /\ typing'.i = typing.i + 1 /\ typing'.len = typing.len
    BY <1>1, <1>2
  <1>4. Collected'
    <2>1. cli_buf_ix = 0
      BY <1>1 DEF CarryInv, Collected
    <2>2. cli_buf_ix' = 0
      BY <2>1, Zenon DEF SendChar, Leave
    <2> QED
      BY <1>1, <2>1, <2>2 DEF CarryInv, Collected
  <1>5. Handed'
    BY <1>1 DEF CarryInv, Handed
  <1>6. PrintedSoFar'
    <2>1. ~(hearing.on /\ ~mixed)
      BY <1>1 DEF CarryInv, PrintedSoFar
    <2> QED
      BY <1>1, <2>1 DEF CarryInv, PrintedSoFar
  <1>7. SentSoFar'
    <2>1. typing'.i <= typing'.len
      BY <1>1, <1>2, <1>3
    <2>2. ASSUME ~mixed
          PROVE  carried' = [k \in 1 .. typing'.i |-> [io |-> pipe_io, char |-> burst[k]]]
      <3> DEFINE i == typing.i
                 f(k) == [io |-> pipe_io, char |-> burst[k]]
      <3>1. i \in Nat /\ carried = [k \in 1 .. i |-> f(k)]
        BY <1>1, <1>2, <2>2 DEF CarryInv, SentSoFar
      <3>2. cli_buf[i] = burst[i + 1]
        <4>1. i + 1 \in 1 .. typing.len /\ (i + 1) - 1 = i
          BY <1>1, <1>2
        <4>2. \A k \in 1 .. typing.len : cli_buf[k - 1] = burst[k]
          BY <1>1, <2>2 DEF ConsoleInv, Intact
        <4>3. cli_buf[(i + 1) - 1] = burst[i + 1]
          BY <4>1, <4>2
        <4> QED
          BY <4>1, <4>3
      <3>3. carried' = Append([k \in 1 .. i |-> f(k)], f(i + 1))
        BY <1>1, <3>1, <3>2
      <3> HIDE DEF f, i
      <3>4. Append([k \in 1 .. i |-> f(k)], f(i + 1)) = [k \in 1 .. i + 1 |-> f(k)]
        BY <3>1
      <3>5. carried' = [k \in 1 .. typing.i + 1 |-> f(k)]
        BY <3>3, <3>4 DEF i
      <3> QED
        BY <1>3, <3>5 DEF f
    <2> QED
      BY <1>1, <1>3, <2>1, <2>2 DEF SentSoFar
  <1> QED
    BY <1>4, <1>5, <1>6, <1>7 DEF CarryInv

LEMMA HearBurstCarries ==
  ASSUME ConsoleInv, CarryInv, NEW io \in PORTS, NEW s \in Bursts(Said), HearBurst(io, s)
  PROVE  CarryInv'
  <1>1. /\ callback[io] = "cli_pipe" /\ cli_buf' = Put(cli_buf, cli_buf_ix, s)
        /\ hearing' = [on |-> TRUE, io |-> io, i |-> cli_buf_ix, len |-> Len(s)]
        /\ said' = s /\ printed' = <<>> /\ mixed' = (mixed \/ typing.on)
        /\ UNCHANGED <<cli_buf_ix, cli_pars_buf, queued, line, pipe, pipe_io, typed,
                       submitted, awaiting, typing, burst, carried>>
    BY DEF HearBurst, task, lines, sending, piping
  <1>2. pipe /\ cli_buf_ix = 0
    BY <1>1 DEF ConsoleInv, CallbacksHeld, CarryInv, Collected
  <1>3. s \in Seq(Char) /\ Len(s) \in Nat /\ Len(s) <= CLI_BUF_LEN
    BY BurstSeq, SaidAreChars
  <1>4. Collected'
    <2>1. cli_buf' \in [Indices -> Char]
      BY <1>1, <1>2, <1>3, PutType DEF CarryInv, Collected
    <2> QED
      BY <1>1, <1>2, <2>1, FrontNone DEF CarryInv, Collected
  <1>5. Handed' /\ SentSoFar'
    BY <1>1 DEF CarryInv, Handed, SentSoFar
  <1>6. PrintedSoFar'
    <2>1. \A k \in 1 .. Len(s) : cli_buf'[k - 1] = s[k]
      BY <1>1, <1>2, <1>3, PutFront
    <2>2. hearing' \in [on : BOOLEAN, io : PORTS \cup {IOSTD}, i : Nat, len : Nat]
      BY <1>1, <1>2, <1>3
    <2>3. hearing'.i = 0 /\ hearing'.len = Len(s) /\ hearing'.on
      BY <1>1, <1>2
    <2>4. printed' = [k \in 1 .. 0 |-> said'[k]]
      BY <1>1
    <2>5. ~mixed' => ~typing.on
      BY <1>1
    <2> QED
      BY <1>1, <1>2, <1>3, <2>1, <2>2, <2>3, <2>4, <2>5 DEF PrintedSoFar
  <1> QED
    BY <1>4, <1>5, <1>6 DEF CarryInv

LEMMA PrintCharCarries ==
  ASSUME ConsoleInv, CarryInv, PrintChar PROVE CarryInv'
  <1>1. /\ hearing.on /\ hearing.i < cli_buf_ix + hearing.len
        /\ hearing' = [hearing EXCEPT !.i = @ + 1]
        /\ UNCHANGED <<cli_buf, cli_buf_ix, cli_pars_buf, queued, line, pipe, pipe_io, typed,
                       submitted, awaiting, typing, burst, carried, said, mixed>>
    BY DEF PrintChar, buffers, task, lines, sending, piping
  <1>2. hearing \in [on : BOOLEAN, io : PORTS \cup {IOSTD}, i : Nat, len : Nat]
    BY DEF CarryInv, PrintedSoFar
  <1>3. Collected' /\ Handed' /\ SentSoFar'
    BY <1>1 DEF CarryInv, Collected, Handed, SentSoFar
  <1>4. /\ hearing' \in [on : BOOLEAN, io : PORTS \cup {IOSTD}, i : Nat, len : Nat]
        /\ hearing'.on /\ hearing'.i = hearing.i + 1 /\ hearing'.len = hearing.len
    BY <1>1, <1>2
  <1>5. ASSUME ~mixed
        PROVE  /\ hearing'.i \in 0 .. hearing.len
               /\ printed' = [k \in 1 .. hearing'.i |-> said[k]]
    <2> DEFINE i == hearing.i
    <2>1. /\ pipe /\ i \in Nat /\ printed = [k \in 1 .. i |-> said[k]]
          /\ hearing.len <= CLI_BUF_LEN
          /\ \A k \in 1 .. hearing.len : cli_buf[k - 1] = said[k]
      BY <1>1, <1>2, <1>5 DEF CarryInv, PrintedSoFar
    <2>2. cli_buf_ix = 0
      BY <2>1 DEF CarryInv, Collected
    <2>3. i < hearing.len /\ i \in Indices
      BY <1>1, <1>2, <2>1, <2>2 DEF Indices
    <2>4. cli_buf[i] = said[i + 1]
      <3>1. i + 1 \in 1 .. hearing.len /\ (i + 1) - 1 = i
        BY <1>2, <2>1, <2>3
      <3>2. cli_buf[(i + 1) - 1] = said[i + 1]
        BY <2>1, <3>1
      <3> QED
        BY <3>1, <3>2
    <2>5. printed' = Append(printed, cli_buf[i])
      BY <2>3 DEF PrintChar
    <2>6. printed' = Append([k \in 1 .. i |-> said[k]], said[i + 1])
      BY <2>1, <2>4, <2>5
    <2>7. printed' = [k \in 1 .. i + 1 |-> said[k]]
      <3> DEFINE f(k) == said[k]
      <3> HIDE DEF f, i
      <3>1. Append([k \in 1 .. i |-> f(k)], f(i + 1)) = [k \in 1 .. i + 1 |-> f(k)]
        BY <2>1
      <3> QED
        BY <2>6, <3>1 DEF f
    <2>8. hearing'.i \in 0 .. hearing.len
      BY <1>2, <1>4, <2>1, <2>3
    <2> QED
      BY <1>4, <2>7, <2>8
  <1>6. PrintedSoFar'
    BY <1>1, <1>4, <1>5 DEF CarryInv, PrintedSoFar
  <1> QED
    BY <1>3, <1>6 DEF CarryInv

\* The steps that touch neither the buffer nor what a burst has brought; f_pipe runs
\* only when no burst is under way.
LEMMA OthersCarry ==
  ASSUME ConsoleInv, CarryInv, PrintEnd \/ SendEnd \/ TaskStep \/ UNCHANGED vars
  PROVE  CarryInv'
  <1>1. UNCHANGED <<cli_buf, cli_buf_ix, typed, submitted, cli_pars_buf>>
    BY DEF PrintEnd, SendEnd, TaskStep, Parse, f_pipe, OtherCommand, vars, buffers, lines, task
  <1>2. CASE PrintEnd \/ UNCHANGED vars
    <2>1. /\ UNCHANGED <<pipe, pipe_io, awaiting, queued, line, typing, burst, carried, mixed>>
          /\ \/ hearing' = NotHearing /\ said' = <<>> /\ printed' = <<>>
             \/ UNCHANGED <<hearing, said, printed>>
      BY <1>2 DEF PrintEnd, vars, piping, lines, task, sending, hears
    <2>2. Collected' /\ Handed' /\ SentSoFar'
      BY <1>1, <2>1 DEF CarryInv, Collected, Handed, SentSoFar
    <2>3. PrintedSoFar'
      <3>1. CASE hearing' = NotHearing /\ said' = <<>> /\ printed' = <<>>
        BY <3>1 DEF PrintedSoFar, NotHearing
      <3>2. CASE UNCHANGED <<hearing, said, printed>>
        BY <1>1, <2>1, <3>2 DEF CarryInv, PrintedSoFar
      <3> QED
        BY <2>1, <3>1, <3>2
    <2> QED
      BY <2>2, <2>3 DEF CarryInv
  <1>3. CASE SendEnd
    <2>1. /\ typing.on /\ typing' = NotTyping /\ carried' = <<>>
          /\ UNCHANGED <<pipe, awaiting, queued, line, hearing, said, printed, mixed>>
      BY <1>3 DEF SendEnd, piping, lines, task, hears
    <2>2. Collected' /\ Handed' /\ SentSoFar'
      BY <1>1, <2>1 DEF CarryInv, Collected, Handed, SentSoFar, NotTyping
    <2>3. PrintedSoFar'
      BY <1>1, <2>1 DEF CarryInv, PrintedSoFar, NotTyping
    <2> QED
      BY <2>2, <2>3 DEF CarryInv
  <1>4. CASE Parse
    <2>1. /\ queued > 0 /\ line' = Front(cli_pars_buf, queued) /\ queued' = 0
          /\ UNCHANGED <<pipe, pipe_io, awaiting, hearing, said, printed, mixed, typing, burst,
                         carried>>
      BY <1>4 DEF Parse, piping, lines, hears, sending
    <2>2. Collected' /\ Handed' /\ SentSoFar' /\ PrintedSoFar'
      BY <1>1, <2>1 DEF CarryInv, Collected, Handed, SentSoFar, PrintedSoFar
    <2> QED
      BY <2>2 DEF CarryInv
  <1>5. CASE f_pipe \/ OtherCommand
    <2>1. /\ line # <<>> /\ line' = <<>> /\ ~awaiting' /\ ~typing.on /\ ~hearing.on
          /\ UNCHANGED <<queued, typing, hearing, carried, said, printed>>
      BY <1>5 DEF f_pipe, OtherCommand, IsPipe, Answer, Interrupted, sending, hears
    <2>2. cli_buf_ix = 0 /\ queued = 0
      BY <2>1 DEF ConsoleInv, OneLine, CarryInv, Collected
    <2>3. Collected' /\ Handed'
      BY <1>1, <2>1, <2>2 DEF CarryInv, Collected, Handed
    <2>4. SentSoFar' /\ PrintedSoFar'
      BY <2>1 DEF CarryInv, SentSoFar, PrintedSoFar
    <2> QED
      BY <2>3, <2>4 DEF CarryInv
  <1> QED
    BY <1>2, <1>3, <1>4, <1>5 DEF TaskStep

LEMMA CarryInvariance == Spec => [](ConsoleInv /\ CarryInv)
  <1>1. ConsoleInv /\ CarryInv /\ [Next]_vars => CarryInv'
    BY LineBurstCarries, TypeBurstCarries, SendCharCarries, HearBurstCarries,
       PrintCharCarries, OthersCarry
    DEF Next, ConsoleStep, PortStep
  <1> QED
    BY <1>1, CarryInit, ConsoleInvariance, PTL DEF Spec

\* A line is run as it was typed, for any size of the buffer and of the bursts it
\* comes in, and whatever pipes used the buffer before it (cli.c:1297-1330).
THEOREM LinesAsTyped == Spec => []LineAsTyped
  <1>1. ConsoleInv /\ CarryInv => LineAsTyped
    BY DEF CarryInv, Collected, Handed, LineAsTyped
  <1> QED
    BY <1>1, CarryInvariance, PTL

\* What is typed into a pipe is sent to its port and what the port says is printed, in
\* order and nothing else, until one of the two interrupts the other.
THEOREM PipesCarry == Spec => []PipeCarries
  <1>1. ConsoleInv /\ CarryInv => PipeCarries
    <2> SUFFICES ASSUME ConsoleInv, CarryInv, ~mixed
                 PROVE  /\ \A k \in DOMAIN carried :
                              carried[k] = [io |-> pipe_io, char |-> burst[k]]
                        /\ IsPrefixOf(printed, said)
      BY DEF PipeCarries
    <2>1. typing \in [on : BOOLEAN, i : Nat, len : Nat]
      BY DEF ConsoleInv, Intact
    <2>2. \A k \in DOMAIN carried : carried[k] = [io |-> pipe_io, char |-> burst[k]]
      BY <2>1 DEF CarryInv, SentSoFar
    <2>3. CASE hearing.on
      <3>1. PICK n \in 0 .. Len(said) : printed = [k \in 1 .. n |-> said[k]]
        BY <2>3 DEF CarryInv, PrintedSoFar
      <3>2. said \in Seq(Char) /\ Len(said) \in Nat
        BY <2>3 DEF CarryInv, PrintedSoFar
      <3>3. Len(printed) = n /\ DOMAIN printed = 1 .. n
        BY <3>1, <3>2
      <3> QED
        BY <2>2, <3>1, <3>2, <3>3 DEF IsPrefixOf
    <2>4. CASE ~hearing.on
      <3>1. said = <<>> /\ printed = <<>>
        BY <2>4 DEF CarryInv, PrintedSoFar
      <3> QED
        BY <2>2, <3>1 DEF IsPrefixOf
    <2> QED
      BY <2>3, <2>4
  <1> QED
    BY <1>1, CarryInvariance, PTL
===============================================================================
