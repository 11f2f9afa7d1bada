-------------------------------- MODULE Svideo ---------------------------------
(*****************************************************************************)
(* The video signal (src/src/svideo_test.c): a timer interrupt that steps    *)
(* through 40 states and sets the output and the time to its next call.  A   *)
(* frame is made by two loops over the scan lines; nothing else tells the    *)
(* interrupt where in the frame it is.  The levels of the output, constants  *)
(* of each state but for the two halves of a test picture, are left out.     *)
(*                                                                           *)
(* Times are in ticks of the timer, truncated from nanoseconds as in the     *)
(* code, once for every state.                                               *)
(*****************************************************************************)
EXTENDS Integers

CONSTANTS
    TOP,        \* the first line with a picture, 24 in the code
    BOTTOM      \* the first line behind it, 310 in the code

ASSUME VideoAssumption == TOP \in 7 .. BOTTOM - 1 /\ BOTTOM \in Nat

SCANLINE_NS    == 64000
HSYNC_NS       == 4700
BACKPORCH_NS   == 5700
DISP_TEST_NS   == 20000
FRONTPORCH_NS  == 1650
GAP_NS         == 4700
SHORT_PULSE_NS == 4000
CLK_MHZ        == 168

NS_TO_TICKS(ns) == (ns * CLK_MHZ) \div 1000

VARIABLES
    state, scanline,
    ticks       \* the time to the next call

\* History variables: time since the frame began, and length of the one before.
VARIABLES elapsed, last

videoVars == <<state, scanline, ticks, elapsed, last>>

VideoInit ==
    /\ state = 0 /\ scanline = 0
    /\ ticks = 0
    /\ elapsed = 0 /\ last = 0

Broad  == {s \in 0 .. 9 : s % 2 = 0}
Narrow == {s \in 10 .. 19 \cup 28 .. 39 : s % 2 = 0}

Nanoseconds(s) ==
    CASE s \in Broad -> SCANLINE_NS \div 2 - GAP_NS
      [] s \in 1 .. 9 \ Broad -> GAP_NS
      [] s \in Narrow -> SHORT_PULSE_NS
      [] s \in (11 .. 19 \cup 29 .. 39) \ Narrow -> SCANLINE_NS \div 2 - SHORT_PULSE_NS
      [] s \in {20, 23} -> HSYNC_NS
      [] s = 21 -> SCANLINE_NS - HSYNC_NS - FRONTPORCH_NS
      [] s = 24 -> BACKPORCH_NS
      [] s = 25 -> DISP_TEST_NS
      [] s = 26 -> SCANLINE_NS - DISP_TEST_NS - HSYNC_NS - BACKPORCH_NS - FRONTPORCH_NS
      [] s \in {22, 27} -> FRONTPORCH_NS

\* Mutant: one line more of picture.
LinesUpTo == scanline + 1 <= BOTTOM

MoreLines == scanline + 1 < BOTTOM

\* Where the loops lead: the state that is left, and the line.
Loop ==
    CASE state = 22 -> [from |-> IF scanline + 1 < TOP THEN 19 ELSE 22, line |-> scanline + 1]
      [] state = 27 -> [from |-> IF MoreLines THEN 22 ELSE 27, line |-> scanline + 1]
      [] state \in 11 .. 19 /\ state \notin Narrow -> [from |-> state, line |-> 6]
      [] OTHER -> [from |-> state, line |-> scanline]

SVIDEO_irq ==
    /\ ticks' = NS_TO_TICKS(Nanoseconds(state))
    /\ IF Loop.from + 1 >= 40
       THEN /\ state' = 0 /\ scanline' = 1
            /\ elapsed' = 0 /\ last' = elapsed + ticks'
       ELSE /\ state' = Loop.from + 1 /\ scanline' = Loop.line
            /\ elapsed' = elapsed + ticks'
            /\ UNCHANGED last

VideoSpec == VideoInit /\ [][SVIDEO_irq]_videoVars

-------------------------------------------------------------------------------
LINE == NS_TO_TICKS(SCANLINE_NS)

\* n lines, but for the ticks that truncation takes from them, two a line.
Lasts(t, n) == n * (LINE - 2) <= t /\ t <= n * LINE

\* Every line begins when as many lines as its number says have passed since the
\* frame began, and a frame lasts BOTTOM + 2 lines, the last of which with a picture
\* is BOTTOM - 1: the loops and the three half-line blocks count alike (SVIDEO_irq).
FrameKept ==
    /\ state \in {20, 23, 28} /\ scanline > 0 => Lasts(elapsed, scanline - 1)
    /\ state = 28 => scanline = BOTTOM
    /\ last # 0 => Lasts(last, BOTTOM + 2)
================================================================================
