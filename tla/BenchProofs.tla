------------------------------ MODULE BenchProofs ------------------------------
(*****************************************************************************)
(* The machines that run on their own: the start of the processor, the scan  *)
(* of the I2C bus, the video signal, the camera, the pitch detector and URL  *)
(* coding: proofs, each of its machine's own specification.                  *)
(*****************************************************************************)
EXTENDS Boot, I2cScan, Svideo, Snapshot, Yin, UrlCodec, FiniteSetTheorems, TLAPS

-------------------------------------------------------------------------------
(* The bootloader runs only when it was asked for.                            *)

\* The reason leads to the bootloader only when it was asked for, at every place
\* where it may be between two starts: in the memory, if that is valid, and in
\* main's copy.  A reason that is acted on has been cleared.
Traced ==
    /\ phase \in Phases
    /\ phase = "validated" => valid
    /\ valid /\ reason = "bootloader" => asked
    /\ phase \in {"read", "cleared"} /\ rr = "bootloader" => asked
    /\ phase = "cleared" => reason # "bootloader"

\* A step of the start keeps the trace.
LEMMA MainKeeps == ASSUME Traced, MainStep PROVE Traced'
<1>1. CASE Validate
  BY <1>1 DEF Traced, Validate, Validated, Phases
<1>2. CASE ReadReason
  BY <1>2 DEF Traced, ReadReason, Phases
<1>3. CASE ClearReason
  BY <1>3 DEF Traced, ClearReason, Phases
<1>4. CASE Decide
  BY <1>4 DEF Traced, Decide, Phases
<1>5. CASE RebootResets
  BY <1>5 DEF Traced, RebootResets, Phases
<1> QED
  BY <1>1, <1>2, <1>3, <1>4, <1>5 DEF MainStep

\* So does everything that asks for a start or cuts into one.
LEMMA Keeps == ASSUME Traced, [BootNext]_bootVars PROVE Traced'
<1>1. CASE MainStep
  BY <1>1, MainKeeps
<1>2. ASSUME NEW r \in Reasons, Reboot(r) PROVE Traced'
  BY <1>2 DEF Traced, Reboot, Phases
<1>3. CASE Reset
  BY <1>3 DEF Traced, Reset, Phases
<1>4. CASE Fault
  BY <1>4 DEF Traced, Fault, Phases
<1>5. CASE PowerLoss
  BY <1>5 DEF Traced, PowerLoss, Phases
<1>6. CASE UNCHANGED bootVars
  BY <1>6 DEF Traced, bootVars
<1> QED
  BY <1>1, <1>2, <1>3, <1>4, <1>5, <1>6 DEF BootNext

\* Only Decide runs the bootloader, and it goes by main's copy.
LEMMA OnlyDecide ==
    ASSUME Traced, [BootNext]_bootVars, phase' = "bootloader", phase # "bootloader"
    PROVE  asked
<1>1. CASE MainStep
  BY <1>1 DEF Traced, MainStep, Validate, ReadReason, ClearReason, Decide, RebootResets
<1>2. CASE ~MainStep
  BY <1>2 DEF BootNext, bootVars, Reboot, Reset, Fault, PowerLoss
<1> QED
  BY <1>1, <1>2

\* Whenever the bootloader begins to run it was asked for and has not run since,
\* whatever resets, faults and losses of power came in between.
THEOREM BootloaderOnlyAsked == BootSpec => BootloaderAsked
<1>1. BootInit => Traced
  BY DEF BootInit, Traced, Phases
<1>2. Traced /\ [BootNext]_bootVars => Traced'
  BY Keeps
<1>3. Traced /\ [BootNext]_bootVars
        => [phase' = "bootloader" /\ phase # "bootloader" => asked]_bootVars
  BY OnlyDecide
<1> QED
  BY <1>1, <1>2, <1>3, PTL DEF BootSpec, BootloaderAsked
-------------------------------------------------------------------------------
(* Every address once.                                                        *)

Reported == [addr : Nat, from : Nat]

\* What was reported is every address below the one that comes next.
InOrder ==
    /\ reported \in Seq(Reported)
    /\ \A i \in DOMAIN reported : reported[i] = [addr |-> 2 * (i - 1), from |-> 2 * (i - 1)]
    /\ Len(reported) > 0 => 2 * (Len(reported) - 1) < LAST

\* A scan that nothing cuts into has one address out: the one to be reported next
\* is asked for, or waits with its answer.
OneOut ==
    /\ cli_i2c_scan_addr = 2 * Len(reported)
    /\ \/ asking = cli_i2c_scan_addr /\ reports = <<>>
       \/ asking = -1 /\ reports = <<cli_i2c_scan_addr>>

\* Before the first scan and behind the last report nothing is out.
AllIn == asking = -1 /\ reports = <<>> /\ (reported # <<>> => 2 * Len(reported) >= LAST)

ScanInv == alone => InOrder /\ IF closed THEN AllIn ELSE OneOut

\* One more report, of the address that comes next.
LEMMA ReportKeepsOrder ==
    ASSUME InOrder, NEW a \in Nat, a = 2 * Len(reported), a < LAST,
           reported' = Append(reported, [addr |-> a, from |-> a])
    PROVE  InOrder' /\ Len(reported') = Len(reported) + 1
<1> DEFINE r == [addr |-> a, from |-> a]
<1>1. r \in Reported
  BY DEF Reported
<1>2. reported' = Append(reported, r) /\ reported \in Seq(Reported)
  BY DEF InOrder
<1>3. r = [addr |-> 2 * Len(reported), from |-> 2 * Len(reported)]
  OBVIOUS
<1> HIDE DEF r
<1>4. /\ reported' \in Seq(Reported) /\ Len(reported') = Len(reported) + 1
      /\ DOMAIN reported' = 1 .. Len(reported) + 1
  BY <1>1, <1>2
<1>5. ASSUME NEW i \in DOMAIN reported'
      PROVE  reported'[i] = [addr |-> 2 * (i - 1), from |-> 2 * (i - 1)]
  <2>1. CASE i = Len(reported) + 1
    BY <1>1, <1>2, <1>3, <2>1
  <2>2. CASE i \in DOMAIN reported
    BY <1>1, <1>2, <2>2 DEF InOrder
  <2> QED
    BY <1>2, <1>4, <2>1, <2>2
<1>6. 2 * (Len(reported') - 1) < LAST
  BY <1>2, <1>4
<1> QED
  BY <1>4, <1>5, <1>6 DEF InOrder

LEMMA TaskKeepsScan == ASSUME ScanInv, i2c_scan_report_task PROVE ScanInv'
<1> SUFFICES ASSUME alone PROVE InOrder' /\ IF closed' THEN AllIn' ELSE OneOut'
  BY DEF ScanInv, i2c_scan_report_task
<1>1. ~closed /\ InOrder /\ OneOut
  BY DEF ScanInv, AllIn, i2c_scan_report_task
<1>2. asking = -1 /\ reports = <<cli_i2c_scan_addr>> /\ Len(reported) \in Nat
  BY <1>1 DEF OneOut, InOrder, i2c_scan_report_task
<1>3. reports' = <<>> /\ Head(reports) = cli_i2c_scan_addr
  BY <1>2 DEF i2c_scan_report_task
<1>4. CASE Within
  <2>1. InOrder' /\ Len(reported') = Len(reported) + 1
    BY <1>1, <1>2, <1>3, <1>4, ReportKeepsOrder DEF i2c_scan_report_task, Within, OneOut
  <2>2. cli_i2c_scan_addr' = cli_i2c_scan_addr + 2 /\ asking' = cli_i2c_scan_addr' /\ ~closed'
    BY <1>1, <1>2, <1>4 DEF i2c_scan_report_task, Further, Ask
  <2> QED
    BY <1>1, <1>2, <1>3, <2>1, <2>2 DEF OneOut
<1>5. CASE ~Within
  <2>1. closed' /\ UNCHANGED <<asking, reported>>
    BY <1>5 DEF i2c_scan_report_task
  <2>2. 2 * Len(reported) >= LAST
    BY <1>1, <1>2, <1>5, ScanAssumption DEF Within, OneOut
  <2> QED
    BY <1>1, <1>2, <1>3, <2>1, <2>2 DEF InOrder, AllIn
<1> QED
  BY <1>4, <1>5

LEMMA ScanKeeps == ASSUME ScanInv, [ScanNext]_scanVars PROVE ScanInv'
<1>1. CASE f_i2c_scan
  <2>1. CASE cli_i2c_scan_addr' = 0 /\ asking' = 0 /\ closed' = FALSE
             /\ alone' = (asking = -1 /\ reports = <<>>) /\ reported' = <<>>
             /\ UNCHANGED reports
    <3>1. reported' \in Seq(Reported) /\ Len(reported') = 0 /\ DOMAIN reported' = {}
      BY <2>1
    <3>2. InOrder' /\ ~closed'
      BY <2>1, <3>1 DEF InOrder
    <3>3. alone' => OneOut'
      <4>1. alone' => reports' = <<>>
        BY <2>1, Zenon
      <4>2. cli_i2c_scan_addr' = 2 * Len(reported') /\ asking' = cli_i2c_scan_addr'
        BY <2>1, <3>1
      <4> QED
        BY <4>1, <4>2 DEF OneOut
    <3> QED
      BY <3>2, <3>3 DEF ScanInv
  <2>2. CASE asking' = -1 /\ alone' = (alone /\ closed)
             /\ UNCHANGED <<cli_i2c_scan_addr, closed, reported, reports>>
    BY <2>2 DEF ScanInv, InOrder, AllIn
  <2> QED
    BY <1>1, <2>1, <2>2 DEF f_i2c_scan
<1>2. CASE cli_i2c_scan_cb
  <2> SUFFICES ASSUME alone PROVE InOrder' /\ IF closed' THEN AllIn' ELSE OneOut'
    BY <1>2 DEF ScanInv, cli_i2c_scan_cb
  <2>1. ~closed /\ InOrder /\ OneOut
    BY <1>2 DEF ScanInv, AllIn, cli_i2c_scan_cb
  <2>2. reports = <<>> /\ asking = cli_i2c_scan_addr
    BY <1>2, <2>1 DEF OneOut, cli_i2c_scan_cb
  <2>3. reports' = <<cli_i2c_scan_addr>> /\ asking' = -1
    BY <1>2, <2>2 DEF cli_i2c_scan_cb
  <2> QED
    BY <1>2, <2>1, <2>3 DEF InOrder, OneOut, cli_i2c_scan_cb
<1>3. CASE i2c_scan_report_task
  BY <1>3, TaskKeepsScan
<1>4. CASE UNCHANGED scanVars
  BY <1>4 DEF scanVars, ScanInv, InOrder, AllIn, OneOut
<1> QED
  BY <1>1, <1>2, <1>3, <1>4 DEF ScanNext, ScanStep

\* A scan of any length that no other one cuts into reports every address once, in
\* order and with its own answer, and ends behind the last (cli.c:326-386).
THEOREM AddressesOnce == ScanSpec => []EachOnce
<1>1. ScanInit => ScanInv
  BY DEF ScanInit, ScanInv, InOrder, AllIn
<1>2. ScanInv /\ [ScanNext]_scanVars => ScanInv'
  BY ScanKeeps
<1>3. ScanInv => EachOnce
  BY DEF ScanInv, InOrder, AllIn, OneOut, EachOnce
<1> QED
  BY <1>1, <1>2, <1>3, PTL DEF ScanSpec
-------------------------------------------------------------------------------
(* Every line in its time.                                                    *)

\* The ticks of each state, and those since the half line, line or picture line it
\* belongs to began; a half line of the first block is a tick short.
Ticks == [s \in 0 .. 39 |->
    CASE s \in 0 .. 9 -> IF s % 2 = 0 THEN 4586 ELSE 789
      [] s \in 10 .. 19 \cup 28 .. 39 -> IF s % 2 = 0 THEN 672 ELSE 4704
      [] s \in {20, 23} -> 789
      [] s = 21 -> 9685
      [] s \in {22, 27} -> 277
      [] s = 24 -> 957
      [] s = 25 -> 3360
      [] s = 26 -> 5367]

Since == [s \in 0 .. 39 |->
    CASE s \in 0 .. 9 -> (s \div 2) * 5375 + (s % 2) * 4586
      [] s \in 10 .. 19 -> 26875 + ((s - 10) \div 2) * 5376 + (s % 2) * 672
      [] s \in {20, 23} -> 0
      [] s = 21 -> 789
      [] s = 22 -> 10474
      [] s = 24 -> 789
      [] s = 25 -> 1746
      [] s = 26 -> 5106
      [] s = 27 -> 10473
      [] s \in 28 .. 39 -> ((s - 28) \div 2) * 5376 + (s % 2) * 672]

\* The lines that are over.
LinesOver == CASE state \in 0 .. 19 -> 0 [] state \in 20 .. 27 -> scanline - 1 [] OTHER -> BOTTOM - 1

LEMMA TicksOf == \A s \in 0 .. 39 : NS_TO_TICKS(Nanoseconds(s)) = Ticks[s]
<1> SUFFICES ASSUME NEW s \in 0 .. 39 PROVE NS_TO_TICKS(Nanoseconds(s)) = Ticks[s]
  OBVIOUS
<1>1. CASE s \in 0 .. 9
  BY <1>1 DEF Nanoseconds, NS_TO_TICKS, Ticks, Broad, Narrow, SCANLINE_NS, GAP_NS, CLK_MHZ
<1>2. CASE s \in 10 .. 19 \cup 28 .. 39
  BY <1>2 DEF Nanoseconds, NS_TO_TICKS, Ticks, Broad, Narrow, SCANLINE_NS, SHORT_PULSE_NS, CLK_MHZ
<1>3. CASE s \in 20 .. 27
  BY <1>3 DEF Nanoseconds, NS_TO_TICKS, Ticks, Broad, Narrow, SCANLINE_NS, SHORT_PULSE_NS, CLK_MHZ,
              HSYNC_NS, FRONTPORCH_NS, BACKPORCH_NS, DISP_TEST_NS, GAP_NS
<1> QED
  BY <1>1, <1>2, <1>3
\* What is over since the frame began: whole lines, and what Since says; the line's
\* number says which loop it belongs to.
VideoInv ==
    /\ state \in 0 .. 39 /\ scanline \in Nat /\ elapsed \in Nat /\ last \in Nat
    /\ state \in 0 .. 11 => scanline <= 1
    /\ state \in 12 .. 19 => scanline = 6
    /\ state \in 20 .. 22 => scanline \in 6 .. TOP - 1
    /\ state \in 23 .. 27 => scanline \in TOP .. BOTTOM - 1
    /\ state \in 28 .. 39 => scanline = BOTTOM
    /\ Lasts(elapsed - Since[state], LinesOver)
    /\ last # 0 => Lasts(last, BOTTOM + 2)

LEMMA LineLength == LINE = 10752
  BY DEF LINE, NS_TO_TICKS, SCANLINE_NS, CLK_MHZ

\* One state after the other, within a line.
LEMMA SinceGoesOn ==
    \A s \in (0 .. 39) \ {19, 22, 27, 39} : Since[s] + Ticks[s] = Since[s + 1]
  BY SMTT(60) DEF Since, Ticks

LEMMA VideoKeeps == ASSUME VideoInv, SVIDEO_irq PROVE VideoInv'
<1>1. ticks' = Ticks[state] /\ Ticks[state] \in Nat
  <2>1. state \in 0 .. 39
    BY DEF VideoInv
  <2>2. ticks' = Ticks[state]
    BY <2>1, TicksOf DEF SVIDEO_irq
  <2>3. Ticks[state] \in Nat
    BY <2>1 DEF Ticks
  <2> QED
    BY <2>2, <2>3
<1>2. TOP \in Nat /\ BOTTOM \in Nat /\ TOP >= 7 /\ TOP < BOTTOM
  BY VideoAssumption
<1>3. Since[state] \in Nat /\ Since[19] = 49051 /\ Since[22] = 10474 /\ Since[27] = 10473
      /\ Since[39] = 27552 /\ Since[0] = 0 /\ Since[20] = 0 /\ Since[23] = 0 /\ Since[28] = 0
  BY DEF Since, VideoInv
<1>4. CASE state \notin {19, 22, 27, 39}
  <2>1. Loop.from = state /\ Loop.line = IF state \in {11, 13, 15, 17} THEN 6 ELSE scanline
    BY <1>4 DEF Loop, Narrow, VideoInv
  <2>2. /\ state' = state + 1 /\ scanline' = Loop.line
        /\ elapsed' = elapsed + Ticks[state] /\ UNCHANGED last
    BY <1>1, <1>4, <2>1 DEF SVIDEO_irq, VideoInv
  <2>3. Since[state'] = Since[state] + Ticks[state]
    BY <1>4, <2>2, SinceGoesOn DEF VideoInv
  <2>4. LinesOver' = LinesOver
    BY <1>4, <2>1, <2>2 DEF LinesOver, VideoInv
  <2>5. elapsed' - Since[state'] = elapsed - Since[state]
    BY <1>1, <1>3, <2>2, <2>3 DEF VideoInv
  <2> QED
    BY <1>1, <1>2, <1>4, <2>1, <2>2, <2>4, <2>5 DEF VideoInv
<1>5. CASE state = 19
  <2>1. /\ state' = 20 /\ scanline' = 6 /\ elapsed' = elapsed + 4704 /\ UNCHANGED last
    BY <1>1, <1>5 DEF SVIDEO_irq, Loop, Narrow, Ticks
  <2>2. elapsed = 49051
    BY <1>3, <1>5, LineLength DEF VideoInv, Lasts, LinesOver
  <2>3. Lasts(elapsed' - 0, 5)
    BY <2>1, <2>2, LineLength DEF Lasts
  <2>4. LinesOver' = 5
    BY <2>1 DEF LinesOver
  <2> QED
    BY <1>2, <1>3, <2>1, <2>2, <2>3, <2>4 DEF VideoInv
<1>6. CASE state \in {22, 27}
  <2>1. /\ scanline' = scanline + 1 /\ elapsed' = elapsed + 277 /\ UNCHANGED last
        /\ state' = IF state = 22 THEN IF scanline + 1 < TOP THEN 20 ELSE 23
                    ELSE IF scanline + 1 < BOTTOM THEN 23 ELSE 28
    BY <1>1, <1>6 DEF SVIDEO_irq, Loop, Narrow, Ticks, MoreLines
  <2>2. Lasts(elapsed - Since[state], scanline - 1) /\ Since[state] \in {10473, 10474}
    BY <1>3, <1>6 DEF VideoInv, LinesOver
  <2>3. Lasts(elapsed', scanline)
    BY <2>1, <2>2, LineLength DEF Lasts, VideoInv
  <2>4. LinesOver' = scanline /\ Since[state'] = 0
    BY <1>2, <1>3, <1>6, <2>1 DEF LinesOver, VideoInv
  <2>5. elapsed' - Since[state'] = elapsed'
    BY <2>1, <2>4 DEF VideoInv
  <2> QED
    BY <1>2, <1>6, <2>1, <2>3, <2>4, <2>5 DEF VideoInv
<1>7. CASE state = 39
  <2>1. /\ state' = 0 /\ scanline' = 1 /\ elapsed' = 0 /\ last' = elapsed + 4704
    BY <1>1, <1>7 DEF SVIDEO_irq, Loop, Narrow, Ticks
  <2>2. Lasts(elapsed - 27552, BOTTOM - 1)
    BY <1>3, <1>7 DEF VideoInv, LinesOver
  <2>3. Lasts(last', BOTTOM + 2)
    BY <1>2, <2>1, <2>2, LineLength DEF Lasts, VideoInv
  <2>4. Lasts(0 - 0, 0) /\ LinesOver' = 0
    BY <2>1, LineLength DEF Lasts, LinesOver
  <2> QED
    BY <1>3, <2>1, <2>3, <2>4 DEF VideoInv
<1> QED
  BY <1>4, <1>5, <1>6, <1>7

\* For every first and last line of the picture, every line begins when as many
\* lines as its number says are over, and every frame lasts three lines more than
\* the number of the last with a picture (SVIDEO_irq).
THEOREM FramesKept == VideoSpec => []FrameKept
<1>1. VideoInit => VideoInv
  BY LineLength, VideoAssumption DEF VideoInit, VideoInv, Since, LinesOver, Lasts
<1>2. VideoInv /\ [SVIDEO_irq]_videoVars => VideoInv'
  <2> SUFFICES ASSUME VideoInv, [SVIDEO_irq]_videoVars PROVE VideoInv'
    OBVIOUS
  <2>1. CASE UNCHANGED videoVars
    BY <2>1 DEF videoVars, VideoInv, LinesOver
  <2> QED
    BY <2>1, VideoKeeps
<1>3. VideoInv => FrameKept
  <2> SUFFICES ASSUME VideoInv PROVE FrameKept
    OBVIOUS
  <2>1. state \in {20, 23, 28} => Since[state] = 0 /\ LinesOver = scanline - 1
    BY DEF VideoInv, Since, LinesOver
  <2>2. elapsed - 0 = elapsed
    BY DEF VideoInv
  <2> QED
    BY <2>1, <2>2 DEF VideoInv, FrameKept
<1> QED
  BY <1>1, <1>2, <1>3, PTL DEF VideoSpec

-------------------------------------------------------------------------------
(* A picture is one whole frame.                                              *)

At == {"idle", "clear", "begin", "unmask", "wait", "read"}
Memories == [1 .. MEMORY -> Pixels \cup {Nothing}]
Frames == 0 .. FRAMES - 1

Types ==
    /\ pic_begin \in BOOLEAN /\ pic_end \in BOOLEAN /\ got_pic \in BOOLEAN
    /\ mask \in BOOLEAN /\ edge \in BOOLEAN
    /\ we \in BOOLEAN /\ wrst \in BOOLEAN /\ taken \in BOOLEAN
    /\ memory \in Memories /\ waddr \in 1 .. MEMORY
    /\ camera \in [frame : Frames, sent : 0 .. SIZE]
    /\ at \in At /\ ready \in BOOLEAN
    /\ sent \in Seq(Pixels \cup {Nothing}) /\ Len(sent) <= SIZE

Safe == ~we /\ ~pic_begin /\ ~pic_end

\* Nothing is armed but by a command that waits, and not after it got its picture.
Armed ==
    /\ at \in {"idle", "read", "clear", "begin"} => Safe
    /\ at = "begin" => ~got_pic
    /\ got_pic => Safe
    /\ pic_begin => ~pic_end
    /\ we <=> pic_end

\* The first n pixels of the memory are those of frame f.
Holds(n, f) == \A a \in 1 .. n : memory[a] = [frame |-> f, place |-> a]

Whole == \E f \in Frames : Holds(SIZE, f)

\* While it is written the memory is where the camera is, from the first pixel of
\* the frame on; at the next edge it is whole, and stays so until the next begin.
Recorded ==
    /\ ~we => waddr = 1
    /\ we => wrst /\ mask /\ ready
    /\ edge => ready
    /\ edge /\ mask => camera.sent = 0
    /\ we /\ ~edge => /\ camera.sent < SIZE => waddr = camera.sent + 1
                      /\ Holds(camera.sent, camera.frame)
    /\ we /\ edge => Whole
    /\ (taken \/ got_pic) /\ ~we => Whole
    /\ at = "read" => \A i \in 1 .. Len(sent) : sent[i] = memory[i]

CameraInv == Types /\ Armed /\ Recorded /\ OneFrame

LEMMA ModuloBelow == ASSUME NEW n \in Nat, NEW m \in Nat, n < m PROVE n % m = n
  OBVIOUS

LEMMA ModuloRange == ASSUME NEW n \in Nat, NEW m \in Nat \ {0} PROVE n % m \in 0 .. m - 1
  OBVIOUS

-------------------------------------------------------------------------------
LEMMA TypesInit == CameraInit => CameraInv
<1> SUFFICES ASSUME CameraInit PROVE CameraInv
  OBVIOUS
<1>1. camera \in [frame : Frames, sent : 0 .. SIZE]
  BY SnapshotAssumption DEF CameraInit, Frames
<1>2. memory \in Memories /\ waddr \in 1 .. MEMORY /\ waddr = 1
  BY SnapshotAssumption DEF CameraInit, Memories
<1>3. /\ ~pic_begin /\ ~pic_end /\ ~got_pic /\ ~mask /\ ~edge /\ ~we /\ ~wrst /\ ~taken /\ ~ready
      /\ at = "idle" /\ at \in At
  BY DEF CameraInit, At
<1>4. sent = <<>> /\ sent \in Seq(Pixels \cup {Nothing}) /\ Len(sent) = 0 /\ Len(sent) <= SIZE
  BY SnapshotAssumption DEF CameraInit
<1>5. /\ pic_begin \in BOOLEAN /\ pic_end \in BOOLEAN /\ got_pic \in BOOLEAN
      /\ mask \in BOOLEAN /\ edge \in BOOLEAN
      /\ we \in BOOLEAN /\ wrst \in BOOLEAN /\ taken \in BOOLEAN /\ ready \in BOOLEAN
  BY Zenon DEF CameraInit
<1>6. Types
  BY <1>1, <1>2, <1>3, <1>4, <1>5 DEF Types
<1>7. Armed
  BY <1>3 DEF Armed, Safe
<1>8. Recorded
  BY <1>2, <1>3 DEF Recorded
<1> QED
  BY <1>3, <1>6, <1>7, <1>8 DEF CameraInv, OneFrame

-------------------------------------------------------------------------------
(* The camera.                                                                *)

LEMMA VsyncKeeps == ASSUME CameraInv, Vsync PROVE CameraInv'
<1> USE SnapshotAssumption
<1>1. /\ camera.sent = SIZE /\ camera' = [frame |-> (camera.frame + 1) % FRAMES, sent |-> 0]
      /\ edge' = ready
      /\ UNCHANGED <<pic_begin, pic_end, got_pic, mask, we, wrst, memory, waddr, at, ready, taken, sent>>
  BY DEF Vsync, flags, pins
<1>2. camera.frame \in Frames /\ camera.frame + 1 \in Nat
  BY DEF CameraInv, Types, Frames
<1>3. camera' \in [frame : Frames, sent : 0 .. SIZE] /\ camera'.sent = 0
  <2>1. (camera.frame + 1) % FRAMES \in Frames
    BY <1>2, ModuloRange DEF Frames
  <2> QED
    BY <1>1, <2>1
<1>4. Types'
  BY <1>1, <1>3 DEF CameraInv, Types
<1>5. Armed'
  BY <1>1 DEF CameraInv, Armed, Safe
<1>6. we => Whole
  BY <1>1, <1>2 DEF CameraInv, Recorded, Whole
<1>7. Recorded'
  BY <1>1, <1>3, <1>6 DEF CameraInv, Recorded, Whole, Holds
<1> QED
  BY <1>1, <1>4, <1>5, <1>7 DEF CameraInv, OneFrame

LEMMA PixelKeeps == ASSUME CameraInv, Pixel PROVE CameraInv'
<1> USE SnapshotAssumption
<1>1. /\ camera.sent < SIZE /\ ~(edge /\ mask) /\ camera' = [camera EXCEPT !.sent = @ + 1]
      /\ UNCHANGED <<pic_begin, pic_end, got_pic, mask, edge, we, wrst, at, ready, taken, sent>>
  BY DEF Pixel, flags
<1>2. /\ camera' \in [frame : Frames, sent : 0 .. SIZE]
      /\ camera'.sent = camera.sent + 1 /\ camera'.frame = camera.frame
      /\ camera.sent \in Nat /\ camera.frame \in Frames
  BY <1>1 DEF CameraInv, Types
<1>3. CASE we
  <2>1. ~edge /\ wrst /\ waddr = camera.sent + 1 /\ Holds(camera.sent, camera.frame)
    BY <1>1, <1>3 DEF CameraInv, Recorded
  <2> DEFINE new == [frame |-> camera.frame, place |-> camera.sent + 1]
  <2>2. memory' = [memory EXCEPT ![waddr] = new] /\ waddr' = (waddr % MEMORY) + 1
    BY <1>3, <2>1 DEF Pixel
  <2>3. waddr \in 1 .. MEMORY /\ memory \in Memories
    BY DEF CameraInv, Types
  <2>4. new \in Pixels
    BY <1>1, <1>2 DEF Pixels, Frames
  <2>5. memory' \in Memories
    BY <2>2, <2>3, <2>4 DEF Memories
  <2>6. waddr' \in 1 .. MEMORY
    <3>1. waddr % MEMORY \in 0 .. MEMORY - 1
      BY <2>3, ModuloRange
    <3> QED
      BY <2>2, <3>1
  <2>7. camera'.sent < SIZE => waddr' = camera'.sent + 1
    <3> SUFFICES ASSUME camera'.sent < SIZE PROVE waddr' = camera'.sent + 1
      OBVIOUS
    <3>1. waddr \in Nat /\ waddr < MEMORY
      BY <1>2, <2>1, <2>3
    <3>2. waddr % MEMORY = waddr
      BY <3>1, ModuloBelow
    <3> QED
      BY <1>2, <2>1, <2>2, <3>2
  <2>9. \A a \in 1 .. camera'.sent : memory'[a] = [frame |-> camera'.frame, place |-> a]
    <3> SUFFICES ASSUME NEW a \in 1 .. camera'.sent
                 PROVE  memory'[a] = [frame |-> camera'.frame, place |-> a]
      OBVIOUS
    <3>1. CASE a = waddr
      BY <1>2, <2>1, <2>2, <2>3, <3>1 DEF Memories
    <3>2. CASE a # waddr
      <4>1. a \in 1 .. camera.sent /\ a \in 1 .. MEMORY
        BY <1>1, <1>2, <2>1, <3>2
      <4>2. memory'[a] = memory[a]
        BY <2>2, <2>3, <3>2, <4>1 DEF Memories
      <4> QED
        BY <1>2, <2>1, <4>1, <4>2 DEF Holds
    <3> QED
      BY <3>1, <3>2
  <2>10. at \notin {"idle", "read", "clear", "begin"} /\ ~got_pic
    BY <1>3 DEF CameraInv, Armed, Safe
  <2>11. Types'
    BY <1>1, <1>2, <2>5, <2>6 DEF CameraInv, Types
  <2>12. Recorded'
    BY <1>1, <1>2, <1>3, <2>1, <2>7, <2>9, <2>10 DEF CameraInv, Recorded, Holds
  <2> QED
    BY <1>1, <2>11, <2>12 DEF CameraInv, Armed, Safe, OneFrame
<1>4. CASE ~we
  <2>1. UNCHANGED <<memory, waddr>>
    BY <1>4 DEF Pixel
  <2>2. Types'
    BY <1>1, <1>2, <2>1 DEF CameraInv, Types
  <2>3. Recorded'
    BY <1>1, <1>2, <1>4, <2>1 DEF CameraInv, Recorded, Whole, Holds
  <2> QED
    BY <1>1, <2>2, <2>3 DEF CameraInv, Armed, Safe, OneFrame
<1> QED
  BY <1>3, <1>4

-------------------------------------------------------------------------------
(* The vsync interrupt.                                                       *)

LEMMA VsyncIntKeeps == ASSUME CameraInv, ov7670_vsync_int_fn PROVE CameraInv'
<1> USE SnapshotAssumption
<1>1. /\ edge /\ mask /\ ~edge' /\ edge' \in BOOLEAN /\ camera.sent = 0
      /\ UNCHANGED <<camera, at, ready, taken, sent>>
  BY DEF ov7670_vsync_int_fn, CameraInv, Recorded
<1>2. CASE pic_begin
  <2>1. /\ ~pic_begin' /\ pic_end' /\ we' /\ wrst'
        /\ pic_begin' \in BOOLEAN /\ pic_end' \in BOOLEAN /\ we' \in BOOLEAN /\ wrst' \in BOOLEAN
        /\ UNCHANGED <<got_pic, mask, memory, waddr>>
    BY <1>2 DEF ov7670_vsync_int_fn, Begin
  <2>2. /\ ~got_pic /\ at \notin {"idle", "read", "clear", "begin"}
        /\ ~we /\ waddr = 1
    BY <1>2 DEF CameraInv, Armed, Safe, Recorded
  <2>3. ready
    BY <1>1, <1>2 DEF CameraInv, Recorded
  <2> QED
    BY <1>1, <2>1, <2>2, <2>3 DEF CameraInv, Types, Armed, Safe, Recorded, Holds, OneFrame
<1>3. CASE ~pic_begin /\ pic_end
  <2>1. /\ ~pic_end' /\ got_pic' /\ ~we' /\ ~wrst' /\ waddr' = 1 /\ ~mask'
        /\ pic_end' \in BOOLEAN /\ got_pic' \in BOOLEAN /\ we' \in BOOLEAN /\ wrst' \in BOOLEAN
        /\ mask' \in BOOLEAN
        /\ UNCHANGED <<pic_begin, memory>>
    BY <1>3 DEF ov7670_vsync_int_fn, End
  <2>2. we /\ Whole /\ at \notin {"idle", "read", "clear", "begin"}
    BY <1>1, <1>3 DEF CameraInv, Armed, Safe, Recorded
  <2>3. Whole'
    BY <2>1, <2>2 DEF Whole, Holds
  <2>4. Types'
    BY <1>1, <2>1 DEF CameraInv, Types
  <2>5. Armed' /\ Recorded'
    BY <1>1, <1>3, <2>1, <2>2, <2>3 DEF CameraInv, Armed, Safe, Recorded
  <2> QED
    BY <1>1, <2>4, <2>5 DEF CameraInv, OneFrame
<1>4. CASE ~pic_begin /\ ~pic_end
  <2>1. UNCHANGED <<pic_begin, pic_end, got_pic, we, wrst, memory, waddr, mask>>
    BY <1>4 DEF ov7670_vsync_int_fn, flags, pins
  <2>2. ~we
    BY <1>4 DEF CameraInv, Armed
  <2> QED
    BY <1>1, <2>1, <2>2 DEF CameraInv, Types, Armed, Safe, Recorded, Whole, Holds, OneFrame
<1> QED
  BY <1>2, <1>3, <1>4

-------------------------------------------------------------------------------
(* The commands.                                                              *)

LEMMA InitCommandKeeps == ASSUME CameraInv, f_ov7670_init PROVE CameraInv'
<1> USE SnapshotAssumption
<1>1. /\ at = "idle" /\ ready' /\ ready' \in BOOLEAN /\ mask' \in BOOLEAN /\ ~edge' /\ edge' \in BOOLEAN
      /\ ~we' /\ we' \in BOOLEAN /\ wrst' \in BOOLEAN /\ waddr' = 1
      /\ UNCHANGED <<pic_begin, pic_end, got_pic, memory, camera, at, taken, sent>>
  BY DEF f_ov7670_init, flags
<1>2. ~we
  BY <1>1 DEF CameraInv, Armed, Safe
<1> QED
  BY <1>1, <1>2 DEF CameraInv, Types, Armed, Safe, Recorded, Whole, Holds, OneFrame

LEMMA BeginKeeps == ASSUME CameraInv, f_ov7670_pic \/ ClearGot \/ SetBegin PROVE CameraInv'
<1> USE SnapshotAssumption DEF At
<1>1. UNCHANGED <<pic_end, mask, edge, we, wrst, memory, waddr, camera, ready, taken, sent>>
  BY DEF f_ov7670_pic, ClearGot, SetBegin, flags, pins
<1>2. CASE f_ov7670_pic
  BY <1>1, <1>2 DEF f_ov7670_pic, flags, CameraInv, Types, Armed, Safe, Recorded, Whole, Holds, OneFrame
<1>3. CASE ClearGot
  <2>1. at = "clear" /\ at' = "begin" /\ ~got_pic' /\ got_pic' \in BOOLEAN /\ UNCHANGED pic_begin
    BY <1>3 DEF ClearGot
  <2> QED
    BY <1>1, <2>1 DEF CameraInv, Types, Armed, Safe, Recorded, Whole, Holds, OneFrame
<1>4. CASE SetBegin
  <2>1. at = "begin" /\ at' = "unmask" /\ pic_begin' /\ pic_begin' \in BOOLEAN /\ UNCHANGED got_pic
    BY <1>4 DEF SetBegin
  <2> QED
    BY <1>1, <2>1 DEF CameraInv, Types, Armed, Safe, Recorded, Whole, Holds, OneFrame
<1> QED
  BY <1>2, <1>3, <1>4

LEMMA WaitKeeps == ASSUME CameraInv, Unmask \/ Waited PROVE CameraInv'
<1> USE SnapshotAssumption DEF At
<1>1. CASE Unmask
  <2>1. /\ at' = "wait" /\ mask' /\ mask' \in BOOLEAN /\ ~edge' /\ edge' \in BOOLEAN /\ at = "unmask"
        /\ UNCHANGED <<pic_begin, pic_end, got_pic, we, wrst, memory, waddr, camera, ready, taken, sent>>
    BY <1>1 DEF Unmask, Cleared, flags, pins
  <2>2. ~(edge /\ mask)
    BY <1>1 DEF Unmask, TaskRuns
  <2> QED
    BY <2>1, <2>2 DEF CameraInv, Types, Armed, Safe, Recorded, Whole, Holds, OneFrame
<1>2. CASE Waited
  <2>1. /\ got_pic /\ ~got_pic' /\ got_pic' \in BOOLEAN /\ at' = "read" /\ sent' = <<>>
        /\ taken' /\ taken' \in BOOLEAN
        /\ UNCHANGED <<pic_begin, pic_end, mask, edge, we, wrst, memory, waddr, camera, ready>>
    BY <1>2 DEF Waited, pins
  <2>2. ~we /\ ~pic_begin /\ ~pic_end
    BY <2>1 DEF CameraInv, Armed, Safe
  <2>3. sent' \in Seq(Pixels \cup {Nothing}) /\ Len(sent') = 0
    BY <2>1
  <2> QED
    BY <2>1, <2>2, <2>3 DEF CameraInv, Types, Armed, Safe, Recorded, Whole, Holds, OneFrame
<1> QED
  BY <1>1, <1>2

LEMMA ReadKeeps == ASSUME CameraInv, f_ov7670_send \/ ReadPixel \/ ReadEnd PROVE CameraInv'
<1> USE SnapshotAssumption DEF At
<1>1. /\ UNCHANGED <<pic_begin, pic_end, got_pic, mask, edge, we, wrst, memory, waddr, camera, ready, taken>>
      /\ at \in {"idle", "read"} /\ at' \in {"idle", "read"}
  BY DEF f_ov7670_send, ReadPixel, ReadEnd, flags, pins
<1>2. ~we /\ ~pic_begin /\ ~pic_end
  BY <1>1 DEF CameraInv, Armed, Safe
<1>3. Armed'
  BY <1>1, <1>2 DEF CameraInv, Armed, Safe
<1>4. CASE f_ov7670_send
  <2>1. sent' = <<>> /\ Len(sent') = 0 /\ sent' \in Seq(Pixels \cup {Nothing})
    BY <1>4 DEF f_ov7670_send
  <2> QED
    BY <1>1, <1>2, <1>3, <2>1 DEF CameraInv, Types, Recorded, Whole, Holds, OneFrame
<1>5. CASE ReadPixel
  <2>1. at = "read" /\ Len(sent) < SIZE /\ sent' = Append(sent, memory[Len(sent) + 1])
    BY <1>5 DEF ReadPixel
  <2>2. sent \in Seq(Pixels \cup {Nothing}) /\ memory \in Memories
    BY DEF CameraInv, Types
  <2>3. Len(sent) \in Nat /\ Len(sent) + 1 \in 1 .. MEMORY
    BY <2>1, <2>2
  <2>4. memory[Len(sent) + 1] \in Pixels \cup {Nothing}
    BY <2>2, <2>3 DEF Memories
  <2>5. sent' \in Seq(Pixels \cup {Nothing}) /\ Len(sent') = Len(sent) + 1
    BY <2>1, <2>2, <2>4
  <2>6. \A i \in 1 .. Len(sent') : sent'[i] = memory[i]
    <3> SUFFICES ASSUME NEW i \in 1 .. Len(sent') PROVE sent'[i] = memory[i]
      OBVIOUS
    <3>1. CASE i = Len(sent) + 1
      BY <2>1, <2>2, <2>4, <3>1
    <3>2. CASE i \in 1 .. Len(sent)
      BY <2>1, <2>2, <2>4, <3>2 DEF CameraInv, Recorded
    <3> QED
      BY <2>3, <2>5, <3>1, <3>2
  <2>7. OneFrame'
    <3> SUFFICES ASSUME taken', NEW i \in DOMAIN sent'
                 PROVE  sent'[i].frame = sent'[1].frame /\ sent'[i].place = i
      BY DEF OneFrame
    <3>1. PICK f \in Frames : Holds(SIZE, f)
      BY <1>1, <1>2 DEF CameraInv, Recorded, Whole
    <3>2. i \in 1 .. Len(sent') /\ i \in 1 .. SIZE /\ 1 \in 1 .. Len(sent') /\ 1 \in 1 .. SIZE
      BY <2>1, <2>3, <2>5
    <3>3. sent'[i] = [frame |-> f, place |-> i] /\ sent'[1] = [frame |-> f, place |-> 1]
      BY <2>6, <3>1, <3>2 DEF Holds
    <3> QED
      BY <3>3
  <2>8. Types'
    BY <1>1, <2>1, <2>3, <2>5 DEF CameraInv, Types
  <2>9. Recorded'
    BY <1>1, <1>2, <2>6 DEF CameraInv, Recorded, Whole, Holds
  <2> QED
    BY <1>3, <2>7, <2>8, <2>9 DEF CameraInv
<1>6. CASE ReadEnd
  <2>1. at' = "idle" /\ UNCHANGED sent
    BY <1>6 DEF ReadEnd
  <2> QED
    BY <1>1, <1>2, <1>3, <2>1 DEF CameraInv, Types, Recorded, Whole, Holds, OneFrame
<1> QED
  BY <1>4, <1>5, <1>6

-------------------------------------------------------------------------------
LEMMA CameraKeeps == ASSUME CameraInv, [CameraNext]_cameraVars PROVE CameraInv'
<1>1. CASE UNCHANGED cameraVars
  BY <1>1 DEF cameraVars, flags, pins, CameraInv, Types, Armed, Safe, Recorded, Whole, Holds, OneFrame
<1>2. CASE CameraNext
  BY <1>2, VsyncKeeps, PixelKeeps, VsyncIntKeeps, InitCommandKeeps, BeginKeeps, WaitKeeps, ReadKeeps
  DEF CameraNext, CameraStep, Command
<1> QED
  BY <1>1, <1>2

LEMMA CameraInvariant == CameraSpec => []CameraInv
  BY TypesInit, CameraKeeps, PTL DEF CameraSpec

\* Every picture sent after a snapshot is one whole frame, for every size of picture
\* and memory, whatever the order of edges, pixels and steps of the commands.
THEOREM WholeFrames == CameraSpec => []OneFrame
<1>1. CameraInv => OneFrame
  BY DEF CameraInv
<1> QED
  BY <1>1, CameraInvariant, PTL

\* The memory a picture is read from is not written, and no snapshot is left armed.
THEOREM NothingArmed == CameraSpec => []Disarmed
<1>1. CameraInv => Disarmed
  BY DEF CameraInv, Armed, Safe, Disarmed
<1> QED
  BY <1>1, CameraInvariant, PTL

-------------------------------------------------------------------------------
(* Counting, as a fact about a set.                                           *)

\* Among the finite subsets of a set that satisfy something one is minimal.
LEMMA MinimalSubset ==
  \A S, F : IsFiniteSet(S) /\ F \subseteq SUBSET S /\ F # {}
              => \E T \in F : \A U \in F : U \subseteq T => U = T
<1> SUFFICES ASSUME NEW S, IsFiniteSet(S), NEW F, F \subseteq SUBSET S, F # {}
             PROVE  \E T \in F : \A U \in F : U \subseteq T => U = T
  OBVIOUS
<1>1. SUBSET S = FiniteSubsetsOf(S)
  BY FS_FiniteSubsetsOfFinite
<1>2. IsWellFoundedOn(StrictSubsetOrdering(S), SUBSET S)
  BY <1>1, FS_StrictSubsetOrderingWellFounded
<1>3. PICK T \in F : \A U \in F : ~(<<U, T>> \in StrictSubsetOrdering(S))
  BY <1>2, WFMin
<1>4. \A U \in F : U \subseteq T => U = T
  BY <1>3 DEF StrictSubsetOrdering
<1> QED
  BY <1>3, <1>4

\* A set of numbers that is not empty has a least one.
LEMMA LeastNumber ==
  ASSUME NEW N \in SUBSET Nat, N # {}
  PROVE  \E m \in N : \A k \in N : m <= k
<1>1. PICK n \in N : TRUE
  OBVIOUS
<1>2. PICK top : top = 0 .. n
  OBVIOUS
<1>3. PICK Starts : Starts = {0 .. k : k \in {j \in N : j <= n}}
  OBVIOUS
<1>4. IsFiniteSet(top) /\ Starts \subseteq SUBSET top /\ Starts # {}
  <2>1. IsFiniteSet(0 .. n)
    BY <1>1, FS_Interval
  <2>2. 0 .. n \in Starts
    BY <1>1, <1>3
  <2>3. \A k \in N : k <= n => 0 .. k \subseteq 0 .. n
    OBVIOUS
  <2>4. Starts \subseteq SUBSET top
    BY <1>2, <1>3, <2>3
  <2> QED
    BY <1>2, <2>1, <2>2, <2>4
<1>4a. PICK T \in Starts : \A U \in Starts : U \subseteq T => U = T
  BY <1>4, MinimalSubset
<1>5. PICK m \in N : m <= n /\ T = 0 .. m
  BY <1>3, <1>4a
<1>6. ASSUME NEW k \in N, k < m PROVE FALSE
  <2>1. 0 .. k \in Starts /\ 0 .. k \subseteq T
    BY <1>3, <1>5, <1>6
  <2>2. 0 .. k = 0 .. m
    BY <1>4a, <1>5, <2>1
  <2>3. m \in 0 .. m /\ m \notin 0 .. k
    BY <1>6
  <2> QED
    BY <2>2, <2>3
<1> QED
  BY <1>5, <1>6

\* What holds of 0 and of the number behind each it holds of, holds of all: as a
\* fact about a set, which the provers can instantiate.
LEMMA Counting ==
  ASSUME NEW N, 0 \in N, \A n \in Nat : n \in N => n + 1 \in N
  PROVE  \A n \in Nat : n \in N
<1> DEFINE Left == {n \in Nat : n \notin N}
<1>1. SUFFICES ASSUME Left # {} PROVE FALSE
  OBVIOUS
<1>2. PICK m \in Left : \A k \in Left : m <= k
  BY <1>1, LeastNumber
<1>3. m # 0 /\ m - 1 \in Nat
  BY <1>2
<1>4. m - 1 \in N
  BY <1>2, <1>3
<1>5. (m - 1) + 1 = m
  BY <1>2
<1> QED
  BY <1>2, <1>3, <1>4, <1>5

-------------------------------------------------------------------------------
(* Sums over finite sets, unfolded.                                           *)

\* The member a sum over a set takes first.
Pick(s) == CHOOSE x \in s : TRUE

\* A turn of the recursion by which a sum is defined.
Turn(f, g, s) == IF s = {} THEN 0 ELSE f[Pick(s)] + g[s \ {Pick(s)}]
\* The sums over all subsets of a set, as FiniteSetsExt defines them.
Iter(f, S) == CHOOSE g : g = [s \in SUBSET S |-> Turn(f, g, s)]

\* A sum of the model is the one of these over the whole set.
LEMMA TotalIter == ASSUME NEW f, NEW S PROVE Total(f, S) = Iter(f, S)[S]
  BY DEF Total, MapThenSumSet, MapThenFoldSet, Iter, Turn, Pick

\* The member taken first is one of the set.
LEMMA PickIn == ASSUME NEW s, s # {} PROVE Pick(s) \in s
  BY DEF Pick

\* A subset is no larger than its set, and without a member one smaller.
LEMMA Smaller ==
  ASSUME NEW S, IsFiniteSet(S), NEW s \in SUBSET S
  PROVE  /\ IsFiniteSet(s) /\ Cardinality(s) \in Nat /\ Cardinality(s) <= Cardinality(S)
         /\ \A x \in s : s \ {x} \in SUBSET S /\ Cardinality(s \ {x}) = Cardinality(s) - 1
<1>1. IsFiniteSet(s) /\ Cardinality(s) <= Cardinality(S)
  BY FS_Subset
<1>2. Cardinality(s) \in Nat
  BY <1>1, FS_CardinalityType
<1>3. \A x \in s : Cardinality(s \ {x}) = Cardinality(s) - 1
  BY <1>1, FS_RemoveElement
<1> QED
  BY <1>1, <1>2, <1>3

\* The recursion has a solution: more turns settle the sums of larger sets.
LEMMA IterIs ==
  ASSUME NEW f, NEW S, IsFiniteSet(S)
  PROVE  \E F : F = Iter(f, S) /\ \A s \in SUBSET S : F[s] = Turn(f, F, s)
<1> DEFINE Settles(g, n) == \A s \in SUBSET S : Cardinality(s) < n => g[s] = Turn(f, g, s)
           N == {n \in Nat : \E g : Settles(g, n)}
<1>1. 0 \in N
  <2>1. Settles(<<>>, 0)
    BY Smaller
  <2> QED
    BY <2>1
<1>2. ASSUME NEW n \in Nat, n \in N PROVE n + 1 \in N
  <2>1. PICK g : Settles(g, n)
    BY <1>2
  <2> DEFINE h == [s \in SUBSET S |-> Turn(f, g, s)]
  <2>2. ASSUME NEW s \in SUBSET S, Cardinality(s) < n + 1 PROVE h[s] = Turn(f, h, s)
    <3>1. CASE s = {}
      BY <3>1 DEF Turn
    <3>2. CASE s # {}
      <4>1. Pick(s) \in s
        BY <3>2, PickIn
      <4>2. s \ {Pick(s)} \in SUBSET S /\ Cardinality(s \ {Pick(s)}) < n
        BY <2>2, <4>1, Smaller
      <4>3. g[s \ {Pick(s)}] = h[s \ {Pick(s)}]
        BY <2>1, <4>2
      <4> QED
        BY <3>2, <4>3 DEF Turn
    <3> QED
      BY <3>1, <3>2
  <2> HIDE DEF h
  <2>3. Settles(h, n + 1)
    BY <2>2
  <2> QED
    BY <2>3
<1> HIDE DEF N
<1>3. Cardinality(S) + 1 \in Nat
  BY Smaller
<1>4. Cardinality(S) + 1 \in N
  BY <1>1, <1>2, <1>3, Counting
<1> USE DEF N
<1>5. PICK g : Settles(g, Cardinality(S) + 1)
  BY <1>4
<1> DEFINE h == [s \in SUBSET S |-> g[s]]
<1>6. ASSUME NEW s \in SUBSET S PROVE h[s] = Turn(f, h, s)
  <2>1. g[s] = Turn(f, g, s)
    BY <1>5, Smaller
  <2>2. s # {} => s \ {Pick(s)} \in SUBSET S
    OBVIOUS
  <2> QED
    BY <2>1, <2>2 DEF Turn
<1>7. h = [s \in SUBSET S |-> Turn(f, h, s)]
  BY <1>6
<1> HIDE DEF h
<1>8. Iter(f, S) = [s \in SUBSET S |-> Turn(f, Iter(f, S), s)]
  BY <1>7 DEF Iter
<1>9. PICK F : F = Iter(f, S)
  OBVIOUS
<1>10. F = [s \in SUBSET S |-> Turn(f, F, s)]
  BY <1>8, <1>9, Zenon
<1>11. \A s \in SUBSET S : F[s] = Turn(f, F, s)
  BY <1>10
<1> QED
  BY <1>9, <1>11

\* What a step over the sets of each size proves holds of all subsets.
LEMMA BySize ==
  ASSUME NEW S, IsFiniteSet(S), NEW Good \in SUBSET (SUBSET S),
         \A s \in SUBSET S : (\A r \in SUBSET S : Cardinality(r) < Cardinality(s) => r \in Good)
                              => s \in Good
  PROVE  \A s \in SUBSET S : s \in Good
<1> DEFINE N == {n \in Nat : \A s \in SUBSET S : Cardinality(s) < n => s \in Good}
<1>1. 0 \in N
  BY Smaller
<1>2. ASSUME NEW n \in Nat, n \in N PROVE n + 1 \in N
  <2>1. ASSUME NEW s \in SUBSET S, Cardinality(s) < n + 1 PROVE s \in Good
    <3>1. \A r \in SUBSET S : Cardinality(r) < Cardinality(s) => Cardinality(r) < n
      BY <2>1, Smaller
    <3> QED
      BY <1>2, <3>1
  <2> QED
    BY <2>1
<1> HIDE DEF N
<1>3. \A n \in Nat : n \in N
  BY <1>1, <1>2, Counting
<1>4. Cardinality(S) + 1 \in N
  BY <1>3, Smaller
<1> USE DEF N
<1> QED
  BY <1>4, Smaller

\* Sums go by the values of the members they are of.
LEMMA IterAgree ==
  ASSUME NEW S, IsFiniteSet(S), NEW T \in SUBSET S, NEW f, NEW g, \A x \in T : f[x] = g[x]
  PROVE  \A s \in SUBSET T : Iter(f, S)[s] = Iter(g, T)[s]
<1>1. IsFiniteSet(T)
  BY FS_Subset
<1>2. PICK F : F = Iter(f, S) /\ \A s \in SUBSET S : F[s] = Turn(f, F, s)
  BY IterIs
<1>3. PICK G : G = Iter(g, T) /\ \A s \in SUBSET T : G[s] = Turn(g, G, s)
  BY <1>1, IterIs
<1> DEFINE Good == {s \in SUBSET T : F[s] = G[s]}
<1>5. ASSUME NEW s \in SUBSET T,
             \A r \in SUBSET T : Cardinality(r) < Cardinality(s) => r \in Good
      PROVE  s \in Good
  <2>1. F[s] = Turn(f, F, s) /\ G[s] = Turn(g, G, s)
    BY <1>2, <1>3
  <2>2. CASE s = {}
    BY <2>1, <2>2 DEF Turn
  <2>3. CASE s # {}
    <3>1. Pick(s) \in s
      BY <2>3, PickIn
    <3>2. s \ {Pick(s)} \in SUBSET T /\ Cardinality(s \ {Pick(s)}) < Cardinality(s)
      BY <1>1, <3>1, Smaller
    <3>3. F[s \ {Pick(s)}] = G[s \ {Pick(s)}]
      BY <1>5, <3>2
    <3>4. f[Pick(s)] = g[Pick(s)]
      BY <3>1
    <3> QED
      BY <2>1, <2>3, <3>3, <3>4 DEF Turn
  <2> QED
    BY <2>2, <2>3
<1> HIDE DEF Good
<1>6. Good \in SUBSET (SUBSET T)
  BY DEF Good
<1>7. \A s \in SUBSET T : s \in Good
  BY <1>1, <1>5, <1>6, BySize
<1> USE DEF Good
<1> QED
  BY <1>2, <1>3, <1>7

\* A sum of numbers is a number, and any member may be taken out of it first.
Sums(F, f, S) == \A s \in SUBSET S : F[s] \in Int /\ \A x \in s : F[s] = f[x] + F[s \ {x}]

LEMMA IterTakes ==
  ASSUME NEW S, IsFiniteSet(S), NEW f, \A x \in S : f[x] \in Int
  PROVE  Sums(Iter(f, S), f, S)
<1>1. PICK F : F = Iter(f, S) /\ \A s \in SUBSET S : F[s] = Turn(f, F, s)
  BY IterIs
<1> DEFINE Good == {s \in SUBSET S : F[s] \in Int /\ \A x \in s : F[s] = f[x] + F[s \ {x}]}
<1>3. ASSUME NEW s \in SUBSET S,
             \A r \in SUBSET S : Cardinality(r) < Cardinality(s) => r \in Good
      PROVE  s \in Good
  <2>1. F[s] = Turn(f, F, s)
    BY <1>1
  <2>2. CASE s = {}
    BY <2>1, <2>2 DEF Turn
  <2>3. CASE s # {}
    <3>1. PICK y \in s : y = Pick(s)
      BY <2>3, PickIn
    <3>2. F[s] = f[y] + F[s \ {y}]
      BY <2>1, <2>3, <3>1 DEF Turn
    <3>3. \A x \in s : s \ {x} \in Good
      <4>1. TAKE x \in s
      <4>2. s \ {x} \in SUBSET S /\ Cardinality(s \ {x}) < Cardinality(s)
        BY Smaller
      <4> QED
        BY <1>3, <4>2
    <3>4. F[s] \in Int
      <4>1. F[s \ {y}] \in Int
        BY <3>3
      <4>2. f[y] \in Int
        OBVIOUS
      <4> HIDE DEF Good
      <4> QED
        BY <3>2, <4>1, <4>2
    <3>5. ASSUME NEW x \in s, x # y PROVE F[s] = f[x] + F[s \ {x}]
      <4>1. PICK rest : rest = (s \ {x}) \ {y}
        OBVIOUS
      <4>2. rest = (s \ {y}) \ {x}
        BY <4>1
      <4>3. x \in s \ {y} /\ y \in s \ {x}
        BY <3>5
      <4>4. F[s \ {y}] = f[x] + F[rest] /\ F[s \ {x}] = f[y] + F[rest]
        BY <3>3, <4>1, <4>2, <4>3
      <4>5. F[rest] \in Int
        <5>1. rest \in SUBSET S /\ Cardinality(rest) < Cardinality(s)
          <6>1. s \ {y} \in SUBSET S /\ Cardinality(s \ {y}) = Cardinality(s) - 1
            BY Smaller
          <6>2. Cardinality((s \ {y}) \ {x}) = Cardinality(s \ {y}) - 1
            BY <4>3, <6>1, Smaller
          <6> QED
            BY <4>2, <6>1, <6>2, Smaller
        <5> QED
          BY <1>3, <5>1
      <4>6. f[x] \in Int /\ f[y] \in Int
        OBVIOUS
      <4> HIDE DEF Good
      <4> QED
        BY <3>2, <4>4, <4>5, <4>6
    <3> QED
      BY <3>2, <3>4, <3>5
  <2> QED
    BY <2>2, <2>3
<1> HIDE DEF Good
<1>4. Good \in SUBSET (SUBSET S)
  BY DEF Good
<1>5. \A s \in SUBSET S : s \in Good
  BY <1>3, <1>4, BySize
<1>6. Sums(F, f, S)
  BY <1>5 DEF Good, Sums
<1> QED
  BY <1>1, <1>6

\* The sum over nothing.
LEMMA TotalEmpty == ASSUME NEW f PROVE Total(f, {}) = 0
<1>1. IsFiniteSet({})
  BY FS_EmptySet
<1>2. PICK F : F = Iter(f, {}) /\ \A s \in SUBSET {} : F[s] = Turn(f, F, s)
  BY <1>1, IterIs
<1>4. F[{}] = 0
  BY <1>2 DEF Turn
<1> QED
  BY <1>2, <1>4, TotalIter

\* A sum is that of all but one member and the value of that.
LEMMA TotalTakes ==
  ASSUME NEW S, IsFiniteSet(S), NEW f, \A x \in S : f[x] \in Int
  PROVE  /\ Total(f, S) \in Int
         /\ \A x \in S : Total(f, S) = f[x] + Total(f, S \ {x})
<1>1. Total(f, S) = Iter(f, S)[S]
  BY TotalIter
<1>2. ASSUME NEW x \in S PROVE Total(f, S \ {x}) = Iter(f, S)[S \ {x}]
  <2>1. PICK T \in SUBSET S : T = S \ {x}
    OBVIOUS
  <2>2. Iter(f, S)[T] = Iter(f, T)[T]
    BY IterAgree
  <2>3. Total(f, T) = Iter(f, T)[T]
    BY TotalIter
  <2> QED
    BY <2>1, <2>2, <2>3
<1>4. Sums(Iter(f, S), f, S)
  BY IterTakes
<1>5. Iter(f, S)[S] \in Int /\ \A x \in S : Iter(f, S)[S] = f[x] + Iter(f, S)[S \ {x}]
  BY <1>4 DEF Sums
<1> QED
  BY <1>1, <1>2, <1>5

\* A sum over an interval is that without its first or its last number, and that.
LEMMA TotalEnds ==
  ASSUME NEW m \in Int, NEW n \in Int, m <= n, NEW f, \A x \in m .. n : f[x] \in Int
  PROVE  /\ Total(f, m .. n) \in Int
         /\ Total(f, m .. n) = f[m] + Total(f, (m + 1) .. n)
         /\ Total(f, m .. n) = f[n] + Total(f, m .. (n - 1))
<1>1. IsFiniteSet(m .. n)
  BY FS_Interval
<1>2. (m .. n) \ {m} = (m + 1) .. n /\ (m .. n) \ {n} = m .. (n - 1)
  OBVIOUS
<1>3. m \in m .. n /\ n \in m .. n
  OBVIOUS
<1>4. PICK S : S = m .. n
  OBVIOUS
<1>5. /\ Total(f, S) \in Int
      /\ \A x \in S : Total(f, S) = f[x] + Total(f, S \ {x})
  BY <1>1, <1>4, TotalTakes
<1> QED
  BY <1>2, <1>3, <1>4, <1>5

\* Zeros sum up to zero.
LEMMA TotalZero ==
  ASSUME NEW n \in Nat, NEW f, \A x \in 0 .. n : f[x] = 0
  PROVE  Total(f, 0 .. n) = 0
<1> DEFINE N == {k \in Nat : k <= n + 1 => Total(f, 0 .. (k - 1)) = 0}
<1>1. 0 \in N
  <2>1. 0 .. (0 - 1) = {}
    OBVIOUS
  <2> QED
    BY <2>1, TotalEmpty
<1>2. ASSUME NEW k \in Nat, k \in N PROVE k + 1 \in N
  <2>1. SUFFICES ASSUME k <= n PROVE Total(f, 0 .. k) = 0
    OBVIOUS
  <2>2. \A x \in 0 .. k : f[x] \in Int
    BY <2>1
  <2>3. Total(f, 0 .. k) = f[k] + Total(f, 0 .. (k - 1))
    BY <2>2, TotalEnds
  <2> QED
    BY <1>2, <2>1, <2>3
<1> HIDE DEF N
<1>3. n + 1 \in N
  BY <1>1, <1>2, Counting
<1> USE DEF N
<1> QED
  BY <1>3

\* A window that moves by one: a value comes in in front, the others move up and the
\* last one leaves.
LEMMA TotalMoves ==
  ASSUME NEW n \in Nat, NEW f, NEW g,
         \A x \in 0 .. n : f[x] \in Int /\ g[x] \in Int,
         \A x \in 0 .. n - 1 : g[x + 1] = f[x]
  PROVE  Total(g, 0 .. n) = Total(f, 0 .. n) - f[n] + g[0]
<1> DEFINE N == {k \in Nat : k <= n => Total(g, 1 .. k) = Total(f, 0 .. (k - 1))}
<1>1. 0 \in N
  <2>1. 0 .. (0 - 1) = {} /\ 1 .. 0 = {}
    OBVIOUS
  <2>2. Total(g, {}) = 0 /\ Total(f, {}) = 0
    BY TotalEmpty
  <2> QED
    BY <2>1, <2>2
<1>2. ASSUME NEW k \in Nat, k \in N PROVE k + 1 \in N
  <2>1. SUFFICES ASSUME k + 1 <= n PROVE Total(g, 1 .. (k + 1)) = Total(f, 0 .. k)
    OBVIOUS
  <2>2. Total(g, 1 .. (k + 1)) = g[k + 1] + Total(g, 1 .. k)
    <3>1. \A x \in 1 .. (k + 1) : g[x] \in Int
      BY <2>1
    <3>2. (k + 1) - 1 = k /\ k + 1 \in Int /\ 1 <= k + 1
      OBVIOUS
    <3>3. Total(g, 1 .. (k + 1)) = g[k + 1] + Total(g, 1 .. ((k + 1) - 1))
      BY <3>1, <3>2, TotalEnds
    <3> QED
      BY <3>2, <3>3
  <2>3. Total(f, 0 .. k) = f[k] + Total(f, 0 .. (k - 1))
    <3>1. \A x \in 0 .. k : f[x] \in Int
      BY <2>1
    <3> QED
      BY <3>1, TotalEnds
  <2>4. Total(g, 1 .. k) = Total(f, 0 .. (k - 1)) /\ g[k + 1] = f[k]
    BY <1>2, <2>1
  <2> QED
    BY <2>2, <2>3, <2>4
<1> HIDE DEF N
<1>3. n \in N
  BY <1>1, <1>2, Counting
<1> USE DEF N
<1>4. Total(g, 1 .. n) = Total(f, 0 .. (n - 1))
  BY <1>3
<1>5. Total(g, 0 .. n) = g[0] + Total(g, 1 .. n) /\ Total(g, 0 .. n) \in Int
  <2>1. 0 + 1 = 1
    OBVIOUS
  <2>2. Total(g, 0 .. n) = g[0] + Total(g, (0 + 1) .. n) /\ Total(g, 0 .. n) \in Int
    BY TotalEnds
  <2> QED
    BY <2>1, <2>2
<1>6. Total(f, 0 .. n) = f[n] + Total(f, 0 .. (n - 1)) /\ Total(f, 0 .. n) \in Int
  BY TotalEnds
<1>7. Total(f, 0 .. (n - 1)) \in Int
  <2>1. CASE n = 0
    <3>1. 0 .. (n - 1) = {}
      BY <2>1
    <3> QED
      BY <3>1, TotalEmpty
  <2>2. CASE n # 0
    <3>1. n - 1 \in Nat /\ \A x \in 0 .. (n - 1) : f[x] \in Int
      BY <2>2
    <3> QED
      BY <3>1, TotalEnds
  <2> QED
    BY <2>1, <2>2
<1>8. f[n] \in Int /\ g[0] \in Int
  OBVIOUS
<1> HIDE DEF N
<1> QED
  BY <1>4, <1>5, <1>6, <1>7, <1>8
-------------------------------------------------------------------------------
(* The sums kept up are those defined.                                        *)

\* The buffer and the place in it.
Buffers == [0 .. BUF_LEN - 1 -> SAMPLES]
Places == 0 .. BUF_LEN - 1
YinTyped == spl_buf \in Buffers /\ spl_ix \in Places

\* The sample n before the one at ix.
Behind(buf, ix, n) == buf[Below(ix - n)]

\* The squared difference of two samples.
Square(a, b) == (a - b) * (a - b)

\* What the samples at distance j of the window add to the sum for tau.
Term(buf, ix, tau, j) ==
    Square(Behind(buf, ix, WINDOW + j), Behind(buf, ix, WINDOW + j - tau - 1))
Terms(buf, ix, tau) == [j \in 0 .. WINDOW - 1 |-> Term(buf, ix, tau, j)]

\* Each sum is that of the terms of its distance.
YinInv ==
    /\ YinTyped
    /\ \A tau \in Taus : corr_buf[tau] = Total(Terms(spl_buf, spl_ix, tau), 0 .. WINDOW - 1)
    /\ corr_buf \in [Taus -> Int]

\* A squared difference is the same from both sides.
LEMMA SquareTurns ==
  ASSUME NEW a \in Int, NEW b \in Int
  PROVE  Square(a, b) \in Int /\ Square(a, b) = Square(b, a)
  BY DEF Square

\* What is assumed of the sizes and the samples, one by one.
LEMMA Sizes ==
  /\ WINDOW \in Nat /\ WINDOW > 0
  /\ BUF_LEN \in Nat /\ BUF_LEN > WINDOW + WINDOW
  /\ SAMPLES \subseteq Int
  BY YinAssumption

\* A sample less than a buffer back is one of the buffer, and a number.
LEMMA BehindIs ==
  ASSUME NEW buf \in Buffers, NEW ix \in Places, NEW n \in Places
  PROVE  Below(ix - n) \in Places /\ Behind(buf, ix, n) \in Int
<1>1. Below(ix - n) \in Places
  BY Sizes DEF Below, Places
<1>2. buf[Below(ix - n)] \in SAMPLES
  BY <1>1 DEF Buffers, Places
<1>3. buf[Below(ix - n)] \in Int
  BY <1>2, Sizes
<1> QED
  BY <1>1, <1>3 DEF Behind

\* A term, by how far back the first of its samples is.
LEMMA TermAt ==
  ASSUME NEW buf, NEW ix, NEW tau \in Int, NEW j \in Int, NEW n \in Int, n = WINDOW + j
  PROVE  Term(buf, ix, tau, j) = Square(Behind(buf, ix, n), Behind(buf, ix, n - tau - 1))
<1>1. n - tau - 1 = WINDOW + j - tau - 1
  BY Sizes
<1> QED
  BY <1>1, Zenon DEF Term

\* A term is a number.
LEMMA TermIs ==
  ASSUME NEW buf \in Buffers, NEW ix \in Places, NEW tau \in Taus, NEW j \in 0 .. WINDOW - 1
  PROVE  Term(buf, ix, tau, j) \in Int
<1>1. WINDOW + j \in Places /\ WINDOW + j - tau - 1 \in Places
  BY Sizes DEF Taus, Places
<1>2. Behind(buf, ix, WINDOW + j) \in Int /\ Behind(buf, ix, WINDOW + j - tau - 1) \in Int
  BY <1>1, BehindIs
<1> QED
  BY <1>2, SquareTurns DEF Term

\* What the code squares, an index of the buffer and the one tau + 1 behind it, is a
\* term of the sum.
LEMMA SquaredIs ==
  ASSUME NEW buf \in Buffers, NEW ix \in Places, NEW n \in WINDOW .. WINDOW + WINDOW, NEW tau \in Taus
  PROVE  Squared(buf, Below(ix - n), tau)
            = Square(Behind(buf, ix, n), Behind(buf, ix, n - tau - 1))
<1>1. n \in Places /\ n - tau - 1 \in Places
  BY Sizes DEF Taus, Places
<1>2. Behind(buf, ix, n) \in Int /\ Behind(buf, ix, n - tau - 1) \in Int
  BY <1>1, BehindIs
<1>3. Above(Below(ix - n) + tau + 1) = Below(ix - (n - tau - 1))
  BY <1>1, Sizes DEF Places, Above, Below, Taus
<1>4. Squared(buf, Below(ix - n), tau)
        = Square(Behind(buf, ix, n - tau - 1), Behind(buf, ix, n))
  BY <1>3 DEF Squared, Behind, Square
<1> QED
  BY <1>2, <1>4, SquareTurns

\* A new sample moves the others back by one.
LEMMA BehindMoves ==
  ASSUME YinTyped, NEW v \in SAMPLES, Feed(v)
  PROVE  /\ YinTyped'
         /\ \A n \in 0 .. BUF_LEN - 2 :
               Behind(spl_buf', spl_ix', n + 1) = Behind(spl_buf, spl_ix, n)
<1>1. spl_ix' \in Places
  BY Sizes DEF YinTyped, Feed, Above, Places
<1>2. spl_buf' \in Buffers
  BY <1>1 DEF YinTyped, Feed, Buffers, Places
<1>3. ASSUME NEW n \in 0 .. BUF_LEN - 2
      PROVE  Behind(spl_buf', spl_ix', n + 1) = Behind(spl_buf, spl_ix, n)
  <2>1. Below(spl_ix' - (n + 1)) = Below(spl_ix - n) /\ Below(spl_ix - n) # spl_ix'
    BY Sizes DEF YinTyped, Feed, Above, Below, Places
  <2>2. Below(spl_ix - n) \in Places
    <3>1. n \in Places /\ spl_ix \in Places /\ spl_buf \in Buffers
      BY Sizes DEF YinTyped, Places
    <3> QED
      BY <3>1, BehindIs
  <2> QED
    BY <2>1, <2>2 DEF YinTyped, Feed, Behind, Buffers, Places
<1> QED
  BY <1>1, <1>2, <1>3 DEF YinTyped

\* The term that comes in and the one that leaves are those the code adds and takes
\* off; the others stay.
LEMMA SumFollows ==
  ASSUME YinInv, NEW v \in SAMPLES, Feed(v), NEW tau \in Taus
  PROVE  /\ corr_buf'[tau] = Total(Terms(spl_buf', spl_ix', tau), 0 .. WINDOW - 1)
         /\ corr_buf'[tau] \in Int
<1>1. spl_buf \in Buffers /\ spl_ix \in Places /\ spl_buf' \in Buffers /\ spl_ix' \in Places
  BY BehindMoves DEF YinInv, YinTyped
<1>0. tau \in Int /\ WINDOW \in Int
  BY Sizes DEF Taus
<1>2. PICK f : f = Terms(spl_buf, spl_ix, tau)
  OBVIOUS
<1>3. PICK g : g = Terms(spl_buf', spl_ix', tau)
  OBVIOUS
<1>4. PICK w \in Nat : w = WINDOW - 1
  BY Sizes
<1>5. \A x \in 0 .. w : /\ f[x] = Term(spl_buf, spl_ix, tau, x)
                       /\ g[x] = Term(spl_buf', spl_ix', tau, x)
  BY <1>2, <1>3, <1>4 DEF Terms
<1>6. \A x \in 0 .. w : f[x] \in Int /\ g[x] \in Int
  BY <1>1, <1>4, <1>5, TermIs
<1>7. ASSUME NEW n \in WINDOW .. BUF_LEN - 2
      PROVE  /\ Behind(spl_buf', spl_ix', n + 1) = Behind(spl_buf, spl_ix, n)
             /\ Behind(spl_buf', spl_ix', (n + 1) - tau - 1) = Behind(spl_buf, spl_ix, n - tau - 1)
  <2>1. n \in 0 .. BUF_LEN - 2 /\ n - tau - 1 \in 0 .. BUF_LEN - 2
    BY Sizes DEF Taus
  <2>2. (n - tau - 1) + 1 = (n + 1) - tau - 1
    BY DEF Taus
  <2>3. PICK m \in 0 .. BUF_LEN - 2 : m = n - tau - 1
    BY <2>1
  <2>4. \A k \in 0 .. BUF_LEN - 2 : Behind(spl_buf', spl_ix', k + 1) = Behind(spl_buf, spl_ix, k)
    BY BehindMoves DEF YinInv
  <2>5. Behind(spl_buf', spl_ix', m + 1) = Behind(spl_buf, spl_ix, m)
    BY <2>4
  <2> QED
    BY <2>1, <2>2, <2>3, <2>4, <2>5
<1>8. \A x \in 0 .. w - 1 : g[x + 1] = f[x]
  <2>1. TAKE x \in 0 .. w - 1
  <2>2. WINDOW + x \in WINDOW .. BUF_LEN - 2 /\ WINDOW + (x + 1) = (WINDOW + x) + 1
    BY <1>4, Sizes
  <2>3. PICK n \in WINDOW .. BUF_LEN - 2 : n = WINDOW + x /\ WINDOW + (x + 1) = n + 1
    BY <2>2
  <2>4. PICK m : m = n + 1
    OBVIOUS
  <2>5. Term(spl_buf', spl_ix', tau, x + 1)
          = Square(Behind(spl_buf', spl_ix', m), Behind(spl_buf', spl_ix', m - tau - 1))
    <3>1. x + 1 \in Int /\ m \in Int
      BY <1>0, <2>3, <2>4
    <3> QED
      BY <1>0, <2>3, <2>4, <3>1, TermAt
  <2>6. Term(spl_buf, spl_ix, tau, x)
          = Square(Behind(spl_buf, spl_ix, n), Behind(spl_buf, spl_ix, n - tau - 1))
    <3>1. x \in Int /\ n \in Int
      BY <1>0, <2>3
    <3> QED
      BY <1>0, <2>3, <3>1, TermAt
  <2>7. Term(spl_buf', spl_ix', tau, x + 1) = Term(spl_buf, spl_ix, tau, x)
    BY <1>7, <2>4, <2>5, <2>6, Zenon
  <2> QED
    BY <1>4, <1>5, <2>7
<1>9. Squared(spl_buf', Below(spl_ix' - WINDOW), tau) = g[0]
  <2>1. WINDOW \in WINDOW .. WINDOW + WINDOW /\ WINDOW + 0 = WINDOW
    BY Sizes
  <2>2. PICK k \in WINDOW .. WINDOW + WINDOW : k = WINDOW /\ k = WINDOW + 0
    BY <2>1
  <2>3. Squared(spl_buf', Below(spl_ix' - k), tau)
          = Square(Behind(spl_buf', spl_ix', k), Behind(spl_buf', spl_ix', k - tau - 1))
    BY <1>1, SquaredIs
  <2>4. Squared(spl_buf', Below(spl_ix' - WINDOW), tau) = Term(spl_buf', spl_ix', tau, 0)
    <3>1. 0 \in Int /\ k \in Int
      BY <1>0, <2>2
    <3> QED
      BY <1>0, <2>2, <2>3, <3>1, TermAt
  <2> QED
    BY <1>4, <1>5, <2>4
<1>10. Squared(spl_buf', Discard(spl_ix'), tau) = f[w]
  <2>1. PICK n : n = WINDOW + w
    OBVIOUS
  <2>2. n \in WINDOW .. BUF_LEN - 2 /\ n + 1 = WINDOW + WINDOW /\ n + 1 \in WINDOW .. WINDOW + WINDOW
    BY <1>4, <2>1, Sizes
  <2>3. Discard(spl_ix') = Below(spl_ix' - (n + 1))
    <3>1. PICK i \in Places : i = spl_ix'
      BY <1>1
    <3>2. WINDOW \in Nat /\ BUF_LEN \in Nat /\ BUF_LEN > WINDOW + WINDOW
      BY Sizes
    <3>3. Below(Below(i - WINDOW) - WINDOW) = Below(i - (WINDOW + WINDOW))
      BY <3>2 DEF Below, Places
    <3>4. Below(Below(spl_ix' - WINDOW) - WINDOW) = Below(spl_ix' - (WINDOW + WINDOW))
      BY <3>1, <3>3, Zenon
    <3> QED
      BY <2>2, <3>4 DEF Discard
  <2>4. PICK k \in WINDOW .. WINDOW + WINDOW : k = n + 1
    BY <2>2
  <2>5. Squared(spl_buf', Below(spl_ix' - k), tau)
          = Square(Behind(spl_buf', spl_ix', k), Behind(spl_buf', spl_ix', k - tau - 1))
    BY <1>1, SquaredIs
  <2>6. Squared(spl_buf', Discard(spl_ix'), tau) = Term(spl_buf, spl_ix, tau, w)
    <3>1. Term(spl_buf, spl_ix, tau, w)
            = Square(Behind(spl_buf, spl_ix, n), Behind(spl_buf, spl_ix, n - tau - 1))
      <4>1. w \in Int /\ n \in Int
        BY <1>0, <1>4, <2>1
      <4> QED
        BY <1>0, <2>1, <4>1, TermAt
    <3>2. /\ Behind(spl_buf', spl_ix', k) = Behind(spl_buf, spl_ix, n)
          /\ Behind(spl_buf', spl_ix', k - tau - 1) = Behind(spl_buf, spl_ix, n - tau - 1)
      BY <1>7, <2>2, <2>4, Zenon
    <3>3. Squared(spl_buf', Discard(spl_ix'), tau) = Squared(spl_buf', Below(spl_ix' - k), tau)
      BY <2>3, <2>4
    <3> QED
      BY <2>5, <3>1, <3>2, <3>3
  <2> QED
    BY <1>4, <1>5, <2>6
<1>11. corr_buf'[tau] = corr_buf[tau] - f[w] + g[0]
  BY <1>9, <1>10 DEF Feed, DiffCorr
<1>12. Total(g, 0 .. w) = Total(f, 0 .. w) - f[w] + g[0]
  BY <1>6, <1>8, TotalMoves
<1>13. corr_buf[tau] = Total(f, 0 .. w) /\ corr_buf[tau] \in Int
  BY <1>2, <1>4 DEF YinInv
<1>14. f[w] \in Int /\ g[0] \in Int
  BY <1>6
<1> QED
  BY <1>3, <1>4, <1>11, <1>12, <1>13, <1>14

\* Over a constant buffer all differences are zero, as are the sums.
LEMMA SumsStart == ASSUME YinInit PROVE YinInv
<1>1. spl_buf \in Buffers /\ spl_ix \in Places
  BY Sizes DEF YinInit, Buffers, Places
<1>2. \A n \in Places : Behind(spl_buf, spl_ix, n) = spl_buf[0]
  <2>1. \A i \in Places : spl_buf[i] = spl_buf[0]
    BY Sizes DEF YinInit, Places
  <2> QED
    BY <1>1, <2>1, BehindIs DEF Behind
<1>3. ASSUME NEW tau \in Taus
      PROVE  corr_buf[tau] = Total(Terms(spl_buf, spl_ix, tau), 0 .. WINDOW - 1)
  <2>1. PICK w \in Nat : w = WINDOW - 1
    BY Sizes
  <2>2. PICK f : f = Terms(spl_buf, spl_ix, tau)
    OBVIOUS
  <2>3. ASSUME NEW j \in 0 .. w PROVE f[j] = 0
    <3>1. WINDOW + j \in Places /\ WINDOW + j - tau - 1 \in Places
      BY <2>1, Sizes DEF Taus, Places
    <3>2. spl_buf[0] \in Int
      <4>1. 0 \in 0 .. BUF_LEN - 1
        BY Sizes
      <4>2. spl_buf[0] \in SAMPLES
        BY <1>1, <4>1 DEF Buffers
      <4> QED
        BY <4>2, Sizes
    <3>3. Term(spl_buf, spl_ix, tau, j) = Square(spl_buf[0], spl_buf[0])
      BY <1>2, <3>1 DEF Term
    <3>4. Term(spl_buf, spl_ix, tau, j) = 0
      BY <3>2, <3>3 DEF Square
    <3> QED
      BY <2>1, <2>2, <3>4 DEF Terms
  <2>4. Total(f, 0 .. w) = 0
    BY <2>3, TotalZero
  <2> QED
    BY <2>1, <2>2, <2>4 DEF YinInit
<1>4. corr_buf \in [Taus -> Int]
  BY DEF YinInit
<1> QED
  BY <1>1, <1>3, <1>4 DEF YinInv, YinTyped

\* After every sample each sum is the one defined: what the code takes off is the term
\* that was the last one of the window, what it adds the one that is now the first,
\* and all others have moved by one, for every window, buffer and sample
\* (signal_yin_est.c:18-52).
THEOREM SumsAreKept == YinSpec => []SumsKept
<1>1. YinInit => YinInv
  BY SumsStart
<1>2. YinInv /\ [YinNext]_yinVars => YinInv'
  <2>1. SUFFICES ASSUME YinInv, [YinNext]_yinVars PROVE YinInv'
    OBVIOUS
  <2>2. ASSUME NEW v \in SAMPLES, Feed(v) PROVE YinInv'
    <3>1. YinTyped'
      BY <2>1, <2>2, BehindMoves DEF YinInv
    <3>2. \A tau \in Taus :
              /\ corr_buf'[tau] = Total(Terms(spl_buf', spl_ix', tau), 0 .. WINDOW - 1)
              /\ corr_buf'[tau] \in Int
      BY <2>1, <2>2, SumFollows
    <3>3. corr_buf' = [tau \in Taus |-> corr_buf'[tau]]
      BY <2>2 DEF Feed, DiffCorr
    <3>4. corr_buf' \in [Taus -> Int]
      BY <3>2, <3>3
    <3> QED
      BY <3>1, <3>2, <3>4 DEF YinInv
  <2>3. CASE UNCHANGED yinVars
    BY <2>1, <2>3 DEF YinInv, YinTyped, yinVars
  <2> QED
    BY <2>1, <2>2, <2>3 DEF YinNext
<1>3. YinInv => SumsKept
  BY DEF YinInv, SumsKept, Terms, Term, Square, Behind, Back
<1> QED
  BY <1>1, <1>2, <1>3, PTL DEF YinSpec

-------------------------------------------------------------------------------
(* URL coding: the loops over a string, unfolded.                             *)

\* The largest number of a finite set.
LEMMA MaxIn ==
  ASSUME NEW n \in Nat, NEW s \in SUBSET (1 .. n), s # {}
  PROVE  Max(s) \in s /\ \A k \in s : k <= Max(s)
<1> DEFINE N == {k \in Nat : \A i \in s : i <= k}
<1>1. n \in N
  OBVIOUS
<1>2. PICK m \in N : \A k \in N : m <= k
  BY <1>1, LeastNumber
<1>3. ASSUME m \notin s PROVE FALSE
  <2>1. PICK i \in s : TRUE
    OBVIOUS
  <2>2. m - 1 \in Nat
    BY <1>2, <2>1
  <2>3. \A k \in s : k <= m - 1
    BY <1>2, <1>3
  <2>4. m - 1 \in N
    BY <2>2, <2>3
  <2> QED
    BY <1>2, <2>4
<1>4. m \in s /\ \A k \in s : m >= k
  BY <1>2, <1>3
<1> QED
  BY <1>4 DEF Max

\* Both loops go over their string from the front: what one of them has done when it
\* has taken a set of places, those up to the last of the set.
Start(coding) == IF coding = "encode" THEN [dst |-> <<>>, over |-> FALSE]
                                       ELSE [dst |-> <<>>, skip |-> 0]
Step(coding, acc, str, i, num) ==
    IF coding = "encode" THEN EncodeTurn(acc, str[i], num) ELSE DecodeTurn(acc, str, i, num)
Done(coding, str, num, g, s) ==
    IF s = {} THEN Start(coding) ELSE Step(coding, g[s \ {Max(s)}], str, Max(s), num)

\* What a coding has done at every set of places.
IsRun(coding, str, num, n, g) ==
    g = [s \in SUBSET (1 .. n) |-> Done(coding, str, num, g, s)]

\* There is such a function.
LEMMA RunsOver ==
  ASSUME NEW n \in Nat, NEW coding, NEW str, NEW num
  PROVE  \E g : IsRun(coding, str, num, n, g)
<1> DEFINE UpTo(k) == {s \in SUBSET (1 .. n) : \A i \in s : i < k}
           Settles(g, k) == \A s \in UpTo(k) : g[s] = Done(coding, str, num, g, s)
           N == {k \in Nat : \E g : Settles(g, k)}
<1>1. 0 \in N
  <2>1. \A s \in UpTo(0) : s = {}
    OBVIOUS
  <2>2. PICK g : g = [s \in UpTo(0) |-> Start(coding)]
    OBVIOUS
  <2>3. Settles(g, 0)
    BY <2>1, <2>2 DEF Done
  <2> QED
    BY <2>3
<1>2. ASSUME NEW k \in Nat, k \in N PROVE k + 1 \in N
  <2>1. PICK g : Settles(g, k)
    BY <1>2
  <2> DEFINE h == [s \in SUBSET (1 .. n) |-> Done(coding, str, num, g, s)]
  <2>2. ASSUME NEW s \in UpTo(k + 1) PROVE h[s] = Done(coding, str, num, h, s)
    <3>1. CASE s = {}
      BY <3>1 DEF Done
    <3>2. CASE s # {}
      <4>1. Max(s) \in s /\ \A i \in s : i <= Max(s)
        BY <3>2, MaxIn
      <4>2. \A i \in s \ {Max(s)} : i < k
        <5>1. PICK top \in s : top = Max(s)
          BY <4>1
        <5>2. top \in Nat /\ top < k + 1 /\ s \subseteq Nat
          OBVIOUS
        <5>3. \A i \in s : i <= top
          BY <4>1, <5>1
        <5> QED
          BY <5>1, <5>2, <5>3
      <4>3. s \ {Max(s)} \in UpTo(k)
        BY <4>2
      <4>4. g[s \ {Max(s)}] = h[s \ {Max(s)}]
        BY <2>1, <4>3
      <4> QED
        BY <3>2, <4>4 DEF Done
    <3> QED
      BY <3>1, <3>2
  <2> HIDE DEF h
  <2>3. Settles(h, k + 1)
    BY <2>2
  <2> QED
    BY <2>3
<1> HIDE DEF N
<1>3. n + 1 \in N
  BY <1>1, <1>2, Counting
<1> USE DEF N
<1>4. PICK g : Settles(g, n + 1)
  BY <1>3
<1> DEFINE h == [s \in SUBSET (1 .. n) |-> g[s]]
<1>5. ASSUME NEW s \in SUBSET (1 .. n) PROVE h[s] = Done(coding, str, num, h, s)
  <2>1. s \in UpTo(n + 1)
    OBVIOUS
  <2>2. g[s] = Done(coding, str, num, g, s)
    BY <1>4, <2>1
  <2>3. s # {} => g[s \ {Max(s)}] = h[s \ {Max(s)}]
    OBVIOUS
  <2> QED
    BY <2>2, <2>3 DEF Done
<1>6. IsRun(coding, str, num, n, h)
  BY <1>5 DEF IsRun
<1> QED
  BY <1>6

\* The folds of the two operators, as the library defines them.
Encoding(str, num) ==
    CHOOSE g : g = [s \in SUBSET DOMAIN str |->
                      IF s = {} THEN [dst |-> <<>>, over |-> FALSE]
                      ELSE EncodeTurn(g[s \ {Max(s)}], str[Max(s)], num)]
Decoding(str, num, places) ==
    CHOOSE g : g = [s \in SUBSET DOMAIN places |->
                      IF s = {} THEN [dst |-> <<>>, skip |-> 0]
                      ELSE DecodeTurn(g[s \ {Max(s)}], str, places[Max(s)], num)]

\* A coding is its fold over all places.
LEMMA EncodingIs ==
  ASSUME NEW str, NEW num
  PROVE  urlnencode(str, num) = Encoding(str, num)[DOMAIN str].dst
  BY DEF urlnencode, FoldLeft, MapThenFoldSet, Encoding

LEMMA DecodingIs ==
  ASSUME NEW str, NEW num, NEW places, places = [i \in 1 .. Len(str) |-> i]
  PROVE  urlndecode(str, num) = Decoding(str, num, places)[DOMAIN places].dst
  BY DEF urlndecode, FoldLeft, MapThenFoldSet, Decoding

\* Turn by turn, from the front of the string.
EncodeRun(e, str, num) ==
    /\ e[0] = [dst |-> <<>>, over |-> FALSE]
    /\ \A k \in 1 .. Len(str) : e[k] = EncodeTurn(e[k - 1], str[k], num)
DecodeRun(d, str, num) ==
    /\ d[0] = [dst |-> <<>>, skip |-> 0]
    /\ \A k \in 1 .. Len(str) : d[k] = DecodeTurn(d[k - 1], str, k, num)

\* The last place of the first ones.
LEMMA LastPlace ==
  ASSUME NEW k \in Nat, k # 0
  PROVE  Max(1 .. k) = k /\ (1 .. k) \ {k} = 1 .. (k - 1)
<1>1. Max(1 .. k) \in 1 .. k /\ \A i \in 1 .. k : i <= Max(1 .. k)
  <2>1. 1 .. k # {} /\ 1 .. k \in SUBSET (1 .. k)
    OBVIOUS
  <2> QED
    BY <2>1, MaxIn
<1>2. PICK m \in 1 .. k : m = Max(1 .. k) /\ \A i \in 1 .. k : i <= m
  BY <1>1
<1>3. m = k
  BY <1>2
<1> QED
  BY <1>2, <1>3

\* The encoder goes through its turns one by one, as does the decoder.
LEMMA EncodeRuns ==
  ASSUME NEW T, NEW str \in Seq(T), NEW num
  PROVE  \E e : EncodeRun(e, str, num) /\ urlnencode(str, num) = e[Len(str)].dst
<1>1. PICK n \in Nat : n = Len(str) /\ DOMAIN str = 1 .. n
  OBVIOUS
<1>2. PICK h : IsRun("encode", str, num, n, h)
  BY RunsOver
<1>3. h = [s \in SUBSET (1 .. n) |->
              IF s = {} THEN [dst |-> <<>>, over |-> FALSE]
              ELSE EncodeTurn(h[s \ {Max(s)}], str[Max(s)], num)]
  BY <1>2 DEF IsRun, Done, Start, Step
<1>4. PICK g : g = Encoding(str, num)
  OBVIOUS
<1>5. g = [s \in SUBSET (1 .. n) |->
              IF s = {} THEN [dst |-> <<>>, over |-> FALSE]
              ELSE EncodeTurn(g[s \ {Max(s)}], str[Max(s)], num)]
  BY <1>1, <1>3, <1>4 DEF Encoding
<1> DEFINE e == [k \in 0 .. n |-> g[1 .. k]]
<1>6. e[0] = [dst |-> <<>>, over |-> FALSE]
  <2>1. 1 .. 0 = {} /\ {} \in SUBSET (1 .. n) /\ 0 \in 0 .. n
    OBVIOUS
  <2>2. e[0] = g[1 .. 0]
    BY <2>1
  <2> QED
    BY <1>5, <2>1, <2>2
<1>7. ASSUME NEW k \in 1 .. n PROVE e[k] = EncodeTurn(e[k - 1], str[k], num)
  <2>0. k \in Nat /\ k # 0 /\ k - 1 \in 0 .. n /\ k \in 0 .. n
    OBVIOUS
  <2>1. 1 .. k \in SUBSET (1 .. n) /\ 1 .. k # {}
    <3>1. 1 .. k \subseteq 1 .. n /\ k \in 1 .. k
      OBVIOUS
    <3> QED
      BY <3>1
  <2>2. Max(1 .. k) = k /\ (1 .. k) \ {k} = 1 .. (k - 1)
    BY <2>0, LastPlace
  <2>3. g[1 .. k] = EncodeTurn(g[(1 .. k) \ {Max(1 .. k)}], str[Max(1 .. k)], num)
    BY <1>5, <2>1
  <2>4. g[1 .. k] = EncodeTurn(g[1 .. (k - 1)], str[k], num)
    BY <2>2, <2>3
  <2> QED
    BY <2>0, <2>4
<1>8. e[n] = g[1 .. n]
  OBVIOUS
<1> HIDE DEF e
<1>9. EncodeRun(e, str, num)
  BY <1>1, <1>6, <1>7 DEF EncodeRun
<1>10. urlnencode(str, num) = e[Len(str)].dst
  BY <1>1, <1>4, <1>8, EncodingIs
<1> QED
  BY <1>9, <1>10

LEMMA DecodeRuns ==
  ASSUME NEW T, NEW str \in Seq(T), NEW num
  PROVE  \E d : DecodeRun(d, str, num) /\ urlndecode(str, num) = d[Len(str)].dst
<1>1. PICK n \in Nat : n = Len(str)
  OBVIOUS
<1>2. PICK h : IsRun("decode", str, num, n, h)
  BY RunsOver
<1>3. h = [s \in SUBSET (1 .. n) |->
              IF s = {} THEN [dst |-> <<>>, skip |-> 0]
              ELSE DecodeTurn(h[s \ {Max(s)}], str, Max(s), num)]
  BY <1>2 DEF IsRun, Done, Start, Step
<1>4a. PICK id : id = [i \in 1 .. Len(str) |-> i]
  OBVIOUS
<1>4c. DOMAIN id = 1 .. n /\ \A i \in 1 .. n : id[i] = i
  BY <1>1, <1>4a
<1>4. PICK g : g = Decoding(str, num, id)
  OBVIOUS
<1>4b. h = [s \in SUBSET (1 .. n) |->
              IF s = {} THEN [dst |-> <<>>, skip |-> 0]
              ELSE DecodeTurn(h[s \ {Max(s)}], str, id[Max(s)], num)]
  <2>1. ASSUME NEW s \in SUBSET (1 .. n), s # {} PROVE id[Max(s)] = Max(s)
    <3>1. Max(s) \in 1 .. n
      BY <2>1, MaxIn
    <3> QED
      BY <1>4c, <3>1
  <2> QED
    BY <1>3, <2>1
<1>5. g = [s \in SUBSET (1 .. n) |->
              IF s = {} THEN [dst |-> <<>>, skip |-> 0]
              ELSE DecodeTurn(g[s \ {Max(s)}], str, id[Max(s)], num)]
  BY <1>4c, <1>4b, <1>4 DEF Decoding
<1> DEFINE d == [k \in 0 .. n |-> g[1 .. k]]
<1>6. d[0] = [dst |-> <<>>, skip |-> 0]
  <2>1. 1 .. 0 = {} /\ {} \in SUBSET (1 .. n) /\ 0 \in 0 .. n
    OBVIOUS
  <2>2. d[0] = g[1 .. 0]
    BY <2>1
  <2> QED
    BY <1>5, <2>1, <2>2
<1>7. ASSUME NEW k \in 1 .. n PROVE d[k] = DecodeTurn(d[k - 1], str, k, num)
  <2>0. k \in Nat /\ k # 0 /\ k - 1 \in 0 .. n /\ k \in 0 .. n
    OBVIOUS
  <2>1. 1 .. k \in SUBSET (1 .. n) /\ 1 .. k # {}
    <3>1. 1 .. k \subseteq 1 .. n /\ k \in 1 .. k
      OBVIOUS
    <3> QED
      BY <3>1
  <2>2. Max(1 .. k) = k /\ (1 .. k) \ {k} = 1 .. (k - 1) /\ id[k] = k
    BY <1>4c, <2>0, LastPlace
  <2>3. g[1 .. k] = DecodeTurn(g[(1 .. k) \ {Max(1 .. k)}], str, id[Max(1 .. k)], num)
    BY <1>5, <2>1
  <2>4. g[1 .. k] = DecodeTurn(g[1 .. (k - 1)], str, k, num)
    BY <2>2, <2>3
  <2> QED
    BY <2>0, <2>4
<1>8. d[n] = g[1 .. n]
  OBVIOUS
<1> HIDE DEF d
<1>9. DecodeRun(d, str, num)
  BY <1>1, <1>6, <1>7 DEF DecodeRun
<1>10. urlndecode(str, num) = d[Len(str)].dst
  BY <1>1, <1>4, <1>4a, <1>4c, <1>8, DecodingIs
<1> QED
  BY <1>9, <1>10

-------------------------------------------------------------------------------
(* A byte and its digits.                                                     *)

\* The values of the bits of a byte.
Powers == {1, 2, 4, 8, 16, 32, 64, 128}

\* A number, by its half and its last bit.
LEMMA Halves == ASSUME NEW n \in Nat PROVE n = 2 * (n \div 2) + (n % 2)
  OBVIOUS

\* A byte is the sum of its bits.
LEMMA BitsSum ==
  ASSUME NEW a \in 0 .. 255
  PROVE  a = (a % 2) + 2 * ((a \div 2) % 2) + 4 * ((a \div 4) % 2) + 8 * ((a \div 8) % 2)
               + 16 * ((a \div 16) % 2) + 32 * ((a \div 32) % 2) + 64 * ((a \div 64) % 2)
               + 128 * ((a \div 128) % 2)
<1>1. \A n \in Nat : n = 2 * (n \div 2) + (n % 2)
  BY Halves
<1>2. a \div 2 \in Nat /\ a \div 4 = (a \div 2) \div 2
  OBVIOUS
<1>3. a \div 4 \in Nat /\ a \div 8 = (a \div 4) \div 2
  OBVIOUS
<1>4. a \div 8 \in Nat /\ a \div 16 = (a \div 8) \div 2
  OBVIOUS
<1>5. a \div 16 \in Nat /\ a \div 32 = (a \div 16) \div 2
  OBVIOUS
<1>6. a \div 32 \in Nat /\ a \div 64 = (a \div 32) \div 2
  OBVIOUS
<1>7. a \div 64 \in Nat /\ a \div 128 = (a \div 64) \div 2
  OBVIOUS
<1>8. a \div 128 \in {0, 1}
  OBVIOUS
<1>9. (a \div 128) % 2 = a \div 128
  BY <1>8
<1> QED
  BY <1>1, <1>2, <1>3, <1>4, <1>5, <1>6, <1>7, <1>9

\* A byte is known by its ones.
LEMMA OnesTell ==
  ASSUME NEW a \in 0 .. 255, NEW b \in 0 .. 255, Ones(a) = Ones(b)
  PROVE  a = b
<1>1. \A p \in Powers : (a \div p) % 2 = 1 <=> (b \div p) % 2 = 1
  <2>1. \A p \in Powers : p \in Ones(a) <=> (a \div p) % 2 = 1
    BY DEF Ones, Powers
  <2>2. \A p \in Powers : p \in Ones(b) <=> (b \div p) % 2 = 1
    BY DEF Ones, Powers
  <2> QED
    BY <2>1, <2>2, Zenon
<1>2. /\ a % 2 = b % 2
      /\ (a \div 2) % 2 = (b \div 2) % 2
      /\ (a \div 4) % 2 = (b \div 4) % 2
      /\ (a \div 8) % 2 = (b \div 8) % 2
      /\ (a \div 16) % 2 = (b \div 16) % 2
      /\ (a \div 32) % 2 = (b \div 32) % 2
      /\ (a \div 64) % 2 = (b \div 64) % 2
      /\ (a \div 128) % 2 = (b \div 128) % 2
  <2>1. \A n \in Nat : n % 2 \in {0, 1}
    OBVIOUS
  <2>2. \A p \in {1, 2, 4, 8, 16, 32, 64, 128} : a \div p \in Nat /\ b \div p \in Nat
    OBVIOUS
  <2>3. a \div 1 = a /\ b \div 1 = b
    OBVIOUS
  <2> QED
    BY <1>1, <2>1, <2>2, <2>3 DEF Powers
<1> QED
  BY <1>2, BitsSum

\* The operator | puts two digits together.
LEMMA OrIs ==
  ASSUME NEW h \in 0 .. 15, NEW l \in 0 .. 15
  PROVE  Or(h * 16, l) = h * 16 + l
<1>1. PICK m \in 0 .. 240 : m = h * 16
  OBVIOUS
<1>2. PICK b \in 0 .. 255 : b = m + l
  BY <1>1
<1>3. \A p \in {1, 2, 4, 8} : (b \div p) % 2 = (l \div p) % 2 /\ (m \div p) % 2 = 0
  BY <1>1, <1>2
<1>4. \A p \in {16, 32, 64, 128} : (b \div p) % 2 = (m \div p) % 2 /\ (l \div p) % 2 = 0
  BY <1>1, <1>2
<1>5. Ones(b) = Ones(m) \cup Ones(l)
  <2>1. \A p \in Powers : (b \div p) % 2 = 1 <=> (m \div p) % 2 = 1 \/ (l \div p) % 2 = 1
    <3>1. \A p \in {1, 2, 4, 8} :
             /\ (b \div p) % 2 = 1 <=> (l \div p) % 2 = 1
             /\ ~((m \div p) % 2 = 1)
      BY <1>3
    <3>2. \A p \in {16, 32, 64, 128} :
             /\ (b \div p) % 2 = 1 <=> (m \div p) % 2 = 1
             /\ ~((l \div p) % 2 = 1)
      BY <1>4
    <3>3. \A p \in Powers : p \in {1, 2, 4, 8} \/ p \in {16, 32, 64, 128}
      BY DEF Powers
    <3> QED
      BY <3>1, <3>2, <3>3, Zenon
  <2>2. \A n : \A p : p \in Ones(n) <=> p \in Powers /\ (n \div p) % 2 = 1
    BY DEF Ones, Powers
  <2>3. \A p : p \in Ones(b) <=> p \in Ones(m) \cup Ones(l)
    BY <2>1, <2>2, Zenon
  <2> QED
    BY <2>3, Zenon
<1>6. b \in m .. 255
  BY <1>2
<1>7. PICK o : o = Or(m, l)
  OBVIOUS
<1>8. o \in m .. 255 /\ Ones(o) = Ones(m) \cup Ones(l)
  BY <1>5, <1>6, <1>7 DEF Or
<1>9. o = b
  <2>1. o \in 0 .. 255
    BY <1>8
  <2> QED
    BY <1>5, <1>8, <2>1, OnesTell
<1> QED
  BY <1>1, <1>2, <1>7, <1>9

\* A digit that was written is read back.
LEMMA NibbleIs ==
  ASSUME NEW n \in 0 .. 15
  PROVE  to_nibble(n) \in Digits \cup Lower /\ from_hex(to_nibble(n)) = n
<1>1. CASE n < 10
  BY <1>1 DEF to_nibble, from_hex, Digits, Lower, Upper
<1>2. CASE n >= 10
  BY <1>2 DEF to_nibble, from_hex, Digits, Lower, Upper
<1> QED
  BY <1>1, <1>2

\* So are the two of a byte.
LEMMA HexIs ==
  ASSUME NEW c \in 0 .. 255
  PROVE  Hex(to_nibble(c \div 16), to_nibble(c % 16)) = c
<1>1. PICK h \in 0 .. 15, l \in 0 .. 15 : h = c \div 16 /\ l = c % 16 /\ c = h * 16 + l
  OBVIOUS
<1>2. from_hex(to_nibble(h)) = h /\ from_hex(to_nibble(l)) = l
  BY NibbleIs
<1>3. (h * 16) % 256 = h * 16 /\ l % 256 = l
  OBVIOUS
<1>4. Hex(to_nibble(h), to_nibble(l)) = Or(h * 16, l)
  BY <1>2, <1>3 DEF Hex
<1> QED
  BY <1>1, <1>4, OrIs

-------------------------------------------------------------------------------
(* Decoding undoes encoding.                                                  *)

\* Sequences are the same when their elements are.
LEMMA SameSequence ==
  ASSUME NEW T, NEW s \in Seq(T), NEW t \in Seq(T), Len(s) = Len(t),
         \A k \in 1 .. Len(t) : s[k] = t[k]
  PROVE  s = t
  OBVIOUS

\* The elements of two sequences put together.
LEMMA JoinIs ==
  ASSUME NEW T, NEW s \in Seq(T), NEW t \in Seq(T)
  PROVE  /\ s \o t \in Seq(T) /\ Len(s \o t) = Len(s) + Len(t)
         /\ \A k \in 1 .. Len(s) : (s \o t)[k] = s[k]
         /\ \A k \in 1 .. Len(t) : (s \o t)[Len(s) + k] = t[k]
  OBVIOUS

\* A sequence and one more element.
LEMMA AppendIs ==
  ASSUME NEW T, NEW s \in Seq(T), NEW x \in T
  PROVE  /\ Append(s, x) = s \o <<x>> /\ Append(s, x) \in Seq(T)
         /\ Len(Append(s, x)) = Len(s) + 1
<1>1. PICK t \in Seq(T) : t = <<x>> /\ Len(t) = 1 /\ t[1] = x
  <2>1. <<x>> \in Seq(T) /\ Len(<<x>>) = 1 /\ <<x>>[1] = x
    OBVIOUS
  <2> QED
    BY <2>1, Zenon
<1>2. Append(s, x) \in Seq(T) /\ Len(Append(s, x)) = Len(s) + 1
  OBVIOUS
<1>3. s \o t \in Seq(T) /\ Len(s \o t) = Len(s) + 1
  BY <1>1
<1>4. \A k \in 1 .. Len(s) + 1 : Append(s, x)[k] = (s \o t)[k]
  BY <1>1
<1>5. Append(s, x) = s \o t
  BY <1>2, <1>3, <1>4, SameSequence
<1> QED
  BY <1>1, <1>2, <1>5

\* The accumulator of the encoder.
Bytes == 0 .. 255
EncAcc == [dst : Seq(Bytes), over : BOOLEAN]

\* What a character is coded as.
Code(c) ==
    IF c \in Unreserved THEN <<c>>
    ELSE IF c = Space THEN <<Plus>>
    ELSE <<Percent, to_nibble(c \div 16), to_nibble(c % 16)>>

\* A code is one character that stands for itself or for a space, or a percent sign
\* and two digits.
LEMMA CodeIs ==
  ASSUME NEW c \in 1 .. 255
  PROVE  /\ Code(c) \in Seq(Bytes) /\ Len(Code(c)) \in {1, 3}
         /\ Len(Code(c)) = 1 => /\ Code(c)[1] # Percent
                                /\ (IF Code(c)[1] = Plus THEN Space ELSE Code(c)[1]) = c
         /\ Len(Code(c)) = 3 => /\ Code(c)[1] = Percent
                                /\ Hex(Code(c)[2], Code(c)[3]) = c
<1>1. CASE c \in Unreserved
  <2>1. Code(c) = <<c>> /\ c # Percent /\ c # Plus
    BY <1>1 DEF Code, Unreserved, Digits, Upper, Lower, Percent, Plus
  <2>2. c \in Bytes
    BY DEF Bytes
  <2> QED
    BY <2>1, <2>2
<1>2. CASE c \notin Unreserved /\ c = Space
  <2>1. Code(c) = <<Plus>> /\ Plus # Percent /\ Plus \in Bytes
    BY <1>2 DEF Code, Percent, Plus, Bytes
  <2> QED
    BY <1>2, <2>1
<1>3. CASE c \notin Unreserved /\ c # Space
  <2>1. PICK h, l : h = to_nibble(c \div 16) /\ l = to_nibble(c % 16)
    OBVIOUS
  <2>2. Code(c) = <<Percent, h, l>>
    BY <1>3, <2>1, Zenon DEF Code
  <2>3. h \in Bytes /\ l \in Bytes
    <3>1. c \div 16 \in 0 .. 15 /\ c % 16 \in 0 .. 15
      OBVIOUS
    <3>2. Digits \cup Lower \subseteq Bytes
      BY DEF Digits, Lower, Bytes
    <3> QED
      BY <2>1, <3>1, <3>2, NibbleIs
  <2>4. Hex(h, l) = c
    <3>1. c \in 0 .. 255
      OBVIOUS
    <3> QED
      BY <2>1, <3>1, HexIs
  <2>5. Percent \in Bytes
    BY DEF Percent, Bytes
  <2> QED
    BY <2>2, <2>3, <2>4, <2>5
<1> QED
  BY <1>1, <1>2, <1>3

\* What has room for three has room for one.
LEMMA Room ==
  ASSUME NEW l \in Nat, NEW n \in {1, 3}, NEW num \in Nat, ~(l + 3 >= num)
  PROVE  l + n <= num
  OBVIOUS

\* A turn of the encoder adds the code of the character, or ends the loop.
Turned(acc, next, c, num) ==
    /\ next \in EncAcc /\ Len(next.dst) <= num
    /\ \/ /\ next.over /\ next.dst = acc.dst
          /\ acc.over \/ Len(acc.dst) + 3 >= num
       \/ /\ ~acc.over /\ ~next.over
          /\ Len(acc.dst) < num /\ next.dst = acc.dst \o Code(c)

LEMMA EncodeStep ==
  ASSUME NEW acc \in EncAcc, NEW c \in 1 .. 255, NEW num \in Nat, Len(acc.dst) <= num,
         NEW next, next = EncodeTurn(acc, c, num)
  PROVE  Turned(acc, next, c, num)
<1>1. PICK dst \in Seq(Bytes) : dst = acc.dst
  BY DEF EncAcc
<1>2. acc.over \in BOOLEAN /\ Len(dst) \in Nat
  BY <1>1 DEF EncAcc
<1>3. PICK code \in Seq(Bytes) : code = Code(c)
  BY CodeIs
<1>4. dst \o code \in Seq(Bytes) /\ Len(dst \o code) = Len(dst) + Len(code)
  BY JoinIs
<1>5. CASE next = [acc EXCEPT !.over = TRUE] /\ (acc.over \/ Len(acc.dst) + 3 >= num)
  <2>1. next \in EncAcc /\ next.over /\ next.dst = acc.dst
    BY <1>5 DEF EncAcc
  <2> QED
    BY <1>5, <2>1 DEF Turned
<1>6. CASE /\ next = [acc EXCEPT !.dst = dst \o code]
           /\ ~acc.over /\ Len(dst) < num /\ Len(dst) + Len(code) <= num
  <2>1. next \in EncAcc /\ next.over = acc.over /\ next.dst = dst \o code
    BY <1>4, <1>6 DEF EncAcc
  <2> QED
    BY <1>1, <1>3, <1>4, <1>6, <2>1 DEF Turned
<1>7. ASSUME ~acc.over, ~(Len(acc.dst) >= num) PROVE Len(dst) < num
  BY <1>1, <1>2, <1>7
<1>8. CASE acc.over \/ Len(acc.dst) >= num
  <2>1. next = [acc EXCEPT !.over = TRUE]
    BY <1>8, Zenon DEF EncodeTurn
  <2>2. acc.over \/ Len(acc.dst) + 3 >= num
    BY <1>1, <1>2, <1>8
  <2> QED
    BY <1>5, <2>1, <2>2
<1>9. CASE ~(acc.over \/ Len(acc.dst) >= num) /\ (c \in Unreserved \/ c = Space)
  <2>1. PICK x \in Bytes : code = <<x>> /\ next = [acc EXCEPT !.dst = Append(@, x)]
    <3>1. CASE c \in Unreserved
      <4>1. next = [acc EXCEPT !.dst = Append(@, c)] /\ code = <<c>>
        BY <1>3, <1>9, <3>1, Zenon DEF EncodeTurn, Code
      <4>2. c \in Bytes
        BY DEF Bytes
      <4> QED
        BY <4>1, <4>2, Zenon
    <3>2. CASE c \notin Unreserved
      <4>1. next = [acc EXCEPT !.dst = Append(@, Plus)] /\ code = <<Plus>>
        BY <1>3, <1>9, <3>2, Zenon DEF EncodeTurn, Code
      <4>2. Plus \in Bytes
        BY DEF Bytes, Plus
      <4> QED
        BY <4>1, <4>2, Zenon
    <3> QED
      BY <3>1, <3>2
  <2>2. Append(dst, x) = dst \o code
    BY <2>1, AppendIs
  <2>3. next = [acc EXCEPT !.dst = dst \o code]
    BY <1>1, <2>1, <2>2, Zenon
  <2>4. Len(code) = 1
    BY <2>1
  <2>5. ~acc.over /\ Len(dst) < num
    BY <1>7, <1>9
  <2>6. Len(dst) + Len(code) <= num
    BY <1>2, <2>4, <2>5
  <2> QED
    BY <1>6, <2>3, <2>5, <2>6
<1>10. CASE ~(acc.over \/ Len(acc.dst) >= num) /\ c \notin Unreserved /\ c # Space
  <2>1. CASE Full(acc.dst, num)
    <3>1. next = [acc EXCEPT !.over = TRUE]
      BY <1>10, <2>1, Zenon DEF EncodeTurn
    <3>2. Len(acc.dst) + 3 >= num
      BY <2>1 DEF Full
    <3> QED
      BY <1>5, <3>1, <3>2
  <2>2. CASE ~Full(acc.dst, num)
    <3>1. next = [acc EXCEPT !.dst = @ \o Code(c)]
      BY <1>10, <2>2, Zenon DEF EncodeTurn, Code
    <3>2. next = [acc EXCEPT !.dst = dst \o code]
      BY <1>1, <1>3, <3>1, Zenon
    <3>3. Len(code) \in {1, 3}
      BY <1>3, CodeIs
    <3>4. ~(Len(dst) + 3 >= num)
      BY <1>1, <2>2 DEF Full
    <3>5. ~acc.over /\ Len(dst) < num
      BY <1>7, <1>10
    <3>6. Len(dst) + Len(code) <= num
      BY <1>2, <3>3, <3>4, Room
    <3> QED
      BY <1>6, <3>2, <3>5, <3>6
  <2> QED
    BY <2>1, <2>2
<1> QED
  BY <1>8, <1>9, <1>10

\* What holds of the encoder after k characters.
Encoded(acc, k, num) ==
    /\ acc \in EncAcc
    /\ Len(acc.dst) <= num /\ Len(acc.dst) <= 3 * k
    /\ acc.over => num <= 3 * k
    /\ ~acc.over => k <= Len(acc.dst)

\* A turn keeps it.
LEMMA EncodedKeeps ==
  ASSUME NEW k \in Nat, NEW num \in Nat, NEW acc, Encoded(acc, k, num), NEW c \in 1 .. 255,
         NEW next, next = EncodeTurn(acc, c, num)
  PROVE  Encoded(next, k + 1, num)
<1>1. acc \in EncAcc /\ Len(acc.dst) <= num
  BY DEF Encoded
<1>2. /\ next \in EncAcc /\ Len(next.dst) <= num
      /\ \/ /\ next.over /\ next.dst = acc.dst
            /\ acc.over \/ Len(acc.dst) + 3 >= num
         \/ /\ ~acc.over /\ ~next.over
            /\ Len(acc.dst) < num /\ next.dst = acc.dst \o Code(c)
  <2>1. Turned(acc, next, c, num)
    BY <1>1, EncodeStep
  <2> QED
    BY <2>1 DEF Turned
<1>3. PICK l \in Nat : l = Len(acc.dst) /\ l <= 3 * k
  <2>1. acc.dst \in Seq(Bytes)
    BY <1>1 DEF EncAcc
  <2> QED
    BY <2>1 DEF Encoded
<1>4. CASE next.over /\ next.dst = acc.dst /\ (acc.over \/ Len(acc.dst) + 3 >= num)
  <2>1. num <= 3 * (k + 1) /\ l <= 3 * (k + 1)
    BY <1>3, <1>4 DEF Encoded
  <2> QED
    BY <1>2, <1>3, <1>4, <2>1 DEF Encoded
<1>5. CASE ~acc.over /\ ~next.over /\ next.dst = acc.dst \o Code(c)
  <2>1. PICK n \in {1, 3} : n = Len(Code(c)) /\ Len(acc.dst \o Code(c)) = l + n
    <3>1. acc.dst \in Seq(Bytes) /\ Code(c) \in Seq(Bytes) /\ Len(Code(c)) \in {1, 3}
      BY <1>1, CodeIs DEF EncAcc
    <3>2. Len(acc.dst \o Code(c)) = Len(acc.dst) + Len(Code(c))
      BY <3>1, JoinIs
    <3> QED
      BY <1>3, <3>1, <3>2
  <2>2. k <= l
    BY <1>3, <1>5 DEF Encoded
  <2>3. l + n <= 3 * (k + 1) /\ k + 1 <= l + n
    BY <1>3, <2>2
  <2> QED
    BY <1>2, <1>5, <2>1, <2>3 DEF Encoded
<1> QED
  BY <1>2, <1>4, <1>5

\* The characters of a C string.
Chars == 1 .. 255

LEMMA CharIs ==
  ASSUME NEW str \in Seq(Chars), NEW i \in 1 .. Len(str)
  PROVE  str[i] \in 1 .. 255
<1>1. str[i] \in Chars
  OBVIOUS
<1> QED
  BY <1>1, Zenon DEF Chars

\* It holds throughout a string.
LEMMA AllEncoded ==
  ASSUME NEW str \in Seq(Chars), NEW num \in Nat, NEW e, EncodeRun(e, str, num)
  PROVE  \A k \in 0 .. Len(str) : Encoded(e[k], k, num)
<1> DEFINE N == {k \in Nat : k <= Len(str) => Encoded(e[k], k, num)}
<1>1. 0 \in N
  <2>1. e[0] = [dst |-> <<>>, over |-> FALSE]
    BY DEF EncodeRun
  <2>2. <<>> \in Seq(Bytes) /\ Len(<<>>) = 0
    OBVIOUS
  <2>3. Encoded(e[0], 0, num)
    BY <2>1, <2>2 DEF Encoded, EncAcc
  <2> QED
    BY <2>3
<1>2. ASSUME NEW k \in Nat, k \in N PROVE k + 1 \in N
  <2>1. SUFFICES ASSUME k + 1 <= Len(str) PROVE Encoded(e[k + 1], k + 1, num)
    OBVIOUS
  <2>2. k + 1 \in 1 .. Len(str) /\ (k + 1) - 1 = k /\ k <= Len(str)
    BY <2>1
  <2>3. e[k + 1] = EncodeTurn(e[k], str[k + 1], num)
    BY <2>2 DEF EncodeRun
  <2>4. str[k + 1] \in 1 .. 255
    BY <2>2, CharIs
  <2>5. Encoded(e[k], k, num)
    BY <1>2, <2>2
  <2> QED
    BY <2>3, <2>4, <2>5, EncodedKeeps
<1> HIDE DEF N
<1>3. \A k \in Nat : k \in N
  BY <1>1, <1>2, Counting
<1> USE DEF N
<1> QED
  BY <1>3

\* A sequence is the beginning of another.
Begins(s, t) == Len(s) <= Len(t) /\ \A i \in 1 .. Len(s) : t[i] = s[i]

\* What has been written stays: at every turn it is the beginning of the result.
LEMMA Beginnings ==
  ASSUME NEW str \in Seq(Chars), NEW num \in Nat, NEW e, EncodeRun(e, str, num)
  PROVE  \A k \in 0 .. Len(str) : Begins(e[k].dst, e[Len(str)].dst)
<1>1. PICK n \in Nat : n = Len(str)
  OBVIOUS
<1>2. PICK t : t = e[n].dst
  OBVIOUS
<1>3. \A k \in 0 .. n : Encoded(e[k], k, num)
  BY <1>1, AllEncoded
<1> DEFINE N == {j \in Nat : j <= n => Begins(e[n - j].dst, t)}
<1>4. 0 \in N
  <2>1. n - 0 = n /\ n \in 0 .. n
    OBVIOUS
  <2>2. t \in Seq(Bytes)
    BY <1>2, <1>3, <2>1 DEF Encoded, EncAcc
  <2>3. Begins(t, t)
    BY <2>2 DEF Begins
  <2> QED
    BY <1>2, <2>1, <2>3
<1>5. ASSUME NEW j \in Nat, j \in N PROVE j + 1 \in N
  <2>1. SUFFICES ASSUME j + 1 <= n PROVE Begins(e[n - (j + 1)].dst, t)
    OBVIOUS
  <2>2. PICK k \in 0 .. n : k = n - (j + 1) /\ k + 1 = n - j /\ k + 1 \in 1 .. n
    BY <2>1
  <2>3. e[k + 1] = EncodeTurn(e[k], str[k + 1], num)
    <3>1. (k + 1) - 1 = k
      OBVIOUS
    <3> QED
      BY <1>1, <2>2, <3>1 DEF EncodeRun
  <2>4. str[k + 1] \in 1 .. 255
    BY <1>1, <2>2, CharIs
  <2>5. e[k] \in EncAcc /\ Len(e[k].dst) <= num
    BY <1>3 DEF Encoded
  <2>6. e[k + 1].dst = e[k].dst \/ e[k + 1].dst = e[k].dst \o Code(str[k + 1])
    <3>1. Turned(e[k], e[k + 1], str[k + 1], num)
      BY <2>3, <2>4, <2>5, EncodeStep
    <3> QED
      BY <3>1 DEF Turned
  <2>7. Begins(e[k + 1].dst, t)
    BY <1>5, <2>1, <2>2
  <2>8. PICK s \in Seq(Bytes), c \in Seq(Bytes) : s = e[k].dst /\ c = Code(str[k + 1])
    BY <2>4, <2>5, CodeIs DEF EncAcc
  <2>9. CASE e[k + 1].dst = s \o c
    <3>1. /\ Len(s \o c) = Len(s) + Len(c) /\ \A i \in 1 .. Len(s) : (s \o c)[i] = s[i]
      BY JoinIs
    <3>2. Len(s \o c) <= Len(t) /\ \A i \in 1 .. Len(s \o c) : t[i] = (s \o c)[i]
      BY <2>7, <2>9 DEF Begins
    <3>3. t \in Seq(Bytes)
      BY <1>2, <1>3 DEF Encoded, EncAcc
    <3>4. Len(s) <= Len(s \o c) /\ Len(s) <= Len(t)
      BY <3>1, <3>2, <3>3
    <3>5. Begins(s, t)
      BY <3>1, <3>2, <3>4 DEF Begins
    <3> QED
      BY <2>2, <2>8, <3>5
  <2> QED
    BY <2>2, <2>6, <2>7, <2>8, <2>9
<1> HIDE DEF N
<1>6. \A j \in Nat : j \in N
  BY <1>4, <1>5, Counting
<1>7. ASSUME NEW k \in 0 .. n PROVE Begins(e[k].dst, t)
  <2>1. n - k \in Nat /\ n - k <= n /\ n - (n - k) = k
    OBVIOUS
  <2>2. n - k \in N
    BY <1>6, <2>1
  <2> QED
    BY <2>1, <2>2 DEF N
<1> QED
  BY <1>1, <1>2, <1>7

\* A digit that was taken is left out.
LEMMA Skipped ==
  ASSUME NEW q, NEW acc
  PROVE  /\ acc = [dst |-> q, skip |-> 2] => [acc EXCEPT !.skip = @ - 1] = [dst |-> q, skip |-> 1]
         /\ acc = [dst |-> q, skip |-> 1] => [acc EXCEPT !.skip = @ - 1] = [dst |-> q, skip |-> 0]
  OBVIOUS

\* Behind place m of its text the decoder has given s back, and is behind a code.
Gave(d, m, s) == d[m] = [dst |-> s, skip |-> 0]

\* The code of a character behind place m of a text.
CodeAt(t, m, c) ==
    m + Len(Code(c)) <= Len(t) /\ \A i \in 1 .. Len(Code(c)) : t[m + i] = Code(c)[i]

\* The decoder gives the character for its code.
LEMMA DecodeCode ==
  ASSUME NEW t \in Seq(Bytes), NEW num \in Nat, NEW d, DecodeRun(d, t, num), NEW c \in 1 .. 255,
         NEW m \in Nat, CodeAt(t, m, c),
         NEW s \in Seq(Bytes), Len(s) < num, Gave(d, m, s)
  PROVE  Gave(d, m + Len(Code(c)), Append(s, c))
<1>0. m + Len(Code(c)) <= Len(t) /\ \A i \in 1 .. Len(Code(c)) : t[m + i] = Code(c)[i]
  BY DEF CodeAt
<1>1. PICK n \in {1, 3} : n = Len(Code(c)) /\ \A i \in 1 .. n : t[m + i] = Code(c)[i]
  BY <1>0, CodeIs
<1>2. PICK l \in Nat : l = Len(t) /\ m + n <= l
  BY <1>0, <1>1
<1>3. \A k \in 1 .. l : d[k] = DecodeTurn(d[k - 1], t, k, num)
  BY <1>2 DEF DecodeRun
<1>4. \A k \in 1 .. n : d[m + k] = DecodeTurn(d[m + k - 1], t, m + k, num)
  <2>1. TAKE k \in 1 .. n
  <2>2. m + k \in 1 .. l
    BY <1>2
  <2> QED
    BY <1>3, <2>2
<1>5. ~(Len(s) >= num)
  <2>1. Len(s) \in Nat
    OBVIOUS
  <2> QED
    BY <2>1
<1>6. PICK acc : acc = d[m] /\ acc = [dst |-> s, skip |-> 0] /\ acc.dst = s /\ acc.skip = 0
  BY DEF Gave
<1>7. d[m + 1] = DecodeTurn(acc, t, m + 1, num)
  <2>1. 1 \in 1 .. n /\ m + 1 - 1 = m
    BY <1>1
  <2> QED
    BY <1>4, <1>6, <2>1
<1>8. ~(acc.skip > 0) /\ ~(Len(acc.dst) >= num)
  BY <1>5, <1>6
<1>9. CASE n = 1
  <2>0. t[m + 1] = Code(c)[1] /\ Len(Code(c)) = 1
    BY <1>1, <1>9
  <2>1. PICK x : x = t[m + 1] /\ x # Percent /\ (IF x = Plus THEN Space ELSE x) = c
    BY <2>0, CodeIs, Zenon
  <2>2. d[m + 1] = [acc EXCEPT !.dst = Append(@, IF x = Plus THEN Space ELSE x)]
    BY <1>7, <1>8, <2>1, Zenon DEF DecodeTurn
  <2>3. d[m + 1] = [acc EXCEPT !.dst = Append(s, c)]
    BY <1>6, <2>1, <2>2, Zenon
  <2>4. acc = [dst |-> s, skip |-> 0]
    BY <1>6
  <2>5. d[m + 1] = [dst |-> Append(s, c), skip |-> 0]
    BY <2>3, <2>4
  <2> QED
    BY <1>1, <1>9, <2>5 DEF Gave
<1>10. CASE n = 3
  <2>1. PICK x, y : x = t[(m + 1) + 1] /\ y = t[(m + 1) + 2] /\ t[m + 1] = Percent /\ Hex(x, y) = c
    <3>1. (m + 1) + 1 = m + 2 /\ (m + 1) + 2 = m + 3
      OBVIOUS
    <3>2. t[m + 1] = Code(c)[1] /\ t[m + 2] = Code(c)[2] /\ t[m + 3] = Code(c)[3]
      BY <1>1, <1>10
    <3>3. Code(c)[1] = Percent /\ Hex(Code(c)[2], Code(c)[3]) = c
      BY <1>1, <1>10, CodeIs
    <3>4. Hex(t[m + 2], t[m + 3]) = c /\ t[m + 1] = Percent
      BY <3>2, <3>3, Zenon
    <3> QED
      BY <3>1, <3>4, Zenon
  <2>2. (m + 1) + 2 <= Len(t)
    BY <1>2, <1>10
  <2>3. d[m + 1] = [dst |-> Append(acc.dst, Hex(t[(m + 1) + 1], t[(m + 1) + 2])), skip |-> 2]
    BY <1>7, <1>8, <2>1, <2>2, Zenon DEF DecodeTurn
  <2>4. PICK a1 : a1 = d[m + 1] /\ a1 = [dst |-> Append(s, c), skip |-> 2]
    BY <1>6, <2>1, <2>3, Zenon
  <2>5. PICK a2 : a2 = d[m + 2] /\ a2 = [dst |-> Append(s, c), skip |-> 1]
    <3>1. 2 \in 1 .. n /\ m + 2 - 1 = m + 1
      BY <1>10
    <3>2. d[m + 2] = DecodeTurn(a1, t, m + 2, num)
      BY <1>4, <2>4, <3>1
    <3>3. a1.skip > 0
      BY <2>4
    <3>4. d[m + 2] = [a1 EXCEPT !.skip = @ - 1]
      BY <3>2, <3>3, Zenon DEF DecodeTurn
    <3>5. [a1 EXCEPT !.skip = @ - 1] = [dst |-> Append(s, c), skip |-> 1]
      BY <2>4, Skipped
    <3> QED
      BY <3>4, <3>5, Zenon
  <2>6. d[m + 3] = [dst |-> Append(s, c), skip |-> 0]
    <3>1. 3 \in 1 .. n /\ m + 3 - 1 = m + 2
      BY <1>10
    <3>2. d[m + 3] = DecodeTurn(a2, t, m + 3, num)
      BY <1>4, <2>5, <3>1
    <3>3. a2.skip > 0
      BY <2>5
    <3>4. d[m + 3] = [a2 EXCEPT !.skip = @ - 1]
      BY <3>2, <3>3, Zenon DEF DecodeTurn
    <3>5. [a2 EXCEPT !.skip = @ - 1] = [dst |-> Append(s, c), skip |-> 0]
      BY <2>5, Skipped
    <3> QED
      BY <3>4, <3>5, Zenon
  <2> QED
    BY <1>1, <1>10, <2>6 DEF Gave
<1> QED
  BY <1>9, <1>10

\* The record of the decoder with another string.
LEMMA Replaced ==
  ASSUME NEW y, NEW z, NEW n
  PROVE  [[dst |-> y, skip |-> n] EXCEPT !.dst = z] = [dst |-> z, skip |-> n]
  OBVIOUS

\* The first characters of a string, and one more.
LEMMA FrontGrows ==
  ASSUME NEW str \in Seq(Chars), NEW k \in Nat, k + 1 <= Len(str)
  PROVE  /\ SubSeq(str, 1, k) \in Seq(Bytes) /\ Len(SubSeq(str, 1, k)) = k
         /\ Append(SubSeq(str, 1, k), str[k + 1]) = SubSeq(str, 1, k + 1)
<1>1. PICK n \in Nat : n = Len(str)
  OBVIOUS
<1>2. /\ SubSeq(str, 1, k) \in Seq(Chars) /\ Len(SubSeq(str, 1, k)) = k
      /\ \A i \in 1 .. k : SubSeq(str, 1, k)[i] = str[i]
  BY <1>1
<1>3. /\ SubSeq(str, 1, k + 1) \in Seq(Chars) /\ Len(SubSeq(str, 1, k + 1)) = k + 1
      /\ \A i \in 1 .. k + 1 : SubSeq(str, 1, k + 1)[i] = str[i]
  BY <1>1
<1>4. PICK a \in Seq(Chars), b \in Seq(Chars) :
         /\ a = SubSeq(str, 1, k) /\ b = SubSeq(str, 1, k + 1)
         /\ Len(a) = k /\ Len(b) = k + 1
         /\ \A i \in 1 .. k : a[i] = str[i]
         /\ \A i \in 1 .. k + 1 : b[i] = str[i]
  BY <1>2, <1>3
<1>5. PICK c \in Chars : c = str[k + 1]
  BY <1>1
<1>6. Append(a, c) \in Seq(Chars) /\ Len(Append(a, c)) = k + 1
  BY <1>4
<1>7. \A i \in 1 .. k + 1 : Append(a, c)[i] = b[i]
  BY <1>4, <1>5
<1>8. Append(a, c) = b
  BY <1>4, <1>6, <1>7, SameSequence
<1>9. a \in Seq(Bytes)
  <2>1. Chars \subseteq Bytes
    BY DEF Chars, Bytes
  <2> QED
    BY <2>1
<1> QED
  BY <1>4, <1>5, <1>8, <1>9

\* What the decoder has given back when it is behind the codes of k characters: those,
\* or when the encoder had stopped earlier, the first of them.
GivenBack(str, e, d, k) ==
    \E p \in 0 .. k :
        /\ Gave(d, Len(e[k].dst), SubSeq(str, 1, p))
        /\ ~e[k].over => p = k

\* Another character is given back, or the encoder has stopped.
LEMMA GivesOn ==
  ASSUME NEW str \in Seq(Chars), NEW num \in Nat, NEW e, EncodeRun(e, str, num),
         NEW t, t = e[Len(str)].dst, NEW d, DecodeRun(d, t, num),
         NEW k \in Nat, k + 1 <= Len(str), GivenBack(str, e, d, k)
  PROVE  GivenBack(str, e, d, k + 1)
<1>1. PICK n \in Nat : n = Len(str)
  OBVIOUS
<1>2. k \in 0 .. n /\ k + 1 \in 0 .. n /\ n \in 0 .. n /\ k + 1 \in 1 .. n /\ (k + 1) - 1 = k
  BY <1>1
<1>3. PICK c \in 1 .. 255 : c = str[k + 1]
  BY <1>1, <1>2, CharIs
<1>4. PICK acc, next : /\ acc = e[k] /\ next = e[k + 1]
  OBVIOUS
<1>5. Encoded(acc, k, num) /\ Begins(next.dst, t) /\ t \in Seq(Bytes)
  <2>1. Encoded(acc, k, num) /\ Encoded(e[n], n, num)
    BY <1>1, <1>2, <1>4, AllEncoded
  <2>2. Begins(next.dst, t)
    BY <1>1, <1>2, <1>4, Beginnings
  <2> QED
    BY <1>1, <2>1, <2>2 DEF Encoded, EncAcc
<1>6. Turned(acc, next, c, num)
  <2>1. next = EncodeTurn(acc, c, num)
    BY <1>1, <1>2, <1>3, <1>4 DEF EncodeRun
  <2> QED
    BY <1>5, <2>1, EncodeStep DEF Encoded
<1>7. PICK p \in 0 .. k : Gave(d, Len(acc.dst), SubSeq(str, 1, p)) /\ (~acc.over => p = k)
  BY <1>4 DEF GivenBack
<1>8. CASE next.over /\ next.dst = acc.dst
  <2>1. p \in 0 .. k + 1
    BY <1>7
  <2>2. Gave(d, Len(next.dst), SubSeq(str, 1, p))
    BY <1>7, <1>8
  <2> QED
    BY <1>4, <1>8, <2>1, <2>2 DEF GivenBack
<1>9. CASE ~acc.over /\ Len(acc.dst) < num /\ next.dst = acc.dst \o Code(c)
  <2>1. PICK a \in Seq(Bytes), code \in Seq(Bytes) : a = acc.dst /\ code = Code(c)
    BY <1>5, CodeIs DEF Encoded, EncAcc
  <2>2. PICK m \in Nat : m = Len(a)
    OBVIOUS
  <2>3. PICK s : s = SubSeq(str, 1, k) /\ s \in Seq(Bytes) /\ Len(s) = k
                 /\ Append(s, c) = SubSeq(str, 1, k + 1)
    BY <1>3, FrontGrows
  <2>4. Len(s) < num /\ Gave(d, m, s)
    <3>1. k <= Len(acc.dst)
      BY <1>5, <1>9 DEF Encoded
    <3>2. k <= m /\ m < num
      BY <1>9, <2>1, <2>2, <3>1
    <3>3. k < num
      BY <3>2
    <3> QED
      BY <1>7, <1>9, <2>1, <2>2, <2>3, <3>3
  <2>5. m + Len(code) <= Len(t) /\ \A i \in 1 .. Len(code) : t[m + i] = code[i]
    <3>1. Len(a \o code) = m + Len(code) /\ \A i \in 1 .. Len(code) : (a \o code)[m + i] = code[i]
      BY <2>2, JoinIs
    <3>2. Len(a \o code) <= Len(t) /\ \A i \in 1 .. Len(a \o code) : t[i] = (a \o code)[i]
      BY <1>5, <1>9, <2>1 DEF Begins
    <3>3. \A i \in 1 .. Len(code) : m + i \in 1 .. Len(a \o code)
      BY <3>1
    <3> QED
      BY <3>1, <3>2, <3>3
  <2>6. Gave(d, m + Len(code), Append(s, c))
    <3>1. CodeAt(t, m, c)
      BY <2>1, <2>5, Zenon DEF CodeAt
    <3>2. s \in Seq(Bytes) /\ t \in Seq(Bytes)
      BY <1>5, <2>3
    <3>3. Gave(d, m + Len(Code(c)), Append(s, c))
      BY <2>4, <3>1, <3>2, DecodeCode
    <3> QED
      BY <2>1, <3>3, Zenon
  <2>7. Len(next.dst) = m + Len(code)
    BY <1>9, <2>1, <2>2, JoinIs
  <2>8. Gave(d, Len(next.dst), SubSeq(str, 1, k + 1))
    BY <2>3, <2>6, <2>7
  <2>9. k + 1 \in 0 .. k + 1
    OBVIOUS
  <2> QED
    BY <1>4, <2>8, <2>9 DEF GivenBack
<1> QED
  BY <1>6, <1>8, <1>9 DEF Turned

\* Behind the whole result, all that was coded.
LEMMA AllGivenBack ==
  ASSUME NEW str \in Seq(Chars), NEW num \in Nat, NEW e, EncodeRun(e, str, num),
         NEW t, t = e[Len(str)].dst, NEW d, DecodeRun(d, t, num)
  PROVE  GivenBack(str, e, d, Len(str))
<1> DEFINE N == {k \in Nat : k <= Len(str) => GivenBack(str, e, d, k)}
<1>1. 0 \in N
  <2>1. e[0].dst = <<>> /\ Len(<<>>) = 0 /\ SubSeq(str, 1, 0) = <<>>
    BY DEF EncodeRun
  <2>2. d[0] = [dst |-> <<>>, skip |-> 0]
    BY DEF DecodeRun
  <2>3. Gave(d, Len(e[0].dst), SubSeq(str, 1, 0))
    BY <2>1, <2>2 DEF Gave
  <2>4. 0 \in 0 .. 0
    OBVIOUS
  <2> QED
    BY <2>3, <2>4 DEF GivenBack
<1>2. ASSUME NEW k \in Nat, k \in N PROVE k + 1 \in N
  <2>1. SUFFICES ASSUME k + 1 <= Len(str) PROVE GivenBack(str, e, d, k + 1)
    OBVIOUS
  <2>2. k <= Len(str)
    BY <2>1
  <2> QED
    BY <1>2, <2>1, <2>2, GivesOn
<1> HIDE DEF N
<1>3. \A k \in Nat : k \in N
  BY <1>1, <1>2, Counting
<1>4. Len(str) \in N
  BY <1>3
<1> QED
  BY <1>4 DEF N

\* The decoder stays in its room, whatever the string.
LEMMA RoomKept ==
  ASSUME NEW str \in Seq(Chars), NEW num \in Nat
  PROVE  Len(urlndecode(str, num)) <= num
<1>1. PICK d : DecodeRun(d, str, num) /\ urlndecode(str, num) = d[Len(str)].dst
  BY DecodeRuns
<1> DEFINE T == Chars \cup {Space} \cup {Hex(x, y) : x \in Chars, y \in Chars}
<1>2. Chars \subseteq T /\ Space \in T /\ \A x, y \in Chars : Hex(x, y) \in T
  OBVIOUS
<1> HIDE DEF T
<1> DEFINE Acc == [dst : Seq(T), skip : 0 .. 2]
           N == {k \in Nat : k <= Len(str) => d[k] \in Acc /\ Len(d[k].dst) <= num}
<1>3. 0 \in N
  <2>1. d[0] = [dst |-> <<>>, skip |-> 0]
    BY <1>1 DEF DecodeRun
  <2>2. <<>> \in Seq(T) /\ Len(<<>>) = 0
    OBVIOUS
  <2>3. d[0] \in Acc /\ d[0].dst = <<>>
    BY <2>1, <2>2
  <2>4. Len(d[0].dst) <= num
    BY <2>2, <2>3
  <2> QED
    BY <2>3, <2>4
<1>4. ASSUME NEW k \in Nat, k \in N PROVE k + 1 \in N
  <2>1. SUFFICES ASSUME k + 1 <= Len(str) PROVE d[k + 1] \in Acc /\ Len(d[k + 1].dst) <= num
    OBVIOUS
  <2>2. PICK n \in Nat : n = Len(str)
    OBVIOUS
  <2>3. PICK i \in 1 .. n : i = k + 1 /\ i - 1 = k
    BY <2>1, <2>2
  <2>4. PICK acc : acc = d[k] /\ acc \in Acc /\ Len(acc.dst) <= num
    BY <1>4, <2>1
  <2>5. d[i] = DecodeTurn(acc, str, i, num)
    BY <1>1, <2>2, <2>3, <2>4 DEF DecodeRun
  <2>6. PICK q \in Seq(T) : q = acc.dst
    BY <2>4
  <2>7. CASE acc.skip > 0
    <3>1. d[i] = [acc EXCEPT !.skip = @ - 1]
      BY <2>5, <2>7, Zenon DEF DecodeTurn
    <3>2. d[i] \in Acc /\ d[i].dst = acc.dst
      BY <2>4, <2>7, <3>1
    <3> QED
      BY <2>3, <2>4, <3>2
  <2>8. CASE ~(acc.skip > 0) /\ d[i] = acc
    BY <2>3, <2>4, <2>8
  <2>9. ASSUME ~(Len(acc.dst) >= num), NEW x \in T, NEW sk \in 0 .. 2,
               d[i] = [dst |-> Append(acc.dst, x), skip |-> sk]
        PROVE  d[k + 1] \in Acc /\ Len(d[k + 1].dst) <= num
    <3>1. Append(q, x) \in Seq(T) /\ Len(Append(q, x)) = Len(q) + 1
      BY AppendIs
    <3>2. Len(q) \in Nat /\ ~(Len(q) >= num)
      BY <2>6, <2>9
    <3>3. Len(q) + 1 <= num
      BY <3>2
    <3>4. d[i] = [dst |-> Append(q, x), skip |-> sk]
      BY <2>6, <2>9, Zenon
    <3> QED
      BY <2>3, <3>1, <3>3, <3>4
  <2>10. CASE ~(acc.skip > 0) /\ ~(Len(acc.dst) >= num) /\ str[i] = Percent
    <3>1. CASE i + 2 <= Len(str)
      <4>1. d[i] = [dst |-> Append(acc.dst, Hex(str[i + 1], str[i + 2])), skip |-> 2]
        BY <2>5, <2>10, <3>1, Zenon DEF DecodeTurn
      <4>2. str[i + 1] \in Chars /\ str[i + 2] \in Chars
        BY <3>1
      <4>3. Hex(str[i + 1], str[i + 2]) \in T /\ 2 \in 0 .. 2
        BY <1>2, <4>2
      <4> QED
        BY <2>9, <2>10, <4>1, <4>3
    <3>2. CASE ~(i + 2 <= Len(str))
      <4>1. d[i] = acc
        BY <2>5, <2>10, <3>2, Zenon DEF DecodeTurn
      <4> QED
        BY <2>8, <2>10, <4>1
    <3> QED
      BY <3>1, <3>2
  <2>11. CASE ~(acc.skip > 0) /\ ~(Len(acc.dst) >= num) /\ str[i] # Percent
    <3>1. PICK x : x = (IF str[i] = Plus THEN Space ELSE str[i])
      OBVIOUS
    <3>2. d[i] = [acc EXCEPT !.dst = Append(@, x)]
      BY <2>5, <2>11, <3>1, Zenon DEF DecodeTurn
    <3>3. x \in T
      BY <1>2, <2>2, <3>1
    <3>4. PICK sk \in 0 .. 2 : acc = [dst |-> acc.dst, skip |-> sk]
      BY <2>4
    <3>5. d[i] = [dst |-> Append(acc.dst, x), skip |-> sk]
      <4>1. PICK y, z : y = acc.dst /\ z = Append(acc.dst, x) /\ acc = [dst |-> y, skip |-> sk]
        BY <3>4
      <4>2. d[i] = [acc EXCEPT !.dst = z]
        BY <3>2, <4>1, Zenon
      <4>3. d[i] = [dst |-> z, skip |-> sk]
        <5>1. [[dst |-> y, skip |-> sk] EXCEPT !.dst = z] = [dst |-> z, skip |-> sk]
          BY Replaced
        <5> QED
          BY <4>1, <4>2, <5>1, Zenon
      <4> QED
        BY <4>1, <4>3, Zenon
    <3> QED
      BY <2>9, <2>11, <3>3, <3>5
  <2>12. CASE ~(acc.skip > 0) /\ Len(acc.dst) >= num
    <3>1. d[i] = acc
      BY <2>5, <2>12, Zenon DEF DecodeTurn
    <3> QED
      BY <2>8, <2>12, <3>1
  <2> QED
    BY <2>7, <2>10, <2>11, <2>12
<1> HIDE DEF N
<1>5. \A k \in Nat : k \in N
  BY <1>3, <1>4, Counting
<1>6. Len(str) \in N
  BY <1>5
<1> QED
  BY <1>1, <1>6 DEF N

\* What is decoded is what was coded, or the beginning of it: a code is written as a
\* whole, so the decoder behind each code is behind the character; with more room than
\* three characters for each none is left out.  For every set of characters, string
\* and room (userver_codec.c:26-69).
THEOREM WhatWasCoded == CodecInit => DecodesBack
<1> SUFFICES ASSUME CodecInit PROVE DecodesBack
  OBVIOUS
<1>1. PICK str \in Seq(Chars), num \in Nat : coded.str = str /\ coded.num = num
  <2>1. PICK n \in Nat : coded.str \in [1 .. n -> CHARS] /\ coded.num \in Nat
    BY CodecAssumption DEF CodecInit
  <2>2. CHARS \subseteq Chars
    BY CodecAssumption DEF Chars
  <2>3. coded.str \in Seq(Chars)
    BY <2>1, <2>2
  <2> QED
    BY <2>1, <2>3
<1>2. PICK e : EncodeRun(e, str, num) /\ urlnencode(str, num) = e[Len(str)].dst
  BY EncodeRuns
<1>3. PICK t : t = urlnencode(str, num)
  OBVIOUS
<1>4. PICK n \in Nat : n = Len(str)
  OBVIOUS
<1>5. PICK acc : acc = e[n] /\ Encoded(acc, n, num)
  <2>1. n \in 0 .. Len(str)
    BY <1>4
  <2> QED
    BY <1>2, <2>1, AllEncoded
<1>6. t = acc.dst /\ t \in Seq(Bytes) /\ Len(t) <= num
  BY <1>2, <1>3, <1>4, <1>5 DEF Encoded, EncAcc
<1>7. PICK d : DecodeRun(d, t, num) /\ urlndecode(t, num) = d[Len(t)].dst
  BY <1>6, DecodeRuns
<1>8. GivenBack(str, e, d, n)
  BY <1>2, <1>3, <1>4, <1>7, AllGivenBack
<1>9. PICK p \in 0 .. n : /\ Gave(d, Len(t), SubSeq(str, 1, p))
                          /\ ~acc.over => p = n
  BY <1>5, <1>6, <1>8 DEF GivenBack
<1>10. PICK back : back = urlndecode(t, num) /\ back = SubSeq(str, 1, p)
  BY <1>7, <1>9 DEF Gave
<1>11. IsPrefix(back, str)
  <2>1. Len(back) = p
    BY <1>4, <1>10
  <2>2. p <= Len(str)
    BY <1>4
  <2> QED
    BY <1>10, <2>1, <2>2 DEF IsPrefix
<1>12. ASSUME num > 3 * n PROVE back = str
  <2>1. ~acc.over
    BY <1>5, <1>12 DEF Encoded
  <2>2. p = n
    BY <1>9, <2>1
  <2>3. SubSeq(str, 1, Len(str)) = str
    OBVIOUS
  <2> QED
    BY <1>4, <1>10, <2>2, <2>3
<1>13. Len(urlndecode(str, num)) <= num
  BY RoomKept
<1> QED
  BY <1>1, <1>3, <1>4, <1>6, <1>10, <1>11, <1>12, <1>13, Zenon DEF DecodesBack
================================================================================
