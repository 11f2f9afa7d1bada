------------------------------- MODULE Snapshot -------------------------------
(*****************************************************************************)
(* The camera (src/src/ov7670_test.c): it fills a frame memory, a picture    *)
(* after the other; the command ov_p has one of them kept and sends it, ov_s *)
(* sends the memory as it is (src/src/cli.c:1163-1171).                      *)
(*                                                                           *)
(* Command and vsync interrupt share three flags.  The interrupt is over     *)
(* before the picture's first pixel, which is external: the camera pauses    *)
(* between pictures far longer than any handler runs.                        *)
(*                                                                           *)
(* The frame memory keeps a pixel when writing is enabled, and starts again  *)
(* at the front when its write address is reset; only then may the address   *)
(* be wrong.  A pixel is its frame and its place.                            *)
(*****************************************************************************)
EXTENDS Naturals, Sequences

CONSTANTS
    SIZE,       \* pixels of a picture, 320 * 240 in the code
    MEMORY,     \* pixels the frame memory holds
    FRAMES      \* frames are counted modulo this

ASSUME SnapshotAssumption ==
    /\ SIZE \in Nat \ {0} /\ MEMORY \in Nat /\ MEMORY >= SIZE
    /\ FRAMES \in Nat \ {0, 1}

VARIABLES
    pic_begin, pic_end, got_pic,
    mask,           \* the vsync interrupt is let through
    edge,           \* and is pending
    we, wrst,       \* pins of the frame memory: write enable, and not resetting
    memory, waddr,  \* what it holds, and where it writes next
    camera,         \* frame and pixels sent of it
    cmd, at,        \* the command being run and how far it is
    ready           \* ov7670_hw_init was called

\* History variables.
VARIABLES
    taken,          \* there was a snapshot
    sent            \* what the last reading has sent

flags == <<pic_begin, pic_end, got_pic>>
pins  == <<we, wrst, memory, waddr>>
cameraVars == <<flags, mask, edge, pins, camera, cmd, at, ready, taken, sent>>

Pixels == [frame : 0 .. FRAMES - 1, place : 1 .. SIZE]
Nothing == [frame |-> FRAMES, place |-> 0]

CameraInit ==
    /\ pic_begin = FALSE /\ pic_end = FALSE /\ got_pic = FALSE
    /\ mask = FALSE /\ edge = FALSE
    /\ we = FALSE /\ wrst = FALSE
    /\ memory = [a \in 1 .. MEMORY |-> Nothing] /\ waddr = 1
    /\ camera = [frame |-> 0, sent |-> 0]
    /\ cmd = "none" /\ at = "idle" /\ ready = FALSE
    /\ taken = FALSE /\ sent = <<>>

-------------------------------------------------------------------------------
(* The camera and its frame memory.                                           *)

\* The rising edge is latched also while the interrupt is masked.
Vsync ==
    /\ camera.sent = SIZE
    /\ camera' = [frame |-> (camera.frame + 1) % FRAMES, sent |-> 0]
    /\ edge' = ready
    /\ UNCHANGED <<flags, mask, pins, cmd, at, ready, taken, sent>>

Pixel ==
    /\ camera.sent < SIZE /\ ~(edge /\ mask)
    /\ camera' = [camera EXCEPT !.sent = @ + 1]
    /\ IF we
       THEN /\ memory' = [memory EXCEPT ![waddr] = [frame |-> camera.frame,
                                                    place |-> camera.sent + 1]]
            /\ waddr' = IF wrst THEN (waddr % MEMORY) + 1 ELSE 1
       ELSE UNCHANGED <<memory, waddr>>
    /\ UNCHANGED <<flags, mask, edge, we, wrst, cmd, at, ready, taken, sent>>

-------------------------------------------------------------------------------
(* ov7670_vsync_int_fn.                                                       *)

Begin == we' = TRUE /\ wrst' = TRUE /\ UNCHANGED <<memory, waddr>>

\* Mutant: writing goes on.
EndWriting == UNCHANGED pins

End == we' = FALSE /\ wrst' = FALSE /\ waddr' = 1 /\ UNCHANGED memory

\* Mutant: the end is taken for another begin.
IntLoops ==
    /\ edge /\ mask
    /\ edge' = FALSE
    /\ IF pic_begin THEN Begin /\ UNCHANGED <<flags, mask>>
       ELSE UNCHANGED <<flags, pins, mask>>
    /\ UNCHANGED <<camera, cmd, at, ready, taken, sent>>

ov7670_vsync_int_fn ==
    /\ edge /\ mask
    /\ edge' = FALSE
    /\ IF pic_begin
       THEN /\ pic_begin' = FALSE /\ pic_end' = TRUE
            /\ Begin
            /\ UNCHANGED <<got_pic, mask>>
       ELSE IF pic_end
       THEN /\ pic_end' = FALSE /\ got_pic' = TRUE
            /\ End
            /\ mask' = FALSE
            /\ UNCHANGED pic_begin
       ELSE UNCHANGED <<flags, pins, mask>>
    /\ UNCHANGED <<camera, cmd, at, ready, taken, sent>>

-------------------------------------------------------------------------------
(* The commands; none runs while the interrupt does.                          *)

TaskRuns == ~(edge /\ mask)

\* ov7670_hw_init; whether configuring the interrupt lets it through is the
\* pin library's affair.
f_ov7670_init ==
    /\ TaskRuns /\ at = "idle"
    /\ ready' = TRUE
    /\ mask' \in BOOLEAN /\ edge' = FALSE
    /\ we' = FALSE /\ wrst' = FALSE /\ waddr' = 1
    /\ UNCHANGED <<flags, memory, camera, cmd, at, taken, sent>>

\* The first three steps of ov7670_take_snapshot.
f_ov7670_pic ==
    /\ TaskRuns /\ at = "idle"
    /\ cmd' = "pic" /\ at' = "clear"
    /\ UNCHANGED <<flags, mask, edge, pins, camera, ready, taken, sent>>

ClearGot ==
    /\ TaskRuns /\ at = "clear"
    /\ got_pic' = FALSE
    /\ at' = "begin"
    /\ UNCHANGED <<pic_begin, pic_end, mask, edge, pins, camera, cmd, ready, taken, sent>>

SetBegin ==
    /\ TaskRuns /\ at = "begin"
    /\ pic_begin' = TRUE
    /\ at' = "unmask"
    /\ UNCHANGED <<pic_end, got_pic, mask, edge, pins, camera, cmd, ready, taken, sent>>

\* Mutant: an edge from before is let through.
OldEdge == edge

Cleared == FALSE

\* gpio_interrupt_mask_enable with its last argument TRUE forgets an old edge.
Unmask ==
    /\ TaskRuns /\ at = "unmask"
    /\ mask' = TRUE /\ edge' = Cleared
    /\ at' = "wait"
    /\ UNCHANGED <<flags, pins, camera, cmd, ready, taken, sent>>

Waited ==
    /\ TaskRuns /\ at = "wait" /\ got_pic
    /\ got_pic' = FALSE
    /\ at' = "read" /\ sent' = <<>> /\ taken' = TRUE
    /\ UNCHANGED <<pic_begin, pic_end, mask, edge, pins, camera, cmd, ready>>

f_ov7670_send ==
    /\ TaskRuns /\ at = "idle"
    /\ cmd' = "send" /\ at' = "read" /\ sent' = <<>>
    /\ UNCHANGED <<flags, mask, edge, pins, camera, ready, taken>>

\* ov7670_read_pic: the read address is reset, and every pixel is sent.
ReadPixel ==
    /\ TaskRuns /\ at = "read" /\ Len(sent) < SIZE
    /\ sent' = Append(sent, memory[Len(sent) + 1])
    /\ UNCHANGED <<flags, mask, edge, pins, camera, cmd, at, ready, taken>>

ReadEnd ==
    /\ TaskRuns /\ at = "read" /\ Len(sent) = SIZE
    /\ cmd' = "none" /\ at' = "idle"
    /\ UNCHANGED <<flags, mask, edge, pins, camera, ready, taken, sent>>

Command == ClearGot \/ SetBegin \/ Unmask \/ Waited \/ ReadPixel \/ ReadEnd
CameraStep == Vsync \/ Pixel

CameraNext ==
    \/ CameraStep \/ ov7670_vsync_int_fn
    \/ f_ov7670_init \/ f_ov7670_pic \/ f_ov7670_send
    \/ Command

\* The camera runs, interrupts are taken, and a command that can go on does.
CameraFairness ==
    WF_cameraVars(CameraStep) /\ WF_cameraVars(ov7670_vsync_int_fn) /\ SF_cameraVars(Command)

CameraSpec == CameraInit /\ [][CameraNext]_cameraVars /\ CameraFairness

-------------------------------------------------------------------------------
\* Once there was a snapshot every picture sent is one whole frame, its pixels in
\* their places, wherever in a frame the command came and however long its steps
\* took.
OneFrame == taken => \A i \in DOMAIN sent : sent[i].frame = sent[1].frame /\ sent[i].place = i

\* A snapshot of a camera that was set up is taken and sent: the task loop stands
\* still only for so long.
SnapshotSent == cmd = "pic" /\ ready ~> at = "idle"

\* Writing is enabled only while a command waits: what a picture is read from
\* does not change under the reader, and nothing is left armed for later.
Disarmed == at \in {"idle", "read"} => ~we /\ ~pic_begin /\ ~pic_end
===============================================================================
