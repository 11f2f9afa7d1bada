------------------------------ MODULE HttpSession ------------------------------
(*****************************************************************************)
(* What the web server promises to one client, without buffers, lines or     *)
(* delimiters: a request is begun, answered once its header is over, and its *)
(* body, if it announced one, is taken to the last announced byte, unless    *)
(* the client is too slow.  Userver implements this.                         *)
(*****************************************************************************)
EXTENDS Naturals

VARIABLES
    phase,      \* what is being received
    left,       \* bytes still to come of the announced piece of the body
    answers     \* answers sent for this request

vars == <<phase, left, answers>>

Init == phase = "idle" /\ left = 0 /\ answers = 0

\* A request line opens a request.
Begin == /\ phase = "idle"
         /\ phase' = "header" /\ answers' = 0
         /\ UNCHANGED left

\* A header that is no request, or a request without a body: one answer.
AnswerOnly == /\ phase \in {"idle", "header"}
              /\ phase' = "idle" /\ answers' = 1
              /\ UNCHANGED left

\* A request whose body is found unusable after it was answered.
AnswerAndRefuse == /\ phase = "header"
                   /\ phase' = "idle" /\ answers' = 2
                   /\ UNCHANGED left

\* A body of a known length, plain or in sections.
OpenBody == /\ phase = "header"
            /\ phase' \in {"content", "sections"}
            /\ left' \in Nat \ {0} /\ answers' = 1

\* A body in chunks, each of which tells its length.
OpenChunks == /\ phase = "header"
              /\ phase' = "chunks" /\ answers' = 1
              /\ UNCHANGED left

Chunk == /\ phase = "chunks" /\ left = 0
         /\ left' \in Nat \ {0}
         /\ UNCHANGED <<phase, answers>>

\* Bytes of the body: never more than were announced, and the last one of a
\* body of known length ends the request.
Data == /\ phase \in {"content", "sections", "chunks"}
        /\ left > 0 /\ left' \in 0 .. left - 1
        /\ phase' = IF left' = 0 /\ phase # "chunks" THEN "idle" ELSE phase
        /\ UNCHANGED answers

\* The last delimiter or the chunk of length zero.
Close == /\ \/ phase = "chunks" /\ left = 0
            \/ phase = "sections"
         /\ phase' = "idle" /\ left' = 0
         /\ UNCHANGED answers

\* The client was silent for too long.
Abort == /\ phase # "idle"
         /\ phase' = "idle" /\ left' = 0
         /\ answers' = answers + 1

Next == \/ Begin \/ AnswerOnly \/ AnswerAndRefuse
        \/ OpenBody \/ OpenChunks \/ Chunk \/ Data \/ Close \/ Abort

Spec == Init /\ [][Next]_vars
===============================================================================
