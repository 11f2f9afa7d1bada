---------------------------- MODULE UserverSession -----------------------------
(* The parser of Userver as an implementation of HttpSession: lines, buffers  *)
(* and delimiters are forgotten, the piece of the body that is still to come  *)
(* is what the parser's counters leave.                                       *)
EXTENDS Userver

PhaseOf(s) ==
    CASE s = "HEADER_METHOD" -> "idle"
      [] s = "HEADER_FIELDS" -> "header"
      [] s = "CONTENT" -> "content"
      [] s \in MultiStates -> "sections"
      [] s \in ChunkStates -> "chunks"

Left ==
    CASE state = "CHUNK_DATA" -> chunk_len - received_content_len
      [] state \in {"CONTENT"} \cup MultiStates ->
             req.content_length - received_content_len
      [] OTHER -> 0

Session == INSTANCE HttpSession
           WITH phase <- PhaseOf(state), left <- Left, answers <- answered

\* Every step of the parser is a step of the session or changes nothing of it:
\* bodies are taken to the last announced byte and no further, a chunk is only
\* begun when the one before it is complete, answers are sent at the end of the
\* header, and only a timeout or the client's own end mark cuts a body short.
ImplementsSession == Session!Spec
===============================================================================
