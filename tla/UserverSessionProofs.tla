------------------------- MODULE UserverSessionProofs --------------------------
(* The parser implements the session, for every value of the constants.       *)
EXTENDS UserverSession, UserverProofs

LEMMA InitSession == Init => Session!Init
  BY DEF Init, Session!Init, PhaseOf, MultiStates, ChunkStates, Left

\* What is left of a piece is a number.
LEMMA LeftType == IInv => Left \in Nat
  BY DEF IInv, TypeOK, Modes, BodyMatchesRequest, Left, Request, MultiStates,
      ChunkStates

\* Characters that are only collected, fields and header lines of a section
\* change nothing of the session.
LEMMA StutterStep ==
  ASSUME IInv, UNCHANGED <<state, req, answered, received_content_len, chunk_len>>
  PROVE  UNCHANGED Session!vars
  BY DEF Session!vars, PhaseOf, MultiStates, ChunkStates, Left

LEMMA HeaderSession ==
  ASSUME IInv, NEW c \in Char,
         StoreChar(c) \/ MethodLine(c) \/ FieldLine(c) \/ BadRequest(c)
  PROVE  [Session!Next]_(Session!vars)
  <1>1. CASE StoreChar(c)
    BY <1>1, StutterStep DEF StoreChar, body, sent
  <1>2. CASE MethodLine(c)
    <2>1. Session!Begin
      BY <1>2 DEF MethodLine, body, Session!Begin, PhaseOf, MultiStates, ChunkStates,
          Left
    <2> QED
      BY <2>1 DEF Session!Next
  <1>3. CASE FieldLine(c)
    <2>1. UNCHANGED Session!vars
      BY <1>3 DEF FieldLine, body, sent, Session!vars, PhaseOf, MultiStates,
          ChunkStates, Left
    <2> QED
      BY <2>1
  <1>4. CASE BadRequest(c)
    <2>1. Session!AnswerOnly
      BY <1>4
      DEF BadRequest, SendError, server_clear_req, Session!AnswerOnly, PhaseOf,
          MultiStates, ChunkStates, Left
    <2> QED
      BY <2>1 DEF Session!Next
  <1> QED
    BY <1>1, <1>2, <1>3, <1>4

LEMMA ServeSession ==
  ASSUME IInv, NEW c \in Char, NEW r \in RESPONSES, ServeRequest(c, r)
  PROVE  [Session!Next]_(Session!vars)
  <1>1. HeaderEnd(c)
    BY DEF ServeRequest, NoBody, ChunkedBody, PlainBody, MultipartBody, BadBody
  <1>2. state = "HEADER_FIELDS" /\ answered = 0
    BY <1>1, HeaderEndFacts
  <1>3. PhaseOf(state) = "header" /\ Left = 0
    BY <1>2 DEF PhaseOf, MultiStates, ChunkStates, Left
  <1>4. req.content_length \in Nat
    BY DEF IInv, TypeOK, Request
  <1>5. Served(r).content_length = req.content_length
    BY DEF IInv, TypeOK, Served, Request
  <1>6. CASE NoBody(c, r)
    <2>1. Session!AnswerOnly
      BY <1>2, <1>3, <1>6
      DEF NoBody, Announce, server_clear_req, Session!AnswerOnly, PhaseOf,
          MultiStates, ChunkStates, Left
    <2> QED
      BY <2>1 DEF Session!Next
  <1>7. CASE ChunkedBody(c, r)
    <2>1. Session!OpenChunks
      BY <1>2, <1>3, <1>7
      DEF ChunkedBody, Announce, Session!OpenChunks, PhaseOf, MultiStates,
          ChunkStates, Left
    <2> QED
      BY <2>1 DEF Session!Next
  <1>8. CASE PlainBody(c, r)
    <2>1. state' = "CONTENT" /\ answered' = 1
      BY <1>2, <1>8 DEF PlainBody, Announce
    <2>2. Left' = req.content_length /\ req.content_length > 0
      BY <1>4, <1>5, <1>8, <2>1 DEF PlainBody, Left, MultiStates
    <2>3. PhaseOf(state') \in {"content", "sections"}
      BY <2>1 DEF PhaseOf, MultiStates, ChunkStates
    <2>4. Left' \in Nat \ {0}
      BY <1>4, <2>2
    <2>5. Session!OpenBody
      BY <1>3, <2>1, <2>3, <2>4 DEF Session!OpenBody
    <2> QED
      BY <2>5 DEF Session!Next
  <1>9. CASE MultipartBody(c, r)
    <2>1. state' = "MULTI_CONTENT_HEADER" /\ answered' = 1
      BY <1>2, <1>9 DEF MultipartBody, Announce
    <2>2. Left' = req.content_length /\ req.content_length > 0
      BY <1>4, <1>5, <1>9, <2>1 DEF MultipartBody, Left, MultiStates
    <2>3. PhaseOf(state') \in {"content", "sections"}
      BY <2>1 DEF PhaseOf, MultiStates, ChunkStates
    <2>4. Left' \in Nat \ {0}
      BY <1>4, <2>2
    <2>5. Session!OpenBody
      BY <1>3, <2>1, <2>3, <2>4 DEF Session!OpenBody
    <2> QED
      BY <2>5 DEF Session!Next
  <1>10. CASE BadBody(c, r)
    <2>1. Session!AnswerAndRefuse
      BY <1>2, <1>3, <1>10
      DEF BadBody, server_clear_req, Session!AnswerAndRefuse, PhaseOf, MultiStates,
          ChunkStates, Left
    <2> QED
      BY <2>1 DEF Session!Next
  <1> QED
    BY <1>6, <1>7, <1>8, <1>9, <1>10 DEF ServeRequest

LEMMA ChunkSession ==
  ASSUME IInv, NEW c \in Char,
         ChunkHeaderLine(c) \/ ChunkDataEndLine(c) \/ ChunkFooterLine(c)
  PROVE  [Session!Next]_(Session!vars)
  <1>1. CASE ChunkHeaderLine(c)
    <2>1. chunk_len' \in Nat /\ received_content_len' = 0 /\ received_content_len = 0
      BY <1>1, ChunkHeaderLineStep
      DEF IInv, TypeOK, Modes, BodyMatchesRequest, ChunkHeaderLine
    <2>2. CASE chunk_len' > 0
      <3>1. Session!Chunk
        BY <1>1, <2>1, <2>2
        DEF ChunkHeaderLine, sent, Session!Chunk, PhaseOf, MultiStates, ChunkStates,
            Left
      <3> QED
        BY <3>1 DEF Session!Next
    <2>3. CASE ~(chunk_len' > 0)
      <3>1. UNCHANGED Session!vars
        BY <1>1, <2>3
        DEF ChunkHeaderLine, sent, Session!vars, PhaseOf, MultiStates, ChunkStates, Left
      <3> QED
        BY <3>1
    <2> QED
      BY <2>2, <2>3
  <1>2. CASE ChunkDataEndLine(c)
    <2>1. UNCHANGED Session!vars
      BY <1>2
      DEF ChunkDataEndLine, sent, Session!vars, PhaseOf, MultiStates, ChunkStates, Left
    <2> QED
      BY <2>1
  <1>3. CASE ChunkFooterLine(c) /\ LineEmpty
    <2>1. Session!Close
      BY <1>3
      DEF ChunkFooterLine, server_clear_req, sent, Session!Close, PhaseOf, MultiStates,
          ChunkStates, Left
    <2> QED
      BY <2>1 DEF Session!Next
  <1>4. CASE ChunkFooterLine(c) /\ ~LineEmpty
    BY <1>4, StutterStep DEF ChunkFooterLine, body, sent
  <1> QED
    BY <1>1, <1>2, <1>3, <1>4

\* The step of a section that stays within the multipart body or ends it.
LEMMA SectionSession ==
  ASSUME IInv, state \in MultiStates, UNCHANGED <<answered, received_content_len>>,
         \/ state' = "HEADER_METHOD"
         \/ state' \in MultiStates /\ UNCHANGED req
  PROVE  [Session!Next]_(Session!vars)
  <1>1. CASE state' = "HEADER_METHOD"
    <2>1. Session!Close
      BY <1>1 DEF Session!Close, PhaseOf, MultiStates, ChunkStates, Left
    <2> QED
      BY <2>1 DEF Session!Next
  <1>2. CASE state' \in MultiStates /\ UNCHANGED req
    BY <1>2 DEF Session!vars, PhaseOf, MultiStates, ChunkStates, Left
  <1> QED
    BY <1>1, <1>2

LEMMA MultiSession ==
  ASSUME IInv, NEW c \in Char, MultiHeaderLine(c) \/ SectionEnd(c) \/ SectionData(c)
  PROVE  [Session!Next]_(Session!vars)
  <1>1. CASE MultiHeaderLine(c)
    BY <1>1, SectionSession DEF MultiHeaderLine, server_clear_req, body, sent,
        MultiStates
  <1>2. CASE SectionEnd(c)
    BY <1>2, SectionSession
    DEF SectionEnd, SectionChar, server_clear_req, sent, MultiStates
  <1>3. CASE SectionData(c)
    <2>1. /\ state = "MULTI_CONTENT_DATA" /\ answered' = answered
          /\ received_content_len' = received_content_len + 1
      BY <1>3 DEF SectionData, SectionDatum, SectionChar, sent
    <2>2. /\ received_content_len \in Nat /\ req.content_length \in Nat
          /\ received_content_len < req.content_length
      BY <2>1 DEF IInv, TypeOK, Modes, BodyMatchesRequest, Request, MultiStates
    <2>3. Left = req.content_length - received_content_len
      BY <2>1 DEF Left, MultiStates
    <2>4. CASE received_content_len + 1 = req.content_length
      <3>1. state' = "HEADER_METHOD"
        BY <1>3, <2>4 DEF SectionData, SectionDatum, server_clear_req
      <3>2. Left' = 0
        BY <3>1 DEF Left, MultiStates
      <3>3. Session!Data
        BY <2>1, <2>2, <2>3, <3>1, <3>2 DEF Session!Data, PhaseOf, MultiStates,
            ChunkStates
      <3> QED
        BY <3>3 DEF Session!Next
    <2>5. CASE received_content_len + 1 # req.content_length
      <3>1. UNCHANGED <<state, req>>
        BY <1>3, <2>5 DEF SectionData, SectionDatum
      <3>2. Left' = Left - 1 /\ Left' > 0
        BY <2>1, <2>2, <2>3, <2>5, <3>1 DEF Left, MultiStates
      <3>3. Session!Data
        BY <2>1, <2>2, <2>3, <3>1, <3>2 DEF Session!Data, PhaseOf, MultiStates,
            ChunkStates
      <3> QED
        BY <3>3 DEF Session!Next
    <2> QED
      BY <2>4, <2>5
  <1> QED
    BY <1>1, <1>2, <1>3

LEMMA BlockSession ==
  ASSUME IInv, NEW len \in 1 .. REQ_BUF_MAX, DataBlock(Block(len))
  PROVE  [Session!Next]_(Session!vars)
  <1>1. Len(Block(len)) = len
    BY DEF Block
  <1>2. /\ len <= Remaining /\ answered' = answered
        /\ received_content_len' = received_content_len + len /\ chunk_len' = chunk_len
    BY <1>1 DEF DataBlock, TakeBlock, Piece, sent
  <1>3. /\ received_content_len \in Nat /\ chunk_len \in Nat
        /\ req.content_length \in Nat
    BY DEF IInv, TypeOK, Request
  <1>4. CASE state = "CONTENT"
    <2>1. ~req.chunked
      BY <1>4 DEF IInv, Modes, BodyMatchesRequest
    <2>2. /\ Left = req.content_length - received_content_len
          /\ len <= Left
      BY <1>2, <1>4 DEF Left, Remaining
    <2>3. CASE received_content_len' = req.content_length
      <3>1. state' = "HEADER_METHOD"
        BY <1>1, <1>2, <2>1, <2>3 DEF DataBlock, TakeBlock, Piece, server_clear_req
      <3>2. Left' = 0
        BY <3>1 DEF Left, MultiStates
      <3>3. Session!Data
        BY <1>2, <1>3, <1>4, <2>2, <3>1, <3>2
        DEF Session!Data, PhaseOf, MultiStates, ChunkStates
      <3> QED
        BY <3>3 DEF Session!Next
    <2>4. CASE received_content_len' # req.content_length
      <3>1. UNCHANGED <<state, req>>
        BY <1>1, <1>2, <2>1, <2>4 DEF DataBlock, TakeBlock, Piece
      <3>2. Left' = Left - len /\ Left' > 0
        BY <1>2, <1>3, <1>4, <2>2, <2>4, <3>1 DEF Left
      <3>3. Session!Data
        BY <1>2, <1>3, <1>4, <2>2, <3>1, <3>2
        DEF Session!Data, PhaseOf, MultiStates, ChunkStates
      <3> QED
        BY <3>3 DEF Session!Next
    <2> QED
      BY <2>3, <2>4
  <1>5. CASE state = "CHUNK_DATA"
    <2>1. req.chunked
      BY <1>5 DEF IInv, Modes, BodyMatchesRequest, ChunkStates
    <2>2. /\ Left = chunk_len - received_content_len
          /\ len <= Left
      BY <1>2, <1>5 DEF Left, Remaining, MultiStates
    <2>3. state' = IF received_content_len' = chunk_len
                   THEN "CHUNK_DATA_END" ELSE "CHUNK_DATA"
      BY <1>1, <1>2, <1>5, <2>1 DEF DataBlock, TakeBlock, Piece
    <2>4. Left' = Left - len
      BY <1>2, <1>3, <1>5, <2>2, <2>3 DEF Left, MultiStates
    <2>5. PhaseOf(state) = "chunks" /\ PhaseOf(state') = "chunks"
      BY <1>5, <2>3 DEF PhaseOf, MultiStates, ChunkStates
    <2>6. Session!Data
      BY <1>2, <1>3, <2>2, <2>4, <2>5 DEF Session!Data
    <2> QED
      BY <2>6 DEF Session!Next
  <1> QED
    BY <1>4, <1>5 DEF DataBlock, TakeBlock, Piece

LEMMA TimeoutSession ==
  ASSUME IInv, Timeout
  PROVE  [Session!Next]_(Session!vars)
  <1>1. state \in States /\ state # "HEADER_METHOD"
    BY DEF IInv, TypeOK, Timeout
  <1>2. PhaseOf(state) # "idle"
    BY <1>1 DEF PhaseOf, MultiStates, ChunkStates, States, LineStates
  <1>3. PhaseOf(state') = "idle" /\ Left' = 0 /\ answered' = answered + 1
    <2>1. state' = "HEADER_METHOD" /\ answered' = answered + 1
      BY DEF Timeout, SendError, server_clear_req
    <2> QED
      BY <2>1 DEF PhaseOf, Left, MultiStates, ChunkStates
  <1>4. Session!Abort
    BY <1>2, <1>3 DEF Session!Abort
  <1> QED
    BY <1>4 DEF Session!Next

\* Every step of USERVER_parse and USERVER_timeout (userver.c:370-544) is a step
\* of the session or leaves it as it is: whatever the sizes, the boundary and the
\* bytes, a body is taken to its last announced byte and no further, an answer
\* is sent once the header is over, and only a timeout or the client's own end
\* mark cuts a body short.
THEOREM Implementation == Spec => ImplementsSession
  <1>1. Init => Session!Init
    BY InitSession
  <1>2. IInv /\ [Next]_vars => [Session!Next]_(Session!vars)
    <2> SUFFICES ASSUME IInv, [Next]_vars PROVE [Session!Next]_(Session!vars)
      OBVIOUS
    <2>1. ASSUME NEW c \in ALPHABET, ParseChar(c)
          PROVE  [Session!Next]_(Session!vars)
      <3>1. c \in Char
        BY Chars
      <3> QED
        BY <2>1, <3>1, HeaderSession, ChunkSession, MultiSession DEF ParseChar
    <2>2. ASSUME NEW c \in ALPHABET, NEW r \in RESPONSES, ServeRequest(c, r)
          PROVE  [Session!Next]_(Session!vars)
      <3>1. c \in Char
        BY Chars
      <3> QED
        BY <2>2, <3>1, ServeSession
    <2>3. ASSUME NEW len \in 1 .. REQ_BUF_MAX, DataBlock(Block(len))
          PROVE  [Session!Next]_(Session!vars)
      BY <2>3, BlockSession
    <2>4. CASE Timeout
      BY <2>4, TimeoutSession
    <2>5. CASE UNCHANGED vars
      BY <2>5, StutterStep DEF vars, parser, body, sent
    <2> QED
      BY <2>1, <2>2, <2>3, <2>4, <2>5 DEF Next
  <1> QED
    BY <1>1, <1>2, Invariance, PTL DEF Spec, Session!Spec, ImplementsSession
===============================================================================
