---------------------------- MODULE UserverProofs ------------------------------
(* What Userver keeps for every buffer size, boundary, alphabet and handler.  *)
EXTENDS Userver, TLAPS

USE UserverAssumption

LEMMA Chars ==
  /\ Nul \in Char /\ LF \in Char /\ Dash \in Char /\ Text \in Char
  /\ ALPHABET \subseteq Char
  <1>1. ALPHABET \subseteq Char
    OBVIOUS
  <1>2. \A k \in Kinds, i \in Nat : [kind |-> k, n |-> i] \in Char
    BY DEF Char
  <1> QED
    BY <1>1, <1>2 DEF Nul, LF, Dash, Text, Kinds

LEMMA EmptyReqType == EmptyReq \in Request
  BY DEF EmptyReq, Request, Methods, Plain

LEMMA InitType == Init => TypeOK
  <1> SUFFICES ASSUME Init PROVE TypeOK
    OBVIOUS
  <1>1. req \in Request
    BY EmptyReqType DEF Init
  <1>2. BLEN \in Nat \ {0}
    BY DEF BLEN
  <1>3. state \in States
    BY DEF Init, States, LineStates
  <1>4. recent \in Seq(Char)
    BY Chars DEF Init
  <1>5. req_buf \in [0 .. REQ_BUF_MAX -> Char]
    BY Chars DEF Init
  <1> QED
    BY <1>1, <1>2, <1>3, <1>4, <1>5 DEF Init, TypeOK

\* The invariants hold together: the range of answered needs AnsweredBeforeBody,
\* which needs FreshRequest; room in req_buf needs BufferTerminated; the offsets
\* need the state and the request to agree.
Modes == /\ BufferTerminated
         /\ BodyMatchesRequest
         /\ FreshRequest
         /\ AnsweredBeforeBody
         /\ ResidueOnlyAfterHead
         /\ OffsetIsReported
         /\ SectionConserved
IInv == TypeOK /\ Modes

LEMMA InitModes == Init => Modes
  BY DEF Init, Modes, BufferTerminated, BodyMatchesRequest, FreshRequest,
         AnsweredBeforeBody, ResidueOnlyAfterHead, OffsetIsReported,
         SectionConserved, ChunkStates, MultiStates

\* The line buffer after a line was taken.
LEMMA TakeLineBuffer ==
  ASSUME TypeOK, BufferTerminated, NEW c \in Char, TakeLine(c)
  PROVE  /\ req_buf' \in [0 .. REQ_BUF_MAX -> Char]
         /\ req_buf_len' \in 0 .. REQ_BUF_MAX
         /\ req_buf'[REQ_BUF_MAX] = Nul
         /\ LineEmpty => c = LF /\ req_buf_len' = 0
  BY Chars DEF TypeOK, BufferTerminated, TakeLine, EndOfLine, Line, LineEmpty

LEMMA StoreCharStep ==
  ASSUME IInv, NEW c \in Char, StoreChar(c)
  PROVE  IInv'
  <1>1. req_buf' \in [0 .. REQ_BUF_MAX -> Char] /\ req_buf'[REQ_BUF_MAX] = Nul
    BY DEF IInv, Modes, TypeOK, BufferTerminated, StoreChar, EndOfLine
  <1>2. req_buf_len' \in 0 .. REQ_BUF_MAX
    BY DEF IInv, TypeOK, StoreChar, EndOfLine
  <1>3. state # "MULTI_CONTENT_DATA"
    BY DEF StoreChar, LineStates
  <1>4. UNCHANGED <<state, req, multi, body, sent, ghost>>
    BY DEF StoreChar
  <1>5. TypeOK'
    BY <1>1, <1>2, <1>4 DEF IInv, TypeOK, multi, body, sent, ghost
  <1>6. Modes'
    BY <1>1, <1>3, <1>4
    DEF IInv, Modes, BufferTerminated, BodyMatchesRequest, FreshRequest,
        AnsweredBeforeBody, ResidueOnlyAfterHead, OffsetIsReported,
        SectionConserved, multi, body, sent, ghost
  <1> QED
    BY <1>5, <1>6 DEF IInv

LEMMA MethodLineStep ==
  ASSUME IInv, NEW c \in Char, MethodLine(c)
  PROVE  IInv'
  <1>1. /\ req_buf' \in [0 .. REQ_BUF_MAX -> Char] /\ req_buf_len' \in 0 .. REQ_BUF_MAX
        /\ req_buf'[REQ_BUF_MAX] = Nul
    BY TakeLineBuffer DEF IInv, Modes, MethodLine
  <1>2. req' \in Request
    BY DEF IInv, TypeOK, MethodLine, Request, Methods
  <1>3. recent' \in Seq(Char)
    BY Chars DEF MethodLine
  <1>4. TypeOK'
    BY <1>1, <1>2, <1>3
    DEF IInv, TypeOK, MethodLine, States, LineStates, multi, body
  <1>5. Modes'
    BY <1>1
    DEF IInv, Modes, MethodLine, BufferTerminated, BodyMatchesRequest, FreshRequest,
        AnsweredBeforeBody, ResidueOnlyAfterHead, OffsetIsReported,
        SectionConserved, ChunkStates, MultiStates, multi, body
  <1> QED
    BY <1>4, <1>5 DEF IInv

LEMMA FieldLineStep ==
  ASSUME IInv, NEW c \in Char, FieldLine(c)
  PROVE  IInv'
  <1>1. /\ req_buf' \in [0 .. REQ_BUF_MAX -> Char] /\ req_buf_len' \in 0 .. REQ_BUF_MAX
        /\ req_buf'[REQ_BUF_MAX] = Nul
    BY TakeLineBuffer DEF IInv, Modes, FieldLine
  <1>2. req_buf[0] \in Char
    BY DEF IInv, TypeOK
  <1>3. req' \in Request
    BY <1>2 DEF IInv, TypeOK, FieldLine, WithField, Request, Char
  <1>4. TypeOK'
    BY <1>1, <1>3 DEF IInv, TypeOK, FieldLine, multi, body, sent, ghost
  <1>5. Modes'
    BY <1>1
    DEF IInv, Modes, FieldLine, BufferTerminated, BodyMatchesRequest, FreshRequest,
        AnsweredBeforeBody, ResidueOnlyAfterHead, OffsetIsReported,
        SectionConserved, ChunkStates, MultiStates, multi, body, sent, ghost
  <1> QED
    BY <1>4, <1>5 DEF IInv

LEMMA QueuedType ==
  ASSUME TypeOK, NEW k \in Nat
  PROVE  Queued(k) \in 0 .. TX_MAX
  BY DEF TypeOK, Queued, Lesser

LEMMA BadRequestStep ==
  ASSUME IInv, NEW c \in Char, BadRequest(c)
  PROVE  IInv'
  <1>1. /\ req_buf' \in [0 .. REQ_BUF_MAX -> Char] /\ req_buf_len' \in 0 .. REQ_BUF_MAX
        /\ req_buf'[REQ_BUF_MAX] = Nul
    BY TakeLineBuffer DEF IInv, Modes, BadRequest
  <1>2. Queued(ERROR_PAGE) \in 0 .. TX_MAX
    BY QueuedType DEF IInv
  <1>3. TypeOK'
    BY <1>1, <1>2, EmptyReqType
    DEF IInv, TypeOK, BadRequest, SendError, server_clear_req, States, LineStates,
        multi, ghost
  <1>4. Modes'
    BY <1>1
    DEF IInv, Modes, BadRequest, SendError, server_clear_req, BufferTerminated,
        BodyMatchesRequest, FreshRequest, AnsweredBeforeBody, ResidueOnlyAfterHead,
        OffsetIsReported, SectionConserved, ChunkStates, MultiStates
  <1> QED
    BY <1>3, <1>4 DEF IInv

\* The header is over: nothing was answered yet, and the answer is of its type.
LEMMA HeaderEndFacts ==
  ASSUME IInv, NEW c \in Char, HeaderEnd(c)
  PROVE  /\ state = "HEADER_FIELDS" /\ answered = 0
         /\ req_buf' \in [0 .. REQ_BUF_MAX -> Char] /\ req_buf_len' = 0
         /\ req_buf'[REQ_BUF_MAX] = Nul
  <1>1. state # "HEADER_METHOD"
    BY DEF IInv, Modes, FreshRequest, HeaderEnd, EmptyReq
  <1>2. state = "HEADER_FIELDS" /\ answered = 0
    BY <1>1 DEF IInv, Modes, HeaderEnd, AnsweredBeforeBody
  <1>3. TakeLine(c) /\ LineEmpty
    BY DEF HeaderEnd
  <1> QED
    BY <1>2, <1>3, TakeLineBuffer DEF IInv, Modes

LEMMA WaitsType ==
  ASSUME TypeOK, NEW r \in RESPONSES
  PROVE  Waits(r) \in 0 .. TX_MAX /\ (Waits(r) > 0 => req.method = "HEAD")
  <1>1. r.sizes \in Seq(Nat)
    BY DEF Response
  <1>2. r.sizes # <<>> => r.sizes[1] \in Nat
    BY <1>1
  <1>3. r.sizes # <<>> => Queued(r.sizes[1]) \in 0 .. TX_MAX
    BY <1>2, QueuedType
  <1> QED
    BY <1>3 DEF Waits, TypeOK

LEMMA AnnounceFacts ==
  ASSUME TypeOK, answered = 0, NEW r \in RESPONSES, Announce(r)
  PROVE  /\ answered' = 1
         /\ tx_len' \in 0 .. TX_MAX
         /\ answer'.to \in {"page", "head", "chunks"} /\ answer'.extra \in Int
         /\ tx_len' > 0 => answer'.to = "head"
  <1>1. r.sizes \in Seq(Nat) /\ r.chunked \in BOOLEAN
    BY DEF Response
  <1>2. r.sizes # <<>> => r.sizes[1] \in Nat
    BY <1>1
  <1>3. ~r.chunked => r.sizes # <<>>
    <2>1. ~r.chunked => Len(r.sizes) = 1
      BY Zenon
    <2>2. Len(<<>>) = 0
      OBVIOUS
    <2> QED
      BY <2>1, <2>2
  <1>4. r.sizes # <<>> => Queued(r.sizes[1]) \in 0 .. TX_MAX
    BY <1>2, QueuedType
  <1>5. answered' = 1
    BY DEF Announce
  <1>6. /\ tx_len' \in 0 .. TX_MAX
        /\ tx_len' > 0 => req.method = "HEAD"
    BY WaitsType DEF Announce
  <1>7. /\ answer'.to \in {"page", "head", "chunks"}
        /\ req.method = "HEAD" => answer'.to = "head"
    BY DEF Announce
  <1>8. answer'.extra \in Int
    BY <1>1, <1>2, <1>3, <1>4 DEF Announce
  <1> QED
    BY <1>5, <1>6, <1>7, <1>8

LEMMA ServedType ==
  ASSUME TypeOK, NEW r \in RESPONSES
  PROVE  Served(r) \in Request
  <1>1. ChunksSent(r) \in Nat
    BY DEF ChunksSent, Greater, Response
  <1>2. req \in Request /\ req.chunk_nbr + ChunksSent(r) \in Nat
    BY <1>1 DEF TypeOK, Request
  <1>3. \A n \in Nat : [req EXCEPT !.chunk_nbr = n] \in Request
    BY <1>2 DEF Request
  <1> QED
    BY <1>2, <1>3 DEF Served

LEMMA NoBodyStep ==
  ASSUME IInv, NEW c \in Char, NEW r \in RESPONSES, NoBody(c, r)
  PROVE  IInv'
  <1>1. /\ state = "HEADER_FIELDS" /\ answered = 0
        /\ req_buf' \in [0 .. REQ_BUF_MAX -> Char] /\ req_buf_len' = 0
        /\ req_buf'[REQ_BUF_MAX] = Nul
    BY HeaderEndFacts DEF NoBody
  <1>2. /\ answered' = 1
        /\ tx_len' \in 0 .. TX_MAX
        /\ answer'.to \in {"page", "head", "chunks"} /\ answer'.extra \in Int
        /\ tx_len' > 0 => answer'.to = "head"
    BY <1>1, AnnounceFacts DEF IInv, NoBody
  <1>3. req' \in Request
    BY EmptyReqType DEF IInv, NoBody, server_clear_req
  <1>4. TypeOK'
    BY <1>1, <1>2, <1>3
    DEF IInv, TypeOK, NoBody, States, LineStates, multi, body, ghost, server_clear_req, BLEN
  <1>5. Modes'
    BY <1>1, <1>2, <1>3
    DEF IInv, Modes, TypeOK, NoBody, HeaderEnd, server_clear_req, Served, Request,
        BufferTerminated, BodyMatchesRequest, FreshRequest,
        AnsweredBeforeBody, ResidueOnlyAfterHead, OffsetIsReported, SectionConserved,
        ChunkStates, MultiStates
  <1> QED
    BY <1>4, <1>5 DEF IInv

LEMMA ChunkedBodyStep ==
  ASSUME IInv, NEW c \in Char, NEW r \in RESPONSES, ChunkedBody(c, r)
  PROVE  IInv'
  <1>1. /\ state = "HEADER_FIELDS" /\ answered = 0
        /\ req_buf' \in [0 .. REQ_BUF_MAX -> Char] /\ req_buf_len' = 0
        /\ req_buf'[REQ_BUF_MAX] = Nul
    BY HeaderEndFacts DEF ChunkedBody
  <1>2. /\ answered' = 1
        /\ tx_len' \in 0 .. TX_MAX
        /\ answer'.to \in {"page", "head", "chunks"} /\ answer'.extra \in Int
        /\ tx_len' > 0 => answer'.to = "head"
    BY <1>1, AnnounceFacts DEF IInv, ChunkedBody
  <1>3. req' \in Request
    BY ServedType DEF IInv, ChunkedBody
  <1>4. TypeOK'
    BY <1>1, <1>2, <1>3
    DEF IInv, TypeOK, ChunkedBody, States, LineStates, multi, body, ghost, server_clear_req, BLEN
  <1>5. Modes'
    BY <1>1, <1>2, <1>3
    DEF IInv, Modes, TypeOK, ChunkedBody, HeaderEnd, server_clear_req, Served, Request,
        BufferTerminated, BodyMatchesRequest, FreshRequest,
        AnsweredBeforeBody, ResidueOnlyAfterHead, OffsetIsReported, SectionConserved,
        ChunkStates, MultiStates
  <1> QED
    BY <1>4, <1>5 DEF IInv

LEMMA PlainBodyStep ==
  ASSUME IInv, NEW c \in Char, NEW r \in RESPONSES, PlainBody(c, r)
  PROVE  IInv'
  <1>1. /\ state = "HEADER_FIELDS" /\ answered = 0
        /\ req_buf' \in [0 .. REQ_BUF_MAX -> Char] /\ req_buf_len' = 0
        /\ req_buf'[REQ_BUF_MAX] = Nul
    BY HeaderEndFacts DEF PlainBody
  <1>2. /\ answered' = 1
        /\ tx_len' \in 0 .. TX_MAX
        /\ answer'.to \in {"page", "head", "chunks"} /\ answer'.extra \in Int
        /\ tx_len' > 0 => answer'.to = "head"
    BY <1>1, AnnounceFacts DEF IInv, PlainBody
  <1>3. req' \in Request
    BY ServedType DEF IInv, PlainBody
  <1>4. TypeOK'
    BY <1>1, <1>2, <1>3
    DEF IInv, TypeOK, PlainBody, States, LineStates, multi, body, ghost, server_clear_req, BLEN
  <1>5. Modes'
    BY <1>1, <1>2, <1>3
    DEF IInv, Modes, TypeOK, PlainBody, HeaderEnd, server_clear_req, Served, Request,
        BufferTerminated, BodyMatchesRequest, FreshRequest,
        AnsweredBeforeBody, ResidueOnlyAfterHead, OffsetIsReported, SectionConserved,
        ChunkStates, MultiStates
  <1> QED
    BY <1>4, <1>5 DEF IInv

LEMMA MultipartBodyStep ==
  ASSUME IInv, NEW c \in Char, NEW r \in RESPONSES, MultipartBody(c, r)
  PROVE  IInv'
  <1>1. /\ state = "HEADER_FIELDS" /\ answered = 0
        /\ req_buf' \in [0 .. REQ_BUF_MAX -> Char] /\ req_buf_len' = 0
        /\ req_buf'[REQ_BUF_MAX] = Nul
    BY HeaderEndFacts DEF MultipartBody
  <1>2. /\ answered' = 1
        /\ tx_len' \in 0 .. TX_MAX
        /\ answer'.to \in {"page", "head", "chunks"} /\ answer'.extra \in Int
        /\ tx_len' > 0 => answer'.to = "head"
    BY <1>1, AnnounceFacts DEF IInv, MultipartBody
  <1>3. req' \in Request
    BY ServedType DEF IInv, MultipartBody
  <1>4. TypeOK'
    BY <1>1, <1>2, <1>3
    DEF IInv, TypeOK, MultipartBody, States, LineStates, multi, body, ghost, server_clear_req, BLEN
  <1>5. Modes'
    BY <1>1, <1>2, <1>3
    DEF IInv, Modes, TypeOK, MultipartBody, HeaderEnd, server_clear_req, Served, Request,
        BufferTerminated, BodyMatchesRequest, FreshRequest,
        AnsweredBeforeBody, ResidueOnlyAfterHead, OffsetIsReported, SectionConserved,
        ChunkStates, MultiStates
  <1> QED
    BY <1>4, <1>5 DEF IInv

LEMMA BadBodyStep ==
  ASSUME IInv, NEW c \in Char, NEW r \in RESPONSES, BadBody(c, r)
  PROVE  IInv'
  <1>1. /\ state = "HEADER_FIELDS" /\ answered = 0
        /\ req_buf' \in [0 .. REQ_BUF_MAX -> Char] /\ req_buf_len' = 0
        /\ req_buf'[REQ_BUF_MAX] = Nul
    BY HeaderEndFacts DEF BadBody
  <1>2. answer'.to = "error" /\ answer'.extra \in Int
    <2>1. Waits(r) \in Nat
      BY WaitsType DEF IInv
    <2>2. \A q \in Nat : Lesser(q + ERROR_PAGE, TX_MAX) - ERROR_PAGE \in Int
      BY DEF Lesser
    <2> QED
      BY <2>1, <2>2 DEF BadBody
  <1>3. req' \in Request /\ received_content_len' \in Nat
    BY EmptyReqType DEF IInv, TypeOK, BadBody, server_clear_req
  <1>4. TypeOK'
    BY <1>1, <1>2, <1>3
    DEF IInv, TypeOK, BadBody, States, LineStates, multi, ghost, server_clear_req
  <1>5. Modes'
    BY <1>1, <1>2, <1>3
    DEF IInv, Modes, TypeOK, BadBody, server_clear_req,
        BufferTerminated, BodyMatchesRequest, FreshRequest,
        AnsweredBeforeBody, ResidueOnlyAfterHead, OffsetIsReported, SectionConserved,
        ChunkStates, MultiStates
  <1> QED
    BY <1>4, <1>5 DEF IInv

LEMMA ChunkHeaderLineStep ==
  ASSUME IInv, NEW c \in Char, ChunkHeaderLine(c)
  PROVE  IInv'
  <1>1. /\ req_buf' \in [0 .. REQ_BUF_MAX -> Char] /\ req_buf_len' \in 0 .. REQ_BUF_MAX
        /\ req_buf'[REQ_BUF_MAX] = Nul
    BY TakeLineBuffer DEF IInv, Modes, ChunkHeaderLine
  <1>2. Line[0] \in Char
    BY Chars DEF IInv, TypeOK, Line
  <1>3. chunk_len' \in Nat
    BY <1>2 DEF ChunkHeaderLine, ChunkSizeOf, Char
  <1>4. TypeOK'
    BY <1>1, <1>3
    DEF IInv, TypeOK, ChunkHeaderLine, States, LineStates, multi, sent
  <1>5. Modes'
    BY <1>1, <1>3
    DEF IInv, Modes, TypeOK, ChunkHeaderLine, multi, sent,
        BufferTerminated, BodyMatchesRequest, FreshRequest,
        AnsweredBeforeBody, ResidueOnlyAfterHead, OffsetIsReported, SectionConserved,
        ChunkStates, MultiStates
  <1> QED
    BY <1>4, <1>5 DEF IInv

LEMMA ChunkDataEndLineStep ==
  ASSUME IInv, NEW c \in Char, ChunkDataEndLine(c)
  PROVE  IInv'
  <1>1. /\ req_buf' \in [0 .. REQ_BUF_MAX -> Char] /\ req_buf_len' \in 0 .. REQ_BUF_MAX
        /\ req_buf'[REQ_BUF_MAX] = Nul
    BY TakeLineBuffer DEF IInv, Modes, ChunkDataEndLine
  <1>4. TypeOK'
    BY <1>1
    DEF IInv, TypeOK, ChunkDataEndLine, States, LineStates, multi, sent, ghost
  <1>5. Modes'
    BY <1>1
    DEF IInv, Modes, TypeOK, ChunkDataEndLine, multi, sent, ghost,
        BufferTerminated, BodyMatchesRequest, FreshRequest,
        AnsweredBeforeBody, ResidueOnlyAfterHead, OffsetIsReported, SectionConserved,
        ChunkStates, MultiStates
  <1> QED
    BY <1>4, <1>5 DEF IInv

LEMMA ChunkFooterLineStep ==
  ASSUME IInv, NEW c \in Char, ChunkFooterLine(c)
  PROVE  IInv'
  <1>1. /\ req_buf' \in [0 .. REQ_BUF_MAX -> Char] /\ req_buf_len' \in 0 .. REQ_BUF_MAX
        /\ req_buf'[REQ_BUF_MAX] = Nul
    BY TakeLineBuffer DEF IInv, Modes, ChunkFooterLine
  <1>4. TypeOK'
    BY <1>1, EmptyReqType
    DEF IInv, TypeOK, ChunkFooterLine, States, LineStates, multi, body, sent, ghost, server_clear_req
  <1>5. Modes'
    BY <1>1
    DEF IInv, Modes, TypeOK, ChunkFooterLine, multi, body, sent, ghost, server_clear_req,
        BufferTerminated, BodyMatchesRequest, FreshRequest,
        AnsweredBeforeBody, ResidueOnlyAfterHead, OffsetIsReported, SectionConserved,
        ChunkStates, MultiStates
  <1> QED
    BY <1>4, <1>5 DEF IInv

LEMMA MultiHeaderLineStep ==
  ASSUME IInv, NEW c \in Char, MultiHeaderLine(c)
  PROVE  IInv'
  <1>1. /\ req_buf' \in [0 .. REQ_BUF_MAX -> Char] /\ req_buf_len' \in 0 .. REQ_BUF_MAX
        /\ req_buf'[REQ_BUF_MAX] = Nul
    BY TakeLineBuffer DEF IInv, Modes, MultiHeaderLine
  <1>2. LineEmpty => req_buf_len' = 0
    BY TakeLineBuffer DEF IInv, Modes, MultiHeaderLine
  <1>3. req' \in Request
    BY EmptyReqType DEF IInv, TypeOK, MultiHeaderLine, server_clear_req
  <1>6. recent' = recent \/ recent' = <<LF>>
    BY DEF MultiHeaderLine, ghost
  <1>7. recent' \in Seq(Char)
    <2>1. <<LF>> \in Seq(Char)
      BY Chars
    <2> QED
      BY <1>6, <2>1 DEF IInv, TypeOK
  <1>8. BLEN - 1 \in Nat
    BY DEF BLEN
  <1>9. /\ state' \in States
        /\ multipart_boundary_ix' \in 0 .. BLEN - 1 /\ multipart_delim' \in 0 .. 2
        /\ received_multipart_len' \in Nat /\ reported' \in Nat /\ seen' \in Nat
    BY <1>8 DEF IInv, TypeOK, MultiHeaderLine, multi, ghost, server_clear_req, States,
                LineStates
  <1>4. TypeOK'
    BY <1>1, <1>3, <1>7, <1>9 DEF IInv, TypeOK, MultiHeaderLine, body, sent
  <1>5. Modes'
    BY <1>1, <1>2
    DEF IInv, Modes, TypeOK, MultiHeaderLine, multi, body, sent, ghost, server_clear_req,
        BufferTerminated, BodyMatchesRequest, FreshRequest,
        AnsweredBeforeBody, ResidueOnlyAfterHead, OffsetIsReported, SectionConserved,
        ChunkStates, MultiStates
  <1> QED
    BY <1>4, <1>5 DEF IInv

LEMMA DataBlockStep ==
  ASSUME IInv, NEW block \in Seq(Char), DataBlock(block)
  PROVE  IInv'
  <1> DEFINE len == Len(block)
  <1>0. TakeBlock(len, Copied(block, len), received_content_len + len,
                  received_content_len + len = Piece)
    BY DEF DataBlock
  <1>1. len \in 1 .. REQ_BUF_MAX /\ \A i \in 1 .. len : block[i] \in Char
    BY <1>0 DEF TakeBlock
  <1> HIDE DEF len
  <1>2. /\ len <= Remaining
        /\ received_content_len' = received_content_len + len
        /\ reported' = reported + len
    BY <1>0 DEF TakeBlock
  <1>3. req_buf' \in [0 .. REQ_BUF_MAX -> Char] /\ req_buf'[REQ_BUF_MAX] = Nul
    <2>1. req_buf' = [i \in 0 .. REQ_BUF_MAX |->
                         IF i < len THEN block[i + 1] ELSE req_buf[i]]
      BY <1>0 DEF IInv, TypeOK, TakeBlock, Copied
    <2>2. req_buf \in [0 .. REQ_BUF_MAX -> Char] /\ req_buf[REQ_BUF_MAX] = Nul
      BY DEF IInv, Modes, TypeOK, BufferTerminated
    <2>3. \A i \in 0 .. REQ_BUF_MAX : i < len => block[i + 1] \in Char
      BY <1>1
    <2>4. \A i \in 0 .. REQ_BUF_MAX : req_buf'[i] \in Char
      BY <2>1, <2>2, <2>3
    <2>5. ~(REQ_BUF_MAX < len)
      BY <1>1
    <2>6. req_buf'[REQ_BUF_MAX] = Nul
      BY <2>1, <2>2, <2>5
    <2> QED
      BY <2>1, <2>4, <2>6
  <1>4. req' \in Request
    BY <1>0, EmptyReqType DEF IInv, TypeOK, TakeBlock, server_clear_req
  <1>5. state' \in {state, "CHUNK_DATA_END", "HEADER_METHOD"}
    BY <1>0 DEF TakeBlock, server_clear_req
  <1>6. received_content_len' \in Nat /\ reported' \in Nat
    BY <1>1, <1>2 DEF IInv, TypeOK
  <1>7. TypeOK'
    BY <1>0, <1>3, <1>4, <1>5, <1>6
    DEF IInv, TypeOK, TakeBlock, States, LineStates, multi, sent
  <1>8. CASE state = "CONTENT"
    <2>1. ~req.chunked /\ UNCHANGED <<multi, sent, chunk_len>>
      BY <1>0, <1>8 DEF IInv, Modes, BodyMatchesRequest, TakeBlock
    <2>2. received_content_len' <= req.content_length
      BY <1>1, <1>2, <1>8 DEF IInv, TypeOK, Request, Remaining
    <2>3. CASE received_content_len' = req.content_length
      <3>1. state' = "HEADER_METHOD" /\ req' = EmptyReq
        BY <1>0, <1>2, <2>1, <2>3 DEF TakeBlock, Piece, server_clear_req
      <3> QED
        BY <1>3, <1>7, <2>1, <3>1
        DEF IInv, Modes, sent, BufferTerminated, BodyMatchesRequest, FreshRequest,
            AnsweredBeforeBody, ResidueOnlyAfterHead, OffsetIsReported,
            SectionConserved, ChunkStates, MultiStates
    <2>4. CASE received_content_len' # req.content_length
      <3>1. UNCHANGED <<state, req>>
        BY <1>0, <1>2, <2>1, <2>4 DEF TakeBlock, Piece
      <3>2. received_content_len' < req.content_length
        BY <1>6, <2>2, <2>4 DEF IInv, TypeOK, Request
      <3>3. received_content_len' = reported'
        BY <1>1, <1>2, <1>8 DEF IInv, Modes, OffsetIsReported
      <3>4. BodyMatchesRequest'
        BY <1>8, <2>1, <3>1, <3>2 DEF BodyMatchesRequest, ChunkStates, MultiStates
      <3>5. AnsweredBeforeBody' /\ ResidueOnlyAfterHead'
        BY <2>1, <3>1
        DEF IInv, Modes, AnsweredBeforeBody, ResidueOnlyAfterHead, sent
      <3> QED
        BY <1>3, <1>7, <1>8, <3>1, <3>3, <3>4, <3>5
        DEF IInv, Modes, BufferTerminated, FreshRequest, OffsetIsReported,
            SectionConserved
    <2> QED
      BY <2>3, <2>4
  <1>9. CASE state = "CHUNK_DATA"
    <2>1. req.chunked /\ UNCHANGED <<req, multi, sent, chunk_len>>
      BY <1>0, <1>9 DEF IInv, Modes, BodyMatchesRequest, TakeBlock, ChunkStates
    <2>2. received_content_len' <= chunk_len
      BY <1>1, <1>2, <1>9 DEF IInv, TypeOK, Remaining
    <2>3. state' = IF received_content_len' = chunk_len
                   THEN "CHUNK_DATA_END" ELSE "CHUNK_DATA"
      BY <1>0, <1>2, <1>9, <2>1 DEF TakeBlock, Piece
    <2> QED
      BY <1>1, <1>2, <1>3, <1>7, <1>9, <2>1, <2>2, <2>3
      DEF IInv, Modes, TypeOK, sent, BufferTerminated, BodyMatchesRequest,
          FreshRequest, AnsweredBeforeBody, ResidueOnlyAfterHead, OffsetIsReported,
          SectionConserved, ChunkStates, MultiStates
  <1> QED
    BY <1>0, <1>8, <1>9 DEF TakeBlock

LEMMA TimeoutStep ==
  ASSUME IInv, Timeout
  PROVE  IInv'
  <1>1. answered \in 0 .. 1
    BY DEF IInv, Modes, AnsweredBeforeBody, Timeout
  <1>2. Queued(ERROR_PAGE) \in 0 .. TX_MAX
    BY QueuedType DEF IInv
  <1>3. TypeOK'
    BY <1>1, <1>2, EmptyReqType
    DEF IInv, TypeOK, Timeout, SendError, server_clear_req, States, LineStates,
        multi, ghost
  <1>4. Modes'
    BY DEF IInv, Modes, Timeout, SendError, server_clear_req, BufferTerminated,
           BodyMatchesRequest, FreshRequest, AnsweredBeforeBody, ResidueOnlyAfterHead,
           OffsetIsReported, SectionConserved, ChunkStates, MultiStates
  <1> QED
    BY <1>3, <1>4 DEF IInv

LEMMA SectionEndStep ==
  ASSUME IInv, NEW c \in Char, SectionEnd(c)
  PROVE  IInv'
  <1>1. state = "MULTI_CONTENT_DATA" /\ req_buf_len < REQ_BUF_MAX
    BY DEF SectionEnd, SectionChar, IInv, Modes, BufferTerminated
  <1>2. req_buf' \in [0 .. REQ_BUF_MAX -> Char] /\ req_buf'[REQ_BUF_MAX] = Nul
    BY <1>1 DEF SectionEnd, SectionChar, Appended, IInv, Modes, TypeOK, BufferTerminated
  <1>3. req_buf_len' \in 0 .. REQ_BUF_MAX
    BY <1>1 DEF SectionEnd, IInv, TypeOK
  <1>4. recent' \in Seq(Char)
    BY DEF SectionEnd, SectionChar, Push, IInv, TypeOK, BLEN
  <1>5. \/ state' = "HEADER_METHOD" /\ req' = EmptyReq
        \/ state' = "MULTI_CONTENT_HEADER" /\ req' = req
    BY DEF SectionEnd, server_clear_req
  <1>6. /\ multipart_boundary_ix' = 0 /\ multipart_delim' = 0
        /\ seen' = seen + 1
        /\ UNCHANGED <<received_multipart_len, received_content_len, reported,
                       chunk_len, sent>>
    BY DEF SectionEnd, SectionChar
  <1>7. 0 \in 0 .. BLEN - 1
    BY DEF BLEN
  <1>8. TypeOK'
    BY <1>2, <1>3, <1>4, <1>5, <1>6, <1>7, EmptyReqType
    DEF IInv, TypeOK, sent, States, LineStates
  <1>9. Modes'
    BY <1>1, <1>2, <1>5, <1>6
    DEF IInv, Modes, sent, BufferTerminated, BodyMatchesRequest, FreshRequest,
        AnsweredBeforeBody, ResidueOnlyAfterHead, OffsetIsReported, SectionConserved,
        ChunkStates, MultiStates
  <1> QED
    BY <1>8, <1>9 DEF IInv

LEMMA SectionDataStep ==
  ASSUME IInv, NEW c \in Char, SectionData(c)
  PROVE  IInv'
  <1> DEFINE after == KeptAfter(c)
             out   == FlushedOf(c)
             last  == received_content_len + 1 = req.content_length
             rest  == IF last THEN after ELSE 0
  <1>1. state = "MULTI_CONTENT_DATA" /\ req_buf_len \in 0 .. REQ_BUF_MAX - 1
    BY DEF SectionData, SectionDatum, SectionChar, IInv, TypeOK, Modes, BufferTerminated
  <1>2. req_buf' \in [0 .. REQ_BUF_MAX -> Char] /\ req_buf'[REQ_BUF_MAX] = Nul
    BY <1>1 DEF SectionData, SectionDatum, SectionChar, Appended, IInv, Modes, TypeOK, BufferTerminated
  <1>3. Kept(c) \in 0 .. REQ_BUF_MAX /\ after \in 0 .. REQ_BUF_MAX - 1 /\ out \in Nat
        /\ after + out = Kept(c)
    BY <1>1 DEF Kept, KeptAfter, FlushedOf, Flush
  <1>4. recent' \in Seq(Char)
    BY DEF SectionData, SectionDatum, SectionChar, Push, IInv, TypeOK, BLEN
  <1>5. BLEN \in Nat \ {0} /\ multipart_boundary_ix \in 0 .. BLEN - 1
        /\ multipart_delim \in 0 .. 2
    BY DEF BLEN, IInv, TypeOK
  <1>6. multipart_delim' \in 0 .. 2
    BY <1>5 DEF SectionData, SectionDatum, DashSeen
  <1>7. multipart_boundary_ix' \in 0 .. BLEN - 1
    BY <1>5 DEF SectionData, SectionDatum, DelimiterSeen, Taken
  <1>8. multipart_boundary_ix' > 0 => multipart_delim' = 2
    BY <1>1, <1>5
    DEF SectionData, SectionDatum, DashSeen, Taken, IdSeen, IInv, Modes, BodyMatchesRequest, MultiStates
  <1>9. /\ req_buf_len' = after
        /\ received_content_len' = received_content_len + 1
        /\ seen' = seen + 1
        /\ reported' = Given(reported, c) + out + rest
        /\ received_multipart_len' = Given(received_multipart_len, c) + out + rest
        /\ UNCHANGED <<chunk_len, sent>>
    <2>1. out = IF Kept(c) > after THEN Kept(c) - after ELSE 0
      BY <1>3
    <2> QED
      BY <2>1 DEF SectionData, SectionDatum, SectionChar
  <1>10. /\ seen = reported + req_buf_len /\ received_multipart_len = reported
         /\ seen \in Nat /\ reported \in Nat
    BY <1>1 DEF IInv, Modes, TypeOK, SectionConserved, OffsetIsReported
  <1>11. /\ Given(reported, c) \in Nat
         /\ seen + 1 = Given(reported, c) + Kept(c)
         /\ Given(received_multipart_len, c) = Given(reported, c)
    BY <1>1, <1>10 DEF Given, Kept
  <1>12. rest \in Nat
    BY <1>3
  <1>13. /\ reported' \in Nat /\ received_multipart_len' = reported' /\ seen' \in Nat
    BY <1>3, <1>9, <1>10, <1>11, <1>12
  <1>14. received_content_len \in Nat /\ received_content_len < req.content_length
         /\ req.content_length \in Nat
    BY <1>1 DEF IInv, Modes, TypeOK, Request, BodyMatchesRequest, MultiStates
  <1>15. CASE last
    <2>1. state' = "HEADER_METHOD" /\ req' = EmptyReq
      BY <1>15 DEF SectionData, SectionDatum, server_clear_req
    <2>2. TypeOK'
      <3>1. req_buf_len' \in 0 .. REQ_BUF_MAX
        BY <1>3, <1>9, UserverAssumption
      <3>2. received_content_len' \in Nat
        BY <1>9, <1>14
      <3>3. /\ received_multipart_len' \in Int
            /\ UNCHANGED <<chunk_len, tx_len, answered, answer>>
        BY <1>9, <1>13 DEF sent
      <3>4. state' \in States /\ req' \in Request
        BY <2>1, EmptyReqType DEF States, LineStates
      <3> HIDE DEF after, out, last, rest
      <3> QED
        BY <1>2, <1>4, <1>6, <1>7, <1>13, <3>1, <3>2, <3>3, <3>4 DEF IInv, TypeOK
    <2>3. Modes'
      BY <1>2, <1>9, <2>1
      DEF IInv, Modes, sent, BufferTerminated, BodyMatchesRequest, FreshRequest,
          AnsweredBeforeBody, ResidueOnlyAfterHead, OffsetIsReported, SectionConserved,
          ChunkStates, MultiStates
    <2> QED
      BY <2>2, <2>3 DEF IInv
  <1>16. CASE ~last
    <2>1. UNCHANGED <<state, req>>
      BY <1>16 DEF SectionData, SectionDatum
    <2>2. received_content_len' < req.content_length
      BY <1>9, <1>14, <1>16
    <2>3. seen' = reported' + req_buf_len'
      BY <1>3, <1>9, <1>11, <1>16
    <2>4. TypeOK'
      <3>1. req_buf_len' \in 0 .. REQ_BUF_MAX
        BY <1>3, <1>9, UserverAssumption
      <3>2. received_content_len' \in Nat
        BY <1>9, <1>14
      <3>3. /\ received_multipart_len' \in Int
            /\ UNCHANGED <<chunk_len, tx_len, answered, answer>>
        BY <1>9, <1>13 DEF sent
      <3> HIDE DEF after, out, last, rest
      <3> QED
        BY <1>2, <1>4, <1>6, <1>7, <1>13, <2>1, <3>1, <3>2, <3>3 DEF IInv, TypeOK
    <2>5. req_buf_len' < REQ_BUF_MAX
      BY <1>3, <1>9
    <2>6. BodyMatchesRequest'
      BY <1>1, <1>8, <2>1, <2>2
      DEF IInv, Modes, BodyMatchesRequest, ChunkStates, MultiStates
    <2>7. AnsweredBeforeBody' /\ ResidueOnlyAfterHead'
      BY <1>9, <2>1 DEF IInv, Modes, AnsweredBeforeBody, ResidueOnlyAfterHead, sent
    <2> QED
      BY <1>1, <1>2, <1>13, <2>1, <2>3, <2>4, <2>5, <2>6, <2>7
      DEF IInv, Modes, BufferTerminated, FreshRequest, OffsetIsReported,
          SectionConserved
  <1> QED
    BY <1>15, <1>16

LEMMA StepKeepsIInv == IInv /\ [Next]_vars => IInv'
  <1> SUFFICES ASSUME IInv, [Next]_vars PROVE IInv'
    OBVIOUS
  <1>1. ASSUME NEW c \in ALPHABET, ParseChar(c) PROVE IInv'
    <2>1. c \in Char
      BY Chars
    <2> QED
      BY <1>1, <2>1, StoreCharStep, MethodLineStep, FieldLineStep, BadRequestStep,
         ChunkHeaderLineStep, ChunkDataEndLineStep, ChunkFooterLineStep,
         MultiHeaderLineStep, SectionEndStep, SectionDataStep DEF ParseChar
  <1>2. ASSUME NEW c \in ALPHABET, NEW r \in RESPONSES, ServeRequest(c, r) PROVE IInv'
    <2>1. c \in Char
      BY Chars
    <2> QED
      BY <1>2, <2>1, NoBodyStep, ChunkedBodyStep, PlainBodyStep, MultipartBodyStep,
         BadBodyStep DEF ServeRequest
  <1>3. ASSUME NEW len \in 1 .. REQ_BUF_MAX, DataBlock(Block(len)) PROVE IInv'
    <2>1. Block(len) \in Seq(Char)
      BY Chars DEF Block
    <2> QED
      BY <1>3, <2>1, DataBlockStep
  <1>4. CASE Timeout
    BY <1>4, TimeoutStep
  <1>5. CASE UNCHANGED vars
    BY <1>5
    DEF vars, parser, multi, body, sent, ghost, IInv, TypeOK, Modes, BufferTerminated,
        BodyMatchesRequest, FreshRequest, AnsweredBeforeBody, ResidueOnlyAfterHead,
        OffsetIsReported, SectionConserved
  <1> QED
    BY <1>1, <1>2, <1>3, <1>4, <1>5 DEF Next

THEOREM Invariance == Spec => []IInv
  <1>1. Init => IInv
    BY InitType, InitModes DEF IInv
  <1>2. IInv /\ [Next]_vars => IInv'
    BY StepKeepsIInv
  <1> QED
    BY <1>1, <1>2, PTL DEF Spec

-------------------------------------------------------------------------------
\* Every variable of the parser stays within its type, for every buffer size,
\* boundary, alphabet and response handler (userver.c:32-57).
THEOREM TypeCorrect == Spec => []TypeOK
  BY Invariance, PTL DEF IInv

\* The unchecked stores of userver.c:428 and 479 stay inside req_buf, and the
\* string functions always find a terminator there.
THEOREM BufferSafe == Spec => []BufferTerminated
  BY Invariance, PTL DEF IInv, Modes

\* The state of the parser and the request it works on agree
\* (userver.c:239-296, 435-470).
THEOREM ModesAgree == Spec => []BodyMatchesRequest
  BY Invariance, PTL DEF IInv, Modes

\* The next request starts from a blank one, and a body is only read for a
\* request that was answered exactly once (userver.c:62-66, 239).
THEOREM RequestsSeparate == Spec => [](FreshRequest /\ AnsweredBeforeBody)
  <1>1. IInv => FreshRequest /\ AnsweredBeforeBody
    BY DEF IInv, Modes
  <1> QED
    BY <1>1, Invariance, PTL

\* Bytes wait in the transmit ring only after a HEAD request (userver.c:142).
THEOREM ResidueFromHead == Spec => []ResidueOnlyAfterHead
  BY Invariance, PTL DEF IInv, Modes

\* The offsets given to server_data_f are contiguous and no character of a
\* section is lost or given twice (userver.c:447-453, 479-537).
THEOREM Conservation == Spec => [](OffsetIsReported /\ SectionConserved)
  <1>1. IInv => OffsetIsReported /\ SectionConserved
    BY DEF IInv, Modes
  <1> QED
    BY <1>1, Invariance, PTL

-------------------------------------------------------------------------------
(* Delimiters.  What SectionData keeps in two counters, how much of a          *)
(* delimiter has come, agrees with the characters that came; and a delimiter   *)
(* that began its line is counted from its first dash.                         *)

Back(s, k) == s[Len(s) - k]

\* s ends with the first m characters of a delimiter.
EndsInDelimiter(s, m) ==
    /\ Len(s) >= m
    /\ \A i \in 1 .. m : Back(s, m - i) = Delimiter[i]

\* The same, and a newline is in front of them.
LineIsDelimiter(s, m) ==
    /\ Len(s) >= m + 1
    /\ Back(s, m) = LF
    /\ EndsInDelimiter(s, m)

Matched == multipart_delim + multipart_boundary_ix

Followed ==
    /\ Len(recent) \in 1 .. BLEN + 3
    /\ state = "MULTI_CONTENT_DATA" =>
        /\ EndsInDelimiter(recent, Matched)
        /\ \A k \in 0 .. BLEN + 1 :
              LineIsDelimiter(recent, k) =>
                /\ Matched = k
                /\ k < REQ_BUF_MAX => req_buf_len = k
DelimInv == Followed /\ DelimiterFound

LEMMA DelimiterChars ==
  /\ BLEN \in Nat \ {0} /\ Delimiter \in Seq(Char) /\ Len(Delimiter) = BLEN + 2
  /\ Delimiter[1] = Dash /\ Delimiter[2] = Dash
  /\ \A k \in 1 .. BLEN : Delimiter[k + 2] = BOUNDARY[k] /\ BOUNDARY[k] # LF
  /\ Dash # LF
  <1>1. BLEN \in Nat \ {0} /\ BOUNDARY \in Seq(Char) /\ Len(BOUNDARY) = BLEN
    BY DEF BLEN
  <1>2. <<Dash, Dash>> \in Seq(Char)
    BY Chars
  <1>3. Dash # LF
    BY DEF Dash, LF
  <1> QED
    BY <1>1, <1>2, <1>3 DEF Delimiter

LEMMA BackFrom ==
  ASSUME NEW s, NEW n \in Int, Len(s) = n, NEW k \in Int
  PROVE  Back(s, k) = s[n - k]
  BY Zenon DEF Back

\* Push keeps the end of a sequence and adds one character to it.
LEMMA PushEnd ==
  ASSUME NEW s \in Seq(Char), Len(s) \in 1 .. BLEN + 3, NEW c \in Char
  PROVE  /\ Len(Push(s, c)) \in 1 .. BLEN + 3
         /\ Back(Push(s, c), 0) = c
         /\ \A k \in 0 .. BLEN + 1 :
               /\ Len(Push(s, c)) >= k + 2 <=> Len(s) >= k + 1
               /\ Len(s) >= k + 1 => Back(Push(s, c), k + 1) = Back(s, k)
  <1>1. BLEN \in Nat \ {0}
    BY DelimiterChars
  <1>2. CASE Len(s) < BLEN + 3
    BY <1>1, <1>2 DEF Push, Back
  <1>3. CASE ~(Len(s) < BLEN + 3)
    <2>1. Len(s) = BLEN + 3 /\ Push(s, c) = Append(Tail(s), c)
      BY <1>1, <1>3 DEF Push
    <2>2. /\ Tail(s) \in Seq(Char) /\ Len(Tail(s)) = BLEN + 2
          /\ \A i \in 1 .. BLEN + 2 : Tail(s)[i] = s[i + 1]
      BY <1>1, <2>1
    <2>3. /\ Len(Push(s, c)) = BLEN + 3 /\ Push(s, c)[BLEN + 3] = c
          /\ \A i \in 1 .. BLEN + 2 : Push(s, c)[i] = s[i + 1]
      BY <1>1, <2>1, <2>2
    <2>4. Back(Push(s, c), 0) = c
      BY <1>1, <2>3 DEF Back
    <2>5. ASSUME NEW k \in 0 .. BLEN + 1
          PROVE  Back(Push(s, c), k + 1) = Back(s, k)
      <3>1. BLEN + 2 - k \in 1 .. BLEN + 2
        BY <1>1
      <3>2. Push(s, c)[BLEN + 2 - k] = s[BLEN + 2 - k + 1]
        BY <2>3, <3>1
      <3>3. BLEN + 3 - (k + 1) = BLEN + 2 - k /\ BLEN + 2 - k + 1 = BLEN + 3 - k
        BY <1>1
      <3>4. Back(Push(s, c), k + 1) = Push(s, c)[BLEN + 3 - (k + 1)]
        <4>1. PICK t : t = Push(s, c)
          OBVIOUS
        <4>2. Len(t) = BLEN + 3 /\ BLEN + 3 \in Int /\ k + 1 \in Int
          BY <1>1, <2>3, <4>1
        <4>3. PICK n \in Int, m \in Int : n = BLEN + 3 /\ m = k + 1
          BY <4>2
        <4>4. Len(t) = n
          BY <4>2, <4>3
        <4>5. Back(t, m) = t[n - m]
          BY <4>4, BackFrom
        <4>6. n - m = BLEN + 3 - (k + 1)
          BY <1>1, <4>3
        <4>7. Back(t, k + 1) = t[n - m]
          BY <4>3, <4>5, Zenon
        <4>8. Back(t, k + 1) = t[BLEN + 3 - (k + 1)]
          BY <4>6, <4>7, Zenon
        <4> QED
          BY <4>1, <4>8, Zenon
      <3>5. Back(s, k) = s[BLEN + 3 - k]
        BY <1>1, <2>1, BackFrom
      <3> QED
        BY <3>2, <3>3, <3>4, <3>5, Zenon
    <2> QED
      BY <1>1, <2>1, <2>3, <2>4, <2>5
  <1> QED
    BY <1>2, <1>3

\* What the end of a section's characters says of the character before.
LEMMA EndBefore ==
  ASSUME NEW s \in Seq(Char), Len(s) \in 1 .. BLEN + 3, NEW c \in Char,
         NEW k \in 0 .. BLEN + 1
  PROVE  /\ EndsInDelimiter(s, k) /\ c = Delimiter[k + 1] =>
               EndsInDelimiter(Push(s, c), k + 1)
         /\ LineIsDelimiter(Push(s, c), k + 1) =>
               LineIsDelimiter(s, k) /\ c = Delimiter[k + 1]
  <1> DEFINE t == Push(s, c)
  <1>1. BLEN \in Nat \ {0}
    BY DelimiterChars
  <1>2. /\ Len(t) \in Nat /\ Len(s) \in Nat /\ Back(t, 0) = c
        /\ \A j \in 0 .. BLEN + 1 : /\ Len(t) >= j + 2 <=> Len(s) >= j + 1
                                    /\ Len(s) >= j + 1 => Back(t, j + 1) = Back(s, j)
        /\ Len(t) >= 1
    BY PushEnd, <1>1
  <1> HIDE DEF t
  <1>3. ASSUME EndsInDelimiter(s, k), c = Delimiter[k + 1]
        PROVE  EndsInDelimiter(t, k + 1)
    <2>1. Len(t) >= k + 1
      <3>1. CASE k = 0
        BY <1>2, <3>1
      <3>2. CASE k > 0
        <4>1. k - 1 \in 0 .. BLEN + 1 /\ Len(s) >= (k - 1) + 1
          BY <1>1, <1>2, <1>3, <3>2 DEF EndsInDelimiter
        <4> QED
          BY <1>2, <4>1
      <3> QED
        BY <3>1, <3>2
    <2>2. ASSUME NEW i \in 1 .. k + 1 PROVE Back(t, (k + 1) - i) = Delimiter[i]
      <3>1. CASE i = k + 1
        BY <1>2, <1>3, <3>1
      <3>2. CASE i < k + 1
        <4>1. i \in 1 .. k /\ k - i \in 0 .. BLEN + 1 /\ Len(s) >= (k - i) + 1
              /\ (k - i) + 1 = (k + 1) - i
          BY <1>1, <1>2, <1>3, <3>2 DEF EndsInDelimiter
        <4>2. Back(t, (k - i) + 1) = Back(s, k - i)
          BY <1>2, <4>1
        <4>3. Back(s, k - i) = Delimiter[i]
          BY <1>3, <4>1 DEF EndsInDelimiter
        <4> QED
          BY <4>1, <4>2, <4>3
      <3> QED
        BY <3>1, <3>2
    <2> QED
      BY <2>1, <2>2 DEF EndsInDelimiter
  <1>4. ASSUME LineIsDelimiter(t, k + 1)
        PROVE  LineIsDelimiter(s, k) /\ c = Delimiter[k + 1]
    <2>1. /\ Len(t) >= k + 2 /\ Back(t, k + 1) = LF
          /\ \A i \in 1 .. k + 1 : Back(t, (k + 1) - i) = Delimiter[i]
      BY <1>4 DEF LineIsDelimiter, EndsInDelimiter
    <2>2. Len(s) >= k + 1 /\ Back(s, k) = LF
      BY <1>2, <2>1
    <2>3. c = Delimiter[k + 1]
      <3>1. k + 1 \in 1 .. k + 1 /\ (k + 1) - (k + 1) = 0
        OBVIOUS
      <3> QED
        BY <1>2, <2>1, <3>1
    <2>4. ASSUME NEW i \in 1 .. k PROVE Back(s, k - i) = Delimiter[i]
      <3>1. i \in 1 .. k + 1 /\ k - i \in 0 .. BLEN + 1 /\ Len(s) >= (k - i) + 1
            /\ (k - i) + 1 = (k + 1) - i
        BY <1>1, <1>2, <2>2
      <3>2. Back(t, (k - i) + 1) = Back(s, k - i)
        BY <1>2, <3>1
      <3> QED
        BY <2>1, <3>1, <3>2
    <2> QED
      BY <1>2, <2>2, <2>3, <2>4 DEF LineIsDelimiter, EndsInDelimiter
  <1> QED
    BY <1>3, <1>4 DEF t

\* A newline alone is the beginning of a line.
LEMMA FreshLine ==
  /\ Len(<<LF>>) \in 1 .. BLEN + 3
  /\ EndsInDelimiter(<<LF>>, 0)
  /\ \A k \in 0 .. BLEN + 1 : LineIsDelimiter(<<LF>>, k) => k = 0
  /\ <<LF>> # <<LF>> \o Delimiter
  <1>1. Len(<<LF>>) = 1
    OBVIOUS
  <1>2. EndsInDelimiter(<<LF>>, 0)
    BY <1>1 DEF EndsInDelimiter
  <1>3. \A k \in 0 .. BLEN + 1 : LineIsDelimiter(<<LF>>, k) => k = 0
    BY <1>1, DelimiterChars DEF LineIsDelimiter
  <1>4. Len(<<LF>> \o Delimiter) = BLEN + 3
    <2>1. <<LF>> \in Seq(Char)
      BY Chars
    <2> QED
      BY <1>1, <2>1, DelimiterChars
  <1> QED
    BY <1>1, <1>2, <1>3, <1>4, DelimiterChars

\* A whole delimiter on a line of its own.
LEMMA WholeDelimiter ==
  ASSUME NEW s, s = <<LF>> \o Delimiter
  PROVE  LineIsDelimiter(s, BLEN + 2)
  <1>1. <<LF>> \in Seq(Char) /\ Len(<<LF>>) = 1 /\ <<LF>>[1] = LF
    BY Chars
  <1>2. Len(s) = BLEN + 3 /\ s[1] = LF
        /\ \A i \in 1 .. BLEN + 2 : s[i + 1] = Delimiter[i]
    BY <1>1, DelimiterChars
  <1>3. Back(s, BLEN + 2) = LF
    <2>1. (BLEN + 3) - (BLEN + 2) = 1
      BY DelimiterChars
    <2> QED
      BY <1>2, <2>1, Zenon DEF Back
  <1>4. ASSUME NEW i \in 1 .. BLEN + 2
        PROVE  Back(s, (BLEN + 2) - i) = Delimiter[i]
    <2>1. (BLEN + 3) - ((BLEN + 2) - i) = i + 1
      BY DelimiterChars
    <2> QED
      BY <1>2, <2>1, Zenon DEF Back
  <1>5. Len(s) >= BLEN + 2 /\ Len(s) >= BLEN + 2 + 1
    BY <1>2, DelimiterChars
  <1> QED
    BY <1>3, <1>4, <1>5, Zenon DEF LineIsDelimiter, EndsInDelimiter

LEMMA InitDelim == Init => DelimInv
  <1> SUFFICES ASSUME Init PROVE DelimInv
    OBVIOUS
  <1>1. state # "MULTI_CONTENT_DATA" /\ recent = <<LF>>
    BY DEF Init
  <1> QED
    BY <1>1, FreshLine DEF DelimInv, Followed, DelimiterFound

\* A character of a section that completes no delimiter.
LEMMA SectionDataDelim ==
  ASSUME IInv, DelimInv, NEW c \in Char, SectionData(c)
  PROVE  DelimInv'
  <1>1. /\ state = "MULTI_CONTENT_DATA" /\ recent' = Push(recent, c) /\ ~DelimiterSeen(c)
        /\ req_buf_len' = KeptAfter(c)
        /\ multipart_delim' = IF DashSeen(c) THEN multipart_delim + 1
                              ELSE IF Taken(c) THEN multipart_delim ELSE 0
        /\ multipart_boundary_ix' = IF DashSeen(c) THEN multipart_boundary_ix
                                    ELSE IF Taken(c) THEN multipart_boundary_ix + 1 ELSE 0
    BY DEF SectionData, SectionDatum, SectionChar
  <1>2. /\ recent \in Seq(Char) /\ Len(recent) \in 1 .. BLEN + 3
        /\ multipart_boundary_ix \in 0 .. BLEN - 1 /\ multipart_delim \in 0 .. 2
        /\ multipart_boundary_ix > 0 => multipart_delim = 2
        /\ req_buf_len \in 0 .. REQ_BUF_MAX - 1
    BY <1>1 DEF IInv, TypeOK, Modes, BodyMatchesRequest, BufferTerminated, MultiStates,
                DelimInv, Followed
  <1>3. /\ EndsInDelimiter(recent, Matched)
        /\ \A k \in 0 .. BLEN + 1 :
              LineIsDelimiter(recent, k) =>
                Matched = k /\ (k < REQ_BUF_MAX => req_buf_len = k)
    BY <1>1 DEF DelimInv, Followed
  <1>4. BLEN \in Nat \ {0} /\ Matched \in 0 .. BLEN + 1
    BY <1>2, DelimiterChars DEF Matched
  <1>5. /\ Len(recent') \in 1 .. BLEN + 3 /\ Back(recent', 0) = c
    BY <1>1, <1>2, PushEnd
  <1>6. ASSUME Taken(c)
        PROVE  /\ c = Delimiter[Matched + 1] /\ Matched' = Matched + 1
    <2>1. CASE DashSeen(c)
      <3>1. c = Dash /\ multipart_delim \in 0 .. 1 /\ multipart_boundary_ix = 0
        BY <1>2, <2>1 DEF DashSeen
      <3> QED
        BY <1>1, <2>1, <3>1, DelimiterChars DEF Matched
    <2>2. CASE ~DashSeen(c)
      <3>1. multipart_delim = 2 /\ c = BOUNDARY[multipart_boundary_ix + 1]
        BY <1>6, <2>2 DEF Taken, IdSeen
      <3>2. c = Delimiter[multipart_boundary_ix + 1 + 2]
        BY <1>2, <1>4, <3>1, DelimiterChars
      <3> QED
        BY <1>1, <1>2, <1>6, <2>2, <3>1, <3>2 DEF Matched
    <2> QED
      BY <2>1, <2>2
  <1>7. ASSUME ~Taken(c) PROVE Matched' = 0
    BY <1>1, <1>7 DEF Matched, Taken
  <1>8. EndsInDelimiter(recent', Matched')
    <2>1. CASE Taken(c)
      BY <1>1, <1>2, <1>3, <1>4, <1>6, <2>1, EndBefore
    <2>2. CASE ~Taken(c)
      BY <1>5, <1>7, <2>2 DEF EndsInDelimiter
    <2> QED
      BY <2>1, <2>2
  \* The next character of a delimiter is taken for one.
  <1>9. ASSUME NEW k \in 0 .. BLEN + 1, LineIsDelimiter(recent, k), c = Delimiter[k + 1]
        PROVE  /\ k < BLEN + 1 /\ Taken(c)
    <2>1. Matched = k
      BY <1>3, <1>9
    <2>2. CASE multipart_delim < 2
      <3>1. multipart_boundary_ix = 0 /\ k = multipart_delim /\ k \in 0 .. 1
        BY <1>2, <2>1, <2>2 DEF Matched
      <3>2. c = Dash
        BY <1>9, <3>1, DelimiterChars
      <3> QED
        BY <1>4, <2>2, <3>1, <3>2 DEF Taken, DashSeen
    <2>3. CASE multipart_delim = 2
      <3>1. k = multipart_boundary_ix + 2
        BY <1>2, <2>1, <2>3 DEF Matched
      <3>2. c = BOUNDARY[multipart_boundary_ix + 1]
        <4>1. multipart_boundary_ix + 1 \in 1 .. BLEN
              /\ k + 1 = (multipart_boundary_ix + 1) + 2
          BY <1>2, <1>4, <3>1
        <4> QED
          BY <1>9, <4>1, DelimiterChars
      <3>3. IdSeen(c)
        BY <2>3, <3>2 DEF IdSeen, DashSeen
      <3>4. multipart_boundary_ix + 1 # BLEN
        BY <1>1, <3>3 DEF DelimiterSeen
      <3> QED
        BY <1>2, <1>4, <3>1, <3>3, <3>4 DEF Taken
    <2> QED
      BY <1>2, <2>2, <2>3
  <1>10. ASSUME NEW k \in 0 .. BLEN + 1, LineIsDelimiter(recent', k)
         PROVE  Matched' = k /\ (k < REQ_BUF_MAX => req_buf_len' = k)
    <2>1. CASE k = 0
      <3>1. c = LF
        BY <1>5, <1>10, <2>1 DEF LineIsDelimiter
      <3>2. ~Taken(c)
        <4>1. BOUNDARY[multipart_boundary_ix + 1] # LF
          BY <1>2, <1>4, DelimiterChars
        <4> QED
          BY <3>1, <4>1, DelimiterChars DEF Taken, DashSeen, IdSeen
      <3>3. Kept(c) = 0
        BY <3>1 DEF Kept
      <3> QED
        BY <1>1, <1>7, <2>1, <3>2, <3>3 DEF KeptAfter
    <2>2. CASE k > 0
      <3>1. PICK j \in 0 .. BLEN + 1 : k = j + 1 /\ j < BLEN + 1
        <4>1. k - 1 \in 0 .. BLEN + 1 /\ k = (k - 1) + 1 /\ k - 1 < BLEN + 1
          BY <1>4, <2>2
        <4> QED
          BY <4>1
      <3>2. LineIsDelimiter(recent, j) /\ c = Delimiter[j + 1]
        BY <1>1, <1>2, <1>10, <3>1, EndBefore
      <3>3. Taken(c) /\ Matched = j
        BY <1>3, <1>9, <3>2
      <3>4. Matched' = k
        BY <1>6, <3>1, <3>3
      <3>5. ASSUME k < REQ_BUF_MAX PROVE req_buf_len' = k
        <4>1. req_buf_len = j
          BY <1>3, <3>1, <3>2, <3>5
        <4>2. c # LF
          <5>1. j + 1 \in 1 .. BLEN + 2
            BY <1>4
          <5>2. \A i \in 1 .. BLEN + 2 : Delimiter[i] # LF
            <6>1. \A i \in 1 .. BLEN + 2 : i = 1 \/ i = 2 \/ i - 2 \in 1 .. BLEN
              BY <1>4
            <6>2. \A i \in 1 .. BLEN + 2 : i - 2 \in 1 .. BLEN => Delimiter[i] # LF
              <7>1. \A i \in 1 .. BLEN + 2 : i = (i - 2) + 2
                OBVIOUS
              <7> QED
                BY <7>1, DelimiterChars
            <6> QED
              BY <6>1, <6>2, DelimiterChars
          <5> QED
            BY <3>2, <5>1, <5>2
        <4>3. Kept(c) = k /\ ~Flush(c)
          BY <3>1, <3>3, <3>5, <4>1, <4>2 DEF Kept, Flush, Mistaken
        <4> QED
          BY <1>1, <4>3 DEF KeptAfter
      <3> QED
        BY <3>4, <3>5
    <2> QED
      BY <2>1, <2>2
  <1>11. recent' # <<LF>> \o Delimiter
    <2>1. SUFFICES ASSUME recent' = <<LF>> \o Delimiter PROVE FALSE
      OBVIOUS
    <2>2. LineIsDelimiter(recent', BLEN + 2)
      BY <2>1, WholeDelimiter
    <2>3. BLEN + 1 \in 0 .. BLEN + 1 /\ (BLEN + 1) + 1 = BLEN + 2
      BY <1>4
    <2>4. LineIsDelimiter(recent, BLEN + 1) /\ c = Delimiter[(BLEN + 1) + 1]
      BY <1>1, <1>2, <2>2, <2>3, EndBefore
    <2> QED
      BY <1>4, <1>9, <2>3, <2>4
  <1> QED
    BY <1>5, <1>8, <1>10, <1>11 DEF DelimInv, Followed, DelimiterFound

LEMMA OutsideSection ==
  ASSUME DelimInv, state' # "MULTI_CONTENT_DATA", recent' \in {recent, <<LF>>}
  PROVE  DelimInv'
  BY FreshLine DEF DelimInv, Followed, DelimiterFound

LEMMA SectionBeginDelim ==
  ASSUME IInv, DelimInv, NEW c \in Char, MultiHeaderLine(c)
  PROVE  DelimInv'
  <1>1. state = "MULTI_CONTENT_HEADER" /\ TakeLine(c)
    BY DEF MultiHeaderLine
  <1>2. CASE state' # "MULTI_CONTENT_DATA"
    <2>1. recent' \in {recent, <<LF>>}
      BY DEF MultiHeaderLine, ghost
    <2> QED
      BY <1>2, <2>1, OutsideSection
  <1>3. CASE state' = "MULTI_CONTENT_DATA"
    <2>1. /\ LineEmpty /\ recent' = <<LF>>
          /\ multipart_boundary_ix' = 0 /\ multipart_delim' = 0
      BY <1>1, <1>3 DEF MultiHeaderLine, server_clear_req
    <2>2. req_buf_len' = 0 /\ Matched' = 0
      BY <1>1, <2>1, TakeLineBuffer DEF IInv, Modes, Matched
    <2> QED
      BY <2>1, <2>2, FreshLine DEF DelimInv, Followed, DelimiterFound
  <1> QED
    BY <1>2, <1>3

LEMMA SectionEndDelim ==
  ASSUME IInv, DelimInv, NEW c \in Char, SectionEnd(c)
  PROVE  DelimInv'
  <1>1. state' # "MULTI_CONTENT_DATA" /\ recent' = Push(recent, c)
    BY DEF SectionEnd, SectionChar, server_clear_req
  <1>2. recent \in Seq(Char) /\ Len(recent) \in 1 .. BLEN + 3
    BY DEF IInv, TypeOK, DelimInv, Followed
  <1>3. Len(recent') \in 1 .. BLEN + 3
    BY <1>1, <1>2, PushEnd
  <1> QED
    BY <1>1, <1>3 DEF DelimInv, Followed, DelimiterFound

LEMMA StepKeepsDelim == IInv /\ DelimInv /\ [Next]_vars => DelimInv'
  <1> SUFFICES ASSUME IInv, DelimInv, [Next]_vars PROVE DelimInv'
    OBVIOUS
  <1>1. ASSUME NEW c \in ALPHABET, ParseChar(c) PROVE DelimInv'
    <2>1. c \in Char
      BY Chars
    <2>2. ASSUME StoreChar(c) \/ MethodLine(c) \/ FieldLine(c) \/ BadRequest(c)
          PROVE  state' # "MULTI_CONTENT_DATA" /\ recent' \in {recent, <<LF>>}
      BY <2>2 DEF StoreChar, MethodLine, FieldLine, BadRequest, server_clear_req,
                  LineStates, ghost
    <2>3. ASSUME ChunkHeaderLine(c) \/ ChunkDataEndLine(c) \/ ChunkFooterLine(c)
          PROVE  state' # "MULTI_CONTENT_DATA" /\ recent' \in {recent, <<LF>>}
      BY <2>3 DEF ChunkHeaderLine, ChunkDataEndLine, ChunkFooterLine,
                  server_clear_req, ghost
    <2> QED
      BY <1>1, <2>1, <2>2, <2>3, OutsideSection, SectionBeginDelim, SectionEndDelim,
         SectionDataDelim DEF ParseChar
  <1>2. ASSUME NEW c \in ALPHABET, NEW r \in RESPONSES, ServeRequest(c, r)
        PROVE  DelimInv'
    <2>1. state' # "MULTI_CONTENT_DATA" /\ recent' = recent
      BY <1>2 DEF ServeRequest, NoBody, ChunkedBody, PlainBody, MultipartBody, BadBody,
                  server_clear_req, ghost
    <2> QED
      BY <2>1, OutsideSection
  <1>3. ASSUME NEW len \in 1 .. REQ_BUF_MAX, DataBlock(Block(len)) PROVE DelimInv'
    <2>1. state' # "MULTI_CONTENT_DATA" /\ recent' = recent
      BY <1>3 DEF DataBlock, TakeBlock, server_clear_req
    <2> QED
      BY <2>1, OutsideSection
  <1>4. CASE Timeout
    <2>1. state' # "MULTI_CONTENT_DATA" /\ recent' = recent
      BY <1>4 DEF Timeout, server_clear_req, ghost
    <2> QED
      BY <2>1, OutsideSection
  <1>5. CASE UNCHANGED vars
    BY <1>5 DEF vars, parser, multi, ghost, DelimInv, Followed, DelimiterFound, Matched
  <1> QED
    BY <1>1, <1>2, <1>3, <1>4, <1>5 DEF Next

THEOREM DelimInvariance == Spec => []DelimInv
  BY InitDelim, StepKeepsDelim, Invariance, PTL DEF Spec

\* A delimiter at the start of a line of a section is never taken for data,
\* whatever the boundary and however small the buffer (userver.c:479-537).
THEOREM DelimitersFound == Spec => []DelimiterFound
  BY DelimInvariance, PTL DEF DelimInv

\* The characters of the section are followed to the last one of a delimiter.
LEMMA SectionEndFollowed ==
  ASSUME IInv, DelimInv, NEW c \in Char, SectionEnd(c)
  PROVE  /\ EndsInDelimiter(recent', BLEN + 2)
         /\ (recent' = <<LF>> \o Delimiter /\ BLEN + 2 <= REQ_BUF_MAX) =>
               seen' = reported' + BLEN + 2
  <1>1. /\ state = "MULTI_CONTENT_DATA" /\ recent' = Push(recent, c)
        /\ seen' = seen + 1 /\ reported' = reported
        /\ multipart_delim = 2 /\ c = BOUNDARY[multipart_boundary_ix + 1]
        /\ multipart_boundary_ix + 1 = BLEN
    BY DEF SectionEnd, SectionChar, DelimiterSeen, IdSeen
  <1>2. /\ recent \in Seq(Char) /\ Len(recent) \in 1 .. BLEN + 3
        /\ multipart_boundary_ix \in Nat
        /\ seen = reported + req_buf_len /\ reported \in Nat
    BY <1>1 DEF IInv, TypeOK, Modes, SectionConserved, DelimInv, Followed
  <1>3. PICK k \in 0 .. BLEN + 1 : k = BLEN + 1
    BY DelimiterChars
  <1>4. BLEN \in Nat \ {0} /\ k + 1 = BLEN + 2 /\ Matched = k
    BY <1>1, <1>2, <1>3, DelimiterChars DEF Matched
  <1>5. c = Delimiter[k + 1]
    BY <1>1, <1>4, DelimiterChars
  <1>6. EndsInDelimiter(recent, k)
    BY <1>1, <1>4 DEF DelimInv, Followed
  <1>7. EndsInDelimiter(recent', BLEN + 2)
    BY <1>1, <1>2, <1>4, <1>5, <1>6, EndBefore
  <1>8. ASSUME recent' = <<LF>> \o Delimiter, BLEN + 2 <= REQ_BUF_MAX
        PROVE  seen' = reported' + BLEN + 2
    <2>1. LineIsDelimiter(recent', k + 1)
      BY <1>4, <1>8, WholeDelimiter
    <2>2. LineIsDelimiter(recent, k)
      BY <1>1, <1>2, <2>1, EndBefore
    <2>3. req_buf_len = k
      <3>1. k < REQ_BUF_MAX
        BY <1>3, <1>4, <1>8
      <3> QED
        BY <1>1, <2>2, <3>1 DEF DelimInv, Followed
    <2> QED
      BY <1>1, <1>2, <1>3, <1>4, <2>3
  <1> QED
    BY <1>7, <1>8

\* What EndsInDelimiter says in the words of the property.
LEMMA LastCharacters ==
  ASSUME NEW s \in Seq(Char), EndsInDelimiter(s, BLEN + 2)
  PROVE  /\ Len(s) >= BLEN + 2
         /\ SubSeq(s, Len(s) - BLEN - 1, Len(s)) = Delimiter
  <1> DEFINE t == SubSeq(s, Len(s) - BLEN - 1, Len(s))
  <1>1. /\ BLEN \in Nat \ {0} /\ Len(s) \in Nat /\ Len(s) >= BLEN + 2
        /\ Delimiter \in Seq(Char) /\ Len(Delimiter) = BLEN + 2
    BY DelimiterChars DEF EndsInDelimiter
  <1>2. t \in Seq(Char) /\ Len(t) = BLEN + 2
    BY <1>1
  <1>3. ASSUME NEW i \in 1 .. BLEN + 2 PROVE t[i] = Delimiter[i]
    <2>1. t[i] = s[Len(s) - BLEN - 1 + i - 1]
      BY <1>1
    <2>2. Len(s) - BLEN - 1 + i - 1 = Len(s) - ((BLEN + 2) - i)
      BY <1>1
    <2>3. Back(s, (BLEN + 2) - i) = Delimiter[i]
      BY DEF EndsInDelimiter
    <2> QED
      BY <2>1, <2>2, <2>3, Zenon DEF Back
  <1> HIDE DEF t
  <1>4. t = Delimiter
    BY <1>1, <1>2, <1>3
  <1> QED
    BY <1>1, <1>4 DEF t

\* A section is left for its next header only where a delimiter ends, and a
\* delimiter that began its line was not handed over, not even in part, if the
\* buffer has room for it (userver.c:492-510).
THEOREM SectionsEnd == Spec => SectionEndsAtDelimiter
  <1> DEFINE Ends ==
        state = "MULTI_CONTENT_DATA" /\ state' = "MULTI_CONTENT_HEADER" =>
          /\ Len(recent') >= BLEN + 2
          /\ SubSeq(recent', Len(recent') - BLEN - 1, Len(recent')) = Delimiter
          /\ (recent' = <<LF>> \o Delimiter /\ BLEN + 2 <= REQ_BUF_MAX) =>
                seen' = reported' + BLEN + 2
  <1>1. IInv /\ DelimInv /\ [Next]_vars => [Ends]_vars
    <2> SUFFICES ASSUME IInv, DelimInv, Next,
                        state = "MULTI_CONTENT_DATA", state' = "MULTI_CONTENT_HEADER"
                 PROVE  Ends
      BY DEF vars, parser
    <2>1. PICK c \in Char : SectionEnd(c)
      <3>1. ~Timeout /\ \A len \in 1 .. REQ_BUF_MAX : ~DataBlock(Block(len))
        BY DEF Timeout, server_clear_req, DataBlock, TakeBlock
      <3>2. ASSUME NEW c \in ALPHABET, NEW r \in RESPONSES PROVE ~ServeRequest(c, r)
        BY DEF ServeRequest, NoBody, ChunkedBody, PlainBody, MultipartBody, BadBody,
               HeaderEnd
      <3>3. PICK c \in ALPHABET : ParseChar(c)
        BY <3>1, <3>2 DEF Next
      <3>4. ~SectionData(c)
        BY DEF SectionData, SectionDatum, server_clear_req
      <3>5. SectionEnd(c)
        BY <3>3, <3>4
        DEF ParseChar, StoreChar, MethodLine, FieldLine, BadRequest, ChunkHeaderLine,
            ChunkDataEndLine, ChunkFooterLine, MultiHeaderLine, LineStates
      <3> QED
        BY <3>5, Chars
    <2>2. EndsInDelimiter(recent', BLEN + 2)
          /\ (recent' = <<LF>> \o Delimiter /\ BLEN + 2 <= REQ_BUF_MAX =>
                seen' = reported' + BLEN + 2)
      BY <2>1, SectionEndFollowed
    <2>3. recent' \in Seq(Char)
      BY StepKeepsIInv DEF IInv, TypeOK
    <2> QED
      BY <2>2, <2>3, LastCharacters
  <1>2. Spec => [][Ends]_vars
    BY <1>1, Invariance, DelimInvariance, PTL DEF Spec
  <1> QED
    BY <1>2 DEF SectionEndsAtDelimiter

\* A body, or a chunk of one, is left only when server_data_f was given all of
\* it, or by the timeout, whose answer is the second one of that request
\* (userver.c:435-470, 562-567).
THEOREM BodiesDelivered == Spec => BodyDelivered
  <1> DEFINE Delivered ==
        /\ state = "CONTENT" /\ state' # "CONTENT" => \/ reported' = req.content_length
                                                      \/ answered' = 2
        /\ state = "CHUNK_DATA" /\ state' # "CHUNK_DATA" => \/ reported' = chunk_len
                                                            \/ answered' = 2
  <1>1. IInv /\ [Next]_vars => [Delivered]_vars
    <2> SUFFICES ASSUME IInv, Next, state \in {"CONTENT", "CHUNK_DATA"}, state' # state
                 PROVE  Delivered
      BY DEF vars, parser
    <2>1. /\ received_content_len = reported /\ answered = 1
          /\ state = "CONTENT" => ~req.chunked
          /\ state = "CHUNK_DATA" => req.chunked
      BY DEF IInv, Modes, OffsetIsReported, AnsweredBeforeBody, BodyMatchesRequest,
             ChunkStates
    <2>2. CASE Timeout
      BY <2>1, <2>2 DEF Timeout, SendError
    <2>3. ASSUME NEW len \in 1 .. REQ_BUF_MAX, DataBlock(Block(len)) PROVE Delivered
      <3>1. Len(Block(len)) = len
        BY DEF Block
      <3>2. TakeBlock(len, Copied(Block(len), len), received_content_len + len,
                      received_content_len + len = Piece)
        BY <2>3, <3>1 DEF DataBlock
      <3>3. received_content_len + len = Piece /\ reported' = reported + len
        BY <3>2 DEF TakeBlock
      <3> QED
        BY <2>1, <3>3 DEF Piece
    <2>4. ASSUME NEW c \in ALPHABET PROVE ~ParseChar(c)
      BY DEF ParseChar, StoreChar, MethodLine, FieldLine, BadRequest, ChunkHeaderLine,
             ChunkDataEndLine, ChunkFooterLine, MultiHeaderLine, SectionEnd,
             SectionData, SectionDatum, SectionChar, LineStates
    <2>5. ASSUME NEW c \in ALPHABET, NEW r \in RESPONSES PROVE ~ServeRequest(c, r)
      BY DEF ServeRequest, NoBody, ChunkedBody, PlainBody, MultipartBody, BadBody,
             HeaderEnd
    <2> QED
      BY <2>2, <2>3, <2>4, <2>5 DEF Next
  <1>2. Spec => [][Delivered]_vars
    BY <1>1, Invariance, PTL DEF Spec
  <1> QED
    BY <1>2 DEF BodyDelivered
===============================================================================
