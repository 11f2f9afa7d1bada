-------------------------------- MODULE Userver --------------------------------
(*****************************************************************************)
(* The request parser and responder of the robot's web server                *)
(* (src/src/userver.c): one state machine that is fed the bytes of one TCP   *)
(* stream, hands request bodies to server_data_f piece by piece, and sends   *)
(* one page per request through a bounded transmit ring.                     *)
(*                                                                           *)
(* Bytes are abstracted to characters [kind, n].  A request line or a header *)
(* field is ONE character that stands for its whole text, because the code   *)
(* looks only at the beginning of a line (strcmpbegin); a line that has      *)
(* anything in front of that character is not recognised, as in the code.    *)
(* '\r' is dropped by every line state (userver.c:397), so lines end in LF.  *)
(*                                                                           *)
(* The parse loop keeps nothing in locals from one iteration to the next, so *)
(* one action is one iteration: it consumes one character (line states,      *)
(* multipart data) or one block (CONTENT, CHUNK_DATA).  USERVER_timeout runs *)
(* in the same task as USERVER_parse and so between two iterations.          *)
(*****************************************************************************)
EXTENDS Integers, Sequences, FiniteSets

CONSTANTS
    REQ_BUF_MAX,    \* USERVER_REQ_BUF_MAX_LEN, 512 in the build
    TX_MAX,         \* USERVER_TX_MAX_LEN, 2048 in the build
    BOUNDARY,       \* the id in "boundary=<id>", a sequence of characters
    ALPHABET,       \* the characters a client may send
    RESPONSES,      \* what server_resp_f may answer, see Response
    ERROR_PAGE      \* length of the page server_error prints

Kinds == {"GET", "HEAD",                                    \* request lines
          "Content-Type", "Content-Length", "Transfer-Encoding", "chunk-size",
          "lf", "dash", "id", "text",                       \* single bytes
          "nul"}                                            \* ends a C string
Char == [kind : Kinds, n : Nat]

Nul  == [kind |-> "nul",  n |-> 0]
LF   == [kind |-> "lf",   n |-> 0]
Dash == [kind |-> "dash", n |-> 0]
Text == [kind |-> "text", n |-> 0]      \* any byte with no meaning of its own

Method(m)           == [kind |-> m, n |-> 0]
ContentType(t)      == [kind |-> "Content-Type", n |-> t]
ContentLength(len)  == [kind |-> "Content-Length", n |-> len]
TransferEncoding(t) == [kind |-> "Transfer-Encoding", n |-> t]
ChunkSize(len)      == [kind |-> "chunk-size", n |-> len]

\* The values of Content-Type that the code tells apart.
Plain == 0
Multipart == 1          \* multipart/form-data; boundary=<BOUNDARY>
MultipartNoId == 2      \* multipart/form-data without a usable boundary

\* A response of server_resp_f: the whole page at once, or what each successive
\* call puts in the transmit ring until a call puts nothing.
Response == [chunked : BOOLEAN, sizes : Seq(Nat)]

BLEN == Len(BOUNDARY)
Delimiter == <<Dash, Dash>> \o BOUNDARY

ASSUME UserverAssumption ==
    /\ REQ_BUF_MAX \in Nat \ {0}
    /\ TX_MAX \in Nat
    /\ BOUNDARY \in Seq(Char) /\ BLEN > 0
    /\ \A i \in 1 .. BLEN : BOUNDARY[i] \notin {LF, Nul}
    /\ ALPHABET \subseteq Char
    /\ RESPONSES \subseteq Response
    /\ \A r \in RESPONSES : ~r.chunked => Len(r.sizes) = 1
    /\ ERROR_PAGE \in Nat

VARIABLES
    state,                   \* userv.state
    req,                     \* userv.req
    req_buf,                 \* userv.req_buf, never cleared after the boot
    req_buf_len,             \* userv.req_buf_len
    multipart_boundary_ix,   \* userv.multipart_boundary_ix
    multipart_delim,         \* userv.multipart_delim
    received_multipart_len,  \* userv.received_multipart_len
    received_content_len,    \* userv.received_content_len
    chunk_len,               \* userv.chunk_len
    tx_len                   \* bytes waiting in userv.tx_rb

\* History variables: what left the parser, and what went in.
VARIABLES
    answered,   \* answers sent for the request now being received
    answer,     \* the last answer, and how its announced length differs
    reported,   \* bytes of the current body piece given to server_data_f
    seen,       \* characters of the current multipart section so far
    recent      \* the last BLEN + 3 of them, the LF before them included

parser == <<state, req, req_buf, req_buf_len>>
multi  == <<multipart_boundary_ix, multipart_delim, received_multipart_len>>
body   == <<received_content_len, chunk_len>>
sent   == <<tx_len, answered, answer>>
ghost  == <<reported, seen, recent>>
vars   == <<parser, multi, body, sent, ghost>>

-------------------------------------------------------------------------------
LineStates == {"HEADER_METHOD", "HEADER_FIELDS", "MULTI_CONTENT_HEADER",
               "CHUNK_DATA_HEADER", "CHUNK_DATA_END", "CHUNK_FOOTER"}
States == LineStates \cup {"CONTENT", "CHUNK_DATA", "MULTI_CONTENT_DATA"}

Methods == {"_BAD_REQ", "GET", "HEAD"}      \* all others are handled as GET

Request == [method : Methods, chunked : BOOLEAN, content_length : Nat,
            content_type : Nat, chunk_nbr : Nat]

EmptyReq == [method |-> "_BAD_REQ", chunked |-> FALSE, content_length |-> 0,
             content_type |-> Plain, chunk_nbr |-> 0]

\* Mutant: the memset stops short of chunk_nbr.
ClearsAllButChunkNbr == /\ req' = [EmptyReq EXCEPT !.chunk_nbr = req.chunk_nbr]
                        /\ state' = "HEADER_METHOD"

\* memset of userv.req; nothing else of userv but the state.
server_clear_req == /\ req' = EmptyReq
                    /\ state' = "HEADER_METHOD"

Lesser(a, b) == IF a < b THEN a ELSE b
Greater(a, b) == IF a > b THEN a ELSE b

\* The transmit ring takes what fits.
Queued(k) == Lesser(tx_len + k, TX_MAX)

-------------------------------------------------------------------------------
(* C strings in req_buf: from an index to the first Nul.                      *)

InString(buf, from, to) == \A i \in from .. to : i \in DOMAIN buf /\ buf[i] # Nul

\* strstr(&buf[from], pat): the indices at which pat occurs in the string.
Occurrences(buf, from, pat) ==
    {i \in from .. REQ_BUF_MAX :
        /\ InString(buf, from, i + Len(pat) - 1)
        /\ \A k \in 1 .. Len(pat) : buf[i + k - 1] = pat[k]}

First(S) == CHOOSE i \in S : \A j \in S : i <= j

\* A multipart header line that starts at index s: a delimiter, the last one?
IsDelimiter(buf, s) ==
    /\ s \in Occurrences(buf, s, <<Dash, Dash>>)
    /\ Occurrences(buf, s + 2, BOUNDARY) # {}
IsLastDelimiter(buf, s) ==
    /\ IsDelimiter(buf, s)
    /\ Occurrences(buf, First(Occurrences(buf, s + 2, BOUNDARY)) + BLEN,
                   <<Dash, Dash>>) # {}

-------------------------------------------------------------------------------
(* Answers.                                                                   *)

\* server_error, but for the memset: the page joins what waits in the ring.
SendError(count) ==
    /\ answered' = count
    /\ answer' = [to |-> "error", extra |-> Queued(ERROR_PAGE) - ERROR_PAGE]
    /\ tx_len' = 0

\* What a response leaves in the ring: all of it with HEAD.
Waits(r) == IF req.method # "HEAD" THEN 0
            ELSE IF r.sizes = <<>> THEN tx_len
            ELSE Queued(r.sizes[1])

\* server_request for a request whose method is known: one response r.
Announce(r) ==
    /\ answered' = answered + 1
    /\ answer' = [to    |-> IF req.method = "HEAD" THEN "head"
                            ELSE IF r.chunked THEN "chunks" ELSE "page",
                  extra |-> IF r.chunked THEN 0
                            ELSE Queued(r.sizes[1]) - r.sizes[1]]
    /\ tx_len' = Waits(r)

\* How often the chunk loop of server_request runs: once per call of the
\* handler that left something in the ring.
ChunksSent(r) ==
    IF ~r.chunked \/ req.method = "HEAD" THEN 0
    ELSE Greater(Len(r.sizes), IF tx_len > 0 THEN 1 ELSE 0)

-------------------------------------------------------------------------------
(* The line states: USERVER_parse collects a line in req_buf and hands it to  *)
(* the handler of the state when LF comes or the buffer is full.              *)

EndOfLine(c) == req_buf_len >= REQ_BUF_MAX \/ c = LF
Line == [req_buf EXCEPT ![req_buf_len] = Nul]
LineEmpty == req_buf_len = 0

StoreChar(c) ==
    /\ state \in LineStates
    /\ ~EndOfLine(c)
    /\ req_buf' = [req_buf EXCEPT ![req_buf_len] = c]
    /\ req_buf_len' = req_buf_len + 1
    /\ UNCHANGED <<state, req, multi, body, sent, ghost>>

\* The line is ended; a character that came instead of LF starts the next one.
TakeLine(c) ==
    /\ EndOfLine(c)
    /\ req_buf' = IF c = LF THEN Line ELSE [Line EXCEPT ![0] = c]
    /\ req_buf_len' = IF c = LF THEN 0 ELSE 1

\* server_http_header_line, HEADER_METHOD: a method or, when none matches,
\* the _BAD_REQ the memset left.  The resource, which is copied without a look at
\* the length of its field, is taken to fit.
MethodLine(c) ==
    /\ state = "HEADER_METHOD" /\ TakeLine(c) /\ ~LineEmpty
    /\ req' = IF req_buf[0].kind \in {"GET", "HEAD"}
              THEN [req EXCEPT !.method = req_buf[0].kind] ELSE req
    /\ state' = "HEADER_FIELDS"
    /\ answered' = 0
    /\ reported' = 0 /\ seen' = 0 /\ recent' = <<LF>>
    /\ UNCHANGED <<multi, body, tx_len, answer>>

\* One header field.  The strncpy of Content-Type is given the size of
\* content_disp and so pads with zeros beyond content_type: over connection,
\* chunked and chunk_nbr.
WithField(f) ==
    CASE f.kind = "Content-Length" -> [req EXCEPT !.content_length = f.n]
      [] f.kind = "Content-Type" -> [req EXCEPT !.content_type = f.n,
                                                !.chunked = FALSE,
                                                !.chunk_nbr = 0]
      [] f.kind = "Transfer-Encoding" -> [req EXCEPT !.chunked = f.n = 1]
      [] OTHER -> req

\* server_http_header_line, HEADER_FIELDS.
FieldLine(c) ==
    /\ state = "HEADER_FIELDS" /\ TakeLine(c) /\ ~LineEmpty
    /\ req' = WithField(req_buf[0])
    /\ UNCHANGED <<state, multi, body, sent, ghost>>

\* The blank line after a header whose method is not known: 400, and the body,
\* if one was announced, is not expected any more.
BadRequest(c) ==
    /\ state \in {"HEADER_METHOD", "HEADER_FIELDS"}
    /\ TakeLine(c) /\ LineEmpty
    /\ req.method = "_BAD_REQ"
    /\ SendError(1)
    /\ server_clear_req
    /\ chunk_len' = 0
    /\ UNCHANGED <<multi, received_content_len, ghost>>

\* The blank line after a good header: the request is served first, only then
\* the parser looks whether a body follows.
HeaderEnd(c) ==
    /\ state \in {"HEADER_METHOD", "HEADER_FIELDS"}
    /\ TakeLine(c) /\ LineEmpty
    /\ req.method # "_BAD_REQ"

Served(r) == [req EXCEPT !.chunk_nbr = @ + ChunksSent(r)]

NoBody(c, r) ==
    /\ HeaderEnd(c) /\ ~req.chunked /\ req.content_length = 0
    /\ Announce(r)
    /\ server_clear_req
    /\ UNCHANGED <<multi, body, ghost>>

\* Mutant: the count of an earlier body is not reset.
ChunkedBodyKeepsCount(c, r) ==
    /\ HeaderEnd(c) /\ req.chunked /\ req.content_length = 0
    /\ Announce(r)
    /\ req' = Served(r)
    /\ state' = "CHUNK_DATA_HEADER"
    /\ chunk_len' = 0
    /\ UNCHANGED <<multi, received_content_len, ghost>>

ChunkedBody(c, r) ==
    /\ HeaderEnd(c) /\ req.chunked /\ req.content_length = 0
    /\ Announce(r)
    /\ req' = Served(r)
    /\ state' = "CHUNK_DATA_HEADER"
    /\ chunk_len' = 0 /\ received_content_len' = 0
    /\ UNCHANGED <<multi, ghost>>

PlainBody(c, r) ==
    /\ HeaderEnd(c) /\ ~req.chunked /\ req.content_length > 0
    /\ req.content_type \notin {Multipart, MultipartNoId}
    /\ Announce(r)
    /\ req' = Served(r)
    /\ state' = "CONTENT"
    /\ received_content_len' = 0
    /\ reported' = 0
    /\ UNCHANGED <<multi, chunk_len, seen, recent>>

MultipartBody(c, r) ==
    /\ HeaderEnd(c) /\ ~req.chunked /\ req.content_length > 0
    /\ req.content_type = Multipart
    /\ Announce(r)
    /\ req' = Served(r)
    /\ state' = "MULTI_CONTENT_HEADER"
    /\ received_content_len' = 0
    /\ multipart_boundary_ix' = 0 /\ multipart_delim' = 0
    /\ UNCHANGED <<received_multipart_len, chunk_len, ghost>>

\* A body the code cannot take, found out after the page was sent: a second
\* answer, 400, follows the first one.
Refused == \/ req.chunked /\ req.content_length > 0
           \/ ~req.chunked /\ req.content_length > 0 /\ req.content_type = MultipartNoId

BadBody(c, r) ==
    /\ HeaderEnd(c) /\ Refused
    /\ answered' = answered + 2
    /\ answer' = [to |-> "error",
                  extra |-> Lesser(Waits(r) + ERROR_PAGE, TX_MAX) - ERROR_PAGE]
    /\ tx_len' = 0
    /\ server_clear_req
    /\ chunk_len' = 0
    /\ received_content_len' = IF req.chunked THEN received_content_len ELSE 0
    /\ UNCHANGED <<multi, ghost>>

\* server_chunk_header_line: the size in front of ';', 0 for a line that has
\* none.
ChunkSizeOf(f) == IF f.kind = "chunk-size" THEN f.n ELSE 0

ChunkHeaderLine(c) ==
    /\ state = "CHUNK_DATA_HEADER" /\ TakeLine(c)
    /\ chunk_len' = ChunkSizeOf(Line[0])
    /\ state' = IF chunk_len' > 0 THEN "CHUNK_DATA" ELSE "CHUNK_FOOTER"
    /\ reported' = 0
    /\ UNCHANGED <<req, multi, received_content_len, sent, seen, recent>>

\* Mutant: the next chunk goes on counting where the last one ended.
ChunkDataEndKeepsCount(c) ==
    /\ state = "CHUNK_DATA_END" /\ TakeLine(c)
    /\ state' = "CHUNK_DATA_HEADER"
    /\ UNCHANGED <<req, multi, body, sent, ghost>>

\* The line after the data of a chunk, whatever it holds.
ChunkDataEndLine(c) ==
    /\ state = "CHUNK_DATA_END" /\ TakeLine(c)
    /\ state' = "CHUNK_DATA_HEADER"
    /\ received_content_len' = 0
    /\ UNCHANGED <<req, multi, chunk_len, sent, ghost>>

\* server_chunk_footer_line: the blank line ends the request.
ChunkFooterLine(c) ==
    /\ state = "CHUNK_FOOTER" /\ TakeLine(c)
    /\ IF LineEmpty THEN server_clear_req ELSE UNCHANGED <<state, req>>
    /\ UNCHANGED <<multi, body, sent, ghost>>

\* server_multi_content_header_line on a collected line.
MultiHeaderLine(c) ==
    /\ state = "MULTI_CONTENT_HEADER" /\ TakeLine(c)
    /\ \/ /\ IsLastDelimiter(Line, 0)
          /\ server_clear_req
          /\ UNCHANGED <<multi, ghost>>
       \/ /\ ~IsLastDelimiter(Line, 0)
          /\ LineEmpty
          /\ state' = "MULTI_CONTENT_DATA"
          /\ multipart_boundary_ix' = 0 /\ multipart_delim' = 0
          /\ received_multipart_len' = 0
          /\ reported' = 0 /\ seen' = 0 /\ recent' = <<LF>>
          /\ UNCHANGED req
       \/ /\ ~IsLastDelimiter(Line, 0)
          /\ ~LineEmpty
          /\ UNCHANGED <<state, req, multi, ghost>>
    /\ UNCHANGED <<body, sent>>

-------------------------------------------------------------------------------
(* The data states.                                                           *)

\* How much of the current piece is still to come.
Remaining == IF state = "CONTENT" THEN req.content_length - received_content_len
             ELSE chunk_len - received_content_len

\* A block of received bytes through req_buf to server_data_f; copied is what
\* req_buf gets, count the new received_content_len, over whether it completes
\* the piece.  Common to DataBlock and its mutants.
TakeBlock(len, copied, count, over) ==
    /\ state \in {"CONTENT", "CHUNK_DATA"}
    /\ len > 0 /\ len <= REQ_BUF_MAX /\ len <= Remaining
    /\ req_buf' = copied
    /\ reported' = reported + len
    /\ received_content_len' = count
    /\ IF req.chunked
       THEN /\ state' = IF over THEN "CHUNK_DATA_END" ELSE state
            /\ UNCHANGED req
       ELSE IF over THEN server_clear_req ELSE UNCHANGED <<state, req>>
    /\ UNCHANGED <<req_buf_len, multi, chunk_len, sent, seen, recent>>

Piece == IF req.chunked THEN chunk_len ELSE req.content_length

Copied(block, len) == [i \in DOMAIN req_buf |-> IF i < len THEN block[i + 1] ELSE req_buf[i]]

\* Mutant: the piece is over one byte early.
DataBlockShort(block) ==
    LET len == Len(block) IN
    TakeBlock(len, Copied(block, len), received_content_len + len,
              received_content_len + len >= Piece - 1)

\* CONTENT and CHUNK_DATA: a block of what the ring holds, which goes through
\* req_buf, to server_data_f.
DataBlock(block) ==
    LET len == Len(block) IN
    TakeBlock(len, Copied(block, len), received_content_len + len,
              received_content_len + len = Piece)

(* MULTI_CONTENT_DATA, one character.  The code appends it, reports the line  *)
(* at LF, follows the delimiter, reports when the buffer is full or what was  *)
(* taken for a delimiter is none, and counts.                                 *)

Appended(c) == [req_buf EXCEPT ![req_buf_len] = c]

\* Buffered and unreported after the newline test.
Kept(c) == IF c = LF THEN 0 ELSE req_buf_len + 1

\* reported and received_multipart_len after the newline test.
Given(total, c) == IF c = LF THEN total + req_buf_len + 1 ELSE total

\* Mutant: the first line of a section is not searched for a delimiter.
DashSeenLater(c) == c = Dash /\ multipart_delim < 2 /\ received_multipart_len > 0

DashSeen(c) == c = Dash /\ multipart_delim < 2
\* Mutant: one dash is enough.
IdSeenAfterDash(c) == /\ ~DashSeen(c)
                      /\ multipart_delim > 0
                      /\ c = BOUNDARY[multipart_boundary_ix + 1]

IdSeen(c) == /\ ~DashSeen(c)
             /\ multipart_delim = 2
             /\ c = BOUNDARY[multipart_boundary_ix + 1]
DelimiterSeen(c) == IdSeen(c) /\ multipart_boundary_ix + 1 = BLEN

Push(s, c) == IF Len(s) < BLEN + 3 THEN Append(s, c) ELSE Append(Tail(s), c)

SectionChar(c) ==
    /\ state = "MULTI_CONTENT_DATA"
    /\ req_buf' = Appended(c)
    /\ seen' = seen + 1
    /\ recent' = Push(recent, c)
    /\ UNCHANGED <<chunk_len, sent>>

\* Mutant: the delimiter is dropped from req_buf when it is recognised.
SectionEndForgets(c) ==
    /\ SectionChar(c) /\ DelimiterSeen(c)
    /\ req_buf_len' = 0
    /\ multipart_boundary_ix' = 0 /\ multipart_delim' = 0
    /\ state' = "MULTI_CONTENT_HEADER"
    /\ UNCHANGED <<req, received_multipart_len, received_content_len, reported>>

\* The delimiter is complete: its handler runs at once on the delimiter in
\* req_buf, which no Nul ends yet.  When the buffer was reported within the
\* delimiter the index is negative and the handler reads what lies in front of
\* req_buf: any of its outcomes.
SectionEnd(c) ==
    LET start == req_buf_len + 1 - BLEN - 2 IN
    /\ SectionChar(c) /\ DelimiterSeen(c)
    /\ req_buf_len' = req_buf_len + 1
    /\ multipart_boundary_ix' = 0 /\ multipart_delim' = 0
    /\ \/ /\ start >= 0 => IsLastDelimiter(req_buf', start)
          /\ server_clear_req
       \/ /\ start >= 0 => ~IsLastDelimiter(req_buf', start)
          /\ state' = "MULTI_CONTENT_HEADER"
          /\ UNCHANGED req
    /\ UNCHANGED <<received_multipart_len, received_content_len, reported>>

\* The rest of a character that does not complete a delimiter: flush says whether
\* what waits in req_buf is reported, given how much of it is, after how much
\* stays.
Taken(c) == DashSeen(c) \/ IdSeen(c)
Mistaken(c) == ~Taken(c) /\ (multipart_delim > 0 \/ multipart_boundary_ix > 0)

SectionDatum(c, given, after) ==
    LET last == received_content_len + 1 = req.content_length
        rest == IF last THEN after ELSE 0
    IN
    /\ SectionChar(c) /\ ~DelimiterSeen(c)
    /\ multipart_delim' = IF DashSeen(c) THEN multipart_delim + 1
                          ELSE IF Taken(c) THEN multipart_delim ELSE 0
    /\ multipart_boundary_ix' = IF DashSeen(c) THEN multipart_boundary_ix
                                ELSE IF Taken(c) THEN multipart_boundary_ix + 1 ELSE 0
    /\ req_buf_len' = after
    /\ received_content_len' = received_content_len + 1
    /\ reported' = Given(reported, c) + given + rest
    /\ received_multipart_len' = Given(received_multipart_len, c)
                                 + (IF Kept(c) > after THEN Kept(c) - after ELSE 0) + rest
    /\ IF last THEN server_clear_req ELSE UNCHANGED <<state, req>>

Flush(c) == Mistaken(c) \/ Kept(c) >= REQ_BUF_MAX
FlushedOf(c) == IF Flush(c) THEN Kept(c) ELSE 0
KeptAfter(c) == IF Flush(c) THEN 0 ELSE Kept(c)

\* Mutants: a full buffer is not flushed; what was mistaken for a delimiter is
\* dropped; what was flushed is kept.
SectionDataNoOverflow(c) ==
    SectionDatum(c, IF Mistaken(c) THEN Kept(c) ELSE 0, IF Mistaken(c) THEN 0 ELSE Kept(c))
SectionDataLosesFlush(c) == SectionDatum(c, 0, KeptAfter(c))
SectionDataFlushKeeps(c) == SectionDatum(c, FlushedOf(c), Kept(c))

SectionData(c) == SectionDatum(c, FlushedOf(c), KeptAfter(c))

-------------------------------------------------------------------------------
\* Mutant: the request is cleared but not answered.
TimeoutSilent ==
    /\ state # "HEADER_METHOD"
    /\ server_clear_req
    /\ chunk_len' = 0
    /\ UNCHANGED <<req_buf, req_buf_len, multi, received_content_len, sent, ghost>>

\* USERVER_timeout: the client has been silent.
Timeout ==
    /\ state # "HEADER_METHOD"
    /\ SendError(answered + 1)
    /\ server_clear_req
    /\ chunk_len' = 0
    /\ UNCHANGED <<req_buf, req_buf_len, multi, received_content_len, ghost>>

Init ==
    /\ state = "HEADER_METHOD"
    /\ req = EmptyReq
    /\ req_buf = [i \in 0 .. REQ_BUF_MAX |-> Nul]
    /\ req_buf_len = 0
    /\ multipart_boundary_ix = 0 /\ multipart_delim = 0
    /\ received_multipart_len = 0
    /\ received_content_len = 0 /\ chunk_len = 0
    /\ tx_len = 0
    /\ answered = 0 /\ answer = [to |-> "none", extra |-> 0]
    /\ reported = 0 /\ seen = 0 /\ recent = <<LF>>

\* USERVER_parse takes the character c.
ParseChar(c) ==
    \/ StoreChar(c)
    \/ MethodLine(c)
    \/ FieldLine(c)
    \/ BadRequest(c)
    \/ ChunkHeaderLine(c)
    \/ ChunkDataEndLine(c)
    \/ ChunkFooterLine(c)
    \/ MultiHeaderLine(c)
    \/ SectionEnd(c)
    \/ SectionData(c)

\* USERVER_parse takes the character c, which ends the header of a request that
\* the handler answers with r.
ServeRequest(c, r) ==
    \/ NoBody(c, r)
    \/ ChunkedBody(c, r)
    \/ PlainBody(c, r)
    \/ MultipartBody(c, r)
    \/ BadBody(c, r)

Block(len) == [i \in 1 .. len |-> Text]

Next ==
    \/ \E c \in ALPHABET : \/ ParseChar(c)
                           \/ \E r \in RESPONSES : ServeRequest(c, r)
    \/ \E len \in 1 .. REQ_BUF_MAX : DataBlock(Block(len))
    \/ Timeout

Spec == Init /\ [][Next]_vars

-------------------------------------------------------------------------------
(* What the parser must keep.                                                 *)

\* Every variable of userv stays within its type.
TypeOK ==
    /\ state \in States
    /\ req \in Request
    /\ req_buf \in [0 .. REQ_BUF_MAX -> Char]
    /\ req_buf_len \in 0 .. REQ_BUF_MAX
    /\ multipart_boundary_ix \in 0 .. BLEN - 1
    /\ multipart_delim \in 0 .. 2
    /\ received_multipart_len \in Nat /\ received_content_len \in Nat
    /\ chunk_len \in Nat
    /\ tx_len \in 0 .. TX_MAX
    /\ answered \in 0 .. 2
    /\ answer.to \in {"none", "page", "head", "chunks", "error"}
    /\ answer.extra \in Int
    /\ reported \in Nat /\ seen \in Nat
    /\ recent \in Seq(Char)

\* The request buffer is never left without a terminator that the string
\* functions of the line handlers can reach, and a character of a multipart
\* section always has room: the stores of userver.c:428 and 479 are not checked
\* there, they rely on what every other state left in req_buf_len.
BufferTerminated ==
    /\ req_buf[REQ_BUF_MAX] = Nul
    /\ state = "MULTI_CONTENT_DATA" => req_buf_len < REQ_BUF_MAX

\* The state and the request agree.  DataBlock chooses its exit by req.chunked
\* and not by the state (userver.c:454), and its length by two unsigned
\* differences: the request must describe the state the parser is in.
ChunkStates == {"CHUNK_DATA_HEADER", "CHUNK_DATA", "CHUNK_DATA_END", "CHUNK_FOOTER"}
MultiStates == {"MULTI_CONTENT_HEADER", "MULTI_CONTENT_DATA"}

BodyMatchesRequest ==
    /\ state \in ChunkStates => req.chunked /\ req.content_length = 0
    /\ state = "CHUNK_DATA_HEADER" => received_content_len = 0
    /\ state = "CHUNK_DATA" => received_content_len < chunk_len
    /\ state = "CONTENT" => /\ ~req.chunked
                            /\ received_content_len < req.content_length
    /\ state \in MultiStates => /\ ~req.chunked
                                /\ req.content_type = Multipart
                                /\ received_content_len < req.content_length
    /\ state \in MultiStates /\ multipart_boundary_ix > 0 => multipart_delim = 2

\* Whatever way a request ended (served, refused, timed out), the next one
\* starts from a blank request: nothing of the old header is seen by the next
\* response handler.
FreshRequest == state = "HEADER_METHOD" => req = EmptyReq

\* A body is only read for a request that was answered, once; while a header
\* comes in nothing has been answered yet.
AnsweredBeforeBody ==
    /\ state = "HEADER_FIELDS" => answered = 0
    /\ state \notin {"HEADER_METHOD", "HEADER_FIELDS"} => answered = 1

\* Bytes are left in the transmit ring only when the last answer was one to a
\* HEAD request.
ResidueOnlyAfterHead == tx_len > 0 => answer.to = "head"

\* The offset passed to server_data_f is the number of bytes of this piece
\* handed over so far: the pieces of a body are contiguous.
OffsetIsReported ==
    /\ state \in {"CONTENT", "CHUNK_DATA"} => received_content_len = reported
    /\ state = "MULTI_CONTENT_DATA" => received_multipart_len = reported

\* No character of a section is lost or handed over twice: what was seen is
\* reported or waits in req_buf.
SectionConserved ==
    state = "MULTI_CONTENT_DATA" => seen = reported + req_buf_len

\* A delimiter at the start of a line is never taken for data.
DelimiterFound ==
    state = "MULTI_CONTENT_DATA" =>
        recent # <<LF>> \o Delimiter

\* A section ends only at a delimiter, and one that started its line is the
\* only thing the handler was not given.
SectionEndsAtDelimiter ==
    [][ state = "MULTI_CONTENT_DATA" /\ state' = "MULTI_CONTENT_HEADER" =>
          /\ Len(recent') >= BLEN + 2
          /\ SubSeq(recent', Len(recent') - BLEN - 1, Len(recent')) = Delimiter
          /\ (recent' = <<LF>> \o Delimiter /\ BLEN + 2 <= REQ_BUF_MAX) =>
                seen' = reported' + BLEN + 2 ]_vars

\* A body that ends, unless by a timeout, was delivered whole.
BodyDelivered ==
    [][ /\ state = "CONTENT" /\ state' # "CONTENT" => \/ reported' = req.content_length
                                                      \/ answered' = 2
        /\ state = "CHUNK_DATA" /\ state' # "CHUNK_DATA" => \/ reported' = chunk_len
                                                            \/ answered' = 2 ]_vars

-------------------------------------------------------------------------------
(* What a comment of the code promises, and a run refutes.                    *)

\* A HEAD response is one "without the response body" (userver_http.h:17): the
\* page made for it must not turn up in a later answer, whose Content-Length
\* is to be the length of its own page.
LengthIsOwnPage == answer.to \in {"page", "error"} => answer.extra = 0
===============================================================================
