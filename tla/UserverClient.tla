----------------------------- MODULE UserverClient -----------------------------
(*****************************************************************************)
(* The web server of Userver and a client that sends well-formed requests    *)
(* over the wifi module's single stream.  The client may fall silent at any  *)
(* point of a request; the wifi driver then calls the silence handler        *)
(* (server_impl.c:219,222), the server answers 408 and the client gives the  *)
(* request up.  The next request arrives on the same stream: the parser is   *)
(* not told that the connection is another one.                              *)
(*****************************************************************************)
EXTENDS Userver

CONSTANT
    MESSAGES        \* the requests the client may send, see Message

\* A request: its characters, and the pieces of its body in order, a piece
\* being the plain body, the data of one chunk or of one multipart section.
Message == [chars : Seq(Char), pieces : Seq(Seq(Char))]

ASSUME ClientAssumption == MESSAGES \subseteq Message

\* The first h characters are the header of a request: its first line, fields of one
\* character, a line end behind each of them, and the blank line.
IsHeader(m, h) ==
    /\ h >= 3 /\ h <= Len(m.chars)
    /\ m.chars[1].kind \in {"GET", "HEAD"}
    /\ \A i \in 1 .. h - 2 : m.chars[i] = LF <=> m.chars[i + 1] # LF
    /\ m.chars[h - 1] = LF /\ m.chars[h] = LF

\* Where a header has fields of a kind, up to character p.
Fields(m, p, kind) == {i \in 3 .. p : m.chars[i].kind = kind}

\* The fields announce no body, one of a length, or one in chunks; where several
\* fields announce the same they agree.
AnnouncesLength(m, h, len) ==
    /\ \A i \in Fields(m, h, "Content-Length") : m.chars[i].n = len
    /\ len > 0 => Fields(m, h, "Content-Length") # {}
    /\ \A i \in Fields(m, h, "Transfer-Encoding") : m.chars[i].n # 1
    /\ len > 0 => \A i \in Fields(m, h, "Content-Type") :
                     m.chars[i].n \notin {Multipart, MultipartNoId}
AnnouncesChunks(m, h) ==
    /\ \A i \in Fields(m, h, "Content-Length") : m.chars[i].n = 0
    /\ \A i \in Fields(m, h, "Transfer-Encoding") : m.chars[i].n = 1
    /\ \E i \in Fields(m, h, "Transfer-Encoding") :
          \A j \in Fields(m, h, "Content-Type") : j < i

\* Each chunk begins where off says and is its size, its data and their line ends;
\* the chunk of size 0 and a blank line end the body.
AreChunks(m, off) ==
    /\ \A i \in 1 .. Len(m.pieces) :
          LET len == Len(m.pieces[i]) IN
          /\ len > 0 /\ off[i + 1] = off[i] + len + 3 /\ off[i + 1] < Len(m.chars)
          /\ m.chars[off[i] + 1] = ChunkSize(len) /\ m.chars[off[i] + 2] = LF
          /\ \A j \in 1 .. len : m.chars[off[i] + 2 + j] = m.pieces[i][j]
          /\ m.chars[off[i + 1]] = LF
    /\ LET end == off[Len(m.pieces) + 1] IN
       /\ Len(m.chars) = end + 3
       /\ m.chars[end + 1] = ChunkSize(0) /\ m.chars[end + 2] = LF /\ m.chars[end + 3] = LF

\* A request without a body, with a plain one, or with one in chunks.
IsBare(m, h) == AnnouncesLength(m, h, 0) /\ Len(m.chars) = h /\ m.pieces = <<>>
IsPlain(m, h) ==
    \E len \in 1 .. Len(m.chars) :
        /\ AnnouncesLength(m, h, len)
        /\ Len(m.chars) = h + len
        /\ m.pieces = <<SubSeq(m.chars, h + 1, h + len)>>
IsChunked(m, h) ==
    /\ AnnouncesChunks(m, h)
    /\ \E off \in [1 .. Len(m.pieces) + 1 -> 0 .. Len(m.chars)] :
          off[1] = h /\ AreChunks(m, off)

\* Requests with multipart bodies are left out: some are not served as sent.
WellFormed(m) ==
    \E h \in 1 .. Len(m.chars) :
        IsHeader(m, h) /\ (IsBare(m, h) \/ IsPlain(m, h) \/ IsChunked(m, h))

VARIABLES
    todo,       \* what is still to be sent of the current request
    pieces,     \* its pieces, as the client meant them
    got,        \* the pieces server_data_f was given
    began,      \* whether the parser was at rest when the request began
    failed      \* the client gave the current request up

client == <<todo, pieces, got, began, failed>>
allvars == <<vars, client>>

DataStates == {"CONTENT", "CHUNK_DATA", "MULTI_CONTENT_DATA"}

\* What server_data_f was called with in this step: the bytes lie at the start
\* of req_buf in every one of its calls.
Given0 == [i \in 1 .. (reported' - reported) |-> req_buf'[i - 1]]

Deliver ==
    got' = IF state \in DataStates
           THEN [got EXCEPT ![Len(got)] = @ \o Given0]
           ELSE IF state' \in DataStates THEN Append(got, <<>>) ELSE got

Begin(m) ==
    /\ todo = <<>>
    /\ todo' = m.chars /\ pieces' = m.pieces /\ got' = <<>>
    /\ began' = IF state = "HEADER_METHOD" /\ req_buf_len = 0 THEN "clean" ELSE "stale"
    /\ failed' = FALSE
    /\ UNCHANGED vars

SendChar ==
    /\ todo # <<>>
    /\ \/ ParseChar(Head(todo))
       \/ \E r \in RESPONSES : ServeRequest(Head(todo), r)
    /\ todo' = Tail(todo)
    /\ Deliver
    /\ UNCHANGED <<pieces, began, failed>>

\* How many bytes the ring holds when the parser looks is up to the network.
SendBlock(len) ==
    /\ len <= Len(todo)
    /\ DataBlock(SubSeq(todo, 1, len))
    /\ todo' = SubSeq(todo, len + 1, Len(todo))
    /\ Deliver
    /\ UNCHANGED <<pieces, began, failed>>

\* Silence in HEADER_METHOD is no timeout for the server (userver.c:371).
GiveUp ==
    /\ todo # <<>>
    /\ Timeout \/ (state = "HEADER_METHOD" /\ UNCHANGED vars)
    /\ todo' = <<>> /\ failed' = TRUE
    /\ UNCHANGED <<pieces, got, began>>

ClientInit ==
    /\ Init
    /\ todo = <<>> /\ pieces = <<>> /\ got = <<>>
    /\ began = "none" /\ failed = FALSE

Send == \/ SendChar
        \/ \E len \in 1 .. REQ_BUF_MAX : SendBlock(len)

ClientNext == (\E m \in MESSAGES : Begin(m)) \/ Send \/ GiveUp

\* The network goes on delivering what the client sent, and the parse loop runs
\* while the ring holds anything.
ClientSpec == ClientInit /\ [][ClientNext]_allvars /\ WF_allvars(Send)

-------------------------------------------------------------------------------
IsPrefixOf(s, t) == Len(s) <= Len(t) /\ s = SubSeq(t, 1, Len(s))

Over == todo = <<>> /\ ~failed /\ began # "none"

\* End to end, whatever the blocks the network makes of the stream: a request
\* that meets the parser at rest, its line buffer empty, is answered once and by a page,
\* its body reaches the handler byte for byte and piece by piece, and the parser
\* is back where it started when the last byte is in, whatever requests were
\* served, and broken off, before.
ServedAsSent ==
    Over /\ began = "clean" =>
        /\ got = pieces
        /\ answered = 1 /\ answer.to # "error"
        /\ state = "HEADER_METHOD" /\ req_buf_len = 0

\* While the body comes in, the handler never sees a byte that is not the next
\* one of the body.
NeverAhead ==
    began = "clean" /\ got # <<>> /\ ~failed =>
        /\ Len(got) <= Len(pieces)
        /\ \A i \in 1 .. Len(got) - 1 : got[i] = pieces[i]
        /\ IsPrefixOf(got[Len(got)], pieces[Len(got)])

\* The parser never refuses to take what the client sends: every request that
\* is begun is read to its end.
Consumed == todo # <<>> ~> todo = <<>>

\* "supports multipart and chunked transfers" (userver.c:5): every request of
\* MESSAGES is well formed, so its body must reach the handler.
TransferSupported == Over /\ began = "clean" => got = pieces
===============================================================================
