-------------------------- MODULE UserverClientProofs ---------------------------
(*****************************************************************************)
(* A client's well-formed request is served as sent, end to end: proofs.     *)
(*****************************************************************************)
EXTENDS UserverProofs, UserverClient

USE UserverAssumption

\* What is left of m behind its first p characters.
Rest(m, p) == SubSeq(m.chars, p + 1, Len(m.chars))

\* What the fields read so far left in req.
FieldsRead(m, p) ==
    /\ \/ req.content_length = 0 /\ Fields(m, p, "Content-Length") = {}
       \/ \E i \in Fields(m, p, "Content-Length") : req.content_length = m.chars[i].n
    /\ \/ req.content_type = Plain
       \/ \E i \in Fields(m, p, "Content-Type") : req.content_type = m.chars[i].n
    /\ req.chunked => \E i \in Fields(m, p, "Transfer-Encoding") : m.chars[i].n = 1
    /\ \A i \in Fields(m, p, "Transfer-Encoding") :
          /\ \A j \in Fields(m, p, "Transfer-Encoding") : m.chars[j].n = 1
          /\ \A j \in Fields(m, p, "Content-Type") : j < i
          => req.chunked

\* The line buffer behind character p of a header or a chunk header.
LineAt(m, p) ==
    IF p = 0 \/ m.chars[p] = LF THEN req_buf_len = 0
    ELSE req_buf_len = 1 /\ req_buf[0] = m.chars[p]

InHeader(m, h, p) ==
    /\ p \in 0 .. h - 1 /\ LineAt(m, p) /\ got = <<>>
    /\ p < 2 => state = "HEADER_METHOD" /\ req = EmptyReq
    /\ p >= 2 => /\ state = "HEADER_FIELDS" /\ req.method # "_BAD_REQ"
                 /\ FieldsRead(m, p - 1)

Answered == answered = 1 /\ answer.to # "error"

InPlain(m, h, p) ==
    /\ p \in h .. Len(m.chars) - 1 /\ IsPlain(m, h)
    /\ state = "CONTENT" /\ req_buf_len = 0
    /\ req.content_length = Len(m.chars) - h /\ received_content_len = p - h
    /\ got = <<SubSeq(m.chars, h + 1, p)>>

\* Chunk i, whose header line begins behind character o and announces n bytes.
IsPiece(m, i) == i \in 1 .. Len(m.pieces)
IsChunk(m, i) == i \in 1 .. Len(m.pieces) + 1
IsLast(m, i)  == i = Len(m.pieces) + 1
ChunkAt(m, off, i, o, n) ==
    /\ o = off[i] /\ o >= 1 /\ o + 3 <= Len(m.chars)
    /\ m.chars[o] = LF /\ m.chars[o + 1] = ChunkSize(n) /\ m.chars[o + 2] = LF
    /\ IsLast(m, i) => n = 0 /\ Len(m.chars) = o + 3 /\ m.chars[o + 3] = LF
    /\ IsPiece(m, i) => /\ n > 0 /\ n = Len(m.pieces[i]) /\ o + n + 3 < Len(m.chars)
                        /\ off[i + 1] = o + n + 3
                        /\ SubSeq(m.chars, o + 3, o + 2 + n) = m.pieces[i]

InChunkHeader(m, i, o, p) ==
    /\ p \in o .. o + 1 /\ state = "CHUNK_DATA_HEADER" /\ LineAt(m, p)
    /\ got = SubSeq(m.pieces, 1, i - 1)
InChunkData(m, i, o, n, p) ==
    /\ IsPiece(m, i) /\ p \in o + 2 .. o + 1 + n
    /\ state = "CHUNK_DATA" /\ req_buf_len = 0
    /\ chunk_len = n /\ received_content_len = p - (o + 2)
    /\ got = Append(SubSeq(m.pieces, 1, i - 1), SubSeq(m.chars, o + 3, p))
InChunkEnd(m, i, o, n, p) ==
    /\ IsPiece(m, i) /\ p = o + 2 + n
    /\ state = "CHUNK_DATA_END" /\ req_buf_len = 0
    /\ got = SubSeq(m.pieces, 1, i)
InFooter(m, i, o, p) ==
    /\ IsLast(m, i) /\ p = o + 2
    /\ state = "CHUNK_FOOTER" /\ req_buf_len = 0
    /\ got = m.pieces
InChunk(m, i, o, n, p) ==
    \/ InChunkHeader(m, i, o, p) \/ InChunkData(m, i, o, n, p)
    \/ InChunkEnd(m, i, o, n, p) \/ InFooter(m, i, o, p)

Offsets(m, h, off) ==
    /\ off \in [1 .. Len(m.pieces) + 1 -> 0 .. Len(m.chars)]
    /\ off[1] = h /\ AreChunks(m, off)
InChunks(m, h, p) ==
    \E off \in [1 .. Len(m.pieces) + 1 -> 0 .. Len(m.chars)], i \in Nat, o \in Nat, n \in Nat :
        /\ Offsets(m, h, off) /\ IsChunk(m, i) /\ ChunkAt(m, off, i, o, n)
        /\ InChunk(m, i, o, n, p)
IsOver(m, p) ==
    /\ p = Len(m.chars) /\ state = "HEADER_METHOD" /\ req_buf_len = 0
    /\ got = m.pieces

\* What the parser has made of the first p characters.
Reached(m, h, p) ==
    \/ InHeader(m, h, p)
    \/ Answered /\ (InPlain(m, h, p) \/ InChunks(m, h, p) \/ IsOver(m, p))

HasShape(m, h) == IsHeader(m, h) /\ (IsBare(m, h) \/ IsPlain(m, h) \/ IsChunked(m, h))

\* How far the current request has come.
At(m, h, p) ==
    /\ HasShape(m, h) /\ pieces = m.pieces /\ todo = Rest(m, p) /\ Reached(m, h, p)

Placed == began = "clean" /\ ~failed =>
            \E m \in MESSAGES : \E h \in 1 .. Len(m.chars), p \in 0 .. Len(m.chars) : At(m, h, p)

-------------------------------------------------------------------------------
(* What is left of a request.                                                 *)

\* Sequences joined, cut and extended, element by element.
LEMMA ConcatIs ==
  ASSUME NEW t \in Seq(Char), NEW b \in Seq(Char)
  PROVE  /\ t \o b \in Seq(Char) /\ Len(t \o b) = Len(t) + Len(b)
         /\ \A i \in 1 .. Len(t) : (t \o b)[i] = t[i]
         /\ \A i \in 1 .. Len(b) : (t \o b)[Len(t) + i] = b[i]
  OBVIOUS

LEMMA SubSeqIs ==
  ASSUME NEW t \in Seq(Char), NEW a \in 1 .. Len(t) + 1, NEW z \in a - 1 .. Len(t)
  PROVE  /\ SubSeq(t, a, z) \in Seq(Char) /\ Len(SubSeq(t, a, z)) = z - a + 1
         /\ \A i \in 1 .. z - a + 1 : SubSeq(t, a, z)[i] = t[a + i - 1]
  OBVIOUS

LEMMA AppendIs ==
  ASSUME NEW T, NEW s \in Seq(T), NEW x \in T
  PROVE  /\ Append(s, x) \in Seq(T) /\ Len(Append(s, x)) = Len(s) + 1
         /\ \A k \in 1 .. Len(s) : Append(s, x)[k] = s[k]
         /\ Append(s, x)[Len(s) + 1] = x
  OBVIOUS

LEMMA PrefixIs ==
  ASSUME NEW T, NEW s \in Seq(T), NEW i \in 0 .. Len(s)
  PROVE  /\ SubSeq(s, 1, i) \in Seq(T) /\ Len(SubSeq(s, 1, i)) = i
         /\ \A k \in 1 .. i : SubSeq(s, 1, i)[k] = s[k]
  OBVIOUS

LEMMA SameSeq ==
  ASSUME NEW T, NEW s \in Seq(T), NEW t \in Seq(T), Len(s) = Len(t),
         \A k \in 1 .. Len(t) : s[k] = t[k]
  PROVE  s = t
  OBVIOUS

\* The last element of a sequence is replaced.
LEMMA LastGrows ==
  ASSUME NEW T, NEW s \in Seq(T), NEW x \in T, NEW y \in T
  PROVE  [Append(s, x) EXCEPT ![Len(Append(s, x))] = y] = Append(s, y)
<1>1. PICK a \in Seq(T) : a = Append(s, x)
  BY AppendIs
<1>2. PICK b \in Seq(T) : b = Append(s, y)
  BY AppendIs
<1>3. PICK n \in Nat : n = Len(s) + 1
  OBVIOUS
<1>4. Len(a) = n /\ Len(b) = n /\ n \in 1 .. n
  BY <1>1, <1>2, <1>3, AppendIs
<1>5. \A k \in 1 .. Len(s) : a[k] = b[k]
  BY <1>1, <1>2, AppendIs
<1>6. b[n] = y
  BY <1>2, <1>3, AppendIs
<1>7. PICK c : c = [a EXCEPT ![n] = y]
  OBVIOUS
<1>8. c \in Seq(T) /\ Len(c) = n /\ \A k \in 1 .. n : c[k] = IF k = n THEN y ELSE a[k]
  BY <1>4, <1>7
<1>9. \A k \in 1 .. n : c[k] = b[k]
  <2>1. TAKE k \in 1 .. n
  <2>2. k = n \/ k \in 1 .. Len(s)
    BY <1>3
  <2>3. CASE k = n
    BY <1>6, <1>8, <2>3
  <2>4. CASE k # n
    <3>1. c[k] = a[k] /\ k \in 1 .. Len(s)
      BY <1>8, <2>2, <2>4
    <3> QED
      BY <1>5, <3>1
  <2> QED
    BY <2>3, <2>4
<1>10. c = b
  BY <1>4, <1>8, <1>9, SameSeq
<1> QED
  BY <1>1, <1>2, <1>4, <1>7, <1>10

\* One element more of a prefix.
LEMMA PrefixGrows ==
  ASSUME NEW T, NEW s \in Seq(T), NEW i \in 1 .. Len(s)
  PROVE  /\ SubSeq(s, 1, i - 1) \in Seq(T) /\ s[i] \in T
         /\ Append(SubSeq(s, 1, i - 1), s[i]) = SubSeq(s, 1, i)
<1>1. PICK j \in 0 .. Len(s) : j = i - 1 /\ i = j + 1 /\ i \in 0 .. Len(s)
  OBVIOUS
<1>2. PICK t : t = SubSeq(s, 1, j)
  OBVIOUS
<1>3. t \in Seq(T) /\ Len(t) = j /\ \A k \in 1 .. j : t[k] = s[k]
  BY <1>2, PrefixIs
<1>4. PICK u : u = SubSeq(s, 1, i)
  OBVIOUS
<1>5. u \in Seq(T) /\ Len(u) = i /\ \A k \in 1 .. i : u[k] = s[k]
  BY <1>1, <1>4, PrefixIs
<1>6. PICK x \in T : x = s[i]
  OBVIOUS
<1>7. PICK v : v = Append(t, x)
  OBVIOUS
<1>8. /\ v \in Seq(T) /\ Len(v) = i /\ v[i] = x
      /\ \A k \in 1 .. j : v[k] = t[k]
  BY <1>1, <1>3, <1>7, AppendIs
<1>9. \A k \in 1 .. i : v[k] = u[k]
  BY <1>1, <1>3, <1>5, <1>6, <1>8
<1>10. v = u
  BY <1>5, <1>8, <1>9, SameSeq
<1> QED
  BY <1>1, <1>2, <1>3, <1>4, <1>6, <1>7, <1>10

\* What is left is shorter by what was sent, and empty when all was.
LEMMA RestFacts ==
  ASSUME NEW m \in Message, NEW p \in 0 .. Len(m.chars)
  PROVE  /\ Rest(m, p) \in Seq(Char) /\ Len(Rest(m, p)) = Len(m.chars) - p
         /\ Rest(m, p) = <<>> <=> p = Len(m.chars)
         /\ \A i \in 1 .. Len(m.chars) - p : Rest(m, p)[i] = m.chars[p + i]
<1>1. m.chars \in Seq(Char)
  BY DEF Message
<1>2. PICK s \in Seq(Char) : s = m.chars
  BY <1>1
<1>3. SubSeq(s, p + 1, Len(s)) \in Seq(Char) /\ Len(SubSeq(s, p + 1, Len(s))) = Len(s) - p
  BY <1>2
<1>4. \A i \in 1 .. Len(s) - p : SubSeq(s, p + 1, Len(s))[i] = s[p + i]
  BY <1>2
<1>5. SubSeq(s, p + 1, Len(s)) = <<>> <=> p = Len(s)
  <2>1. PICK t \in Seq(Char) : t = SubSeq(s, p + 1, Len(s))
    BY <1>3
  <2>2. t = <<>> <=> Len(t) = 0
    OBVIOUS
  <2>3. Len(t) = Len(s) - p /\ Len(s) \in Nat
    BY <1>2, <1>3, <2>1
  <2>4. t = <<>> <=> p = Len(s)
    BY <1>2, <2>2, <2>3
  <2> QED
    BY <2>1, <2>4
<1> QED
  BY <1>2, <1>3, <1>4, <1>5 DEF Rest

\* The next character is the one behind the first p.
LEMMA RestStep ==
  ASSUME NEW m \in Message, NEW p \in 0 .. Len(m.chars), p < Len(m.chars)
  PROVE  /\ p + 1 \in 0 .. Len(m.chars)
         /\ Head(Rest(m, p)) = m.chars[p + 1] /\ m.chars[p + 1] \in Char
         /\ Tail(Rest(m, p)) = Rest(m, p + 1)
<1>1. m.chars \in Seq(Char)
  BY DEF Message
<1>2. m.chars[p + 1] \in Char /\ p + 1 \in 0 .. Len(m.chars)
  BY <1>1
<1>3. PICK q \in 0 .. Len(m.chars) : q = p + 1
  BY <1>2
<1>4. PICK t : t = Rest(m, p)
  OBVIOUS
<1>5. /\ t \in Seq(Char) /\ Len(t) = Len(m.chars) - p
      /\ \A i \in 1 .. Len(m.chars) - p : t[i] = m.chars[p + i]
  BY <1>4, RestFacts
<1>6. PICK u : u = Rest(m, q)
  OBVIOUS
<1>7. /\ u \in Seq(Char) /\ Len(u) = Len(m.chars) - q
      /\ \A i \in 1 .. Len(m.chars) - q : u[i] = m.chars[q + i]
  BY <1>6, RestFacts
<1>8. Len(m.chars) \in Nat
  BY <1>1
<1>9. Head(t) = m.chars[p + 1]
  <2>1. Head(t) = t[1] /\ 1 \in 1 .. Len(m.chars) - p
    BY <1>5, <1>8
  <2> QED
    BY <1>5, <2>1
<1>10. Tail(t) = u
  <2>1. Tail(t) \in Seq(Char) /\ Len(Tail(t)) = Len(u)
    BY <1>3, <1>5, <1>7, <1>8
  <2>2. \A i \in 1 .. Len(u) : Tail(t)[i] = u[i]
    <3>1. TAKE i \in 1 .. Len(u)
    <3>2. Tail(t)[i] = t[i + 1] /\ i + 1 \in 1 .. Len(m.chars) - p /\ p + (i + 1) = q + i
      BY <1>3, <1>5, <1>7, <1>8
    <3> QED
      BY <1>5, <1>7, <3>2
  <2>3. u \in Seq(Char)
    BY <1>7
  <2> QED
    BY <2>1, <2>2, <2>3, SameSeq
<1> QED
  BY <1>2, <1>3, <1>4, <1>6, <1>9, <1>10

\* What follows the first len characters of t.
After(t, len) == SubSeq(t, len + 1, Len(t))

\* The same of the next block.
LEMMA RestBlock ==
  ASSUME NEW m \in Message, NEW p \in 0 .. Len(m.chars), NEW len \in 1 .. Len(m.chars) - p
  PROVE  /\ p + len \in 0 .. Len(m.chars)
         /\ After(Rest(m, p), len) = Rest(m, p + len)
         /\ SubSeq(Rest(m, p), 1, len) \in Seq(Char) /\ Len(SubSeq(Rest(m, p), 1, len)) = len
         /\ \A i \in 1 .. len : SubSeq(Rest(m, p), 1, len)[i] = m.chars[p + i]
<1>1. m.chars \in Seq(Char) /\ Len(m.chars) \in Nat
  BY DEF Message
<1>2. PICK q \in 0 .. Len(m.chars) : q = p + len
  BY <1>1
<1>3. PICK t : t = Rest(m, p)
  OBVIOUS
<1>4. /\ t \in Seq(Char) /\ Len(t) = Len(m.chars) - p
      /\ \A i \in 1 .. Len(m.chars) - p : t[i] = m.chars[p + i]
  BY <1>3, RestFacts
<1>5. PICK u : u = Rest(m, q)
  OBVIOUS
<1>6. /\ u \in Seq(Char) /\ Len(u) = Len(m.chars) - q
      /\ \A i \in 1 .. Len(m.chars) - q : u[i] = m.chars[q + i]
  BY <1>5, RestFacts
<1>7. SubSeq(t, len + 1, Len(t)) = u
  <2> DEFINE v == SubSeq(t, len + 1, Len(t))
  <2>1. v \in Seq(Char) /\ Len(v) = Len(u)
    <3>1. len + 1 \in 1 .. Len(t) + 1 /\ Len(t) \in Nat
      BY <1>1, <1>4
    <3>2. v \in Seq(Char) /\ Len(v) = Len(t) - len
      <4>1. PICK a \in 1 .. Len(t) + 1 : a = len + 1
        BY <3>1
      <4>2. PICK z \in a - 1 .. Len(t) : z = Len(t) /\ z - a + 1 = Len(t) - len
        <5>1. len \in Nat /\ Len(t) \in Nat /\ len <= Len(t) /\ a = len + 1
          BY <3>1, <4>1
        <5>2. Len(t) \in a - 1 .. Len(t) /\ Len(t) - a + 1 = Len(t) - len
          BY <5>1
        <5> QED
          BY <5>2
      <4>3. SubSeq(t, a, z) \in Seq(Char) /\ Len(SubSeq(t, a, z)) = z - a + 1
        BY <1>4, SubSeqIs
      <4> QED
        BY <4>1, <4>2, <4>3
    <3> QED
      BY <1>1, <1>2, <1>4, <1>6, <3>2
  <2>2. \A i \in 1 .. Len(u) : v[i] = u[i]
    <3>1. TAKE i \in 1 .. Len(u)
    <3>2. v[i] = t[len + i] /\ len + i \in 1 .. Len(m.chars) - p /\ p + (len + i) = q + i
      BY <1>1, <1>2, <1>4, <1>6
    <3> QED
      BY <1>4, <1>6, <3>2
  <2> HIDE DEF v
  <2>3. v = u
    BY <1>6, <2>1, <2>2
  <2> QED
    BY <2>3 DEF v
<1>8. SubSeq(t, 1, len) \in Seq(Char) /\ Len(SubSeq(t, 1, len)) = len
  BY <1>1, <1>4
<1>9. \A i \in 1 .. len : SubSeq(t, 1, len)[i] = m.chars[p + i]
  <2>1. TAKE i \in 1 .. len
  <2>2. SubSeq(t, 1, len)[i] = t[i] /\ i \in 1 .. Len(m.chars) - p
    BY <1>1, <1>4
  <2> QED
    BY <1>4, <2>2
<1> QED
  BY <1>2, <1>3, <1>5, <1>7, <1>8, <1>9 DEF After

\* What came of a piece so far and the block behind it.
LEMMA Joined ==
  ASSUME NEW s \in Seq(Char), NEW a \in 1 .. Len(s) + 1, NEW p \in a - 1 .. Len(s),
         NEW block \in Seq(Char), p + Len(block) <= Len(s),
         \A i \in 1 .. Len(block) : block[i] = s[p + i]
  PROVE  SubSeq(s, a, p) \o block = SubSeq(s, a, p + Len(block))
<1>1. PICK n \in Nat : n = Len(block)
  OBVIOUS
<1>2. PICK t : t = SubSeq(s, a, p)
  OBVIOUS
<1>3. PICK u : u = SubSeq(s, a, p + n)
  OBVIOUS
<1>4. t \in Seq(Char) /\ Len(t) = p - a + 1 /\ \A i \in 1 .. p - a + 1 : t[i] = s[a + i - 1]
  BY <1>2
<1>5. u \in Seq(Char) /\ Len(u) = p + n - a + 1 /\ \A i \in 1 .. p + n - a + 1 : u[i] = s[a + i - 1]
  BY <1>1, <1>3
<1>6. PICK v : v = t \o block
  OBVIOUS
<1>7. v \in Seq(Char) /\ Len(v) = Len(u)
  <2>1. v \in Seq(Char) /\ Len(v) = Len(t) + n
    BY <1>1, <1>4, <1>6, ConcatIs
  <2> QED
    BY <1>4, <1>5, <2>1
<1>8. \A i \in 1 .. Len(u) : v[i] = u[i]
  <2>1. TAKE i \in 1 .. Len(u)
  <2>2. CASE i <= Len(t)
    <3>1. v[i] = t[i] /\ i \in 1 .. p - a + 1
      BY <1>1, <1>4, <1>5, <1>6, <2>2
    <3> QED
      BY <1>4, <1>5, <3>1
  <2>3. CASE i > Len(t)
    <3>1. i - Len(t) \in 1 .. n /\ p + (i - Len(t)) = a + i - 1
      BY <1>4, <1>5, <2>3
    <3>2. PICK k \in 1 .. n : k = i - Len(t) /\ i = Len(t) + k
      BY <1>4, <1>5, <2>3, <3>1
    <3>3. v[i] = block[k]
      <4>1. (t \o block)[Len(t) + k] = block[k]
        <5>1. \A j \in 1 .. Len(block) : (t \o block)[Len(t) + j] = block[j]
          BY <1>4, ConcatIs
        <5> QED
          BY <1>1, <5>1
      <4> QED
        BY <1>6, <3>2, <4>1, Zenon
    <3> QED
      BY <1>1, <1>5, <3>1, <3>2, <3>3
  <2> QED
    BY <1>4, <1>5, <2>2, <2>3
<1>9. v = u
  BY <1>5, <1>7, <1>8
<1> QED
  BY <1>1, <1>2, <1>3, <1>6, <1>9

-------------------------------------------------------------------------------
(* What the parser does with a character, state by state.                     *)

Parses(c) == ParseChar(c) \/ \E r \in RESPONSES : ServeRequest(c, r)

\* Within a line a character is only kept.
LEMMA OnlyStores ==
  ASSUME NEW c, state \in LineStates, ~EndOfLine(c), Parses(c)
  PROVE  StoreChar(c)
  BY DEF Parses, ParseChar, ServeRequest, MethodLine, FieldLine, BadRequest, ChunkHeaderLine,
         ChunkDataEndLine, ChunkFooterLine, MultiHeaderLine, NoBody, ChunkedBody, PlainBody,
         MultipartBody, BadBody, HeaderEnd, TakeLine, SectionEnd, SectionData, SectionDatum,
         SectionChar, LineStates

\* At the end of a line each state has one thing to do.
LEMMA OnlyTakesMethod ==
  ASSUME state = "HEADER_METHOD", ~LineEmpty, Parses(LF)
  PROVE  MethodLine(LF)
  BY DEF Parses, ParseChar, ServeRequest, StoreChar, FieldLine, BadRequest, ChunkHeaderLine,
         ChunkDataEndLine, ChunkFooterLine, MultiHeaderLine, NoBody, ChunkedBody, PlainBody,
         MultipartBody, BadBody, HeaderEnd, EndOfLine, SectionEnd, SectionData, SectionDatum,
         SectionChar

LEMMA OnlyTakesField ==
  ASSUME state = "HEADER_FIELDS", ~LineEmpty, Parses(LF)
  PROVE  FieldLine(LF)
  BY DEF Parses, ParseChar, ServeRequest, StoreChar, MethodLine, BadRequest, ChunkHeaderLine,
         ChunkDataEndLine, ChunkFooterLine, MultiHeaderLine, NoBody, ChunkedBody, PlainBody,
         MultipartBody, BadBody, HeaderEnd, EndOfLine, SectionEnd, SectionData, SectionDatum,
         SectionChar

LEMMA OnlyServes ==
  ASSUME state = "HEADER_FIELDS", LineEmpty, req.method # "_BAD_REQ", Parses(LF)
  PROVE  \E r \in RESPONSES : ServeRequest(LF, r)
  BY DEF Parses, ParseChar, StoreChar, MethodLine, FieldLine, BadRequest, ChunkHeaderLine,
         ChunkDataEndLine, ChunkFooterLine, MultiHeaderLine, EndOfLine, SectionEnd, SectionData,
         SectionDatum, SectionChar

LEMMA OnlyTakesChunkHeader ==
  ASSUME state = "CHUNK_DATA_HEADER", Parses(LF)
  PROVE  ChunkHeaderLine(LF)
  BY DEF Parses, ParseChar, ServeRequest, StoreChar, MethodLine, FieldLine, BadRequest,
         ChunkDataEndLine, ChunkFooterLine, MultiHeaderLine, NoBody, ChunkedBody, PlainBody,
         MultipartBody, BadBody, HeaderEnd, EndOfLine, SectionEnd, SectionData, SectionDatum,
         SectionChar

LEMMA OnlyTakesChunkEnd ==
  ASSUME state = "CHUNK_DATA_END", Parses(LF)
  PROVE  ChunkDataEndLine(LF)
  BY DEF Parses, ParseChar, ServeRequest, StoreChar, MethodLine, FieldLine, BadRequest,
         ChunkHeaderLine, ChunkFooterLine, MultiHeaderLine, NoBody, ChunkedBody, PlainBody,
         MultipartBody, BadBody, HeaderEnd, EndOfLine, SectionEnd, SectionData, SectionDatum,
         SectionChar

LEMMA OnlyTakesFooter ==
  ASSUME state = "CHUNK_FOOTER", Parses(LF)
  PROVE  ChunkFooterLine(LF)
  BY DEF Parses, ParseChar, ServeRequest, StoreChar, MethodLine, FieldLine, BadRequest,
         ChunkHeaderLine, ChunkDataEndLine, MultiHeaderLine, NoBody, ChunkedBody, PlainBody,
         MultipartBody, BadBody, HeaderEnd, EndOfLine, SectionEnd, SectionData, SectionDatum,
         SectionChar

\* The data states take blocks, the line states characters.
LEMMA DataTakesBlocks ==
  ASSUME state \in {"CONTENT", "CHUNK_DATA"}, NEW c
  PROVE  ~Parses(c)
  BY DEF Parses, ParseChar, ServeRequest, StoreChar, MethodLine, FieldLine, BadRequest,
         ChunkHeaderLine, ChunkDataEndLine, ChunkFooterLine, MultiHeaderLine, NoBody,
         ChunkedBody, PlainBody, MultipartBody, BadBody, HeaderEnd, SectionEnd, SectionData,
         SectionDatum, SectionChar, LineStates

\* And no line state takes a block.
LEMMA LinesTakeCharacters ==
  ASSUME state \in LineStates, NEW block
  PROVE  ~DataBlock(block)
  BY DEF DataBlock, TakeBlock, LineStates

\* A character that is no line end, at the start of a line: it is kept.
LEMMA FirstOfLine ==
  ASSUME TypeOK, state \in LineStates, req_buf_len = 0, NEW c \in Char, c # LF, Parses(c)
  PROVE  /\ StoreChar(c) /\ req_buf_len' = 1 /\ req_buf'[0] = c
<1>1. StoreChar(c)
  BY OnlyStores DEF EndOfLine
<1>2. 0 \in 0 .. REQ_BUF_MAX
  OBVIOUS
<1> QED
  BY <1>1, <1>2 DEF StoreChar, TypeOK

\* A block reaches the handler as it came.
LEMMA BlockGiven ==
  ASSUME IInv, NEW block \in Seq(Char), DataBlock(block)
  PROVE  /\ Len(block) \in 1 .. REQ_BUF_MAX /\ Len(block) <= Remaining
         /\ received_content_len' = received_content_len + Len(block)
         /\ Given0 = block
<1>1. PICK len \in Nat : len = Len(block)
  OBVIOUS
<1>2. TakeBlock(len, Copied(block, len), received_content_len + len,
                received_content_len + len = Piece)
  BY <1>1 DEF DataBlock
<1>3. /\ len \in 1 .. REQ_BUF_MAX /\ len <= Remaining
      /\ received_content_len' = received_content_len + len
      /\ reported' = reported + len /\ req_buf' = Copied(block, len)
  BY <1>1, <1>2 DEF TakeBlock
<1>4. reported' - reported = len
  BY <1>3 DEF IInv, TypeOK
<1>5. \A i \in 1 .. len : req_buf'[i - 1] = block[i]
  <2>1. TAKE i \in 1 .. len
  <2>2. i - 1 \in 0 .. REQ_BUF_MAX /\ i - 1 < len /\ (i - 1) + 1 = i
    BY <1>3
  <2>3. DOMAIN req_buf = 0 .. REQ_BUF_MAX
    BY DEF IInv, TypeOK
  <2>4. Copied(block, len)[i - 1] = block[(i - 1) + 1]
    BY <2>2, <2>3 DEF Copied
  <2> QED
    BY <1>3, <2>2, <2>4
<1>6. Given0 = [i \in 1 .. len |-> block[i]]
  BY <1>4, <1>5 DEF Given0
<1>7. block = [i \in 1 .. len |-> block[i]]
  BY <1>1
<1> QED
  BY <1>1, <1>3, <1>6, <1>7

-------------------------------------------------------------------------------
(* The header, character by character.                                        *)

\* The first line of a header is its method, and no two lines but the last are empty.
LEMMA HeaderShape ==
  ASSUME NEW m \in Message, NEW h \in 1 .. Len(m.chars), IsHeader(m, h)
  PROVE  /\ h \in Nat /\ h >= 3 /\ m.chars[1] # LF /\ m.chars[2] = LF
         /\ m.chars[1].kind \in {"GET", "HEAD"}
         /\ m.chars[h - 1] = LF /\ m.chars[h] = LF
         /\ \A p \in 1 .. h - 2 : m.chars[p] = LF <=> m.chars[p + 1] # LF
<1>1. m.chars \in Seq(Char) /\ Len(m.chars) \in Nat
  BY DEF Message
<1>2. h \in Nat /\ h >= 3 /\ m.chars[1].kind \in {"GET", "HEAD"} /\ m.chars[h - 1] = LF
      /\ m.chars[h] = LF /\ \A p \in 1 .. h - 2 : m.chars[p] = LF <=> m.chars[p + 1] # LF
  BY <1>1 DEF IsHeader
<1>3. m.chars[1] # LF
  BY <1>2 DEF LF
<1>4. 1 \in 1 .. h - 2 /\ 1 + 1 = 2
  BY <1>2
<1>5. m.chars[2] = LF
  BY <1>2, <1>3, <1>4
<1> QED
  BY <1>2, <1>3, <1>5

\* A line end adds no field, any other character those of its kind.
LEMMA FieldsSame ==
  ASSUME NEW m, NEW p \in Nat, m.chars[p] = LF, NEW kind, kind # "lf"
  PROVE  Fields(m, p, kind) = Fields(m, p - 1, kind)
<1>1. \A i \in 3 .. p : i \in 3 .. p - 1 \/ i = p
  OBVIOUS
<1>2. m.chars[p].kind # kind
  BY DEF LF
<1>3. \A i \in 3 .. p - 1 : i \in 3 .. p
  OBVIOUS
<1> QED
  BY <1>1, <1>2, <1>3 DEF Fields

\* The fields up to the next character.
LEMMA FieldsMore ==
  ASSUME NEW m, NEW p \in Nat, p >= 3, NEW kind
  PROVE  Fields(m, p, kind) = IF m.chars[p].kind = kind
                              THEN Fields(m, p - 1, kind) \cup {p} ELSE Fields(m, p - 1, kind)
<1>1. \A i : i \in 3 .. p <=> i \in 3 .. p - 1 \/ i = p
  OBVIOUS
<1> QED
  BY <1>1 DEF Fields

\* Before the first field there is nothing of any kind.
LEMMA FieldsNone ==
  ASSUME NEW m, NEW p \in Nat, p < 3, NEW kind
  PROVE  Fields(m, p, kind) = {}
  BY DEF Fields

\* A line end adds no field.
LEMMA FieldsReadSame ==
  ASSUME NEW m, NEW p \in Nat, m.chars[p] = LF, FieldsRead(m, p - 1)
  PROVE  FieldsRead(m, p)
<1>1. /\ Fields(m, p, "Content-Length") = Fields(m, p - 1, "Content-Length")
      /\ Fields(m, p, "Content-Type") = Fields(m, p - 1, "Content-Type")
      /\ Fields(m, p, "Transfer-Encoding") = Fields(m, p - 1, "Transfer-Encoding")
  BY FieldsSame
<1> QED
  BY <1>1 DEF FieldsRead

\* Where a field of any kind is it comes behind those read before.
LEMMA FieldsBefore ==
  ASSUME NEW m, NEW p \in Nat, NEW kind, NEW i \in Fields(m, p - 1, kind)
  PROVE  i \in Nat /\ i < p
  BY DEF Fields

\* A field line leaves in req what its field says (userver.c:192-228).
LEMMA FieldTaken ==
  ASSUME NEW m, NEW p \in Nat, p >= 3, req \in Request, FieldsRead(m, p - 1),
         req' = WithField(m.chars[p])
  PROVE  FieldsRead(m, p)'
<1> DEFINE f == m.chars[p]
           CL(q) == Fields(m, q, "Content-Length")
           CT(q) == Fields(m, q, "Content-Type")
           TE(q) == Fields(m, q, "Transfer-Encoding")
<1>1. /\ CL(p) = IF f.kind = "Content-Length" THEN CL(p - 1) \cup {p} ELSE CL(p - 1)
      /\ CT(p) = IF f.kind = "Content-Type" THEN CT(p - 1) \cup {p} ELSE CT(p - 1)
      /\ TE(p) = IF f.kind = "Transfer-Encoding" THEN TE(p - 1) \cup {p} ELSE TE(p - 1)
  BY FieldsMore
<1>2. /\ \/ req.content_length = 0 /\ CL(p - 1) = {}
         \/ \E i \in CL(p - 1) : req.content_length = m.chars[i].n
      /\ \/ req.content_type = Plain
         \/ \E i \in CT(p - 1) : req.content_type = m.chars[i].n
      /\ req.chunked => \E i \in TE(p - 1) : m.chars[i].n = 1
      /\ \A i \in TE(p - 1) :
            /\ \A j \in TE(p - 1) : m.chars[j].n = 1
            /\ \A j \in CT(p - 1) : j < i
            => req.chunked
  BY DEF FieldsRead
<1>3. \A i \in TE(p - 1) : i \in Nat /\ i < p
  BY FieldsBefore
<1>4. \A j \in CT(p - 1) : j \in Nat /\ j < p
  BY FieldsBefore
<1> HIDE DEF CL, CT, TE
<1>5. CASE f.kind = "Content-Length"
  <2>1. req' = [req EXCEPT !.content_length = f.n]
    BY <1>5 DEF WithField
  <2>2. /\ req'.content_length = f.n /\ req'.content_type = req.content_type
        /\ req'.chunked = req.chunked
    BY <2>1 DEF Request
  <2>3. p \in CL(p) /\ CT(p) = CT(p - 1) /\ TE(p) = TE(p - 1)
    BY <1>1, <1>5
  <2> QED
    BY <1>2, <2>2, <2>3 DEF FieldsRead, CL, CT, TE
<1>6. CASE f.kind = "Content-Type"
  <2>1. req' = [req EXCEPT !.content_type = f.n, !.chunked = FALSE, !.chunk_nbr = 0]
    BY <1>6 DEF WithField
  <2>2. /\ req'.content_length = req.content_length /\ req'.content_type = f.n
        /\ req'.chunked = FALSE
    BY <2>1 DEF Request
  <2>3. CL(p) = CL(p - 1) /\ CT(p) = CT(p - 1) \cup {p} /\ TE(p) = TE(p - 1) /\ p \in CT(p)
    BY <1>1, <1>6
  <2>4. \A i \in TE(p) : ~(p < i)
    BY <1>3, <2>3
  <2> QED
    BY <1>2, <2>2, <2>3, <2>4 DEF FieldsRead, CL, CT, TE
<1>7. CASE f.kind = "Transfer-Encoding"
  <2>1. req' = [req EXCEPT !.chunked = f.n = 1]
    BY <1>7 DEF WithField
  <2>2. /\ req'.content_length = req.content_length /\ req'.content_type = req.content_type
        /\ req'.chunked <=> f.n = 1
    BY <2>1 DEF Request
  <2>3. CL(p) = CL(p - 1) /\ CT(p) = CT(p - 1) /\ TE(p) = TE(p - 1) \cup {p} /\ p \in TE(p)
    BY <1>1, <1>7
  <2> QED
    BY <1>2, <2>2, <2>3 DEF FieldsRead, CL, CT, TE
<1>8. CASE f.kind \notin {"Content-Length", "Content-Type", "Transfer-Encoding"}
  <2>1. req' = req
    BY <1>8 DEF WithField
  <2>2. CL(p) = CL(p - 1) /\ CT(p) = CT(p - 1) /\ TE(p) = TE(p - 1)
    BY <1>1, <1>8
  <2> QED
    BY <1>2, <2>1, <2>2 DEF FieldsRead, CL, CT, TE
<1> QED
  BY <1>5, <1>6, <1>7, <1>8

\* While no data state is left or entered nothing is given to the handler.
LEMMA NothingGiven ==
  ASSUME Deliver, state \notin DataStates, state' \notin DataStates
  PROVE  got' = got
  BY DEF Deliver

\* A character within the header.
LEMMA HeaderStep ==
  ASSUME IInv, NEW m \in Message, NEW h \in 1 .. Len(m.chars), IsHeader(m, h),
         NEW p \in 0 .. h - 2, InHeader(m, h, p), Parses(m.chars[p + 1]), Deliver
  PROVE  InHeader(m, h, p + 1)'
<1>1. /\ h \in Nat /\ h >= 3 /\ m.chars[1] # LF /\ m.chars[2] = LF
      /\ m.chars[1].kind \in {"GET", "HEAD"}
      /\ m.chars[h - 1] = LF /\ m.chars[h] = LF
      /\ \A q \in 1 .. h - 2 : m.chars[q] = LF <=> m.chars[q + 1] # LF
  BY HeaderShape
<1>2. p \in Nat /\ p + 1 \in 0 .. h - 1 /\ p + 1 # 0 /\ (p + 1) - 1 = p
  BY <1>1
<1>3. m.chars[p + 1] \in Char
  BY <1>1 DEF Message
<1>4. /\ TypeOK /\ state \in LineStates /\ got = <<>> /\ LineAt(m, p)
  BY DEF IInv, InHeader, LineStates
<1>5. CASE p = 0 \/ m.chars[p] = LF
  <2>1. m.chars[p + 1] # LF
    BY <1>1, <1>2, <1>5
  <2>2. req_buf_len = 0
    BY <1>4, <1>5 DEF LineAt
  <2>3. StoreChar(m.chars[p + 1]) /\ req_buf_len' = 1 /\ req_buf'[0] = m.chars[p + 1]
    BY <1>3, <1>4, <2>1, <2>2, FirstOfLine
  <2>4. UNCHANGED <<state, req>>
    BY <2>3 DEF StoreChar
  <2>5. LineAt(m, p + 1)'
    BY <1>2, <2>1, <2>3 DEF LineAt
  <2>6. got' = <<>>
    BY <1>4, <2>4, NothingGiven DEF LineStates, DataStates
  <2>7. CASE p = 0
    BY <1>2, <2>4, <2>5, <2>6, <2>7 DEF InHeader
  <2>8. CASE p # 0
    <3>1. p >= 2
      BY <1>1, <1>2, <1>5, <2>8
    <3>2. state = "HEADER_FIELDS" /\ req.method # "_BAD_REQ" /\ FieldsRead(m, p - 1)
      BY <3>1 DEF InHeader
    <3>3. FieldsRead(m, p)
      BY <1>2, <1>5, <2>8, <3>2, FieldsReadSame
    <3>4. FieldsRead(m, p)'
      BY <2>4, <3>3 DEF FieldsRead
    <3> QED
      BY <1>2, <2>4, <2>5, <2>6, <3>1, <3>2, <3>4 DEF InHeader
  <2> QED
    BY <2>7, <2>8
<1>6. CASE p # 0 /\ m.chars[p] # LF
  <2>1. m.chars[p + 1] = LF
    <3>1. PICK q \in 1 .. h - 2 : q = p
      BY <1>1, <1>2, <1>6
    <3>2. m.chars[q + 1] = LF
      BY <1>1, <1>6, <3>1
    <3> QED
      BY <3>1, <3>2
  <2>2. req_buf_len = 1 /\ req_buf[0] = m.chars[p] /\ ~LineEmpty /\ Parses(LF)
    BY <1>4, <1>6, <2>1 DEF LineAt, LineEmpty
  <2>3. CASE p = 1
    <3>1. state = "HEADER_METHOD" /\ req = EmptyReq
      BY <2>3 DEF InHeader
    <3>2. MethodLine(LF)
      BY <2>2, <3>1, OnlyTakesMethod
    <3>3. /\ req' = [EmptyReq EXCEPT !.method = m.chars[1].kind]
          /\ state' = "HEADER_FIELDS" /\ req_buf_len' = 0
      BY <1>1, <2>2, <2>3, <3>1, <3>2 DEF MethodLine, TakeLine
    <3>4. /\ req'.method # "_BAD_REQ" /\ req'.content_length = 0
          /\ req'.content_type = Plain /\ req'.chunked = FALSE
      BY <1>1, <3>3 DEF EmptyReq
    <3>5. FieldsRead(m, 1)'
      BY <3>4, FieldsNone DEF FieldsRead
    <3>6. got' = <<>>
      BY <1>4, <3>1, <3>3, NothingGiven DEF DataStates
    <3>7. LineAt(m, p + 1)'
      BY <1>2, <2>1, <3>3 DEF LineAt
    <3> QED
      BY <1>2, <2>3, <3>3, <3>4, <3>5, <3>6, <3>7 DEF InHeader
  <2>4. CASE p # 1
    <3>1. p >= 3
      BY <1>1, <1>2, <1>6, <2>4
    <3>2. state = "HEADER_FIELDS" /\ req.method # "_BAD_REQ" /\ FieldsRead(m, p - 1)
      BY <3>1 DEF InHeader
    <3>3. FieldLine(LF)
      BY <2>2, <3>2, OnlyTakesField
    <3>4. req' = WithField(m.chars[p]) /\ state' = state /\ req_buf_len' = 0
      BY <2>2, <3>3 DEF FieldLine, TakeLine
    <3>5. req \in Request
      BY DEF IInv, TypeOK
    <3>6. FieldsRead(m, p)'
      BY <1>2, <3>1, <3>2, <3>4, <3>5, FieldTaken
    <3>7. req'.method = req.method
      BY <3>4, <3>5 DEF WithField, Request
    <3>8. got' = <<>>
      BY <1>4, <3>2, <3>4, NothingGiven DEF DataStates
    <3>9. LineAt(m, p + 1)'
      BY <1>2, <2>1, <3>4 DEF LineAt
    <3> QED
      BY <1>2, <3>1, <3>2, <3>4, <3>6, <3>7, <3>8, <3>9 DEF InHeader
  <2> QED
    BY <2>3, <2>4
<1> QED
  BY <1>5, <1>6

-------------------------------------------------------------------------------
(* A plain body, block by block.                                              *)

\* A block of a plain body: the handler gets it, and the last one ends the request.
LEMMA PlainStep ==
  ASSUME IInv, NEW m \in Message, NEW h \in 1 .. Len(m.chars), NEW p \in 0 .. Len(m.chars),
         Answered, InPlain(m, h, p), NEW block \in Seq(Char), DataBlock(block), Deliver,
         p + Len(block) <= Len(m.chars),
         \A i \in 1 .. Len(block) : block[i] = m.chars[p + i]
  PROVE  Answered' /\ (InPlain(m, h, p + Len(block))' \/ IsOver(m, p + Len(block))')
<1>1. PICK len \in Nat : len = Len(block)
  OBVIOUS
<1>2. /\ len \in 1 .. REQ_BUF_MAX /\ len <= Remaining
      /\ received_content_len' = received_content_len + len /\ Given0 = block
  BY <1>1, BlockGiven
<1>3. PICK s \in Seq(Char) : s = m.chars
  BY DEF Message
<1>4. PICK q \in Nat : q = p + len
  BY <1>3
<1>5. /\ state = "CONTENT" /\ req_buf_len = 0 /\ ~req.chunked
      /\ req.content_length = Len(s) - h /\ received_content_len = p - h
      /\ got = <<SubSeq(s, h + 1, p)>> /\ p \in h .. Len(s) - 1
      /\ h \in 1 .. Len(s) /\ Len(s) \in Nat
  BY <1>3 DEF InPlain, IInv, Modes, BodyMatchesRequest
<1>6. got' = <<SubSeq(s, h + 1, q)>>
  <2>1. PICK a \in 1 .. Len(s) + 1 : a = h + 1 /\ p \in a - 1 .. Len(s)
    <3>1. PICK l \in Nat : l = Len(s)
      BY <1>5
    <3>2. h \in 1 .. l /\ p \in h .. l - 1
      BY <1>5, <3>1
    <3>3. h + 1 \in 1 .. l + 1 /\ p \in (h + 1) - 1 .. l
      BY <3>2
    <3> QED
      BY <3>1, <3>3
  <2>2. SubSeq(s, h + 1, p) \o block = SubSeq(s, h + 1, p + Len(block))
    <3>1. \A i \in 1 .. Len(block) : block[i] = s[p + i]
      BY <1>3, Zenon
    <3>2. p + Len(block) <= Len(s)
      BY <1>3
    <3>3. SubSeq(s, a, p) \o block = SubSeq(s, a, p + Len(block))
      BY <2>1, <3>1, <3>2, Joined
    <3> QED
      BY <2>1, <3>3
  <2>3. PICK t : t = SubSeq(s, h + 1, p)
    OBVIOUS
  <2>4. got' = [got EXCEPT ![Len(got)] = got[Len(got)] \o block]
    BY <1>2, <1>5 DEF Deliver, DataStates
  <2>5. got' = <<t \o block>>
    BY <1>5, <2>3, <2>4
  <2> QED
    BY <1>1, <1>4, <2>2, <2>3, <2>5, Zenon
<1>7. TakeBlock(len, Copied(block, len), received_content_len + len,
                received_content_len + len = Piece)
  BY <1>1 DEF DataBlock
<1>8. Answered' /\ req_buf_len' = 0
  BY <1>5, <1>7 DEF TakeBlock, Answered, sent
<1>9. received_content_len + len = q - h /\ q \in 0 .. Len(s) /\ Piece = Len(s) - h
  BY <1>1, <1>3, <1>4, <1>5 DEF Piece
<1>10. CASE q = Len(s)
  <2>1. received_content_len + len = Piece
    BY <1>9, <1>10
  <2>2. state' = "HEADER_METHOD"
    BY <1>5, <1>7, <2>1 DEF TakeBlock, server_clear_req
  <2>3. m.pieces = <<SubSeq(s, h + 1, Len(s))>>
    <3>1. IsPlain(m, h)
      BY DEF InPlain
    <3>2. PICK n \in 1 .. Len(s) : Len(s) = h + n /\ m.pieces = <<SubSeq(s, h + 1, h + n)>>
      BY <1>3, <3>1 DEF IsPlain
    <3> QED
      BY <3>2, Zenon
  <2>4. got' = m.pieces
    BY <1>6, <1>10, <2>3
  <2> QED
    BY <1>1, <1>3, <1>4, <1>8, <1>10, <2>2, <2>4 DEF IsOver
<1>11. CASE q # Len(s)
  <2>1. received_content_len + len # Piece
    BY <1>5, <1>9, <1>11
  <2>2. state' = state /\ req' = req
    BY <1>5, <1>7, <2>1 DEF TakeBlock
  <2>3. q \in h .. Len(s) - 1
    BY <1>4, <1>5, <1>9, <1>11
  <2>4. InPlain(m, h, q)'
    <3>1. IsPlain(m, h)
      BY DEF InPlain
    <3>2. received_content_len' = q - h
      BY <1>2, <1>9
    <3> QED
      BY <1>3, <1>5, <1>6, <1>8, <2>2, <2>3, <3>1, <3>2 DEF InPlain
  <2> QED
    BY <1>1, <1>4, <1>8, <2>4
<1> QED
  BY <1>10, <1>11

-------------------------------------------------------------------------------
(* A body in chunks.                                                          *)

\* A chunk is one of the pieces or the last, empty one.
LEMMA PieceIs ==
  ASSUME NEW m \in Message, NEW i \in Nat
  PROVE  /\ IsPiece(m, i) => IsChunk(m, i) /\ ~IsLast(m, i) /\ IsChunk(m, i + 1)
         /\ IsChunk(m, i) /\ ~IsLast(m, i) => IsPiece(m, i)
         /\ IsPiece(m, i) => m.pieces[i] \in Seq(Char)
         /\ \E n \in Nat : n = Len(m.pieces)
  BY DEF Message, IsPiece, IsChunk, IsLast

\* Where chunk i begins: behind a line end, with its size on a line.
LEMMA ChunkShape ==
  ASSUME NEW m \in Message, NEW h, IsHeader(m, h), NEW off, Offsets(m, h, off),
         NEW i \in Nat, IsChunk(m, i), NEW o, o = off[i], NEW z \in Nat, z = Len(m.chars)
  PROVE  /\ o \in Nat /\ o >= 1 /\ o + 3 <= z /\ m.chars[o] = LF /\ m.chars[o + 2] = LF
         /\ IsLast(m, i) => z = o + 3 /\ m.chars[o + 1] = ChunkSize(0) /\ m.chars[o + 3] = LF
         /\ IsPiece(m, i) => /\ Len(m.pieces[i]) > 0
                             /\ m.chars[o + 1] = ChunkSize(Len(m.pieces[i]))
                             /\ off[i + 1] = o + Len(m.pieces[i]) + 3 /\ off[i + 1] < z
<1>1. m.pieces \in Seq(Seq(Char))
  BY DEF Message
<1>2. PICK n \in Nat : n = Len(m.pieces)
  BY <1>1
<1>3. \A k \in 1 .. n : Len(m.pieces[k]) \in Nat
  BY <1>1, <1>2
<1>4. h \in Nat /\ h >= 3 /\ m.chars[h] = LF
  BY DEF IsHeader, Offsets
<1>5. off \in [1 .. n + 1 -> 0 .. z] /\ off[1] = h /\ AreChunks(m, off)
  BY <1>2 DEF Offsets
<1>6. \A k \in 1 .. n + 1 : off[k] \in Nat
  BY <1>5
<1>7. \A k \in 1 .. n :
          /\ Len(m.pieces[k]) > 0 /\ off[k + 1] = off[k] + Len(m.pieces[k]) + 3
          /\ off[k + 1] < z
          /\ m.chars[off[k] + 1] = ChunkSize(Len(m.pieces[k])) /\ m.chars[off[k] + 2] = LF
          /\ m.chars[off[k + 1]] = LF
  BY <1>2, <1>5 DEF AreChunks
<1>8. /\ z = off[n + 1] + 3
      /\ m.chars[off[n + 1] + 1] = ChunkSize(0)
      /\ m.chars[off[n + 1] + 2] = LF /\ m.chars[off[n + 1] + 3] = LF
  BY <1>2, <1>5 DEF AreChunks
<1>9. i \in 1 .. n + 1 /\ (IsLast(m, i) <=> i = n + 1) /\ (IsPiece(m, i) <=> i \in 1 .. n)
  BY <1>2 DEF IsChunk, IsLast, IsPiece
<1>10. m.chars[o] = LF /\ o \in Nat /\ o >= 1
  <2>1. CASE i = 1
    BY <1>4, <1>5, <2>1
  <2>2. CASE i # 1
    <3>1. PICK k \in 1 .. n : i = k + 1
      <4>1. i - 1 \in 1 .. n /\ i = (i - 1) + 1
        BY <1>9, <2>2
      <4> QED
        BY <4>1
    <3>2. PICK x \in Nat : x = off[k]
      BY <1>6
    <3>3. PICK y \in Nat : y = Len(m.pieces[k])
      BY <1>3
    <3>4. m.chars[o] = LF /\ o = x + y + 3
      BY <1>7, <3>1, <3>2, <3>3
    <3> QED
      BY <3>4
  <2> QED
    BY <2>1, <2>2
<1>11. CASE i = n + 1
  <2>1. /\ z = o + 3 /\ m.chars[o + 1] = ChunkSize(0)
        /\ m.chars[o + 2] = LF /\ m.chars[o + 3] = LF
    BY <1>8, <1>11
  <2>2. o + 3 <= z
    BY <1>10, <2>1
  <2>3. ~IsPiece(m, i)
    BY <1>9, <1>11
  <2> QED
    BY <1>10, <2>1, <2>2, <2>3
<1>12. CASE i # n + 1
  <2>1. i \in 1 .. n
    BY <1>9, <1>12
  <2>2. PICK k \in Nat : k = Len(m.pieces[i])
    BY <1>3, <2>1
  <2>3. /\ off[i + 1] = o + k + 3 /\ off[i + 1] < z
        /\ m.chars[o + 1] = ChunkSize(k) /\ m.chars[o + 2] = LF /\ k > 0
    BY <1>7, <2>1, <2>2
  <2>4. o + k + 3 < z
    BY <2>3, Zenon
  <2>5. o + 3 <= z
    BY <1>10, <2>4
  <2> QED
    BY <1>9, <1>10, <1>12, <2>2, <2>3, <2>5
<1> QED
  BY <1>11, <1>12

\* A chunk's characters from its first on.
HoldsAt(s, t, o) == /\ o + Len(t) + 3 < Len(s)
                    /\ \A j \in 1 .. Len(t) : s[o + 2 + j] = t[j]
Ends(s, a, e, t) == /\ a \in 1 .. Len(s) + 1 /\ e \in Nat /\ e < Len(s)
                    /\ SubSeq(s, a, e) = t

\* What those characters are when cut out.
LEMMA CutOut ==
  ASSUME NEW s \in Seq(Char), NEW t \in Seq(Char), NEW n \in Nat, Len(t) = n, NEW o \in Nat,
         NEW a \in Nat, a = o + 3, NEW e \in Nat, e = o + 2 + n, HoldsAt(s, t, o)
  PROVE  Ends(s, a, e, t)
<1>0. o + n + 3 < Len(s) /\ \A j \in 1 .. n : s[o + 2 + j] = t[j]
  BY DEF HoldsAt
<1>1. PICK u : u = SubSeq(s, a, e)
  OBVIOUS
<1>2. a \in 1 .. Len(s) + 1 /\ e \in a - 1 .. Len(s) /\ e - a + 1 = n /\ e < Len(s)
  BY <1>0
<1>3. u \in Seq(Char) /\ Len(u) = n /\ \A j \in 1 .. n : u[j] = s[a + j - 1]
  BY <1>1, <1>2, SubSeqIs
<1>4. \A j \in 1 .. n : u[j] = t[j]
  <2>1. TAKE j \in 1 .. n
  <2>2. a + j - 1 = o + 2 + j
    OBVIOUS
  <2> QED
    BY <1>0, <1>3, <2>2
<1>5. u = t
  BY <1>3, <1>4, SameSeq
<1> QED
  BY <1>1, <1>2, <1>5 DEF Ends

\* Every chunk is where off says.
LEMMA ChunkIsAt ==
  ASSUME NEW m \in Message, NEW h, IsHeader(m, h), NEW off, Offsets(m, h, off),
         NEW i \in Nat, IsChunk(m, i)
  PROVE  \E o \in Nat, n \in Nat : ChunkAt(m, off, i, o, n)
<1>0. IsPiece(m, i) => /\ Len(m.pieces[i]) > 0
                       /\ m.chars[off[i] + 1] = ChunkSize(Len(m.pieces[i]))
                       /\ off[i + 1] = off[i] + Len(m.pieces[i]) + 3
                       /\ off[i + 1] < Len(m.chars)
  <2>1. Len(m.chars) \in Nat
    BY DEF Message
  <2> QED
    BY <2>1, ChunkShape
<1>1. PICK s \in Seq(Char) : s = m.chars
  BY DEF Message
<1>2. PICK z \in Nat : z = Len(s)
  OBVIOUS
<1>3. PICK o : o = off[i]
  OBVIOUS
<1>4. o \in Nat /\ o >= 1 /\ o + 3 <= z /\ s[o] = LF /\ s[o + 2] = LF
  BY <1>1, <1>2, <1>3, ChunkShape
<1>5. CASE IsLast(m, i)
  <2>1. z = o + 3 /\ s[o + 1] = ChunkSize(0) /\ s[o + 3] = LF
    BY <1>1, <1>2, <1>3, <1>5, ChunkShape
  <2>2. ~IsPiece(m, i)
    BY <1>5, PieceIs
  <2>3. ChunkAt(m, off, i, o, 0)
    BY <1>1, <1>2, <1>3, <1>4, <2>1, <2>2 DEF ChunkAt
  <2> QED
    BY <1>4, <2>3
<1>6. CASE ~IsLast(m, i)
  <2>1. IsPiece(m, i)
    BY <1>6, PieceIs
  <2>2. PICK t \in Seq(Char) : t = m.pieces[i]
    BY <2>1, PieceIs
  <2>3. PICK n \in Nat : n = Len(t)
    OBVIOUS
  <2>4. /\ n > 0 /\ s[o + 1] = ChunkSize(n)
        /\ off[i + 1] = o + n + 3 /\ off[i + 1] < z
    <3>1. /\ Len(m.pieces[i]) > 0 /\ m.chars[o + 1] = ChunkSize(Len(m.pieces[i]))
          /\ off[i + 1] = o + Len(m.pieces[i]) + 3 /\ off[i + 1] < z
      <4>1. z = Len(m.chars)
        BY <1>1, <1>2
      <4> QED
        BY <1>0, <1>3, <2>1, <4>1, Zenon
    <3>2. n = Len(m.pieces[i])
      BY <2>2, <2>3
    <3>3. n > 0 /\ off[i + 1] = o + n + 3 /\ off[i + 1] < z
      BY <3>1, <3>2, Zenon
    <3>4. m.chars[o + 1] = ChunkSize(n)
      BY <3>1, <3>2, Zenon
    <3>5. s[o + 1] = ChunkSize(n)
      BY <1>1, <3>4, Zenon
    <3> QED
      BY <3>3, <3>5, Zenon
  <2>5. o + n + 3 < z
    BY <2>4, Zenon
  <2>6. \A j \in 1 .. Len(t) : s[o + 2 + j] = t[j]
    <3>1. i \in 1 .. Len(m.pieces) /\ AreChunks(m, off)
      BY <2>1 DEF IsPiece, Offsets
    <3> QED
      BY <1>1, <1>3, <2>2, <3>1 DEF AreChunks
  <2>7. HoldsAt(s, t, o)
    BY <1>2, <2>3, <2>5, <2>6 DEF HoldsAt
  <2>8. PICK a \in Nat, e \in Nat : a = o + 3 /\ e = o + 2 + n
    BY <1>4
  <2>9. Ends(s, a, e, t)
    BY <1>4, <2>3, <2>7, <2>8, CutOut
  <2>10. SubSeq(s, o + 3, o + 2 + n) = t
    BY <2>8, <2>9 DEF Ends
  <2>11. ChunkAt(m, off, i, o, n)
    BY <1>1, <1>2, <1>3, <1>4, <1>6, <2>2, <2>3, <2>4, <2>5, <2>10 DEF ChunkAt
  <2> QED
    BY <1>4, <2>11
<1> QED
  BY <1>5, <1>6

\* The parts of a request are sequences.
LEMMA HasPieces ==
  ASSUME NEW m \in Message
  PROVE  /\ m.pieces \in Seq(Seq(Char)) /\ Len(m.pieces) \in Nat
         /\ m.chars \in Seq(Char) /\ Len(m.chars) \in Nat
  BY DEF Message

\* A block is what comes behind character p.
Ahead(m, p, block) == /\ p + Len(block) <= Len(m.chars)
                      /\ \A k \in 1 .. Len(block) : block[k] = m.chars[p + k]

\* A character of the line with the size of a chunk.
LEMMA ChunkHeaderMoves ==
  ASSUME IInv, NEW m \in Message, NEW off, NEW i \in Nat, NEW o \in Nat, NEW n \in Nat,
         IsChunk(m, i), ChunkAt(m, off, i, o, n), NEW p \in Nat,
         Answered, InChunkHeader(m, i, o, p), Parses(m.chars[p + 1]), Deliver
  PROVE  Answered' /\ InChunk(m, i, o, n, p + 1)'
<1>1. PICK s \in Seq(Char) : s = m.chars
  BY DEF Message
<1>2. o >= 1 /\ o + 3 <= Len(s) /\ s[o] = LF /\ s[o + 1] = ChunkSize(n) /\ s[o + 2] = LF
  BY <1>1 DEF ChunkAt
<1>3. /\ state = "CHUNK_DATA_HEADER" /\ LineAt(m, p) /\ got = SubSeq(m.pieces, 1, i - 1)
      /\ p \in o .. o + 1 /\ TypeOK /\ received_content_len = 0
  BY DEF InChunkHeader, IInv, Modes, BodyMatchesRequest
<1>4. ChunkSize(n) # LF
  BY DEF ChunkSize, LF
<1>5. CASE p = o
  <2>1. s[p + 1] = ChunkSize(n) /\ ChunkSize(n) \in Char
    BY <1>2, <1>5 DEF ChunkSize, Char, Kinds
  <2>2. req_buf_len = 0
    BY <1>1, <1>2, <1>3, <1>5 DEF LineAt
  <2>3. StoreChar(ChunkSize(n)) /\ req_buf_len' = 1 /\ req_buf'[0] = ChunkSize(n)
    BY <1>1, <1>3, <1>4, <2>1, <2>2, FirstOfLine DEF LineStates
  <2>4. UNCHANGED state /\ Answered'
    BY <2>3 DEF StoreChar, sent, Answered
  <2>5. got' = got
    BY <1>3, <2>4, NothingGiven DEF DataStates
  <2>6. LineAt(m, p + 1)'
    BY <1>1, <1>4, <2>1, <2>3 DEF LineAt
  <2>7. p + 1 \in o .. o + 1
    BY <1>5
  <2> QED
    BY <1>3, <2>4, <2>5, <2>6, <2>7 DEF InChunk, InChunkHeader
<1>6. CASE p = o + 1
  <2>1. s[p + 1] = LF /\ s[p] = ChunkSize(n) /\ p # 0 /\ p + 1 = o + 2
    BY <1>2, <1>6
  <2>2. req_buf_len = 1 /\ req_buf[0] = ChunkSize(n)
    BY <1>1, <1>3, <1>4, <2>1 DEF LineAt
  <2>3. ChunkHeaderLine(LF)
    BY <1>1, <1>3, <2>1, OnlyTakesChunkHeader
  <2>4. Line[0] = ChunkSize(n)
    BY <1>3, <2>2 DEF Line, TypeOK
  <2>5. /\ chunk_len' = n /\ state' = IF n > 0 THEN "CHUNK_DATA" ELSE "CHUNK_FOOTER"
        /\ received_content_len' = 0 /\ Answered' /\ req_buf_len' = 0
    BY <1>3, <2>3, <2>4 DEF ChunkHeaderLine, ChunkSizeOf, ChunkSize, TakeLine, sent, Answered
  <2>6. CASE IsPiece(m, i)
    <3>1. n > 0 /\ state' = "CHUNK_DATA"
      BY <2>5, <2>6 DEF ChunkAt
    <3>2. got' = Append(got, <<>>)
      BY <1>3, <3>1 DEF Deliver, DataStates
    <3>3. SubSeq(s, o + 3, o + 2) = <<>>
      OBVIOUS
    <3>4. p + 1 \in o + 2 .. o + 1 + n /\ (p + 1) - (o + 2) = 0
      BY <1>6, <3>1
    <3>5. SubSeq(m.chars, o + 3, p + 1) = <<>>
      BY <1>1, <2>1, <3>3
    <3>6. InChunkData(m, i, o, n, p + 1)'
      BY <1>3, <2>5, <2>6, <3>1, <3>2, <3>4, <3>5 DEF InChunkData
    <3> QED
      BY <2>5, <3>6 DEF InChunk
  <2>7. CASE IsLast(m, i)
    <3>1. n = 0
      BY <2>7 DEF ChunkAt
    <3>2. state' = "CHUNK_FOOTER"
      BY <2>5, <3>1
    <3>3. got' = got
      BY <1>3, <3>2, NothingGiven DEF DataStates
    <3>4. got' = m.pieces
      <4>1. PICK t \in Seq(Seq(Char)) : t = m.pieces
        BY HasPieces
      <4>2. i - 1 = Len(t)
        BY <2>7, <4>1 DEF IsLast
      <4>3. SubSeq(t, 1, Len(t)) = t
        BY <4>1
      <4> QED
        BY <1>3, <3>3, <4>1, <4>2, <4>3
    <3> QED
      BY <2>1, <2>5, <2>7, <3>2, <3>4 DEF InChunk, InFooter
  <2> QED
    BY <2>6, <2>7, PieceIs
<1> QED
  BY <1>3, <1>5, <1>6

\* A block of the data of a chunk.
LEMMA ChunkDataMoves ==
  ASSUME IInv, NEW m \in Message, NEW off, NEW i \in Nat, NEW o \in Nat, NEW n \in Nat,
         ChunkAt(m, off, i, o, n), NEW p \in Nat, Answered, InChunkData(m, i, o, n, p),
         NEW block \in Seq(Char), Ahead(m, p, block), DataBlock(block), Deliver,
         NEW q \in Nat, NEW len \in Nat, len = Len(block), q = p + len
  PROVE  Answered' /\ InChunk(m, i, o, n, q)'
<1>0. /\ q = o + 2 + n <=> q - (o + 2) = n
      /\ q >= o + 2 /\ q <= o + 2 + n /\ q # o + 2 + n => q \in o + 2 .. o + 1 + n
  OBVIOUS
<1>1. PICK s \in Seq(Char) : s = m.chars
  BY HasPieces
<1>2. /\ len \in 1 .. REQ_BUF_MAX /\ len <= Remaining
      /\ received_content_len' = received_content_len + len /\ Given0 = block
  BY <1>1, BlockGiven
<1>3. IsPiece(m, i)
  BY DEF InChunkData
<1>4. PICK t \in Seq(Seq(Char)) : t = m.pieces
  BY HasPieces
<1>5. i \in 1 .. Len(t)
  BY <1>3, <1>4 DEF IsPiece
<1>6. /\ n > 0 /\ o + n + 3 < Len(s) /\ SubSeq(s, o + 3, o + 2 + n) = t[i]
  BY <1>1, <1>3, <1>4 DEF ChunkAt
<1>7. PICK head : head = SubSeq(t, 1, i - 1)
  OBVIOUS
<1>8. head \in Seq(Seq(Char)) /\ Append(head, t[i]) = SubSeq(t, 1, i) /\ t[i] \in Seq(Char)
  BY <1>5, <1>7, PrefixGrows
<1>9. PICK a \in 1 .. Len(s) + 1 : a = o + 3
  <2>1. o + 3 \in 1 .. Len(s) + 1
    BY <1>6
  <2> QED
    BY <2>1
<1>10. PICK x : x = SubSeq(s, a, p)
  OBVIOUS
<1>11. /\ state = "CHUNK_DATA" /\ req_buf_len = 0 /\ chunk_len = n /\ req.chunked
       /\ received_content_len = p - (o + 2) /\ p \in o + 2 .. o + 1 + n
       /\ got = Append(head, x)
  BY <1>1, <1>4, <1>7, <1>9, <1>10 DEF InChunkData, IInv, Modes, BodyMatchesRequest, ChunkStates
<1>12. q = p + len /\ Piece = n /\ Remaining = n - (p - (o + 2))
  BY <1>1, <1>11 DEF Piece, Remaining
<1>13. received_content_len + len = q - (o + 2) /\ q <= o + 2 + n /\ q > p
  BY <1>2, <1>11, <1>12
<1>14. got' = Append(head, SubSeq(s, a, q))
  <2>1. p \in a - 1 .. Len(s)
    BY <1>6, <1>9, <1>11
  <2>2. x \in Seq(Char)
    BY <1>10, <2>1, SubSeqIs
  <2>3. PICK y \in Seq(Char) : y = x \o block
    BY <2>2, ConcatIs
  <2>4. y = SubSeq(s, a, q)
    <3>1. p + Len(block) <= Len(s) /\ \A k \in 1 .. Len(block) : block[k] = s[p + k]
      BY <1>1 DEF Ahead
    <3>2. SubSeq(s, a, p) \o block = SubSeq(s, a, p + Len(block))
      BY <2>1, <3>1, Joined
    <3> QED
      BY <1>10, <2>3, <3>2, Zenon
  <2>5. got' = [got EXCEPT ![Len(got)] = got[Len(got)] \o block]
    BY <1>2, <1>11 DEF Deliver, DataStates
  <2>6. got[Len(got)] = x
    <3>1. Len(got) = Len(head) + 1 /\ got[Len(head) + 1] = x
      BY <1>8, <1>11, <2>2, AppendIs
    <3> QED
      BY <3>1
  <2>7. got' = [Append(head, x) EXCEPT ![Len(Append(head, x))] = y]
    BY <1>11, <2>3, <2>5, <2>6
  <2>8. got' = Append(head, y)
    BY <1>8, <2>2, <2>7, LastGrows
  <2> QED
    BY <2>4, <2>8
<1>15. TakeBlock(len, Copied(block, len), received_content_len + len,
                 received_content_len + len = Piece)
  BY <1>1 DEF DataBlock
<1>16. Answered' /\ req_buf_len' = 0 /\ chunk_len' = n
  BY <1>11, <1>15 DEF TakeBlock, Answered, sent
<1>17. CASE q = o + 2 + n
  <2>1. received_content_len + len = Piece
    BY <1>0, <1>12, <1>13, <1>17, Zenon
  <2>2. state' = "CHUNK_DATA_END"
    BY <1>11, <1>15, <2>1 DEF TakeBlock
  <2>3. got' = SubSeq(t, 1, i)
    BY <1>6, <1>8, <1>9, <1>14, <1>17
  <2> QED
    BY <1>3, <1>4, <1>16, <1>17, <2>2, <2>3 DEF InChunk, InChunkEnd
<1>18. CASE q # o + 2 + n
  <2>1. received_content_len + len # Piece
    BY <1>0, <1>12, <1>13, <1>18, Zenon
  <2>2. state' = "CHUNK_DATA"
    BY <1>11, <1>15, <2>1 DEF TakeBlock
  <2>3. q \in o + 2 .. o + 1 + n
    <3>1. q >= o + 2 /\ q <= o + 2 + n
      BY <1>11, <1>13
    <3> QED
      BY <1>0, <1>18, <3>1, Zenon
  <2>4. received_content_len' = q - (o + 2)
    BY <1>2, <1>13
  <2>5. got' = Append(SubSeq(m.pieces, 1, i - 1), SubSeq(m.chars, o + 3, q))
    BY <1>1, <1>4, <1>7, <1>9, <1>14
  <2>6. InChunkData(m, i, o, n, q)'
    BY <1>3, <1>16, <2>2, <2>3, <2>4, <2>5 DEF InChunkData
  <2> QED
    BY <1>16, <2>6 DEF InChunk
<1> QED
  BY <1>17, <1>18

\* Behind the data of a chunk comes the next one.
LEMMA NextChunk ==
  ASSUME NEW m \in Message, NEW h, IsHeader(m, h), NEW off, Offsets(m, h, off),
         NEW i \in Nat, NEW o \in Nat, NEW n \in Nat, ChunkAt(m, off, i, o, n), IsPiece(m, i)
  PROVE  \E j \in Nat, e \in Nat, k \in Nat :
            j - 1 = i /\ e = o + n + 3 /\ IsChunk(m, j) /\ ChunkAt(m, off, j, e, k)
<1>1. PICK j \in Nat : j = i + 1
  OBVIOUS
<1>2. IsChunk(m, j) /\ j - 1 = i
  BY <1>1, PieceIs
<1>3. PICK e \in Nat, k \in Nat : ChunkAt(m, off, j, e, k)
  BY <1>2, ChunkIsAt
<1>4. e = off[j] /\ off[j] = o + n + 3
  BY <1>1, <1>3 DEF ChunkAt
<1> QED
  BY <1>2, <1>3, <1>4

\* The line end behind the data of a chunk.
LEMMA ChunkEndMoves ==
  ASSUME IInv, NEW m \in Message, NEW i \in Nat, NEW o \in Nat, NEW n \in Nat, NEW off,
         NEW j \in Nat, NEW e \in Nat, NEW k \in Nat, j - 1 = i, e = o + n + 3,
         ChunkAt(m, off, j, e, k), NEW p \in Nat,
         Answered, InChunkEnd(m, i, o, n, p), Parses(m.chars[p + 1]), Deliver
  PROVE  Answered' /\ InChunk(m, j, e, k, p + 1)'
<1>1. PICK s \in Seq(Char) : s = m.chars
  BY DEF Message
<1>2. s[e] = LF
  BY <1>1 DEF ChunkAt
<1>3. state = "CHUNK_DATA_END" /\ got = SubSeq(m.pieces, 1, j - 1) /\ p + 1 = e
  BY DEF InChunkEnd
<1>4. ChunkDataEndLine(LF)
  BY <1>1, <1>2, <1>3, OnlyTakesChunkEnd
<1>5. state' = "CHUNK_DATA_HEADER" /\ req_buf_len' = 0 /\ Answered'
  BY <1>4 DEF ChunkDataEndLine, TakeLine, sent, Answered
<1>6. got' = got
  BY <1>3, <1>5, NothingGiven DEF DataStates
<1>7. LineAt(m, p + 1)'
  BY <1>1, <1>2, <1>3, <1>5 DEF LineAt
<1>8. p + 1 \in e .. e + 1
  BY <1>3
<1> QED
  BY <1>3, <1>5, <1>6, <1>7, <1>8 DEF InChunk, InChunkHeader

\* The blank line behind the last chunk.
LEMMA FooterMoves ==
  ASSUME IInv, NEW m \in Message, NEW off, NEW i \in Nat, NEW o \in Nat, NEW n \in Nat,
         ChunkAt(m, off, i, o, n), NEW p \in Nat,
         Answered, InFooter(m, i, o, p), Parses(m.chars[p + 1]), Deliver
  PROVE  Answered' /\ IsOver(m, p + 1)'
<1>1. PICK s \in Seq(Char) : s = m.chars
  BY DEF Message
<1>2. /\ state = "CHUNK_FOOTER" /\ req_buf_len = 0 /\ got = m.pieces /\ p + 1 = o + 3
      /\ IsLast(m, i)
  BY DEF InFooter
<1>3. Len(s) = o + 3 /\ s[o + 3] = LF
  BY <1>1, <1>2 DEF ChunkAt
<1>4. ChunkFooterLine(LF)
  BY <1>1, <1>2, <1>3, OnlyTakesFooter
<1>5. state' = "HEADER_METHOD" /\ req_buf_len' = 0 /\ Answered'
  BY <1>2, <1>4 DEF ChunkFooterLine, TakeLine, LineEmpty, server_clear_req, sent, Answered
<1>6. got' = got
  BY <1>2, <1>5, NothingGiven DEF DataStates
<1> QED
  BY <1>1, <1>2, <1>3, <1>5, <1>6 DEF IsOver

-------------------------------------------------------------------------------
(* The end of the header: the request is answered and its body expected.      *)

\* At the blank line the header is read to its end.
LEMMA HeaderEndsReady ==
  ASSUME IInv, NEW m \in Message, NEW h \in 1 .. Len(m.chars), IsHeader(m, h),
         InHeader(m, h, h - 1), Parses(m.chars[h])
  PROVE  /\ state = "HEADER_FIELDS" /\ req.method # "_BAD_REQ" /\ FieldsRead(m, h)
         /\ req_buf_len = 0 /\ \E r \in RESPONSES : ServeRequest(LF, r)
<1>1. h \in Nat /\ h >= 3 /\ m.chars[h - 1] = LF /\ m.chars[h] = LF
  BY HeaderShape
<1>2. h - 1 \in Nat /\ h - 1 >= 2 /\ (h - 1) - 1 = h - 2
  BY <1>1
<1>3. /\ state = "HEADER_FIELDS" /\ req.method # "_BAD_REQ"
      /\ FieldsRead(m, (h - 1) - 1) /\ req_buf_len = 0
  BY <1>1, <1>2 DEF InHeader, LineAt
<1>4. FieldsRead(m, h - 1)
  BY <1>1, <1>2, <1>3, FieldsReadSame
<1>5. FieldsRead(m, h)
  BY <1>1, <1>4, FieldsReadSame
<1>6. LineEmpty /\ Parses(LF)
  BY <1>1, <1>3 DEF LineEmpty
<1> QED
  BY <1>3, <1>5, <1>6, OnlyServes

\* The request is answered, and the body that comes is the one announced.
LEMMA HeaderEnds ==
  ASSUME IInv, NEW m \in Message, NEW h \in 1 .. Len(m.chars), IsHeader(m, h),
         InHeader(m, h, h - 1), Parses(m.chars[h]), Deliver,
         IsBare(m, h) \/ IsPlain(m, h) \/ IsChunked(m, h)
  PROVE  Answered' /\ (InPlain(m, h, h)' \/ InChunks(m, h, h)' \/ IsOver(m, h)')
<1>1. /\ state = "HEADER_FIELDS" /\ req.method # "_BAD_REQ" /\ FieldsRead(m, h)
      /\ req_buf_len = 0 /\ \E r \in RESPONSES : ServeRequest(LF, r)
  BY HeaderEndsReady
<1>2. PICK r \in RESPONSES : ServeRequest(LF, r)
  BY <1>1
<1>3. /\ TypeOK /\ answered = 0 /\ got = <<>> /\ req \in Request
      /\ h \in Nat /\ h >= 3 /\ m.chars[h] = LF
      /\ m.chars \in Seq(Char) /\ Len(m.chars) \in Nat /\ h <= Len(m.chars)
  <2>1. TypeOK /\ answered = 0 /\ got = <<>> /\ req \in Request
    BY <1>1 DEF IInv, TypeOK, Modes, AnsweredBeforeBody, InHeader
  <2>2. h \in Nat /\ h >= 3 /\ m.chars[h] = LF
    BY HeaderShape
  <2>3. m.chars \in Seq(Char) /\ Len(m.chars) \in Nat /\ h <= Len(m.chars)
    BY DEF Message
  <2> QED
    BY <2>1, <2>2, <2>3
<1>4. ASSUME Announce(r) PROVE Answered'
  BY <1>3, <1>4, AnnounceFacts DEF Answered
<1>5. ASSUME HeaderEnd(LF) PROVE req_buf_len' = 0
  BY <1>5 DEF HeaderEnd, TakeLine
<1>6. ASSUME NEW len \in Nat, AnnouncesLength(m, h, len)
      PROVE  /\ ~req.chunked /\ req.content_length = len
             /\ len > 0 => req.content_type \notin {Multipart, MultipartNoId}
  <2>1. ~req.chunked
    BY <1>1, <1>6 DEF FieldsRead, AnnouncesLength
  <2>2. req.content_length = len
    <3>1. CASE Fields(m, h, "Content-Length") = {}
      BY <1>1, <1>6, <3>1 DEF FieldsRead, AnnouncesLength
    <3>2. CASE Fields(m, h, "Content-Length") # {}
      BY <1>1, <1>6, <3>2 DEF FieldsRead, AnnouncesLength
    <3> QED
      BY <3>1, <3>2
  <2>3. len > 0 => req.content_type \notin {Multipart, MultipartNoId}
    BY <1>1, <1>6 DEF FieldsRead, AnnouncesLength, Plain, Multipart, MultipartNoId
  <2> QED
    BY <2>1, <2>2, <2>3
<1>7. CASE IsBare(m, h)
  <2>1. ~req.chunked /\ req.content_length = 0
    BY <1>6, <1>7 DEF IsBare
  <2>2. NoBody(LF, r)
    BY <1>2, <2>1 DEF ServeRequest, ChunkedBody, PlainBody, MultipartBody, BadBody, Refused
  <2>3. state' = "HEADER_METHOD" /\ Answered' /\ req_buf_len' = 0
    BY <1>4, <1>5, <2>2 DEF NoBody, server_clear_req
  <2>4. got' = <<>>
    BY <1>1, <1>3, <2>3, NothingGiven DEF DataStates
  <2>5. h = Len(m.chars) /\ m.pieces = <<>>
    BY <1>7 DEF IsBare
  <2> QED
    BY <2>3, <2>4, <2>5 DEF IsOver
<1>8. CASE IsPlain(m, h)
  <2>1. PICK len \in 1 .. Len(m.chars) : AnnouncesLength(m, h, len) /\ Len(m.chars) = h + len
    BY <1>8 DEF IsPlain
  <2>2. /\ ~req.chunked /\ req.content_length = len /\ len > 0
        /\ req.content_type \notin {Multipart, MultipartNoId}
    BY <1>6, <2>1
  <2>3. PlainBody(LF, r)
    BY <1>2, <2>2 DEF ServeRequest, NoBody, ChunkedBody, MultipartBody, BadBody, Refused
  <2>4. /\ state' = "CONTENT" /\ Answered' /\ req_buf_len' = 0
        /\ received_content_len' = 0 /\ req'.content_length = len
    BY <1>3, <1>4, <1>5, <2>2, <2>3 DEF PlainBody, Served, Request
  <2>5. got' = <<<<>>>>
    BY <1>1, <1>3, <2>4 DEF Deliver, DataStates
  <2>6. SubSeq(m.chars, h + 1, h) = <<>>
    BY <1>3
  <2>7. h \in h .. Len(m.chars) - 1 /\ h - h = 0 /\ len = Len(m.chars) - h
    BY <1>3, <2>1
  <2> QED
    BY <1>8, <2>4, <2>5, <2>6, <2>7 DEF InPlain
<1>9. CASE IsChunked(m, h)
  <2>1. AnnouncesChunks(m, h)
    BY <1>9 DEF IsChunked
  <2>2. req.content_length = 0
    BY <1>1, <2>1 DEF FieldsRead, AnnouncesChunks
  <2>3. req.chunked
    BY <1>1, <2>1 DEF FieldsRead, AnnouncesChunks
  <2>4. ChunkedBody(LF, r)
    BY <1>2, <2>2, <2>3 DEF ServeRequest, NoBody, PlainBody, MultipartBody, BadBody, Refused
  <2>5. /\ state' = "CHUNK_DATA_HEADER" /\ Answered' /\ req_buf_len' = 0
    BY <1>4, <1>5, <2>4 DEF ChunkedBody
  <2>6. got' = <<>>
    BY <1>1, <1>3, <2>5, NothingGiven DEF DataStates
  <2>7. PICK off \in [1 .. Len(m.pieces) + 1 -> 0 .. Len(m.chars)] : Offsets(m, h, off)
    BY <1>9 DEF IsChunked, Offsets
  <2>8. IsChunk(m, 1) /\ off[1] = h
    BY <2>7, HasPieces DEF IsChunk, Offsets
  <2>9. PICK o \in Nat, n \in Nat : ChunkAt(m, off, 1, o, n)
    BY <2>7, <2>8, ChunkIsAt
  <2>10. InChunk(m, 1, o, n, h)'
    <3>1. o = h
      BY <2>8, <2>9 DEF ChunkAt
    <3>2. LineAt(m, h)'
      BY <1>3, <2>5 DEF LineAt
    <3>3. h \in o .. o + 1
      BY <1>3, <3>1
    <3>4. SubSeq(m.pieces, 1, 1 - 1) = <<>>
      BY HasPieces
    <3> QED
      BY <2>5, <2>6, <3>2, <3>3, <3>4 DEF InChunk, InChunkHeader
  <2>11. InChunks(m, h, h)'
    BY <2>7, <2>8, <2>9, <2>10 DEF InChunks
  <2> QED
    BY <2>5, <2>11
<1> QED
  BY <1>7, <1>8, <1>9

-------------------------------------------------------------------------------
(* Every step of the client and the server.                                   *)

\* Only a request that is over was sent to its end.
LEMMA PlacesIn ==
  ASSUME NEW m \in Message, NEW h \in Nat, NEW p \in Nat, IsHeader(m, h)
  PROVE  /\ InHeader(m, h, p) => p < Len(m.chars)
         /\ InPlain(m, h, p) => p < Len(m.chars)
<1>1. Len(m.chars) \in Nat /\ h <= Len(m.chars)
  BY HasPieces DEF IsHeader
<1> QED
  BY <1>1 DEF InHeader, InPlain

LEMMA PlacesInChunk ==
  ASSUME NEW m \in Message, NEW off, NEW i, NEW o \in Nat, NEW n \in Nat, NEW p \in Nat,
         ChunkAt(m, off, i, o, n), InChunk(m, i, o, n, p)
  PROVE  p < Len(m.chars)
<1>1. PICK z \in Nat : z = Len(m.chars)
  BY HasPieces
<1>2. o + 3 <= z /\ (IsPiece(m, i) => o + n + 3 < z)
  BY <1>1 DEF ChunkAt
<1>3. \/ p \in o .. o + 1
      \/ IsPiece(m, i) /\ p \in o + 2 .. o + 1 + n
      \/ IsPiece(m, i) /\ p = o + 2 + n
      \/ p = o + 2
  BY DEF InChunk, InChunkHeader, InChunkData, InChunkEnd, InFooter
<1>4. p < z
  BY <1>2, <1>3
<1> QED
  BY <1>1, <1>4

\* A character of the request.
LEMMA CharacterMoves ==
  ASSUME IInv, NEW m \in Message, NEW h \in 1 .. Len(m.chars), HasShape(m, h),
         NEW p \in Nat, p < Len(m.chars), Reached(m, h, p), Parses(m.chars[p + 1]), Deliver
  PROVE  Reached(m, h, p + 1)'
<1>1. IsHeader(m, h) /\ (IsBare(m, h) \/ IsPlain(m, h) \/ IsChunked(m, h))
  BY DEF HasShape
<1>2. h \in Nat /\ h >= 3
  BY <1>1, HeaderShape
<1>3. CASE InHeader(m, h, p)
  <2>1. p <= h - 1
    BY <1>3 DEF InHeader
  <2>2. CASE p = h - 1
    <3>1. h = p + 1
      BY <1>2, <2>2
    <3>2. Answered' /\ (InPlain(m, h, h)' \/ InChunks(m, h, h)' \/ IsOver(m, h)')
      <4>1. InHeader(m, h, h - 1) /\ Parses(m.chars[h])
        BY <1>3, <2>2, <3>1
      <4> QED
        BY <1>1, <4>1, HeaderEnds
    <3>3. Reached(m, h, h)'
      BY <3>2 DEF Reached
    <3> QED
      BY <3>1, <3>3
  <2>3. CASE p # h - 1
    <3>1. p \in 0 .. h - 2
      BY <1>2, <2>1, <2>3
    <3>2. InHeader(m, h, p + 1)'
      BY <1>1, <1>3, <3>1, HeaderStep
    <3> QED
      BY <3>2 DEF Reached
  <2> QED
    BY <2>2, <2>3
<1>4. CASE Answered /\ InPlain(m, h, p)
  <2>1. state = "CONTENT"
    BY <1>4 DEF InPlain
  <2> QED
    BY <2>1, DataTakesBlocks
<1>5. CASE Answered /\ InChunks(m, h, p)
  <2>1. PICK off \in [1 .. Len(m.pieces) + 1 -> 0 .. Len(m.chars)],
             i \in Nat, o \in Nat, n \in Nat :
            /\ Offsets(m, h, off) /\ IsChunk(m, i) /\ ChunkAt(m, off, i, o, n)
            /\ InChunk(m, i, o, n, p)
    BY <1>5 DEF InChunks
  <2>2. ASSUME NEW j \in Nat, NEW e \in Nat, NEW k \in Nat, IsChunk(m, j),
               ChunkAt(m, off, j, e, k), Answered', InChunk(m, j, e, k, p + 1)'
        PROVE  Reached(m, h, p + 1)'
    <3>1. InChunks(m, h, p + 1)'
      BY <2>1, <2>2 DEF InChunks
    <3> QED
      BY <2>2, <3>1 DEF Reached
  <2>3. CASE InChunkHeader(m, i, o, p)
    <3>1. Answered' /\ InChunk(m, i, o, n, p + 1)'
      BY <1>5, <2>1, <2>3, ChunkHeaderMoves
    <3> QED
      BY <2>1, <2>2, <3>1
  <2>4. CASE InChunkData(m, i, o, n, p)
    <3>1. state = "CHUNK_DATA"
      BY <2>4 DEF InChunkData
    <3> QED
      BY <3>1, DataTakesBlocks
  <2>5. CASE InChunkEnd(m, i, o, n, p)
    <3>1. IsPiece(m, i)
      BY <2>5 DEF InChunkEnd
    <3>2. PICK j \in Nat, e \in Nat, k \in Nat :
              j - 1 = i /\ e = o + n + 3 /\ IsChunk(m, j) /\ ChunkAt(m, off, j, e, k)
      BY <1>1, <2>1, <3>1, NextChunk
    <3>3. Answered' /\ InChunk(m, j, e, k, p + 1)'
      BY <1>5, <2>5, <3>2, ChunkEndMoves
    <3> QED
      BY <2>2, <3>2, <3>3
  <2>6. CASE InFooter(m, i, o, p)
    <3>1. Answered' /\ IsOver(m, p + 1)'
      BY <1>5, <2>1, <2>6, FooterMoves
    <3> QED
      BY <3>1 DEF Reached
  <2> QED
    BY <2>1, <2>3, <2>4, <2>5, <2>6 DEF InChunk
<1>6. CASE IsOver(m, p)
  <2>1. Len(m.chars) \in Nat /\ p = Len(m.chars)
    BY <1>6, HasPieces DEF IsOver
  <2> QED
    BY <2>1
<1> QED
  BY <1>3, <1>4, <1>5, <1>6 DEF Reached

\* A block of it.
LEMMA BlockMoves ==
  ASSUME IInv, NEW m \in Message, NEW h \in 1 .. Len(m.chars), HasShape(m, h),
         NEW p \in 0 .. Len(m.chars), Reached(m, h, p),
         NEW block \in Seq(Char), Ahead(m, p, block), DataBlock(block), Deliver
  PROVE  Reached(m, h, p + Len(block))'
<1>1. PICK len \in Nat : len = Len(block)
  OBVIOUS
<1>2. p \in Nat
  BY HasPieces
<1>3. PICK q \in Nat : q = p + len
  BY <1>2
<1>4. state \in {"CONTENT", "CHUNK_DATA"}
  BY DEF DataBlock, TakeBlock
<1>5. ~InHeader(m, h, p) /\ ~IsOver(m, p)
  BY <1>4 DEF InHeader, IsOver
<1>6. CASE Answered /\ InPlain(m, h, p)
  <2>1. p + Len(block) <= Len(m.chars) /\ \A i \in 1 .. Len(block) : block[i] = m.chars[p + i]
    BY DEF Ahead
  <2>2. Answered' /\ (InPlain(m, h, p + Len(block))' \/ IsOver(m, p + Len(block))')
    BY <1>6, <2>1, PlainStep
  <2> QED
    BY <2>2 DEF Reached
<1>7. CASE Answered /\ InChunks(m, h, p)
  <2>1. PICK off \in [1 .. Len(m.pieces) + 1 -> 0 .. Len(m.chars)],
             i \in Nat, o \in Nat, n \in Nat :
            /\ Offsets(m, h, off) /\ IsChunk(m, i) /\ ChunkAt(m, off, i, o, n)
            /\ InChunk(m, i, o, n, p)
    BY <1>7 DEF InChunks
  <2>2. InChunkData(m, i, o, n, p)
    BY <1>4, <2>1 DEF InChunk, InChunkHeader, InChunkEnd, InFooter
  <2>3. Answered' /\ InChunk(m, i, o, n, q)'
    BY <1>1, <1>2, <1>3, <1>7, <2>1, <2>2, ChunkDataMoves
  <2>4. InChunks(m, h, q)'
    BY <2>1, <2>3 DEF InChunks
  <2> QED
    BY <1>1, <1>3, <2>3, <2>4 DEF Reached
<1> QED
  BY <1>5, <1>6, <1>7 DEF Reached

\* Whatever a client sends, the parser's own invariant holds.
LEMMA CharacterKeeps ==
  ASSUME IInv, NEW c \in Char, Parses(c)
  PROVE  IInv'
<1>1. CASE ParseChar(c)
  BY <1>1, StoreCharStep, MethodLineStep, FieldLineStep, BadRequestStep,
     ChunkHeaderLineStep, ChunkDataEndLineStep, ChunkFooterLineStep,
     MultiHeaderLineStep, SectionEndStep, SectionDataStep DEF ParseChar
<1>2. CASE \E r \in RESPONSES : ServeRequest(c, r)
  BY <1>2, NoBodyStep, ChunkedBodyStep, PlainBodyStep, MultipartBodyStep,
     BadBodyStep DEF ServeRequest
<1> QED
  BY <1>1, <1>2 DEF Parses

ClientInv == IInv /\ todo \in Seq(Char) /\ Placed

\* The invariant is kept by each step of the client.
LEMMA BeginKeeps ==
  ASSUME ClientInv, NEW m \in MESSAGES, WellFormed(m), Begin(m)
  PROVE  ClientInv'
<1>1. m \in Message /\ m.chars \in Seq(Char)
  BY ClientAssumption, HasPieces
<1>2. IInv' /\ todo' = m.chars
  <2>1. IInv /\ UNCHANGED vars
    BY DEF ClientInv, Begin
  <2>2. [Next]_vars
    BY <2>1
  <2> QED
    BY <2>1, <2>2, StepKeepsIInv DEF Begin
<1>3. ASSUME began' = "clean" PROVE Placed'
  <2>1. PICK h \in 1 .. Len(m.chars) : HasShape(m, h)
    BY DEF WellFormed, HasShape
  <2>2. state' = "HEADER_METHOD" /\ req_buf_len' = 0 /\ req' = EmptyReq
    <3>1. state = "HEADER_METHOD" /\ req_buf_len = 0
      BY <1>3 DEF Begin
    <3>2. req = EmptyReq
      BY <3>1 DEF ClientInv, IInv, Modes, FreshRequest
    <3> QED
      BY <3>1, <3>2 DEF Begin, vars, parser
  <2>3. InHeader(m, h, 0)'
    <3>1. 0 \in 0 .. h - 1
      OBVIOUS
    <3> QED
      BY <2>2, <3>1 DEF InHeader, LineAt, Begin
  <2>4. todo' = Rest(m, 0)
    <3>1. SubSeq(m.chars, 0 + 1, Len(m.chars)) = m.chars
      BY <1>1
    <3> QED
      BY <1>2, <3>1 DEF Rest
  <2>5. At(m, h, 0)'
    BY <2>1, <2>3, <2>4 DEF At, Reached, Begin
  <2>6. 0 \in 0 .. Len(m.chars)
    BY <1>1
  <2> QED
    BY <2>5, <2>6 DEF Placed
<1>4. Placed'
  BY <1>3 DEF Placed
<1> QED
  BY <1>1, <1>2, <1>4 DEF ClientInv

LEMMA SendCharKeeps ==
  ASSUME ClientInv, SendChar
  PROVE  ClientInv'
<1>1. todo \in Seq(Char) /\ todo # <<>> /\ IInv
  BY DEF ClientInv, SendChar
<1>2. Head(todo) \in Char /\ todo' \in Seq(Char)
  BY <1>1 DEF SendChar
<1>3. Parses(Head(todo)) /\ Deliver
  BY DEF SendChar, Parses
<1>4. IInv'
  BY <1>1, <1>2, <1>3, CharacterKeeps
<1>5. ASSUME began = "clean", ~failed PROVE Placed'
  <2>1. PICK m \in MESSAGES : \E h \in 1 .. Len(m.chars), p \in 0 .. Len(m.chars) : At(m, h, p)
    BY <1>5 DEF ClientInv, Placed
  <2>2. PICK h \in 1 .. Len(m.chars), p \in 0 .. Len(m.chars) : At(m, h, p)
    BY <2>1
  <2>3. m \in Message
    BY ClientAssumption
  <2>4. p < Len(m.chars) /\ p \in Nat
    <3>1. p # Len(m.chars)
      BY <1>1, <2>2, <2>3, RestFacts DEF At
    <3> QED
      BY <2>3, <3>1, HasPieces
  <2>5. /\ p + 1 \in 0 .. Len(m.chars) /\ Head(todo) = m.chars[p + 1]
        /\ todo' = Rest(m, p + 1)
    BY <2>2, <2>3, <2>4, RestStep DEF At, SendChar
  <2>6. Reached(m, h, p + 1)'
    BY <1>1, <1>3, <2>2, <2>3, <2>4, <2>5, CharacterMoves DEF At
  <2>7. At(m, h, p + 1)'
    BY <2>2, <2>5, <2>6 DEF At, SendChar
  <2> QED
    BY <2>5, <2>7 DEF Placed
<1>6. Placed'
  <2>1. began' = began /\ failed' = failed
    BY DEF SendChar
  <2> QED
    BY <1>5, <2>1 DEF Placed
<1> QED
  BY <1>2, <1>4, <1>6 DEF ClientInv

LEMMA SendBlockKeeps ==
  ASSUME ClientInv, NEW len \in 1 .. REQ_BUF_MAX, SendBlock(len)
  PROVE  ClientInv'
<1>1. todo \in Seq(Char) /\ IInv /\ len <= Len(todo)
  BY DEF ClientInv, SendBlock
<1>2. PICK block : block = SubSeq(todo, 1, len)
  OBVIOUS
<1>3. /\ block \in Seq(Char) /\ Len(block) = len
      /\ \A k \in 1 .. len : block[k] = todo[k]
  BY <1>1, <1>2, PrefixIs
<1>4. DataBlock(block) /\ Deliver /\ todo' = SubSeq(todo, len + 1, Len(todo))
  BY <1>2 DEF SendBlock
<1>5. todo' \in Seq(Char)
  <2>1. SubSeq(todo, len + 1, Len(todo)) \in Seq(Char)
    BY <1>1
  <2> QED
    BY <1>4, <2>1
<1>6. IInv'
  BY <1>1, <1>3, <1>4, DataBlockStep
<1>7. ASSUME began = "clean", ~failed PROVE Placed'
  <2>1. PICK m \in MESSAGES : \E h \in 1 .. Len(m.chars), p \in 0 .. Len(m.chars) : At(m, h, p)
    BY <1>7 DEF ClientInv, Placed
  <2>2. PICK h \in 1 .. Len(m.chars), p \in 0 .. Len(m.chars) : At(m, h, p)
    BY <2>1
  <2>3. m \in Message /\ Len(m.chars) \in Nat
    BY ClientAssumption, HasPieces
  <2>4. todo = Rest(m, p) /\ Len(todo) = Len(m.chars) - p
    BY <2>2, <2>3, RestFacts DEF At
  <2>5. len \in 1 .. Len(m.chars) - p
    BY <1>1, <2>3, <2>4
  <2>6. /\ p + len \in 0 .. Len(m.chars) /\ todo' = Rest(m, p + len)
        /\ \A i \in 1 .. len : block[i] = m.chars[p + i]
    <3>1. p + len \in 0 .. Len(m.chars)
      BY <2>3, <2>5, RestBlock
    <3>2. After(Rest(m, p), len) = Rest(m, p + len)
      BY <2>3, <2>5, RestBlock
    <3>3. \A i \in 1 .. len : SubSeq(Rest(m, p), 1, len)[i] = m.chars[p + i]
      BY <2>3, <2>5, RestBlock
    <3> QED
      BY <1>2, <1>4, <2>4, <3>1, <3>2, <3>3, Zenon DEF After
  <2>7. Ahead(m, p, block)
    <3>1. p + Len(block) <= Len(m.chars)
      BY <1>3, <2>3, <2>5
    <3> QED
      BY <1>3, <2>6, <3>1 DEF Ahead
  <2>8. Reached(m, h, p + Len(block))'
    BY <1>1, <1>3, <1>4, <2>2, <2>3, <2>7, BlockMoves DEF At
  <2>9. At(m, h, p + len)'
    BY <1>3, <2>2, <2>6, <2>8 DEF At, SendBlock
  <2> QED
    BY <2>6, <2>9 DEF Placed
<1>8. Placed'
  <2>1. began' = began /\ failed' = failed
    BY DEF SendBlock
  <2> QED
    BY <1>7, <2>1 DEF Placed
<1> QED
  BY <1>5, <1>6, <1>8 DEF ClientInv

LEMMA GiveUpKeeps ==
  ASSUME ClientInv, GiveUp
  PROVE  ClientInv'
<1>1. [Next]_vars
  BY DEF GiveUp, Next
<1>2. IInv'
  BY <1>1, StepKeepsIInv DEF ClientInv
<1>3. todo' = <<>> /\ failed' = TRUE
  BY DEF GiveUp
<1> QED
  BY <1>2, <1>3 DEF ClientInv, Placed

\* So every step keeps it.
LEMMA ClientStepKeeps ==
  ASSUME \A m \in MESSAGES : WellFormed(m), ClientInv, [ClientNext]_allvars
  PROVE  ClientInv'
<1>1. ASSUME NEW m \in MESSAGES, Begin(m) PROVE ClientInv'
  BY <1>1, BeginKeeps
<1>2. CASE SendChar
  BY <1>2, SendCharKeeps
<1>3. ASSUME NEW len \in 1 .. REQ_BUF_MAX, SendBlock(len) PROVE ClientInv'
  BY <1>3, SendBlockKeeps
<1>4. CASE GiveUp
  BY <1>4, GiveUpKeeps
<1>5. CASE UNCHANGED allvars
  <2>1. UNCHANGED vars /\ UNCHANGED client
    BY <1>5 DEF allvars
  <2>2. IInv'
    BY <2>1, StepKeepsIInv DEF ClientInv
  <2>3. UNCHANGED <<todo, pieces, got, began, failed>>
    BY <2>1 DEF client
  <2>4. UNCHANGED <<state, req, req_buf, req_buf_len, received_content_len, chunk_len,
                    answered, answer>>
    BY <2>1 DEF vars, parser, body, sent
  <2>5. ASSUME NEW m, NEW h, NEW p, At(m, h, p) PROVE At(m, h, p)'
    <3>1. InHeader(m, h, p) => InHeader(m, h, p)'
      BY <2>3, <2>4 DEF InHeader, LineAt, FieldsRead
    <3>2. Answered => Answered'
      BY <2>4 DEF Answered
    <3>3. InPlain(m, h, p) => InPlain(m, h, p)'
      BY <2>3, <2>4 DEF InPlain
    <3>4. ASSUME NEW i, NEW o, NEW n, InChunk(m, i, o, n, p) PROVE InChunk(m, i, o, n, p)'
      BY <2>3, <2>4, <3>4
         DEF InChunk, InChunkHeader, LineAt, InChunkData, InChunkEnd, InFooter
    <3>5. InChunks(m, h, p) => InChunks(m, h, p)'
      BY <3>4 DEF InChunks
    <3>6. IsOver(m, p) => IsOver(m, p)'
      BY <2>3, <2>4 DEF IsOver
    <3> QED
      BY <2>3, <2>5, <3>1, <3>2, <3>3, <3>5, <3>6 DEF At, Reached
  <2>6. Placed'
    BY <2>3, <2>5 DEF ClientInv, Placed
  <2> QED
    BY <2>2, <2>3, <2>6 DEF ClientInv
<1> QED
  BY <1>1, <1>2, <1>3, <1>4, <1>5 DEF ClientNext, Send

-------------------------------------------------------------------------------
(* What the places mean for the handler.                                      *)

\* g is the first pieces of t, the last of them perhaps not all of it.
Within(g, t) == /\ Len(g) <= Len(t)
                /\ \A i \in 1 .. Len(g) - 1 : g[i] = t[i]
                /\ IsPrefixOf(g[Len(g)], t[Len(g)])

\* Parts of a body that are given to the handler.
LEMMA PartOf ==
  ASSUME NEW s \in Seq(Char), NEW a \in 1 .. Len(s) + 1, NEW z \in a - 1 .. Len(s),
         NEW p \in a - 1 .. z
  PROVE  IsPrefixOf(SubSeq(s, a, p), SubSeq(s, a, z))
<1>1. PICK t : t = SubSeq(s, a, p)
  OBVIOUS
<1>2. p \in a - 1 .. Len(s)
  OBVIOUS
<1>3. t \in Seq(Char) /\ Len(t) = p - a + 1 /\ \A i \in 1 .. p - a + 1 : t[i] = s[a + i - 1]
  BY <1>1, <1>2, SubSeqIs
<1>4. PICK u : u = SubSeq(s, a, z)
  OBVIOUS
<1>5. u \in Seq(Char) /\ Len(u) = z - a + 1 /\ \A i \in 1 .. z - a + 1 : u[i] = s[a + i - 1]
  BY <1>4, SubSeqIs
<1>6. PICK n \in Nat : n = Len(t)
  BY <1>3
<1>7. n <= Len(u) /\ n \in 0 .. Len(u) /\ n = p - a + 1
  BY <1>3, <1>5, <1>6
<1>8. PICK v : v = SubSeq(u, 1, n)
  OBVIOUS
<1>9. v \in Seq(Char) /\ Len(v) = n /\ \A i \in 1 .. n : v[i] = u[i]
  BY <1>5, <1>7, <1>8, PrefixIs
<1>10. \A i \in 1 .. n : t[i] = v[i]
  <2>1. TAKE i \in 1 .. n
  <2>2. i \in 1 .. p - a + 1 /\ i \in 1 .. z - a + 1
    BY <1>7
  <2> QED
    BY <1>3, <1>5, <1>9, <2>2
<1>11. t = v
  BY <1>3, <1>6, <1>9, <1>10, SameSeq
<1> QED
  BY <1>1, <1>4, <1>6, <1>7, <1>8, <1>11 DEF IsPrefixOf

LEMMA AllOf ==
  ASSUME NEW t \in Seq(Char)
  PROVE  IsPrefixOf(t, t)
<1>1. SubSeq(t, 1, Len(t)) = t /\ Len(t) \in Nat
  OBVIOUS
<1> QED
  BY <1>1 DEF IsPrefixOf

LEMMA PiecesWithin ==
  ASSUME NEW t \in Seq(Seq(Char)), NEW j \in 0 .. Len(t), NEW g, g = SubSeq(t, 1, j), g # <<>>
  PROVE  Within(g, t)
<1>1. g \in Seq(Seq(Char)) /\ Len(g) = j /\ \A k \in 1 .. j : g[k] = t[k]
  BY PrefixIs
<1>2. j \in 1 .. Len(t)
  BY <1>1
<1>3. g[j] = t[j] /\ t[j] \in Seq(Char)
  BY <1>1, <1>2
<1>4. IsPrefixOf(g[j], t[j])
  BY <1>3, AllOf
<1> QED
  BY <1>1, <1>2, <1>4 DEF Within

LEMMA PartWithin ==
  ASSUME NEW t \in Seq(Seq(Char)), NEW i \in 1 .. Len(t), NEW x \in Seq(Char),
         IsPrefixOf(x, t[i]), NEW g, g = Append(SubSeq(t, 1, i - 1), x)
  PROVE  Within(g, t)
<1>1. PICK j \in 0 .. Len(t) : j = i - 1 /\ j + 1 = i
  OBVIOUS
<1>2. PICK u : u = SubSeq(t, 1, j)
  OBVIOUS
<1>3. u \in Seq(Seq(Char)) /\ Len(u) = j /\ \A k \in 1 .. j : u[k] = t[k]
  BY <1>2, PrefixIs
<1>4. g = Append(u, x)
  BY <1>1, <1>2
<1>5. Len(g) = i /\ (\A k \in 1 .. j : g[k] = u[k]) /\ g[i] = x
  BY <1>1, <1>3, <1>4, AppendIs
<1>6. \A k \in 1 .. Len(g) - 1 : g[k] = t[k]
  BY <1>1, <1>3, <1>5
<1> QED
  BY <1>5, <1>6 DEF Within

\* A plain body and one in chunks come in order.
LEMMA PlainWithin ==
  ASSUME NEW m \in Message, NEW h \in Nat, IsHeader(m, h), NEW p \in Nat, InPlain(m, h, p)
  PROVE  Within(got, m.pieces)
<1>1. PICK s \in Seq(Char) : s = m.chars
  BY HasPieces
<1>2. PICK len \in 1 .. Len(s) : /\ Len(s) = h + len
                                 /\ m.pieces = <<SubSeq(s, h + 1, h + len)>>
  BY <1>1 DEF InPlain, IsPlain
<1>3. p \in h .. Len(s) - 1 /\ got = <<SubSeq(s, h + 1, p)>>
  BY <1>1 DEF InPlain
<1>4. PICK z \in Nat : z = Len(s) /\ z = h + len
  BY <1>2
<1>5. PICK a \in 1 .. Len(s) + 1 : a = h + 1 /\ z \in a - 1 .. Len(s) /\ p \in a - 1 .. z
  <2>1. h + 1 \in 1 .. Len(s) + 1
    BY <1>2
  <2>2. z \in (h + 1) - 1 .. Len(s) /\ p \in (h + 1) - 1 .. z
    BY <1>3, <1>4
  <2> QED
    BY <2>1, <2>2
<1>6. IsPrefixOf(SubSeq(s, a, p), SubSeq(s, a, z))
  BY <1>5, PartOf
<1>7. got = <<SubSeq(s, a, p)>> /\ m.pieces = <<SubSeq(s, a, z)>>
  BY <1>2, <1>3, <1>4, <1>5
<1> QED
  BY <1>6, <1>7 DEF Within

LEMMA ChunkWithin ==
  ASSUME NEW m \in Message, NEW off, NEW i \in Nat, NEW o \in Nat, NEW n \in Nat, NEW p \in Nat,
         IsChunk(m, i), ChunkAt(m, off, i, o, n), InChunk(m, i, o, n, p), got # <<>>
  PROVE  Within(got, m.pieces)
<1>1. PICK t \in Seq(Seq(Char)) : t = m.pieces
  BY HasPieces
<1>2. i \in 1 .. Len(t) + 1 /\ (IsPiece(m, i) => i \in 1 .. Len(t))
  BY <1>1 DEF IsChunk, IsPiece
<1>3. ASSUME NEW j \in 0 .. Len(t), got = SubSeq(t, 1, j) PROVE Within(got, t)
  BY <1>3, PiecesWithin
<1>4. CASE InChunkHeader(m, i, o, p)
  <2>1. PICK j \in 0 .. Len(t) : j = i - 1
    BY <1>2
  <2> QED
    BY <1>1, <1>3, <1>4, <2>1 DEF InChunkHeader
<1>5. CASE InChunkData(m, i, o, n, p)
  <2>1. /\ IsPiece(m, i) /\ p \in o + 2 .. o + 1 + n
        /\ got = Append(SubSeq(t, 1, i - 1), SubSeq(m.chars, o + 3, p))
    BY <1>1, <1>5 DEF InChunkData
  <2>2. PICK s \in Seq(Char) : s = m.chars
    BY HasPieces
  <2>3. o + n + 3 < Len(s) /\ SubSeq(s, o + 3, o + 2 + n) = t[i]
    BY <1>1, <2>1, <2>2 DEF ChunkAt
  <2>4. PICK z \in Nat : z = o + 2 + n
    OBVIOUS
  <2>5. PICK a \in Nat : a = o + 3
    OBVIOUS
  <2>6. a \in 1 .. Len(s) + 1 /\ z \in a - 1 .. Len(s) /\ p \in a - 1 .. z /\ p \in a - 1 .. Len(s)
    BY <2>1, <2>3, <2>4, <2>5
  <2>7. PICK x : x = SubSeq(s, a, p)
    OBVIOUS
  <2>8. x \in Seq(Char) /\ IsPrefixOf(x, t[i])
    <3>1. IsPrefixOf(SubSeq(s, a, p), SubSeq(s, a, z))
      BY <2>6, PartOf
    <3>2. SubSeq(s, a, p) \in Seq(Char)
      BY <2>6, SubSeqIs
    <3> QED
      BY <2>3, <2>4, <2>5, <2>7, <3>1, <3>2, Zenon
  <2>9. got = Append(SubSeq(t, 1, i - 1), x)
    BY <2>1, <2>2, <2>5, <2>7
  <2> QED
    BY <1>1, <1>2, <2>1, <2>8, <2>9, PartWithin
<1>6. CASE InChunkEnd(m, i, o, n, p)
  <2>1. i \in 0 .. Len(t) /\ got = SubSeq(t, 1, i)
    BY <1>1, <1>2, <1>6 DEF InChunkEnd
  <2> QED
    BY <1>1, <1>3, <2>1
<1>7. CASE InFooter(m, i, o, p)
  <2>1. Len(t) \in 0 .. Len(t) /\ SubSeq(t, 1, Len(t)) = t
    OBVIOUS
  <2>2. got = SubSeq(t, 1, Len(t))
    BY <1>1, <1>7, <2>1 DEF InFooter
  <2> QED
    BY <1>1, <1>3, <2>1, <2>2
<1> QED
  BY <1>1, <1>4, <1>5, <1>6, <1>7 DEF InChunk

\* What Placed says of the end, and of the way there.
LEMMA PlacedMeansSent ==
  ASSUME ClientInv
  PROVE  ServedAsSent
<1>1. SUFFICES ASSUME Over, began = "clean"
               PROVE  /\ got = pieces /\ answered = 1 /\ answer.to # "error"
                      /\ state = "HEADER_METHOD" /\ req_buf_len = 0
  BY DEF ServedAsSent
<1>2. PICK m \in MESSAGES : \E h \in 1 .. Len(m.chars), p \in 0 .. Len(m.chars) : At(m, h, p)
  BY <1>1 DEF ClientInv, Placed, Over
<1>3. PICK h \in 1 .. Len(m.chars), p \in 0 .. Len(m.chars) : At(m, h, p)
  BY <1>2
<1>4. m \in Message /\ Len(m.chars) \in Nat
  BY ClientAssumption, HasPieces
<1>5. p = Len(m.chars)
  BY <1>1, <1>3, <1>4, RestFacts DEF At, Over
<1>6. IsHeader(m, h) /\ h \in Nat /\ p \in Nat
  BY <1>3, <1>4 DEF At, HasShape
<1>7. ~InHeader(m, h, p) /\ ~InPlain(m, h, p)
  <2>1. ~(p < Len(m.chars))
    BY <1>4, <1>5
  <2> QED
    BY <1>4, <1>6, <2>1, PlacesIn
<1>8. ~InChunks(m, h, p)
  <2>1. SUFFICES ASSUME InChunks(m, h, p) PROVE FALSE
    OBVIOUS
  <2>2. PICK off \in [1 .. Len(m.pieces) + 1 -> 0 .. Len(m.chars)],
             i \in Nat, o \in Nat, n \in Nat :
            ChunkAt(m, off, i, o, n) /\ InChunk(m, i, o, n, p)
    BY <2>1 DEF InChunks
  <2>3. p < Len(m.chars)
    BY <1>4, <1>6, <2>2, PlacesInChunk
  <2> QED
    BY <1>4, <1>5, <2>3
<1>9. Answered /\ IsOver(m, p) /\ pieces = m.pieces
  BY <1>3, <1>7, <1>8 DEF At, Reached
<1> QED
  BY <1>9 DEF Answered, IsOver

LEMMA PlacedMeansNeverAhead ==
  ASSUME ClientInv
  PROVE  NeverAhead
<1>1. SUFFICES ASSUME began = "clean", got # <<>>, ~failed
               PROVE  Within(got, pieces)
  BY DEF NeverAhead, Within
<1>2. PICK m \in MESSAGES : \E h \in 1 .. Len(m.chars), p \in 0 .. Len(m.chars) : At(m, h, p)
  BY <1>1 DEF ClientInv, Placed
<1>3. PICK h \in 1 .. Len(m.chars), p \in 0 .. Len(m.chars) : At(m, h, p)
  BY <1>2
<1>4. m \in Message /\ Len(m.chars) \in Nat
  BY ClientAssumption, HasPieces
<1>5. IsHeader(m, h) /\ h \in Nat /\ p \in Nat /\ pieces = m.pieces /\ Reached(m, h, p)
  BY <1>3, <1>4 DEF At, HasShape
<1>6. CASE InHeader(m, h, p)
  BY <1>1, <1>6 DEF InHeader
<1>7. CASE InPlain(m, h, p)
  BY <1>4, <1>5, <1>7, PlainWithin
<1>8. CASE InChunks(m, h, p)
  <2>1. PICK off \in [1 .. Len(m.pieces) + 1 -> 0 .. Len(m.chars)],
             i \in Nat, o \in Nat, n \in Nat :
            IsChunk(m, i) /\ ChunkAt(m, off, i, o, n) /\ InChunk(m, i, o, n, p)
    BY <1>8 DEF InChunks
  <2> QED
    BY <1>1, <1>4, <1>5, <2>1, ChunkWithin
<1>9. CASE IsOver(m, p)
  <2>1. PICK t \in Seq(Seq(Char)) : t = m.pieces
    BY <1>4, HasPieces
  <2>2. got = t
    BY <1>9, <2>1 DEF IsOver
  <2>3. Len(t) \in 0 .. Len(t) /\ SubSeq(t, 1, Len(t)) = t
    OBVIOUS
  <2>4. Within(got, t)
    BY <1>1, <2>2, <2>3, PiecesWithin
  <2> QED
    BY <1>5, <2>1, <2>4
<1> QED
  BY <1>5, <1>6, <1>7, <1>8, <1>9 DEF Reached

\* The client of well-formed requests stays where Placed says, whatever the
\* requests, the blocks of the network and the requests broken off before.
THEOREM ClientInvariance ==
  (\A m \in MESSAGES : WellFormed(m)) => (ClientSpec => []ClientInv)
<1>1. SUFFICES ASSUME \A m \in MESSAGES : WellFormed(m) PROVE ClientSpec => []ClientInv
  OBVIOUS
<1>2. ClientInit => ClientInv
  <2>1. ClientInit => IInv
    BY InitType, InitModes DEF ClientInit, IInv
  <2>2. ClientInit => todo \in Seq(Char) /\ Placed
    BY DEF ClientInit, Placed
  <2> QED
    BY <2>1, <2>2 DEF ClientInv
<1>3. ClientInv /\ [ClientNext]_allvars => ClientInv'
  BY <1>1, ClientStepKeeps
<1> QED
  BY <1>2, <1>3, PTL DEF ClientSpec

\* A well-formed request without a body, with a plain one or with one in chunks
\* that meets the parser at rest is answered once and by a page, its body reaches
\* the handler byte for byte and piece by piece, and the parser ends at rest
\* (userver.c:234-299, 377-470).
THEOREM RequestsServedAsSent ==
  (\A m \in MESSAGES : WellFormed(m)) => (ClientSpec => []ServedAsSent)
<1>1. ClientInv => ServedAsSent
  BY PlacedMeansSent
<1> QED
  BY <1>1, ClientInvariance, PTL

\* On the way the handler never sees a byte that is not the next one of the body
\* (userver.c:435-470).
THEOREM HandlerNeverAhead ==
  (\A m \in MESSAGES : WellFormed(m)) => (ClientSpec => []NeverAhead)
<1>1. ClientInv => NeverAhead
  BY PlacedMeansNeverAhead
<1> QED
  BY <1>1, ClientInvariance, PTL

===============================================================================
