--------------------------- MODULE MCUserverClient -----------------------------
(* UserverClient for TLC: requests built from their parts.                    *)
EXTENDS UserverClient, SequencesExt

MCBoundary == <<Dash, [kind |-> "id", n |-> 1]>>
Id == MCBoundary[2]
A == [kind |-> "text", n |-> 1]
B == [kind |-> "text", n |-> 2]

NoTokens == {}
OnePage == {[chunked |-> FALSE, sizes |-> <<1>>]}

Get(m) == [chars |-> <<Method(m), LF, LF>>, pieces |-> <<>>]

PlainPost(data) ==
    [chars  |-> <<Method("GET"), LF, ContentLength(Len(data)), LF, LF>> \o data,
     pieces |-> <<data>>]

ChunkOf(data) == <<ChunkSize(Len(data)), LF>> \o data \o <<LF>>

\* fields: the header fields of the request, with their line ends.
ChunkedPost(fields, chunks) ==
    [chars  |-> <<Method("GET"), LF>> \o fields \o <<LF>>
                \o FlattenSeq([i \in DOMAIN chunks |-> ChunkOf(chunks[i])])
                \o <<ChunkSize(0), LF, LF>>,
     pieces |-> chunks]

Chunked == <<TransferEncoding(1), LF>>
Typed   == <<ContentType(Plain), LF>>

SectionOf(data) == Delimiter \o <<LF, Text, LF, LF>> \o data \o <<LF>>

\* The line end in front of a delimiter is reported with the section's data
\* (userver.c:481-489).
MultipartPost(sections) ==
    LET content == FlattenSeq([i \in DOMAIN sections |-> SectionOf(sections[i])])
                   \o Delimiter \o <<Dash, Dash, LF>>
    IN  [chars  |-> <<Method("GET"), LF, ContentType(Multipart), LF,
                      ContentLength(Len(content)), LF, LF>> \o content,
         pieces |-> [i \in DOMAIN sections |-> sections[i] \o <<LF>>]]

\* Requests that the parser serves: a body longer than the buffer, chunks the
\* buffer does not divide.
GoodBodies ==
    {Get("HEAD"),
     PlainPost(<<A, LF, B, A>>),
     ChunkedPost(Typed \o Chunked, <<<<B, LF, A, B>>, <<A>>>>)}

\* What is proved of well-formed requests is about these.
ASSUME GoodBodiesAreWellFormed == \A m \in GoodBodies : WellFormed(m)

\* Sections with dashes, line ends, half a delimiter, nothing, and a line longer
\* than the buffer.
GoodSections ==
    {MultipartPost(<<<<A, Dash, LF, Dash, Id>>, <<>>>>),
     MultipartPost(<<<<A, B, A, Dash, B, A, B>>>>)}

\* A section whose last line holds two dashes behind where the delimiter goes.
DashedSections == {MultipartPost(<<<<A, A, A, A, Dash, Dash>>, <<B>>>>)}

===============================================================================
