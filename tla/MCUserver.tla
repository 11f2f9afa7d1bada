------------------------------ MODULE MCUserver --------------------------------
(* Userver for TLC: one character per boundary letter, two kinds of alphabet. *)
EXTENDS UserverSession

MCBoundary == <<[kind |-> "id", n |-> 1]>>

\* Requests without a body, with a plain body and with a chunked one.
BodyAlphabet ==
    {Method("GET"), Method("HEAD"), ContentType(Plain), ContentType(MultipartNoId),
     ContentLength(3), TransferEncoding(1), ChunkSize(2), LF, Text}

\* Multipart requests.
SectionAlphabet ==
    {Method("GET"), ContentType(Multipart), ContentLength(4),
     LF, Dash, MCBoundary[1]}

\* A page at once, an empty page, a page in two chunks, one without any.
BodyResponses ==
    {[chunked |-> FALSE, sizes |-> <<2>>], [chunked |-> FALSE, sizes |-> <<0>>],
     [chunked |-> TRUE, sizes |-> <<2, 1>>], [chunked |-> TRUE, sizes |-> <<>>]}

OnePage == {[chunked |-> FALSE, sizes |-> <<1>>]}
===============================================================================
