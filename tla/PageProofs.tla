------------------------------ MODULE PageProofs --------------------------------
(*****************************************************************************)
(* What the page /adc never does, for every size of the sample buffer and of *)
(* a chunk: leave the buffer, show a value under the other channel or out of *)
(* its place, or leave sampling other than it was asked to.                  *)
(*****************************************************************************)
EXTENDS AdcPage, Integers, TLAPS

(* The arithmetic of the buffer. *)

\* The chunks of a channel are the whole channel.
LEMMA ChunkCount == CHANNEL_CHUNKS \in Nat /\ CHANNEL_CHUNKS * CHUNK = PAIRS
  BY PageAssumption, SMTT(30) DEF CHANNEL_CHUNKS

\* An index that goes round.
LEMMA Wraps ==
    ASSUME NEW n \in Nat \ {0}, NEW a \in 0 .. n
    PROVE  a % n = IF a = n THEN 0 ELSE a
  BY SMTT(30)

\* The count of a pair, from its chunk and its place there.
LEMMA WithinChannel ==
    ASSUME NEW c \in 1 .. CHANNEL_CHUNKS, NEW j \in 0 .. CHUNK - 1
    PROVE  (c - 1) * CHUNK + j \in 0 .. PAIRS - 1
  BY ChunkCount, PageAssumption, SMTT(30)

-------------------------------------------------------------------------------
(* The inductive invariant.                                                   *)

\* An index of the buffer where a pair begins.
Begins(ix) == \E h \in 0 .. PAIRS - 1 : ix = 2 * h

\* Values of the first channel are at the even places, of the second at the odd.
Paired == /\ Begins(adc_ix) /\ Begins(start_ix)
          /\ \A h \in 0 .. PAIRS - 1 : /\ adc_buf[2 * h].side \in {0, 1}
                                       /\ adc_buf[2 * h + 1].side \in {0, 2}

PageInv == PageTypeOK /\ Paired /\ SidesKept

\* The page's index of a pair, wrapped, is an index of a pair.
LEMMA WrapsToPair ==
    ASSUME NEW k \in 0 .. PAIRS - 1, NEW ix, Begins(ix)
    PROVE  \E h \in 0 .. PAIRS - 1 : /\ Wrapped(k * 2 + ix) = 2 * h
                                     /\ Wrapped(k * 2 + ix + 1) = 2 * h + 1
<1>1. PICK g \in 0 .. PAIRS - 1 : ix = 2 * g
  BY DEF Begins
<1>2. CASE k + g < PAIRS
  <2>1. k + g \in 0 .. PAIRS - 1
    BY <1>2, PageAssumption
  <2>2. /\ Wrapped(k * 2 + ix) = 2 * (k + g)
        /\ Wrapped(k * 2 + ix + 1) = 2 * (k + g) + 1
    BY <1>1, <1>2, PageAssumption DEF Wrapped, SIZE
  <2> QED
    BY <2>1, <2>2
<1>3. CASE k + g >= PAIRS
  <2>1. k + g - PAIRS \in 0 .. PAIRS - 1
    BY <1>3, PageAssumption
  <2>2. /\ Wrapped(k * 2 + ix) = 2 * (k + g - PAIRS)
        /\ Wrapped(k * 2 + ix + 1) = 2 * (k + g - PAIRS) + 1
    BY <1>1, <1>3, PageAssumption DEF Wrapped, SIZE
  <2> QED
    BY <2>1, <2>2
<1> QED
  BY <1>1, <1>2, <1>3, PageAssumption

\* A sample fills a pair, each value at its channel's place.
LEMMA SampleKeeps ==
    ASSUME PageInv, Irq
    PROVE  PageInv'
<1>1. PICK h \in 0 .. PAIRS - 1 : adc_ix = 2 * h
  BY DEF PageInv, Paired, Begins
<1>2. adc_ix' = IF h + 1 = PAIRS THEN 0 ELSE 2 * (h + 1)
  <2>1. 2 * h + 2 \in 0 .. SIZE /\ SIZE \in Nat \ {0}
    BY PageAssumption DEF SIZE
  <2>2. adc_ix' = (2 * h + 2) % SIZE
    BY <1>1 DEF Irq, cli_adc_cb
  <2>3. adc_ix' = IF 2 * h + 2 = SIZE THEN 0 ELSE 2 * h + 2
    BY <2>1, <2>2, Wraps
  <2> QED
    BY <2>3, PageAssumption DEF SIZE
<1>3. Begins(adc_ix)' /\ adc_ix' \in 0 .. SIZE - 1
  BY <1>2, PageAssumption DEF Begins, SIZE
<1>4. samples' \in 0 .. MAX_SAMPLES
  BY PageAssumption DEF PageInv, PageTypeOK, Irq, cli_adc_cb
<1>5. /\ adc_buf' \in [0 .. SIZE - 1 -> Byte]
      /\ \A g \in 0 .. PAIRS - 1 : /\ adc_buf'[2 * g].side \in {0, 1}
                                   /\ adc_buf'[2 * g + 1].side \in {0, 2}
  <2> DEFINE First  == [side |-> 1, nr |-> samples']
             Second == [side |-> 2, nr |-> samples']
  <2>1. First \in Byte /\ Second \in Byte /\ First.side = 1 /\ Second.side = 2
    BY <1>4 DEF Byte
  <2>2. adc_buf \in [0 .. SIZE - 1 -> Byte]
    BY DEF PageInv, PageTypeOK
  <2>3. adc_buf' = [adc_buf EXCEPT ![2 * h] = First, ![2 * h + 1] = Second]
    BY <1>1 DEF Irq, cli_adc_cb
  <2> HIDE DEF First, Second
  <2>4. adc_buf' \in [0 .. SIZE - 1 -> Byte]
    BY <2>1, <2>2, <2>3
  <2>5. ASSUME NEW g \in 0 .. PAIRS - 1
        PROVE  adc_buf'[2 * g].side \in {0, 1} /\ adc_buf'[2 * g + 1].side \in {0, 2}
    <3>1. 2 * g \in 0 .. SIZE - 1 /\ 2 * g + 1 \in 0 .. SIZE - 1
      BY PageAssumption DEF SIZE
    <3>2. /\ adc_buf'[2 * g] = IF g = h THEN First ELSE adc_buf[2 * g]
          /\ adc_buf'[2 * g + 1] = IF g = h THEN Second ELSE adc_buf[2 * g + 1]
      BY <2>2, <2>3, <3>1
    <3> QED
      BY <2>1, <3>2 DEF PageInv, Paired
  <2> QED
    BY <2>4, <2>5
<1> QED
  BY <1>3, <1>4, <1>5
     DEF PageInv, PageTypeOK, Paired, SidesKept, Begins, Irq, copied, request, progress

\* The call's end keeps the chunk's number and the place within it.
LEMMA NextCallKeeps ==
    ASSUME PageTypeOK, NextCall, chunk_nbr - 1 <= 2 * CHANNEL_CHUNKS
    PROVE  /\ at' \in Places
           /\ chunk_nbr' \in 0 .. 2 * CHANNEL_CHUNKS + 2 /\ i' \in 0 .. CHUNK - 1
  BY ChunkCount, PageAssumption DEF PageTypeOK, NextCall, Places

\* So does the loop's turn.
LEMMA LoopKeeps ==
    ASSUME PageTypeOK, Loop, chunk_nbr - 1 <= 2 * CHANNEL_CHUNKS
    PROVE  /\ at' \in Places
           /\ chunk_nbr' \in 0 .. 2 * CHANNEL_CHUNKS + 2 /\ i' \in 0 .. CHUNK - 1
  BY NextCallKeeps, ChunkCount, PageAssumption DEF PageTypeOK, Loop

\* A value of an allowed side keeps an array to the allowed sides.
LEMMA AppendKeepsSides ==
    ASSUME NEW s \in Seq(Byte), NEW b \in Byte, NEW Sides,
           b.side \in Sides, \A n \in DOMAIN s : s[n].side \in Sides
    PROVE  Append(s, b) \in Seq(Byte) /\ \A n \in DOMAIN Append(s, b) : Append(s, b)[n].side \in Sides
<1>1. Append(s, b) \in Seq(Byte) /\ DOMAIN Append(s, b) = 1 .. Len(s) + 1
  OBVIOUS
<1>2. \A n \in 1 .. Len(s) + 1 : Append(s, b)[n] = IF n = Len(s) + 1 THEN b ELSE s[n]
  OBVIOUS
<1>3. \A n \in 1 .. Len(s) + 1 : n # Len(s) + 1 => n \in DOMAIN s
  OBVIOUS
<1> QED
  BY <1>1, <1>2, <1>3

\* A value of the first channel's chunks comes from an even place.
LEMMA FirstKeeps ==
    ASSUME PageInv, PrintFirst
    PROVE  PageInv'
<1> DEFINE k == (chunk_nbr - 1) * CHUNK + i
           shown == adc_buf[Wrapped(k * 2 + start_ix)]
<1>1. k \in 0 .. PAIRS - 1
  BY WithinChannel DEF PrintFirst, PageInv, PageTypeOK
<1>2. data1' = Append(data1, shown)
  BY DEF PrintFirst
<1> HIDE DEF k
<1>3. PICK h \in 0 .. PAIRS - 1 : Wrapped(k * 2 + start_ix) = 2 * h
  BY <1>1, WrapsToPair DEF PageInv, Paired
<1>4. shown \in Byte /\ shown.side \in {0, 1}
  <2>1. 2 * h \in 0 .. SIZE - 1
    BY PageAssumption DEF SIZE
  <2> QED
    BY <1>3, <2>1 DEF PageInv, PageTypeOK, Paired
<1> HIDE DEF shown
<1>5. data1' \in Seq(Byte) /\ \A n \in DOMAIN data1' : data1'[n].side \in {0, 1}
  <2>1. data1 \in Seq(Byte) /\ \A n \in DOMAIN data1 : data1[n].side \in {0, 1}
    BY DEF PageInv, PageTypeOK, SidesKept
  <2>2. Append(data1, shown) \in Seq(Byte)
        /\ \A n \in DOMAIN Append(data1, shown) : Append(data1, shown)[n].side \in {0, 1}
    BY <1>4, <2>1, AppendKeepsSides
  <2> QED
    BY <1>2, <2>2
<1>6. chunk_nbr - 1 <= 2 * CHANNEL_CHUNKS
  BY ChunkCount DEF PrintFirst
<1>7. /\ at' \in Places
      /\ chunk_nbr' \in 0 .. 2 * CHANNEL_CHUNKS + 2 /\ i' \in 0 .. CHUNK - 1
  BY <1>6, LoopKeeps DEF PageInv, PrintFirst
<1> QED
  BY <1>5, <1>7
     DEF PageInv, PageTypeOK, Paired, SidesKept, PrintFirst, sampling, copied, request

\* And one of the second channel's from an odd place.
LEMMA SecondKeeps ==
    ASSUME PageInv, PrintSecond
    PROVE  PageInv'
<1> DEFINE k == (chunk_nbr - 1 - CHANNEL_CHUNKS) * CHUNK + i
           shown == adc_buf[Wrapped(k * 2 + start_ix + 1)]
<1>1. k \in 0 .. PAIRS - 1
  <2>1. chunk_nbr - CHANNEL_CHUNKS \in 1 .. CHANNEL_CHUNKS
    BY ChunkCount DEF PrintSecond, PageInv, PageTypeOK
  <2>2. k = ((chunk_nbr - CHANNEL_CHUNKS) - 1) * CHUNK + i
    BY ChunkCount DEF PageInv, PageTypeOK
  <2>3. i \in 0 .. CHUNK - 1
    BY DEF PageInv, PageTypeOK
  <2> HIDE DEF k
  <2> QED
    BY <2>1, <2>2, <2>3, WithinChannel
<1>2. data2' = Append(data2, shown)
  BY DEF PrintSecond
<1> HIDE DEF k
<1>3. PICK h \in 0 .. PAIRS - 1 : Wrapped(k * 2 + start_ix + 1) = 2 * h + 1
  BY <1>1, WrapsToPair DEF PageInv, Paired
<1>4. shown \in Byte /\ shown.side \in {0, 2}
  <2>1. 2 * h + 1 \in 0 .. SIZE - 1
    BY PageAssumption DEF SIZE
  <2> QED
    BY <1>3, <2>1 DEF PageInv, PageTypeOK, Paired
<1> HIDE DEF shown
<1>5. data2' \in Seq(Byte) /\ \A n \in DOMAIN data2' : data2'[n].side \in {0, 2}
  <2>1. data2 \in Seq(Byte) /\ \A n \in DOMAIN data2 : data2[n].side \in {0, 2}
    BY DEF PageInv, PageTypeOK, SidesKept
  <2>2. Append(data2, shown) \in Seq(Byte)
        /\ \A n \in DOMAIN Append(data2, shown) : Append(data2, shown)[n].side \in {0, 2}
    BY <1>4, <2>1, AppendKeepsSides
  <2> QED
    BY <1>2, <2>2
<1>6. chunk_nbr - 1 <= 2 * CHANNEL_CHUNKS
  BY ChunkCount DEF PrintSecond, PageInv, PageTypeOK
<1>7. /\ at' \in Places
      /\ chunk_nbr' \in 0 .. 2 * CHANNEL_CHUNKS + 2 /\ i' \in 0 .. CHUNK - 1
  BY <1>6, LoopKeeps DEF PageInv, PrintSecond
<1> QED
  BY <1>5, <1>7
     DEF PageInv, PageTypeOK, Paired, SidesKept, PrintSecond, sampling, copied, request
\* Every other step leaves the buffer and its index alone.
LEMMA PageInvKeeps ==
    ASSUME PageInv, [PageNext]_pagevars
    PROVE  PageInv'
<1> USE DEF PageInv
<1>1. CASE Irq
  BY <1>1, SampleKeeps
<1>2. CASE Command
  BY <1>2 DEF Command, PageTypeOK, Paired, SidesKept, sampling, copied, request, progress
<1>3. ASSUME NEW q \in Queries, NEW h \in BOOLEAN, Get(q, h)
      PROVE  PageInv'
  <2>1. SidesKept'
    BY <1>3 DEF Get, SidesKept
  <2>2. PageTypeOK'
    BY <1>3, ChunkCount, PageAssumption DEF Get, PageTypeOK, Places, sampling, copied
  <2>3. Paired'
    BY <1>3 DEF Get, Paired, sampling, copied
  <2> QED
    BY <2>1, <2>2, <2>3
<1>4. CASE NoFreq \/ StopFirst \/ Restart \/ PrintNothing
  <2>1. hindered \in BOOLEAN => hindered' \in BOOLEAN
    <3>1. CASE Restart
      BY <3>1, SMT DEF Restart
    <3>2. CASE NoFreq \/ StopFirst \/ PrintNothing
      BY <3>2 DEF NoFreq, StopFirst, PrintNothing
    <3> QED
      BY <1>4, <3>1, <3>2
  <2>2. PageTypeOK'
    BY <1>4, <2>1 DEF NoFreq, StopFirst, Restart, PrintNothing, PageTypeOK, Places, sampling,
                      copied, request, progress
  <2> QED
    BY <1>4, <2>2 DEF NoFreq, StopFirst, Restart, PrintNothing, Paired, SidesKept, sampling,
                      copied, progress
<1>5. CASE PrintHead
  <2>1. /\ at' \in Places
        /\ chunk_nbr' \in 0 .. 2 * CHANNEL_CHUNKS + 2 /\ i' \in 0 .. CHUNK - 1
    BY <1>5, ChunkCount, NextCallKeeps DEF PrintHead
  <2> QED
    BY <1>5, <2>1 DEF PrintHead, PageTypeOK, Paired, SidesKept, Begins, sampling, request
<1>6. CASE PrintFirst
  BY <1>6, FirstKeeps
<1>7. CASE PrintSecond
  BY <1>7, SecondKeeps
<1>8. CASE PrintTail
  <2>1. /\ at' \in Places
        /\ chunk_nbr' \in 0 .. 2 * CHANNEL_CHUNKS + 2 /\ i' \in 0 .. CHUNK - 1
    BY <1>8, ChunkCount, NextCallKeeps DEF PrintTail
  <2> QED
    BY <1>8, <2>1 DEF PrintTail, PageTypeOK, Paired, SidesKept, sampling, copied, request
<1>9. CASE UNCHANGED pagevars
  BY <1>9 DEF pagevars, PageTypeOK, Paired, SidesKept, sampling, copied, request, progress
<1> QED
  BY <1>1, <1>2, <1>3, <1>4, <1>5, <1>6, <1>7, <1>8, <1>9 DEF PageNext, PageStep

\* The invariant holds in every behaviour.
LEMMA PageInvHolds == PageSpec => []PageInv
<1>1. PageInit => PageInv
  <2> SUFFICES ASSUME PageInit PROVE PageInv
    OBVIOUS
  <2>1. PageTypeOK
    <3>1. adc_buf \in [0 .. SIZE - 1 -> Byte]
      BY PageAssumption DEF PageInit, Byte
    <3>2. query \in Queries
      BY DEF PageInit, Queries
    <3>3. data1 \in Seq(Byte) /\ data2 \in Seq(Byte)
      BY DEF PageInit
    <3>4. 0 \in 0 .. SIZE - 1 /\ 0 \in 0 .. CHUNK - 1 /\ 0 \in 0 .. 2 * CHANNEL_CHUNKS + 2
      BY ChunkCount, PageAssumption DEF SIZE
    <3>5. at \in Places /\ head \in BOOLEAN /\ hindered \in BOOLEAN
      BY Zenon DEF PageInit, Places
    <3>6. samples \in 0 .. MAX_SAMPLES /\ snap \in 0 .. MAX_SAMPLES
      BY PageAssumption DEF PageInit
    <3>7. adc_ix \in 0 .. SIZE - 1 /\ start_ix \in 0 .. SIZE - 1
          /\ i \in 0 .. CHUNK - 1 /\ chunk_nbr \in 0 .. 2 * CHANNEL_CHUNKS + 2
      BY <3>4 DEF PageInit
    <3> QED
      BY ONLY <3>1, <3>2, <3>3, <3>5, <3>6, <3>7 DEF PageTypeOK
  <2>2. Paired
    <3>1. Begins(0)
      BY PageAssumption DEF Begins
    <3>2. \A h \in 0 .. PAIRS - 1 : 2 * h \in 0 .. SIZE - 1 /\ 2 * h + 1 \in 0 .. SIZE - 1
      BY PageAssumption DEF SIZE
    <3> QED
      BY <3>1, <3>2 DEF PageInit, Paired
  <2>3. SidesKept
    BY DEF PageInit, SidesKept
  <2> QED
    BY <2>1, <2>2, <2>3 DEF PageInv
<1> QED
  BY <1>1, PageInvKeeps, PTL DEF PageSpec

-------------------------------------------------------------------------------
(* How far a page is.                                                         *)

\* The values of a channel printed before its chunk c.
Before(c) == IF c < 1 THEN 0 ELSE IF c > CHANNEL_CHUNKS THEN PAIRS ELSE (c - 1) * CHUNK

\* And those within it.
Within(c) == IF c \in 1 .. CHANNEL_CHUNKS THEN i ELSE 0

\* A page in progress printed what its chunk's number and the place within the
\* chunk say; a page for HEAD has one chunk.
Counted ==
    at # "none" =>
      /\ Len(data1) = Before(chunk_nbr) + Within(chunk_nbr)
      /\ Len(data2) = Before(chunk_nbr - CHANNEL_CHUNKS) + Within(chunk_nbr - CHANNEL_CHUNKS)
      /\ head => chunk_nbr = 0

CountInv == Counted /\ BothComplete

\* A whole chunk is printed before the next.
LEMMA ChunkAfterChunk ==
    ASSUME NEW c \in 1 .. CHANNEL_CHUNKS
    PROVE  Before(c + 1) = Before(c) + CHUNK
<1>1. (c - 1) * CHUNK + CHUNK = c * CHUNK
  BY ChunkCount, PageAssumption
<1> QED
  BY <1>1, ChunkCount, PageAssumption DEF Before

\* One more value of the first channel.
LEMMA FirstCounts ==
    ASSUME PageTypeOK, CountInv, PrintFirst
    PROVE  CountInv'
<1>1. chunk_nbr \in 1 .. CHANNEL_CHUNKS /\ ~head /\ ~head' /\ i \in 0 .. CHUNK - 1
  BY DEF PrintFirst, Printing, CountInv, Counted, PageTypeOK, request
<1>2. Len(data1') = Len(data1) + 1 /\ data2' = data2
  BY DEF PrintFirst, PageTypeOK
<1>3. Len(data1) = Before(chunk_nbr) + i /\ Len(data2) = 0
  BY <1>1, ChunkCount DEF CountInv, Counted, PrintFirst, Printing, Before, Within
<1>4. CASE i + 1 < CHUNK
  BY <1>1, <1>2, <1>3, <1>4, ChunkCount, PageAssumption
     DEF CountInv, Counted, BothComplete, PrintFirst, Printing, Loop, Before, Within
<1>5. CASE i + 1 = CHUNK
  <2>1. at' = "call" /\ chunk_nbr' = chunk_nbr + 1 /\ i' = 0
    BY <1>1, <1>5, PageAssumption DEF PrintFirst, Loop, NextCall
  <2>2. Len(data1') = Before(chunk_nbr')
    BY <1>1, <1>2, <1>3, <1>5, <2>1, ChunkAfterChunk, ChunkCount, PageAssumption DEF Before
  <2>3. Within(chunk_nbr)' = 0 /\ Within(chunk_nbr - CHANNEL_CHUNKS)' = 0
    BY <2>1 DEF Within
  <2>4. Before(chunk_nbr' - CHANNEL_CHUNKS) = 0
    BY <1>1, <2>1, ChunkCount, PageAssumption DEF Before
  <2> QED
    BY <1>1, <1>2, <1>3, <2>1, <2>2, <2>3, <2>4, ChunkCount, PageAssumption
       DEF CountInv, Counted, BothComplete, Before
<1> QED
  BY <1>1, <1>4, <1>5, PageAssumption

\* One more value of the second channel, when the first is complete.
LEMMA SecondCounts ==
    ASSUME PageTypeOK, CountInv, PrintSecond
    PROVE  CountInv'
<1> DEFINE c == chunk_nbr - CHANNEL_CHUNKS
<1>1. c \in 1 .. CHANNEL_CHUNKS /\ ~head /\ ~head' /\ i \in 0 .. CHUNK - 1 /\ chunk_nbr > CHANNEL_CHUNKS
  BY ChunkCount DEF PrintSecond, Printing, CountInv, Counted, PageTypeOK, request
<1>2. Len(data2') = Len(data2) + 1 /\ data1' = data1
  BY DEF PrintSecond, PageTypeOK
<1>3. Len(data2) = Before(c) + i /\ Len(data1) = PAIRS
  BY <1>1, ChunkCount, PageAssumption
     DEF CountInv, Counted, PageTypeOK, PrintSecond, Printing, Before, Within
<1>4. CASE i + 1 < CHUNK
  BY <1>1, <1>2, <1>3, <1>4, ChunkCount, PageAssumption
     DEF CountInv, Counted, BothComplete, PageTypeOK, PrintSecond, Printing, Loop, Before, Within
<1>5. CASE i + 1 = CHUNK
  <2>1. at' = "call" /\ chunk_nbr' = chunk_nbr + 1 /\ i' = 0
    BY <1>1, <1>5, PageAssumption DEF PrintSecond, Loop, NextCall
  <2>2. Len(data2') = Before(chunk_nbr' - CHANNEL_CHUNKS)
    <3>1. Len(data2') = Before(c + 1)
      <4>1. Len(data2') = Before(c) + CHUNK
        BY <1>1, <1>2, <1>3, <1>5, ChunkCount, PageAssumption DEF Before
      <4> HIDE DEF c
      <4> QED
        BY <1>1, <4>1, ChunkAfterChunk
    <3>2. chunk_nbr' - CHANNEL_CHUNKS = c + 1
      BY <1>1, <2>1, ChunkCount DEF PageTypeOK
    <3> QED
      BY <3>1, <3>2
  <2>3. Within(chunk_nbr)' = 0 /\ Within(chunk_nbr - CHANNEL_CHUNKS)' = 0
    BY <2>1 DEF Within
  <2>4. Before(chunk_nbr') = PAIRS
    BY <1>1, <2>1, ChunkCount DEF Before, PageTypeOK
  <2> QED
    BY <1>1, <1>2, <1>3, <2>1, <2>2, <2>3, <2>4, ChunkCount, PageAssumption
       DEF CountInv, Counted, BothComplete, Before
<1> QED
  BY <1>1, <1>4, <1>5, PageAssumption
\* Every other step leaves the count, or begins a page or ends it.
LEMMA CountKeeps ==
    ASSUME PageTypeOK, CountInv, [PageNext]_pagevars
    PROVE  CountInv'
<1>0. chunk_nbr \in Nat /\ i \in Nat
  BY ChunkCount, PageAssumption DEF PageTypeOK
<1>1. CASE Irq \/ Command
  BY <1>1 DEF Irq, Command, CountInv, Counted, BothComplete, Before, Within, request, progress
<1>2. ASSUME NEW q \in Queries, NEW h \in BOOLEAN, Get(q, h)
      PROVE  CountInv'
  BY <1>2, ChunkCount, PageAssumption DEF Get, CountInv, Counted, BothComplete, Before, Within
<1>3. CASE NoFreq \/ StopFirst \/ Restart
  BY <1>3 DEF NoFreq, StopFirst, Restart, CountInv, Counted, BothComplete, Before, Within,
              request, progress
<1>4. CASE PrintHead
  <2>1. Len(data1) = 0 /\ Len(data2) = 0
    BY <1>4, ChunkCount DEF PrintHead, Printing, CountInv, Counted, Before, Within
  <2>2. CASE head
    BY <1>4, <2>2 DEF PrintHead, Printing, NextCall, CountInv, Counted, BothComplete
  <2>3. CASE ~head
    <3>1. chunk_nbr' = 1 /\ i' = 0 /\ head' = head /\ data1' = data1 /\ data2' = data2
          /\ at' = "call"
      BY <1>4, <2>3 DEF PrintHead, NextCall, request
    <3>2. Before(1) = 0 /\ Before(1 - CHANNEL_CHUNKS) = 0
      BY ChunkCount, PageAssumption DEF Before
    <3> QED
      BY <2>1, <2>3, <3>1, <3>2, ChunkCount
         DEF CountInv, Counted, BothComplete, Within
  <2> QED
    BY <2>2, <2>3
<1>5. CASE PrintFirst
  BY <1>5, FirstCounts
<1>6. CASE PrintSecond
  BY <1>6, SecondCounts
<1>7. CASE PrintTail
  <2>1. chunk_nbr = 2 * CHANNEL_CHUNKS + 1 /\ at = "print"
    BY <1>0, <1>7, ChunkCount DEF PrintTail, Printing
  <2>2. /\ ~head /\ at' = "call" /\ chunk_nbr' = chunk_nbr + 1 /\ i' = 0
        /\ head' = head /\ data1' = data1 /\ data2' = data2
    BY <1>7, <2>1, ChunkCount DEF PrintTail, NextCall, CountInv, Counted, request
  <2> QED
    BY <2>1, <2>2, ChunkCount, PageAssumption
       DEF CountInv, Counted, BothComplete, Before, Within
<1>8. CASE PrintNothing
  BY <1>0, <1>8, ChunkCount, PageAssumption
     DEF PrintNothing, Printing, CountInv, Counted, BothComplete, Before, Within,
         request, progress
<1>9. CASE UNCHANGED pagevars
  BY <1>9 DEF pagevars, CountInv, Counted, BothComplete, Before, Within, request, progress
<1> QED
  BY <1>1, <1>2, <1>3, <1>4, <1>5, <1>6, <1>7, <1>8, <1>9 DEF PageNext, PageStep

-------------------------------------------------------------------------------
(* The page keeps to the buffer, for every size of buffer and chunk and any   *)
(* number of samples: adc_ix, _adc_ix and every index of server_response.     *)
THEOREM PageTypeCorrect == PageSpec => []PageTypeOK
<1>1. PageInv => PageTypeOK
  BY DEF PageInv
<1> QED
  BY <1>1, PageInvHolds, PTL

(* Whatever is sampled while the page is made, each of its two arrays shows   *)
(* values of its own channel only (server_response, cli_adc_cb).              *)
THEOREM SidesStayApart == PageSpec => []SidesKept
<1>1. PageInv => SidesKept
  BY DEF PageInv
<1> QED
  BY <1>1, PageInvHolds, PTL

(* A page that is over showed as many values of each channel as the buffer    *)
(* holds (the chunk arithmetic of server_response).                           *)
THEOREM PagesComplete == PageSpec => []BothComplete
<1>1. PageInit => CountInv
  BY DEF PageInit, CountInv, Counted, BothComplete
<1>2. PageInv => PageTypeOK
  BY DEF PageInv
<1>3. PageTypeOK /\ CountInv /\ [PageNext]_pagevars => CountInv'
  BY CountKeeps
<1>4. CountInv => BothComplete
  BY DEF CountInv
<1> QED
  BY <1>1, <1>2, <1>3, <1>4, PageInvHolds, PTL DEF PageSpec

-------------------------------------------------------------------------------
(* What a page was asked for.                                                 *)

\* Continuous sampling is off before it is started anew; then what the page asked for
\* holds.
AskedInv ==
    /\ at = "restart" => state # "STEREO_CONT" /\ query # NoQuery
    /\ at = "print" /\ query # NoQuery =>
          IF query = {0} \/ hindered THEN state # "STEREO_CONT"
          ELSE state = "STEREO_CONT" /\ freq \in query

\* There is one frequency in a query, and four things the driver may be doing.
QueryInv == query \in Queries /\ state \in Singles \cup {"IDLE", "STEREO_CONT"}

LEMMA QueryKeeps ==
    ASSUME QueryInv, [PageNext]_pagevars PROVE QueryInv'
<1>1. CASE Irq
  BY <1>1 DEF Irq, Report, Over, Singles, request, QueryInv
<1>2. CASE Command
  BY <1>2 DEF Command, SampleOne, SampleMany, Stop, Singles, request, QueryInv
<1>3. CASE \E q \in Queries, h \in BOOLEAN : Get(q, h)
  BY <1>3 DEF Get, adcvars, QueryInv
<1>4. CASE NoFreq \/ StopFirst \/ Restart
  BY <1>4 DEF NoFreq, StopFirst, Restart, Stop, SampleMany, adcvars, request, QueryInv
<1>5. CASE PrintHead \/ PrintFirst \/ PrintSecond \/ PrintTail \/ PrintNothing
  BY <1>5 DEF PrintHead, PrintFirst, PrintSecond, PrintTail, PrintNothing, adcvars, request,
              QueryInv
<1>6. CASE UNCHANGED pagevars
  BY <1>6 DEF pagevars, adcvars, request, QueryInv
<1> QED
  BY <1>1, <1>2, <1>3, <1>4, <1>5, <1>6 DEF PageNext, PageStep

LEMMA AskedKeeps ==
    ASSUME QueryInv, AskedInv, [PageNext]_pagevars PROVE AskedInv'
<1>1. CASE Irq
  <2>1. /\ UNCHANGED <<at, query, freq, hindered>>
        /\ state' = "STEREO_CONT" <=> state = "STEREO_CONT"
    BY <1>1 DEF Irq, Report, Over, Singles, request
  <2> QED
    BY <2>1 DEF AskedInv
<1>2. CASE Command
  BY <1>2 DEF Command, AskedInv
<1>3. CASE \E q \in Queries, h \in BOOLEAN : Get(q, h)
  BY <1>3 DEF Get, AskedInv
<1>4. CASE NoFreq
  BY <1>4 DEF NoFreq, AskedInv, request
<1>5. CASE StopFirst
  <2>1. at' = "restart" /\ state' # "STEREO_CONT" /\ query' # NoQuery
    BY <1>5 DEF StopFirst, Stop, adcvars, request
  <2> QED
    BY <2>1 DEF AskedInv
<1>6. CASE Restart
  <2>1. PICK f \in query : IF f > 0 /\ state = "IDLE" THEN SampleMany(f) ELSE UNCHANGED adcvars
    BY <1>6 DEF Restart
  <2>2. at' = "print" /\ query' = query /\ state \in Singles \cup {"IDLE"}
    BY <1>6 DEF Restart, AskedInv, QueryInv, request
  <2>3. hindered' <=> state \in Singles
    BY <1>6, Zenon DEF Restart
  <2>4. query = {f} /\ f \in Nat
    BY <2>1, PageAssumption DEF QueryInv, Queries, NoQuery
  <2>5. CASE f > 0 /\ state = "IDLE"
    <3>1. freq' = f /\ f # 0 /\ state' = "STEREO_CONT"
      BY <2>1, <2>5 DEF SampleMany
    <3>2. ~hindered'
      BY <2>3, <2>5 DEF Singles
    <3> QED
      BY <2>2, <2>4, <3>1, <3>2 DEF AskedInv
  <2>6. CASE ~(f > 0 /\ state = "IDLE")
    <3>1. query = {0} \/ hindered'
      BY <2>2, <2>3, <2>4, <2>6
    <3>2. state' # "STEREO_CONT"
      BY <2>1, <2>2, <2>6 DEF adcvars, Singles
    <3> QED
      BY <2>2, <3>1, <3>2 DEF AskedInv
  <2> QED
    BY <2>5, <2>6
<1>7. CASE PrintHead \/ PrintFirst \/ PrintSecond \/ PrintTail \/ PrintNothing
  <2>1. UNCHANGED <<state, freq, query, hindered>> /\ at = "print"
    BY <1>7 DEF PrintHead, PrintFirst, PrintSecond, PrintTail, PrintNothing, Printing, request,
                adcvars
  <2>2. at' # "restart"
    BY <1>7, <2>1 DEF PrintHead, PrintFirst, PrintSecond, PrintTail, PrintNothing, Loop, NextCall
  <2> QED
    BY <2>1, <2>2 DEF AskedInv
<1>8. CASE UNCHANGED pagevars
  BY <1>8 DEF pagevars, AskedInv, request, adcvars
<1> QED
  BY <1>1, <1>2, <1>3, <1>4, <1>5, <1>6, <1>7, <1>8 DEF PageNext, PageStep

(* When a page made with freq= is over, sampling goes on at its frequency, or *)
(* has stopped if that was zero or a one-shot was in the way of the restart,  *)
(* whatever the converters do meanwhile (server_response).                    *)
THEOREM PagesAsAsked == PageSpec => AsAsked
<1>1. PageInit => AskedInv /\ QueryInv
  BY DEF PageInit, ServiceInit, AskedInv, QueryInv, Queries
<1>2. AskedInv /\ QueryInv /\ [PageNext]_pagevars => AskedInv' /\ QueryInv'
  BY AskedKeeps, QueryKeeps
<1>3. ASSUME AskedInv, [PageNext]_pagevars
      PROVE  [ at = "print" /\ at' = "none" /\ query # NoQuery =>
                 IF query = {0} \/ hindered THEN state # "STEREO_CONT"
                 ELSE state = "STEREO_CONT" /\ freq \in query ]_pagevars
  BY <1>3 DEF AskedInv
<1> QED
  BY <1>1, <1>2, <1>3, PTL DEF PageSpec, AsAsked

-------------------------------------------------------------------------------
(* Which samples a page shows.                                                *)

\* Whole rounds of the buffer leave no rest.
LEMMA WholeRounds ==
    ASSUME NEW n \in Nat \ {0}, NEW m \in Nat
    PROVE  (n * m) % n = 0
<1> DEFINE q == (n * m) \div n
           r == (n * m) % n
<1>1. n * m \in Int /\ n > 0
  OBVIOUS
<1>2. q \in Int /\ r \in 0 .. n - 1 /\ n * m = n * q + r
  BY <1>1, SMTT(30)
<1> HIDE DEF q, r
<1>3. n * (m - q) = r /\ m - q \in Int
  BY <1>2
<1>4. ASSUME m - q >= 1 PROVE FALSE
  <2>1. n * (m - q) >= n
    BY <1>3, <1>4, SMTT(30)
  <2> QED
    BY <1>2, <1>3, <2>1
<1>5. ASSUME m - q <= -1 PROVE FALSE
  <2>1. n * (m - q) <= -n
    BY <1>3, <1>5, SMTT(30)
  <2> QED
    BY <1>2, <1>3, <2>1
<1>6. m - q = 0
  BY <1>3, <1>4, <1>5
<1>7. r = 0
  BY <1>3, <1>6
<1> QED
  BY <1>7 DEF r

\* A count of rounds and a place in the last one, and one not less.
LEMMA RoundsSince ==
    ASSUME NEW n \in Nat \ {0}, NEW r \in Nat, NEW r0 \in Nat,
           NEW w \in 0 .. n - 1, NEW g \in 0 .. n - 1, n * r + w >= n * r0 + g
    PROVE  r >= r0 /\ (r = r0 => w >= g)
<1>1. ASSUME r < r0 PROVE FALSE
  <2>1. n * (r + 1) <= n * r0
    BY <1>1, SMTT(30)
  <2>2. n * (r + 1) = n * r + n
    OBVIOUS
  <2>3. n * r \in Int /\ n * r0 \in Int
    OBVIOUS
  <2> QED
    BY <2>1, <2>2, <2>3
<1>2. n * r \in Int
  OBVIOUS
<1> QED
  BY <1>1, <1>2

\* The sample at pair h when r rounds and the first w pairs of another are written.
NumberAt(h, w, r) == IF h < w THEN PAIRS * r + h + 1
                     ELSE IF r = 0 THEN 0 ELSE PAIRS * (r - 1) + h + 1

\* A sample due, or one of a later round.
InSlotOf(nr, due) == nr >= due /\ (nr > 0 => (nr - due) % PAIRS = 0)

LEMMA InSlotNow ==
    ASSUME NEW g \in 0 .. PAIRS - 1, NEW w \in 0 .. PAIRS - 1, NEW r \in Nat, NEW r0 \in Nat,
           PAIRS * r + w >= PAIRS * r0 + g, NEW k \in 0 .. PAIRS - 1,
           NEW h, h = IF k + g < PAIRS THEN k + g ELSE k + g - PAIRS
    PROVE  InSlotOf(NumberAt(h, w, r), PAIRS * r0 + g + k + 1 - PAIRS)
<1> DEFINE due == PAIRS * r0 + g + k + 1 - PAIRS
<1>0. PAIRS \in Nat \ {0} /\ h \in 0 .. PAIRS - 1
  BY PageAssumption
<1>1. r >= r0 /\ (r = r0 => w >= g)
  BY <1>0, RoundsSince
<1>2. ASSUME NEW m \in Nat, NumberAt(h, w, r) = due + PAIRS * m
      PROVE  InSlotOf(NumberAt(h, w, r), due)
  <2>1. PAIRS * m >= 0 /\ PAIRS * m \in Int /\ due \in Int
    BY <1>0, SMTT(30)
  <2>2. (PAIRS * m) % PAIRS = 0
    BY <1>0, WholeRounds
  <2>3. (due + PAIRS * m) - due = PAIRS * m
    BY <2>1
  <2> HIDE DEF due
  <2> QED
    BY <1>2, <2>1, <2>2, <2>3 DEF InSlotOf
<1>3. /\ PAIRS * r \in Int /\ PAIRS * r0 \in Int
      /\ PAIRS * (r - r0) = PAIRS * r - PAIRS * r0
      /\ PAIRS * (r - r0 + 1) = PAIRS * r - PAIRS * r0 + PAIRS
      /\ PAIRS * (r - 1) = PAIRS * r - PAIRS
      /\ PAIRS * (r - 1 - r0) = PAIRS * r - PAIRS * r0 - PAIRS
  BY <1>0, SMTT(30)
<1>4. CASE k + g < PAIRS
  <2>1. h = k + g /\ due = PAIRS * r0 + h + 1 - PAIRS
    BY <1>0, <1>3, <1>4
  <2>2. CASE h < w
    <3>1. NumberAt(h, w, r) = due + PAIRS * (r - r0 + 1) /\ r - r0 + 1 \in Nat
      BY <1>0, <1>1, <1>3, <2>1, <2>2 DEF NumberAt
    <3> QED
      BY <1>2, <3>1
  <2>3. CASE h >= w /\ r = 0
    <3>1. NumberAt(h, w, r) = 0 /\ r0 = 0
      BY <1>0, <1>1, <2>3 DEF NumberAt
    <3>2. due <= 0 /\ due \in Int
      BY <1>0, <2>1, <3>1
    <3> QED
      BY <3>1, <3>2 DEF InSlotOf
  <2>4. CASE h >= w /\ r # 0
    <3>1. NumberAt(h, w, r) = due + PAIRS * (r - r0) /\ r - r0 \in Nat
      BY <1>0, <1>1, <1>3, <2>1, <2>4 DEF NumberAt
    <3> QED
      BY <1>2, <3>1
  <2> QED
    BY <1>0, <2>2, <2>3, <2>4
<1>5. CASE k + g >= PAIRS
  <2>1. h = k + g - PAIRS /\ due = PAIRS * r0 + h + 1 /\ h < g
    BY <1>0, <1>3, <1>5
  <2>2. CASE h < w
    <3>1. NumberAt(h, w, r) = due + PAIRS * (r - r0) /\ r - r0 \in Nat
      BY <1>0, <1>1, <1>3, <2>1, <2>2 DEF NumberAt
    <3> QED
      BY <1>2, <3>1
  <2>3. CASE h >= w
    <3>1. r > r0 /\ r - 1 - r0 \in Nat /\ r # 0
      BY <1>0, <1>1, <2>1, <2>3
    <3>2. NumberAt(h, w, r) = due + PAIRS * (r - 1 - r0)
      BY <1>0, <1>3, <2>1, <2>3, <3>1 DEF NumberAt
    <3> QED
      BY <1>2, <3>1, <3>2
  <2> QED
    BY <1>0, <2>2, <2>3
<1> QED
  BY <1>0, <1>4, <1>5

\* The buffer holds the last PAIRS samples, the next one's place among them.
Rounds ==
    \E w \in 0 .. PAIRS - 1, r \in Nat :
       /\ adc_ix = 2 * w /\ samples = PAIRS * r + w
       /\ \A h \in 0 .. PAIRS - 1 : /\ adc_buf[2 * h].nr = NumberAt(h, w, r)
                                    /\ adc_buf[2 * h + 1].nr = NumberAt(h, w, r)

\* The page's copy of the index is where the buffer once was.
IndexCopied ==
    /\ samples >= snap
    /\ \E g \in 0 .. PAIRS - 1, r \in Nat : start_ix = 2 * g /\ snap = PAIRS * r + g

\* What the page shows of the first channel is not newer than what is there now.
NotAhead ==
    \A k \in DOMAIN data1 :
       /\ k \in 1 .. PAIRS
       /\ data1[k].nr <= adc_buf[Wrapped((k - 1) * 2 + start_ix)].nr

Shown(data) == \A k \in DOMAIN data : InSlotOf(data[k].nr, snap + k - PAIRS)
FirstNotAfter == \A k \in DOMAIN data1 \cap DOMAIN data2 : data1[k].nr <= data2[k].nr

SlotInv == Rounds /\ IndexCopied /\ NotAhead /\ Shown(data1) /\ Shown(data2) /\ FirstNotAfter

\* The pair a page's index stands for.
LEMMA PairOf ==
    ASSUME NEW k \in 0 .. PAIRS - 1, NEW g \in 0 .. PAIRS - 1, NEW ix, ix = 2 * g,
           NEW h, h = IF k + g < PAIRS THEN k + g ELSE k + g - PAIRS
    PROVE  /\ h \in 0 .. PAIRS - 1
           /\ Wrapped(k * 2 + ix) = 2 * h /\ Wrapped(k * 2 + ix + 1) = 2 * h + 1
<1>1. CASE k + g < PAIRS
  BY <1>1, PageAssumption DEF Wrapped, SIZE
<1>2. CASE k + g >= PAIRS
  BY <1>2, PageAssumption DEF Wrapped, SIZE
<1> QED
  BY <1>1, <1>2, PageAssumption

\* What is at place k of the page now is in its slot, in both channels the same.
LEMMA SlotNow ==
    ASSUME Rounds, IndexCopied, NEW k \in 0 .. PAIRS - 1
    PROVE  /\ InSlotOf(adc_buf[Wrapped(k * 2 + start_ix)].nr, snap + (k + 1) - PAIRS)
           /\ adc_buf[Wrapped(k * 2 + start_ix + 1)].nr = adc_buf[Wrapped(k * 2 + start_ix)].nr
<1>1. PICK w \in 0 .. PAIRS - 1, r \in Nat :
         /\ adc_ix = 2 * w /\ samples = PAIRS * r + w
         /\ \A h \in 0 .. PAIRS - 1 : /\ adc_buf[2 * h].nr = NumberAt(h, w, r)
                                      /\ adc_buf[2 * h + 1].nr = NumberAt(h, w, r)
  BY DEF Rounds
<1>2. PICK g \in 0 .. PAIRS - 1, r0 \in Nat : start_ix = 2 * g /\ snap = PAIRS * r0 + g
  BY DEF IndexCopied
<1> DEFINE h == IF k + g < PAIRS THEN k + g ELSE k + g - PAIRS
<1>3. /\ h \in 0 .. PAIRS - 1
      /\ Wrapped(k * 2 + start_ix) = 2 * h /\ Wrapped(k * 2 + start_ix + 1) = 2 * h + 1
  BY <1>2, PairOf
<1>4. PAIRS * r + w >= PAIRS * r0 + g
  BY <1>1, <1>2 DEF IndexCopied
<1>5. InSlotOf(NumberAt(h, w, r), PAIRS * r0 + g + k + 1 - PAIRS)
  BY <1>4, InSlotNow
<1>6. PAIRS * r0 + g + k + 1 - PAIRS = snap + (k + 1) - PAIRS
  <2>1. PAIRS * r0 \in Int /\ PAIRS \in Int
    BY PageAssumption
  <2> QED
    BY <1>2, <2>1
<1> HIDE DEF h
<1>7. InSlotOf(NumberAt(h, w, r), snap + (k + 1) - PAIRS)
  BY <1>5, <1>6
<1> QED
  BY <1>1, <1>3, <1>7

\* A sample is newer than the one it replaces.
LEMMA IrqSlots ==
    ASSUME PageInv, SlotInv, Irq PROVE SlotInv'
<1>1. PICK w \in 0 .. PAIRS - 1, r \in Nat :
         /\ adc_ix = 2 * w /\ samples = PAIRS * r + w
         /\ \A h \in 0 .. PAIRS - 1 : /\ adc_buf[2 * h].nr = NumberAt(h, w, r)
                                      /\ adc_buf[2 * h + 1].nr = NumberAt(h, w, r)
  BY DEF SlotInv, Rounds
<1>2. PAIRS \in Nat \ {0} /\ PAIRS * r \in Nat /\ PAIRS * (r + 1) = PAIRS * r + PAIRS
      /\ PAIRS * (r - 1) = PAIRS * r - PAIRS
  BY PageAssumption, SMTT(30)
<1>3. /\ samples' = samples + 1 /\ UNCHANGED <<start_ix, snap, data1, data2>>
      /\ adc_ix' = (adc_ix + 2) % SIZE
  BY DEF Irq, cli_adc_cb, copied, progress
<1>4. adc_ix' = IF w + 1 = PAIRS THEN 0 ELSE 2 * (w + 1)
  <2>1. 2 * w + 2 \in 0 .. SIZE /\ SIZE \in Nat \ {0}
    BY PageAssumption DEF SIZE
  <2>2. adc_ix' = IF 2 * w + 2 = SIZE THEN 0 ELSE 2 * w + 2
    BY <1>1, <1>3, <2>1, Wraps
  <2> QED
    BY <2>2, PageAssumption DEF SIZE
<1>5. ASSUME NEW h \in 0 .. PAIRS - 1
      PROVE  /\ adc_buf'[2 * h].nr = IF h = w THEN samples' ELSE NumberAt(h, w, r)
             /\ adc_buf'[2 * h + 1].nr = IF h = w THEN samples' ELSE NumberAt(h, w, r)
  <2> DEFINE First  == [side |-> 1, nr |-> samples']
             Second == [side |-> 2, nr |-> samples']
  <2>1. First.nr = samples' /\ Second.nr = samples'
    OBVIOUS
  <2>2. adc_buf \in [0 .. SIZE - 1 -> Byte]
    BY DEF PageInv, PageTypeOK
  <2>3. adc_buf' = [adc_buf EXCEPT ![2 * w] = First, ![2 * w + 1] = Second]
    BY <1>1 DEF Irq, cli_adc_cb
  <2> HIDE DEF First, Second
  <2>4. 2 * h \in 0 .. SIZE - 1 /\ 2 * h + 1 \in 0 .. SIZE - 1
    BY PageAssumption DEF SIZE
  <2>5. /\ adc_buf'[2 * h] = IF h = w THEN First ELSE adc_buf[2 * h]
        /\ adc_buf'[2 * h + 1] = IF h = w THEN Second ELSE adc_buf[2 * h + 1]
    BY <2>2, <2>3, <2>4
  <2> QED
    BY <1>1, <2>1, <2>5
<1>6. Rounds'
  <2>1. CASE w + 1 < PAIRS
    <3>1. w + 1 \in 0 .. PAIRS - 1 /\ adc_ix' = 2 * (w + 1) /\ samples' = PAIRS * r + (w + 1)
      BY <1>1, <1>2, <1>3, <1>4, <2>1
    <3>2. ASSUME NEW h \in 0 .. PAIRS - 1
          PROVE  NumberAt(h, w + 1, r) = IF h = w THEN samples' ELSE NumberAt(h, w, r)
      BY <1>1, <1>2, <1>3 DEF NumberAt
    <3> QED
      BY <1>5, <3>1, <3>2 DEF Rounds
  <2>2. CASE w + 1 = PAIRS
    <3>1. 0 \in 0 .. PAIRS - 1 /\ adc_ix' = 2 * 0 /\ samples' = PAIRS * (r + 1) + 0
      BY <1>1, <1>2, <1>3, <1>4, <2>2
    <3>2. ASSUME NEW h \in 0 .. PAIRS - 1
          PROVE  NumberAt(h, 0, r + 1) = IF h = w THEN samples' ELSE NumberAt(h, w, r)
      BY <1>1, <1>2, <1>3, <2>2 DEF NumberAt
    <3>3. r + 1 \in Nat
      OBVIOUS
    <3> QED
      BY <1>5, <3>1, <3>2, <3>3 DEF Rounds
  <2> QED
    BY <1>2, <2>1, <2>2
<1>7. IndexCopied'
  BY <1>1, <1>2, <1>3 DEF SlotInv, IndexCopied
<1>8. NotAhead'
  <2> SUFFICES ASSUME NEW k \in DOMAIN data1
               PROVE  /\ k \in 1 .. PAIRS
                      /\ data1[k].nr <= adc_buf'[Wrapped((k - 1) * 2 + start_ix)].nr
    BY <1>3 DEF NotAhead, Wrapped
  <2>1. k \in 1 .. PAIRS /\ data1[k].nr <= adc_buf[Wrapped((k - 1) * 2 + start_ix)].nr
    BY DEF SlotInv, NotAhead
  <2>2. PICK h \in 0 .. PAIRS - 1 : Wrapped((k - 1) * 2 + start_ix) = 2 * h
    <3>1. k - 1 \in 0 .. PAIRS - 1
      BY <1>2, <2>1
    <3> QED
      BY <3>1, WrapsToPair DEF PageInv, Paired
  <2>3. adc_buf[2 * h].nr <= adc_buf'[2 * h].nr /\ adc_buf[2 * h].nr \in Int /\ adc_buf'[2 * h].nr \in Int
    <3>1. adc_buf[2 * h].nr = NumberAt(h, w, r)
      BY <1>1
    <3>2. NumberAt(h, w, r) <= samples + 1 /\ NumberAt(h, w, r) \in Int
      BY <1>1, <1>2 DEF NumberAt
    <3> QED
      BY <1>1, <1>2, <1>3, <1>5, <3>1, <3>2
  <2>4. data1[k].nr \in Int
    <3>1. data1 \in Seq(Byte)
      BY DEF PageInv, PageTypeOK
    <3>2. data1[k] \in Byte
      BY <3>1
    <3> QED
      BY <3>2 DEF Byte
  <2>5. /\ adc_buf[Wrapped((k - 1) * 2 + start_ix)].nr = adc_buf[2 * h].nr
        /\ adc_buf'[Wrapped((k - 1) * 2 + start_ix)].nr = adc_buf'[2 * h].nr
    BY <2>2
  <2>6. data1[k].nr <= adc_buf'[2 * h].nr
    BY <2>1, <2>3, <2>4, <2>5
  <2> QED
    BY <2>1, <2>5, <2>6
<1>9. Shown(data1)' /\ Shown(data2)' /\ FirstNotAfter'
  BY <1>3 DEF SlotInv, Shown, FirstNotAfter
<1> QED
  BY <1>6, <1>7, <1>8, <1>9 DEF SlotInv

LEMMA FirstSlots ==
    ASSUME PageInv, CountInv, SlotInv, PrintFirst PROVE SlotInv'
<1> DEFINE k == (chunk_nbr - 1) * CHUNK + i
           shown == adc_buf[Wrapped(k * 2 + start_ix)]
<1>1. /\ data1' = Append(data1, shown)
      /\ UNCHANGED <<adc_buf, adc_ix, samples, start_ix, snap, data2>>
  BY DEF PrintFirst, sampling, copied
<1>2. k \in 0 .. PAIRS - 1
  BY WithinChannel DEF PrintFirst, PageInv, PageTypeOK
<1>3. Len(data1) = k /\ Len(data2) = 0
  BY ChunkCount DEF CountInv, Counted, PrintFirst, Printing, Before, Within
<1> HIDE DEF k
<1>4. InSlotOf(shown.nr, snap + (k + 1) - PAIRS)
  BY <1>2, SlotNow DEF SlotInv
<1>5. data1 \in Seq(Byte) /\ data2 \in Seq(Byte)
  BY DEF PageInv, PageTypeOK
<1>6. data2 = <<>>
  BY <1>3, <1>5
<1>7. /\ DOMAIN data1 = 1 .. k /\ DOMAIN data1' = 1 .. k + 1
      /\ \A n \in 1 .. k + 1 : data1'[n] = IF n = k + 1 THEN shown ELSE data1[n]
  BY <1>1, <1>2, <1>3, <1>5
<1>8. shown.nr \in Int
  <2>1. PICK h \in 0 .. PAIRS - 1 : Wrapped(k * 2 + start_ix) = 2 * h
    BY <1>2, WrapsToPair DEF PageInv, Paired
  <2>2. 2 * h \in 0 .. SIZE - 1
    BY PageAssumption DEF SIZE
  <2> QED
    BY <2>1, <2>2 DEF PageInv, PageTypeOK, Byte
<1> HIDE DEF shown
<1>9. Shown(data1)'
  <2> SUFFICES ASSUME NEW n \in 1 .. k + 1
               PROVE  InSlotOf(data1'[n].nr, snap + n - PAIRS)
    BY <1>1, <1>7 DEF Shown, InSlotOf
  <2>1. CASE n = k + 1
    BY <1>4, <1>7, <2>1
  <2>2. CASE n # k + 1
    <3>1. n \in DOMAIN data1 /\ data1'[n] = data1[n]
      BY <1>2, <1>7, <2>2
    <3> QED
      BY <3>1 DEF SlotInv, Shown
  <2> QED
    BY <2>1, <2>2
<1>10. NotAhead'
  <2> SUFFICES ASSUME NEW n \in 1 .. k + 1
               PROVE  /\ n \in 1 .. PAIRS
                      /\ data1'[n].nr <= adc_buf[Wrapped((n - 1) * 2 + start_ix)].nr
    BY <1>1, <1>7 DEF NotAhead, Wrapped
  <2>1. n \in 1 .. PAIRS
    BY <1>2, PageAssumption
  <2>2. CASE n = k + 1
    <3>1. n - 1 = k /\ data1'[n] = shown
      BY <1>2, <1>7, <2>2
    <3>2. adc_buf[Wrapped((n - 1) * 2 + start_ix)] = shown
      BY <3>1 DEF shown
    <3> QED
      BY <1>8, <2>1, <3>1, <3>2
  <2>3. CASE n # k + 1
    <3>1. n \in DOMAIN data1 /\ data1'[n] = data1[n]
      BY <1>2, <1>7, <2>3
    <3> QED
      BY <2>1, <3>1 DEF SlotInv, NotAhead
  <2> QED
    BY <2>2, <2>3
<1>11. Rounds' /\ IndexCopied'
  BY <1>1 DEF SlotInv, Rounds, IndexCopied, NumberAt
<1>12. Shown(data2)' /\ FirstNotAfter'
  BY <1>1, <1>6 DEF Shown, FirstNotAfter
<1> QED
  BY <1>9, <1>10, <1>11, <1>12 DEF SlotInv

LEMMA SecondSlots ==
    ASSUME PageInv, CountInv, SlotInv, PrintSecond PROVE SlotInv'
<1> DEFINE c == chunk_nbr - CHANNEL_CHUNKS
           k == (chunk_nbr - 1 - CHANNEL_CHUNKS) * CHUNK + i
           shown == adc_buf[Wrapped(k * 2 + start_ix + 1)]
<1>1. /\ data2' = Append(data2, shown)
      /\ UNCHANGED <<adc_buf, adc_ix, samples, start_ix, snap, data1>>
  BY DEF PrintSecond, sampling, copied
<1>2. c \in 1 .. CHANNEL_CHUNKS /\ i \in 0 .. CHUNK - 1 /\ k = (c - 1) * CHUNK + i
  BY ChunkCount DEF PrintSecond, PageInv, PageTypeOK
<1>3. k \in 0 .. PAIRS - 1
  <2> HIDE DEF c, k
  <2> QED
    BY <1>2, WithinChannel
<1>4. Len(data2) = k
  BY <1>2, ChunkCount, PageAssumption
     DEF CountInv, Counted, PageInv, PageTypeOK, PrintSecond, Printing, Before, Within
<1> HIDE DEF c, k
<1>5. /\ InSlotOf(shown.nr, snap + (k + 1) - PAIRS)
      /\ shown.nr = adc_buf[Wrapped(k * 2 + start_ix)].nr
  BY <1>3, SlotNow DEF SlotInv
<1>6. data2 \in Seq(Byte)
  BY DEF PageInv, PageTypeOK
<1>7. /\ DOMAIN data2 = 1 .. k /\ DOMAIN data2' = 1 .. k + 1
      /\ \A n \in 1 .. k + 1 : data2'[n] = IF n = k + 1 THEN shown ELSE data2[n]
  BY <1>1, <1>3, <1>4, <1>6
<1> HIDE DEF shown
<1>8. Shown(data2)'
  <2> SUFFICES ASSUME NEW n \in 1 .. k + 1
               PROVE  InSlotOf(data2'[n].nr, snap + n - PAIRS)
    BY <1>1, <1>7 DEF Shown, InSlotOf
  <2>1. CASE n = k + 1
    BY <1>5, <1>7, <2>1
  <2>2. CASE n # k + 1
    <3>1. n \in DOMAIN data2 /\ data2'[n] = data2[n]
      BY <1>3, <1>7, <2>2
    <3> QED
      BY <3>1 DEF SlotInv, Shown
  <2> QED
    BY <2>1, <2>2
<1>9. FirstNotAfter'
  <2> SUFFICES ASSUME NEW n \in 1 .. k + 1, n \in DOMAIN data1
               PROVE  data1[n].nr <= data2'[n].nr
    BY <1>1, <1>7 DEF FirstNotAfter
  <2>1. CASE n = k + 1
    <3>1. n - 1 = k /\ data2'[n] = shown
      BY <1>3, <1>7, <2>1
    <3>2. data1[n].nr <= adc_buf[Wrapped((n - 1) * 2 + start_ix)].nr
      BY DEF SlotInv, NotAhead
    <3> QED
      BY <1>5, <3>1, <3>2
  <2>2. CASE n # k + 1
    <3>1. n \in DOMAIN data2 /\ data2'[n] = data2[n]
      BY <1>3, <1>7, <2>2
    <3> QED
      BY <3>1 DEF SlotInv, FirstNotAfter
  <2> QED
    BY <2>1, <2>2
<1>10. Rounds' /\ IndexCopied' /\ NotAhead' /\ Shown(data1)'
  BY <1>1 DEF SlotInv, Rounds, IndexCopied, NumberAt, NotAhead, Shown, Wrapped
<1> QED
  BY <1>8, <1>9, <1>10 DEF SlotInv

\* The page copies the index before it shows anything; every other step leaves what
\* is shown, or forgets all of it.
LEMMA OthersSlots ==
    ASSUME PageInv, CountInv, SlotInv,
           \/ Command \/ PrintHead \/ PrintTail
           \/ NoFreq \/ StopFirst \/ Restart \/ PrintNothing
           \/ \E q \in Queries, h \in BOOLEAN : Get(q, h)
           \/ UNCHANGED pagevars
    PROVE  SlotInv'
<1>1. UNCHANGED <<adc_buf, adc_ix, samples>>
  BY DEF Command, PrintHead, PrintTail, NoFreq, StopFirst, Restart, PrintNothing, Get, pagevars,
         sampling
<1>2. Rounds'
  BY <1>1 DEF SlotInv, Rounds, NumberAt
<1>3. CASE PrintHead
  <2>1. data1 = <<>> /\ data2 = <<>>
    <3>1. Len(data1) = 0 /\ Len(data2) = 0
      BY <1>3, ChunkCount DEF PrintHead, Printing, CountInv, Counted, Before, Within
    <3> QED
      BY <3>1 DEF PageInv, PageTypeOK
  <2>2. start_ix' = adc_ix /\ snap' = samples /\ UNCHANGED <<data1, data2>>
    BY <1>3 DEF PrintHead
  <2>3. IndexCopied'
    <3>1. samples \in Nat
      BY PageAssumption DEF PageInv, PageTypeOK
    <3>2. samples' >= snap'
      BY <1>1, <2>2, <3>1
    <3>3. \E g \in 0 .. PAIRS - 1, r \in Nat : start_ix' = 2 * g /\ snap' = PAIRS * r + g
      BY <2>2 DEF SlotInv, Rounds
    <3> QED
      BY <3>2, <3>3 DEF IndexCopied
  <2> QED
    BY <1>2, <2>1, <2>2, <2>3 DEF SlotInv, NotAhead, Shown, FirstNotAfter
<1>4. CASE \E q \in Queries, h \in BOOLEAN : Get(q, h)
  BY <1>1, <1>2, <1>4
     DEF Get, copied, SlotInv, IndexCopied, NotAhead, Shown, FirstNotAfter
<1>5. CASE ~PrintHead /\ ~(\E q \in Queries, h \in BOOLEAN : Get(q, h))
  <2>1. UNCHANGED <<start_ix, snap, data1, data2>>
    BY <1>5 DEF Command, PrintTail, NoFreq, StopFirst, Restart, PrintNothing, pagevars,
                copied, progress
  <2> QED
    BY <1>1, <1>2, <2>1 DEF SlotInv, IndexCopied, NotAhead, Shown, FirstNotAfter, InSlotOf, Wrapped
<1> QED
  BY <1>3, <1>4, <1>5

LEMMA SlotInit == PageInit => SlotInv
<1> SUFFICES ASSUME PageInit PROVE SlotInv
  OBVIOUS
<1>1. PAIRS \in Nat \ {0} /\ 0 \in 0 .. PAIRS - 1 /\ PAIRS * 0 = 0
  BY PageAssumption
<1>2. ASSUME NEW h \in 0 .. PAIRS - 1
      PROVE  /\ adc_buf[2 * h].nr = NumberAt(h, 0, 0)
             /\ adc_buf[2 * h + 1].nr = NumberAt(h, 0, 0)
  <2>1. 2 * h \in 0 .. SIZE - 1 /\ 2 * h + 1 \in 0 .. SIZE - 1
    BY <1>1 DEF SIZE
  <2>2. NumberAt(h, 0, 0) = 0
    BY DEF NumberAt
  <2> QED
    BY <2>1, <2>2 DEF PageInit
<1>3. adc_ix = 2 * 0 /\ samples = PAIRS * 0 + 0 /\ start_ix = 2 * 0 /\ snap = PAIRS * 0 + 0
  BY <1>1 DEF PageInit
<1>4. Rounds /\ IndexCopied
  <2>1. 0 \in Nat /\ samples >= snap
    BY DEF PageInit
  <2> QED
    BY <1>1, <1>2, <1>3, <2>1 DEF Rounds, IndexCopied
<1>5. data1 = <<>> /\ data2 = <<>>
  BY DEF PageInit
<1> QED
  BY <1>4, <1>5 DEF SlotInv, NotAhead, Shown, FirstNotAfter

(* Each place of a page shows the sample it stands for, or one of a later     *)
(* round, and never an older one in the second array than in the first, for   *)
(* every size of buffer and chunk and however sampling overtakes the page     *)
(* (server_response, cli_adc_cb).                                             *)
THEOREM SlotsShown == PageSpec => []SlotKept
<1>1. PageInit => CountInv
  BY DEF PageInit, CountInv, Counted, BothComplete
<1>2. PageInv => PageTypeOK
  BY DEF PageInv
<1>3. PageTypeOK /\ CountInv /\ [PageNext]_pagevars => CountInv'
  BY CountKeeps
<1>4. PageInv /\ CountInv /\ SlotInv /\ [PageNext]_pagevars => SlotInv'
  BY IrqSlots, FirstSlots, SecondSlots, OthersSlots DEF PageNext, PageStep
<1>5. SlotInv => SlotKept
  BY DEF SlotInv, Shown, FirstNotAfter, InSlotOf, SlotKept
<1> QED
  BY <1>1, <1>2, <1>3, <1>4, <1>5, SlotInit, PageInvHolds, PTL DEF PageSpec
===============================================================================
