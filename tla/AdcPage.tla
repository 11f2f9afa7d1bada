------------------------------- MODULE AdcPage ---------------------------------
(*****************************************************************************)
(* The page /adc of the robot's web server (src/src/server_impl.c) and the   *)
(* sample buffer it shows: the ADC interrupt writes the buffer through the   *)
(* console's callback (src/src/cli.c:559) while the task makes the page, one *)
(* chunk per call and one sample after the other within a chunk.             *)
(*                                                                           *)
(* The driver is the one of AdcService: a handler that runs between two      *)
(* steps of the driver is a handler that runs before or after them.          *)
(* The console has set the callback before any page is made (CLI_init).      *)
(* The loop that makes the calls is the one of server_request                *)
(* (src/src/userver.c:156).  A byte of the buffer is abstracted to which     *)
(* converter it came from and the number of the sample; 0 is a byte never    *)
(* written.                                                                  *)
(*****************************************************************************)
EXTENDS AdcService, Sequences

CONSTANTS
    PAIRS,          \* sizeof(adc_buf) / 2, 256 in the build
    CHUNK,          \* SAMPLE_CHUNK_BUF, 64 in the build
    MAX_SAMPLES     \* a bound on the samples taken

ASSUME PageAssumption ==
    /\ PAIRS \in Nat \ {0} /\ CHUNK \in Nat \ {0}
    /\ PAIRS % CHUNK = 0
    /\ MAX_SAMPLES \in Nat
    /\ FREQS \subseteq Nat

SIZE == 2 * PAIRS           \* sizeof(adc_buf)

\* Mutant: the last chunk is forgotten.
OneChunkLess == PAIRS \div CHUNK - 1

CHANNEL_CHUNKS == PAIRS \div CHUNK

VARIABLES
    adc_buf, adc_ix,    \* the console's
    start_ix,           \* _adc_ix, the page's copy of adc_ix
    at,                 \* where the task is in server_response
    query, head,        \* freq= of the request, {} without one; whether it is HEAD
    chunk_nbr,          \* req.chunk_nbr
    i,                  \* the loop's count within the chunk
    data1, data2        \* the arrays of the page, as far as they are printed

\* History variables.
VARIABLES
    samples,            \* samples taken since the boot
    snap,               \* and when the page copied adc_ix
    hindered            \* a one-shot ran when the page last started sampling

adcvars  == <<state, freq, calls>>
sampling == <<adc_buf, adc_ix, samples>>
copied   == <<start_ix, snap>>
request  == <<query, head>>
progress == <<chunk_nbr, i, data1, data2>>
pagevars == <<adcvars, sampling, copied, request, progress, at, hindered>>

NoQuery == {}
Queries == {NoQuery} \cup {{f} : f \in FREQS}
Places == {"none", "call", "restart", "print"}
Byte == [side : 0 .. 2, nr : 0 .. MAX_SAMPLES]

PageInit ==
    /\ ServiceInit
    /\ adc_buf = [k \in 0 .. SIZE - 1 |-> [side |-> 0, nr |-> 0]] /\ adc_ix = 0
    /\ start_ix = 0 /\ snap = 0 /\ samples = 0
    /\ at = "none" /\ query = NoQuery /\ head = FALSE
    /\ chunk_nbr = 0 /\ i = 0 /\ data1 = <<>> /\ data2 = <<>> /\ hindered = FALSE

-------------------------------------------------------------------------------
(* The sample buffer.                                                         *)

\* Both values are stored, also of a sample of one channel.
cli_adc_cb ==
    /\ samples < MAX_SAMPLES
    /\ samples' = samples + 1
    /\ adc_buf' = [adc_buf EXCEPT ![adc_ix]     = [side |-> 1, nr |-> samples'],
                                  ![adc_ix + 1] = [side |-> 2, nr |-> samples']]
    /\ adc_ix' = (adc_ix + 2) % SIZE

\* ADC_irq.
Irq == Report /\ cli_adc_cb /\ UNCHANGED <<copied, request, progress, at, hindered>>

\* The console's commands.
Command ==
    /\ at = "none"
    /\ \/ \E kind \in Singles : SampleOne(kind)
       \/ \E f \in FREQS : SampleMany(f)
       \/ Stop
    /\ UNCHANGED <<sampling, copied, request, progress, at, hindered>>

-------------------------------------------------------------------------------
(* The page.                                                                  *)

Get(q, h) ==
    /\ at = "none"
    /\ at' = "call" /\ query' = q /\ head' = h
    /\ chunk_nbr' = 0 /\ i' = 0 /\ data1' = <<>> /\ data2' = <<>>
    /\ UNCHANGED <<adcvars, sampling, copied, hindered>>

\* Every call looks at freq= again: it stops continuous sampling and, if the
\* frequency is not zero, starts it anew.
NoFreq ==
    /\ at = "call" /\ query = NoQuery
    /\ at' = "print"
    /\ UNCHANGED <<adcvars, sampling, copied, request, progress, hindered>>

StopFirst ==
    /\ at = "call" /\ query # NoQuery
    /\ IF state = "STEREO_CONT" THEN Stop ELSE UNCHANGED adcvars
    /\ at' = "restart"
    /\ UNCHANGED <<sampling, copied, request, progress, hindered>>

\* Mutant: sampling is started anew by the page's first call only.
RestartsOnce ==
    /\ at = "restart"
    /\ \E f \in query : IF f > 0 /\ state = "IDLE" /\ chunk_nbr = 0 THEN SampleMany(f)
                        ELSE UNCHANGED adcvars
    /\ hindered' = (state \in Singles)
    /\ at' = "print"
    /\ UNCHANGED <<sampling, copied, request, progress>>

Restart ==
    /\ at = "restart"
    /\ \E f \in query : IF f > 0 /\ state = "IDLE" THEN SampleMany(f)
                        ELSE UNCHANGED adcvars
    /\ hindered' = (state \in Singles)
    /\ at' = "print"
    /\ UNCHANGED <<sampling, copied, request, progress>>

Printing == at = "print"

\* A call that printed something is followed by another, for HEAD it is not.
NextCall == IF head THEN at' = "none" /\ UNCHANGED <<chunk_nbr, i>>
            ELSE at' = "call" /\ chunk_nbr' = chunk_nbr + 1 /\ i' = 0

\* Mutant: the index is copied for the first page only.
HeadKeepsIndex ==
    /\ Printing /\ chunk_nbr = 0
    /\ start_ix' = IF snap = 0 THEN adc_ix ELSE start_ix
    /\ snap' = samples
    /\ NextCall
    /\ UNCHANGED <<adcvars, sampling, request, data1, data2, hindered>>

PrintHead ==
    /\ Printing /\ chunk_nbr = 0
    /\ start_ix' = adc_ix /\ snap' = samples
    /\ NextCall
    /\ UNCHANGED <<adcvars, sampling, request, data1, data2, hindered>>

\* Mutant: the wrapped index is one too high.
WrappedOffByOne(ix) == IF ix >= SIZE THEN ix - SIZE + 1 ELSE ix

Wrapped(ix) == IF ix >= SIZE THEN ix - SIZE ELSE ix

\* One turn of the loop over the samples of a chunk.
Loop == IF i + 1 < CHUNK THEN /\ i' = i + 1
                              /\ UNCHANGED <<at, chunk_nbr>>
        ELSE NextCall

PrintFirst ==
    /\ Printing /\ chunk_nbr \in 1 .. CHANNEL_CHUNKS
    /\ LET k == (chunk_nbr - 1) * CHUNK + i
       IN  data1' = Append(data1, adc_buf[Wrapped(k * 2 + start_ix)])
    /\ Loop
    /\ UNCHANGED <<adcvars, sampling, copied, request, data2, hindered>>

PrintSecond ==
    /\ Printing /\ chunk_nbr - 1 \in CHANNEL_CHUNKS .. 2 * CHANNEL_CHUNKS - 1
    /\ LET k == (chunk_nbr - 1 - CHANNEL_CHUNKS) * CHUNK + i
       IN  data2' = Append(data2, adc_buf[Wrapped(k * 2 + start_ix + 1)])
    /\ Loop
    /\ UNCHANGED <<adcvars, sampling, copied, request, data1, hindered>>

PrintTail ==
    /\ Printing /\ chunk_nbr - 1 = 2 * CHANNEL_CHUNKS
    /\ NextCall
    /\ UNCHANGED <<adcvars, sampling, copied, request, data1, data2, hindered>>

\* Mutant: every later call prints something too.
PrintsOn ==
    /\ Printing /\ chunk_nbr - 1 > 2 * CHANNEL_CHUNKS
    /\ at' = "call"
    /\ UNCHANGED <<adcvars, sampling, copied, request, progress, hindered>>

\* The call that prints nothing ends the page.
PrintNothing ==
    /\ Printing /\ chunk_nbr - 1 > 2 * CHANNEL_CHUNKS
    /\ at' = "none"
    /\ UNCHANGED <<adcvars, sampling, copied, request, progress, hindered>>

PageStep ==
    \/ NoFreq \/ StopFirst \/ Restart
    \/ PrintHead \/ PrintFirst \/ PrintSecond \/ PrintTail \/ PrintNothing

PageNext ==
    \/ Command \/ Irq
    \/ \E q \in Queries, h \in BOOLEAN : Get(q, h)
    \/ PageStep

\* The task goes on when it can; no fairness is assumed of the hardware.
PageSpec == PageInit /\ [][PageNext]_pagevars /\ WF_pagevars(PageStep)

-------------------------------------------------------------------------------
\* Every variable stays within its type: no index leaves the buffer.
PageTypeOK ==
    /\ adc_buf \in [0 .. SIZE - 1 -> Byte] /\ adc_ix \in 0 .. SIZE - 1
    /\ start_ix \in 0 .. SIZE - 1
    /\ at \in Places /\ query \in Queries /\ head \in BOOLEAN
    /\ chunk_nbr \in 0 .. 2 * CHANNEL_CHUNKS + 2 /\ i \in 0 .. CHUNK - 1
    /\ data1 \in Seq(Byte) /\ data2 \in Seq(Byte)
    /\ samples \in 0 .. MAX_SAMPLES /\ snap \in 0 .. MAX_SAMPLES /\ hindered \in BOOLEAN

\* A channel's array holds values of that channel only, wherever in the buffer
\* the page began and whatever is sampled meanwhile.
SidesKept ==
    /\ \A k \in DOMAIN data1 : data1[k].side \in {0, 1}
    /\ \A k \in DOMAIN data2 : data2[k].side \in {0, 2}

\* Place k of the page shows the sample that was there when the page began or,
\* if sampling overtook the page, one of a later round of the buffer, so that a
\* page made in quiet shows the last samples in order; and the second array is
\* never behind the first.
SlotKept ==
    LET InSlot(b, k) == LET due == snap + k - PAIRS IN
                        b.nr >= due /\ (b.nr > 0 => (b.nr - due) % PAIRS = 0)
    IN  /\ \A k \in DOMAIN data1 : InSlot(data1[k], k)
        /\ \A k \in DOMAIN data2 : InSlot(data2[k], k)
        /\ \A k \in DOMAIN data1 \cap DOMAIN data2 : data1[k].nr <= data2[k].nr

\* A page that is over showed the whole buffer, each channel once.
BothComplete ==
    at = "none" /\ chunk_nbr > 0 => Len(data1) = PAIRS /\ Len(data2) = PAIRS

\* What a page was asked for holds when it is over, at the head of a page as at the
\* end of a whole one: with freq=0 sampling has stopped; with another frequency it goes
\* on, at that frequency, unless the page's last call found a one-shot in its way: then
\* it has stopped and was not started anew.
AsAsked ==
    [][ at = "print" /\ at' = "none" /\ query # NoQuery =>
          IF query = {0} \/ hindered THEN state # "STEREO_CONT"
          ELSE state = "STEREO_CONT" /\ freq \in query ]_pagevars

\* A page comes to its end, whatever the converters do.
PageEnds == at # "none" ~> at = "none"
===============================================================================
