------------------------------ MODULE AdcService -------------------------------
(*****************************************************************************)
(* What the ADC driver is to the rest of the robot: idle or sampling, one    *)
(* sample or many, each of which is reported through the callback.  No       *)
(* registers, no steps.  AdcDriver implements this; AdcPage is built on it.  *)
(*****************************************************************************)
EXTENDS Naturals

CONSTANT FREQS      \* the frequencies a caller may ask for

VARIABLES
    state,      \* what is being sampled
    freq,       \* the frequency last asked for
    calls       \* calls of the callback since the last request, up to two

Singles == {"MONO_SINGLE", "STEREO_SINGLE"}

ServiceInit == state = "IDLE" /\ freq = 0 /\ calls = 0

SampleOne(kind) == /\ state = "IDLE"
                   /\ state' = kind /\ calls' = 0
                   /\ UNCHANGED freq

SampleMany(f) == /\ state = "IDLE"
                 /\ state' = "STEREO_CONT" /\ freq' = f /\ calls' = 0

Stop == /\ state = "STEREO_CONT"
        /\ state' = "IDLE"
        /\ UNCHANGED <<freq, calls>>

\* A sample is there: a sampling of one is over.
Over == /\ state' = IF state \in Singles THEN "IDLE" ELSE state
        /\ UNCHANGED freq

Report == /\ state # "IDLE"
          /\ calls' = IF calls < 2 THEN calls + 1 ELSE calls
          /\ Over

\* A sample nobody asked to be told of, before the callback is set.
Drop == /\ state # "IDLE"
        /\ Over
        /\ UNCHANGED calls

ServiceNext ==
    \/ \E kind \in Singles : SampleOne(kind)
    \/ \E f \in FREQS : SampleMany(f)
    \/ Stop \/ Report \/ Drop

ServiceSpec == ServiceInit /\ [][ServiceNext]_<<state, freq, calls>>
===============================================================================
