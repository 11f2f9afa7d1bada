------------------------------ MODULE AdcProofs --------------------------------
(* What the ADC driver keeps for every set of channels and frequencies.       *)
EXTENDS AdcDriver, TLAPS

USE AdcAssumption

-------------------------------------------------------------------------------
(* The inductive invariant.                                                   *)

SetUp == {"common", "label0", "label1", "select1", "select2", "start"}

\* The driver is idle or does what it was last asked for, whatever the place of
\* the task; only a one-shot can be over before its function returns.
Follows ==
    /\ state \in {"IDLE", asked.to}
    /\ asked.to = "STEREO_CONT" /\ pc # "out" => state = "STEREO_CONT"
    /\ pc = "idle" => asked.to = "STEREO_CONT"
    /\ pc \in SetUp => asked.to # "IDLE"
    /\ pc \in {"label1", "select2"} => asked.to \in Stereo
    /\ tim3 <=> (state = "STEREO_CONT" /\ pc = "out")

\* What the steps of a sampling function have set when the task is past them.
Passed ==
    asked.to # "IDLE" =>
        /\ pc # "common" =>
             mode = IF asked.to \in Stereo THEN "RegSimult" ELSE "Independent"
        /\ pc \notin {"common", "label0"} => channel0 = asked.ch1
        /\ pc \notin {"common", "label0", "label1"} /\ asked.to \in Stereo =>
             channel1 = asked.ch2
        /\ pc \in {"select2", "start", "out", "idle"} => sel1 = asked.ch1
        /\ pc \in {"start", "out", "idle"} /\ asked.to \in Stereo => sel2 = asked.ch2

\* After a clean start the converters hold nothing but what was asked for.
Requested == IF asked.to \in Stereo THEN <<asked.ch1, asked.ch2>> ELSE <<asked.ch1>>

Converted ==
    clean =>
        /\ cb /\ asked.to # "IDLE"
        /\ pc \in SetUp => conv = <<>> /\ ~eoc
        /\ conv # <<>> => conv = Requested
        /\ eoc => dr1 = asked.ch1 /\ (asked.to \in Stereo => dr2 = asked.ch2)

\* A one-shot is reported when it makes the driver idle.
Counted ==
    asked.to \in Singles =>
        /\ calls <= 1
        /\ state # "IDLE" => calls = 0
        /\ clean /\ state = "IDLE" => calls = 1

AdcInv == AdcTypeOK /\ Follows /\ Passed /\ Converted /\ Counted /\ TrueLabels

LEMMA InitInv == AdcInit => AdcInv
  <1> SUFFICES ASSUME AdcInit PROVE AdcInv
    OBVIOUS
  <1>1. AdcTypeOK
    <2>1. conv \in Conversions
      BY DEF AdcInit, Conversions
    <2>2. asked \in [to : AdcStates, ch1 : Labels, ch2 : Labels]
      BY DEF AdcInit, AdcStates, Labels
    <2>3. called \in [ch1 : Labels, val1 : Labels, ch2 : Labels, val2 : Labels]
      BY DEF AdcInit, NotCalled, Labels, ADC_NONE
    <2>4. eoc \in BOOLEAN /\ cb \in BOOLEAN /\ tim3 \in BOOLEAN /\ clean \in BOOLEAN
      BY DEF AdcInit
    <2> QED
      BY <2>1, <2>2, <2>3, <2>4 DEF AdcInit, AdcTypeOK, AdcStates, Labels, Steps
  <1>2. Follows /\ Passed /\ Converted /\ Counted /\ TrueLabels
    BY DEF AdcInit, Follows, Passed, Converted, Counted, TrueLabels, SetUp, Singles,
        NotCalled, ADC_NONE
  <1> QED
    BY <1>1, <1>2 DEF AdcInv

LEMMA Zero == 0 \in Labels /\ ADC_NONE = 0
  BY DEF Labels, ADC_NONE

\* What a conversion can convert.
LEMMA LatchType ==
  ASSUME NEW m, NEW s1 \in Labels, NEW s2 \in Labels
  PROVE  Latch(m, s1, s2) \in Conversions
  BY DEF Latch, Conversions

-------------------------------------------------------------------------------
(* The driver's functions.                                                    *)

LEMMA AcceptStep ==
  ASSUME AdcInv, NEW to \in AdcStates \ {"IDLE"}, NEW ch1 \in Labels, NEW ch2 \in Labels,
         NEW f \in Nat, Accept(to, ch1, ch2, f)
  PROVE  AdcInv'
  <1>1. (cb /\ ~Pending) \in BOOLEAN
    BY Zenon
  <1>2. AdcTypeOK'
    BY <1>1, Zero
    DEF AdcInv, AdcTypeOK, Accept, Steps, hardware, selected, converter, NotCalled
  <1>3. ~tim3 /\ ~tim3'
    BY DEF AdcInv, Follows, Accept, Free, hardware
  <1>4. Follows' /\ Passed' /\ Counted' /\ TrueLabels'
    BY <1>3, Zero DEF Follows, Passed, Counted, TrueLabels, Accept, SetUp, NotCalled
  <1>5. Converted'
    BY DEF Converted, Accept, Pending, hardware, converter
  <1> QED
    BY <1>2, <1>4, <1>5 DEF AdcInv

LEMMA CallbackStep == AdcInv /\ ADC_set_callback => AdcInv'
  <1> SUFFICES ASSUME AdcInv, ADC_set_callback PROVE AdcInv'
    OBVIOUS
  <1>1. UNCHANGED <<state, channel0, channel1, freq, pc, asked, mode, sel1, sel2, tim3,
                    conv, eoc, dr1, dr2, called, calls, clean>> /\ cb' = TRUE
    BY DEF ADC_set_callback, task, hardware, selected, converter, history
  <1>2. AdcTypeOK'
    BY <1>1 DEF AdcInv, AdcTypeOK
  <1>3. Follows' /\ Passed' /\ Converted' /\ Counted' /\ TrueLabels'
    BY <1>1 DEF AdcInv, Follows, Passed, Converted, Counted, TrueLabels, Requested
  <1> QED
    BY <1>2, <1>3 DEF AdcInv

LEMMA CommonStep == AdcInv /\ CommonInit => AdcInv'
  <1> SUFFICES ASSUME AdcInv, CommonInit PROVE AdcInv'
    OBVIOUS
  <1>1. UNCHANGED <<state, channel0, channel1, freq, cb, asked, sel1, sel2, tim3,
                    conv, eoc, dr1, dr2, called, calls, clean>>
    BY DEF CommonInit, adc, converter, history
  <1>2. pc = "common" /\ pc' = "label0"
    BY DEF CommonInit
  <1>3. mode' = IF asked.to \in Stereo THEN "RegSimult" ELSE "Independent"
    BY DEF CommonInit
  <1>4. AdcTypeOK'
    BY <1>1, <1>2, <1>3 DEF AdcInv, AdcTypeOK, Steps
  <1>5. Follows' /\ Passed'
    BY <1>1, <1>2, <1>3 DEF AdcInv, Follows, Passed, SetUp
  <1>6. Converted' /\ Counted' /\ TrueLabels'
    BY <1>1, <1>2 DEF AdcInv, Converted, Counted, TrueLabels, Requested, SetUp
  <1> QED
    BY <1>4, <1>5, <1>6 DEF AdcInv

LEMMA LabelStep == AdcInv /\ (SetChannel0 \/ SetChannel1) => AdcInv'
  <1> SUFFICES ASSUME AdcInv, SetChannel0 \/ SetChannel1 PROVE AdcInv'
    OBVIOUS
  <1>1. UNCHANGED <<state, freq, cb, asked, mode, sel1, sel2, tim3,
                    conv, eoc, dr1, dr2, called, calls, clean>>
    BY DEF SetChannel0, SetChannel1, hardware, selected, converter, history
  <1>2. pc \in SetUp /\ pc' \in SetUp \ {"common", "label0", "select2", "start"}
    BY DEF SetChannel0, SetChannel1, SetUp
  <1>3. channel0' \in Labels /\ channel1' \in Labels
    BY DEF AdcInv, AdcTypeOK, SetChannel0, SetChannel1
  <1>4. AdcTypeOK'
    BY <1>1, <1>2, <1>3 DEF AdcInv, AdcTypeOK, SetUp, Steps
  <1>5. Follows'
    BY <1>1, <1>2 DEF AdcInv, Follows, SetUp, SetChannel0, SetChannel1
  <1>6. Passed'
    BY <1>1 DEF AdcInv, Passed, SetChannel0, SetChannel1
  <1>7. Converted' /\ Counted' /\ TrueLabels'
    BY <1>1, <1>2 DEF AdcInv, Converted, Counted, TrueLabels, Requested
  <1> QED
    BY <1>4, <1>5, <1>6, <1>7 DEF AdcInv

LEMMA SelectStep == AdcInv /\ (SelectFirst \/ SelectSecond) => AdcInv'
  <1> SUFFICES ASSUME AdcInv, SelectFirst \/ SelectSecond PROVE AdcInv'
    OBVIOUS
  <1>1. UNCHANGED <<state, channel0, channel1, freq, cb, asked, mode, tim3,
                    eoc, dr1, dr2, called, calls, clean>>
    BY DEF SelectFirst, SelectSecond, MayRestart, adc, history
  <1>2. pc \in SetUp /\ pc' \in {"select2", "start"}
    BY DEF SelectFirst, SelectSecond, SetUp
  <1>3. sel1' \in Labels /\ sel2' \in Labels
    BY DEF AdcInv, AdcTypeOK, SelectFirst, SelectSecond
  <1>4. conv' \in Conversions /\ (conv = <<>> => conv' = <<>>)
    BY <1>3, LatchType
    DEF AdcInv, AdcTypeOK, SelectFirst, SelectSecond, MayRestart, Conversions
  <1>5. AdcTypeOK'
    BY <1>1, <1>2, <1>3, <1>4 DEF AdcInv, AdcTypeOK, Steps
  <1>6. Follows'
    BY <1>1, <1>2 DEF AdcInv, Follows, SetUp, SelectFirst, SelectSecond
  <1>7. Passed'
    BY <1>1 DEF AdcInv, Passed, SelectFirst, SelectSecond
  <1>8. Converted' /\ Counted' /\ TrueLabels'
    BY <1>1, <1>2, <1>4 DEF AdcInv, Converted, Counted, TrueLabels, Requested
  <1> QED
    BY <1>5, <1>6, <1>7, <1>8 DEF AdcInv

\* What the converters are set to once a set-up is over.
LEMMA LatchRequested ==
  ASSUME AdcInv, asked.to # "IDLE", pc \in {"start", "out", "idle"}
  PROVE  Latch(mode, sel1, sel2) = Requested
  BY DEF AdcInv, Passed, Latch, Requested

LEMMA StartStep == AdcInv /\ Start => AdcInv'
  <1> SUFFICES ASSUME AdcInv, Start PROVE AdcInv'
    OBVIOUS
  <1>1. UNCHANGED <<state, channel0, channel1, freq, cb, asked, mode, sel1, sel2,
                    eoc, dr1, dr2, called, calls, clean>>
    BY DEF Start, adc, selected, converter, history
  <1>2. pc = "start" /\ pc' = "out" /\ asked.to # "IDLE"
    BY DEF AdcInv, Follows, Start, SetUp
  <1>3. conv' \in {conv, Latch(mode, sel1, sel2)}
    BY DEF Start, converter
  <1>4. conv' \in Conversions
    BY <1>3, LatchType DEF AdcInv, AdcTypeOK
  <1>5. tim3' <=> state = "STEREO_CONT"
    <2>1. CASE asked.to \in Singles
      BY <2>1, <1>2 DEF AdcInv, Follows, Start, Singles
    <2>2. CASE asked.to \notin Singles
      BY <2>2, <1>2 DEF AdcInv, AdcTypeOK, AdcStates, Follows, Start, Singles
    <2> QED
      BY <2>1, <2>2
  <1>6. tim3' \in BOOLEAN
    BY DEF AdcInv, AdcTypeOK, Start
  <1>7. AdcTypeOK'
    BY <1>1, <1>2, <1>4, <1>6 DEF AdcInv, AdcTypeOK, Steps
  <1>8. Follows'
    BY <1>1, <1>2, <1>5 DEF AdcInv, Follows, SetUp
  <1>9. Passed'
    BY <1>1, <1>2 DEF AdcInv, Passed
  <1>10. Converted'
    BY <1>1, <1>2, <1>3, LatchRequested DEF AdcInv, Converted, Requested, SetUp
  <1>11. Counted' /\ TrueLabels'
    BY <1>1 DEF AdcInv, Counted, TrueLabels
  <1> QED
    BY <1>7, <1>8, <1>9, <1>10, <1>11 DEF AdcInv

LEMMA StopStep == AdcInv /\ (StopTimer \/ StopIdle) => AdcInv'
  <1> SUFFICES ASSUME AdcInv, StopTimer \/ StopIdle PROVE AdcInv'
    OBVIOUS
  <1>1. UNCHANGED <<channel0, channel1, freq, cb, asked, mode, sel1, sel2,
                    conv, eoc, dr1, dr2, called, calls, clean>>
    BY DEF StopTimer, StopIdle, adc, hardware, selected, converter, history
  <1>2. asked.to = "STEREO_CONT" /\ pc \in {"out", "idle"} /\ pc' \in {"out", "idle"}
    BY DEF AdcInv, Follows, StopTimer, StopIdle
  <1>3. ~tim3'
    BY DEF AdcInv, Follows, StopTimer, StopIdle, hardware
  <1>4. state' = IF pc' = "idle" THEN "STEREO_CONT" ELSE "IDLE"
    BY DEF StopTimer, StopIdle, adc
  <1>5. tim3' \in BOOLEAN
    BY DEF AdcInv, AdcTypeOK, StopTimer, StopIdle, hardware
  <1>6. AdcTypeOK'
    BY <1>1, <1>2, <1>4, <1>5 DEF AdcInv, AdcTypeOK, Steps, AdcStates
  <1>7. Follows'
    BY <1>1, <1>2, <1>3, <1>4 DEF Follows, SetUp
  <1>8. Passed'
    BY <1>1, <1>2 DEF AdcInv, Passed
  <1>9. Converted' /\ Counted' /\ TrueLabels'
    BY <1>1, <1>2 DEF AdcInv, Converted, Counted, TrueLabels, Requested, SetUp, Singles
  <1> QED
    BY <1>6, <1>7, <1>8, <1>9 DEF AdcInv

-------------------------------------------------------------------------------
(* The converters and the interrupt.                                          *)

LEMMA TriggerStep == AdcInv /\ Trigger => AdcInv'
  <1> SUFFICES ASSUME AdcInv, Trigger PROVE AdcInv'
    OBVIOUS
  <1>1. UNCHANGED <<state, channel0, channel1, freq, cb, pc, asked, mode, sel1, sel2,
                    tim3, eoc, dr1, dr2, called, calls, clean>>
    BY DEF Trigger, adc, task, selected, history
  <1>2. conv' = Latch(mode, sel1, sel2)
    BY DEF Trigger
  <1>3. pc = "out" /\ asked.to = "STEREO_CONT"
    BY DEF AdcInv, Follows, Trigger
  <1>4. conv' \in Conversions
    BY <1>2, LatchType DEF AdcInv, AdcTypeOK
  <1>5. AdcTypeOK'
    BY <1>1, <1>4 DEF AdcInv, AdcTypeOK
  <1>6. conv' = Requested
    BY <1>2, <1>3, LatchRequested
  <1>7. Follows' /\ Passed' /\ Counted' /\ TrueLabels'
    BY <1>1 DEF AdcInv, Follows, Passed, Counted, TrueLabels
  <1>8. Converted'
    BY <1>1, <1>3, <1>6 DEF AdcInv, Converted, Requested, SetUp
  <1> QED
    BY <1>5, <1>7, <1>8 DEF AdcInv

LEMMA CompleteStep == AdcInv /\ Complete => AdcInv'
  <1> SUFFICES ASSUME AdcInv, Complete PROVE AdcInv'
    OBVIOUS
  <1>1. UNCHANGED <<state, channel0, channel1, freq, cb, pc, asked, mode, sel1, sel2,
                    tim3, called, calls, clean>>
    BY DEF Complete, adc, task, selected, history
  <1>2. conv # <<>> /\ conv' = <<>> /\ eoc' = TRUE
    BY DEF Complete
  <1>3. dr1' \in Labels /\ dr2' \in Labels
    <2>1. CASE conv \in {<<c>> : c \in Labels}
      BY <2>1 DEF AdcInv, AdcTypeOK, Complete
    <2>2. CASE conv \in Labels \X Labels
      BY <2>2 DEF AdcInv, AdcTypeOK, Complete
    <2> QED
      BY <1>2, <2>1, <2>2 DEF AdcInv, AdcTypeOK, Conversions
  <1>4. AdcTypeOK'
    BY <1>1, <1>2, <1>3 DEF AdcInv, AdcTypeOK, Conversions
  <1>5. Follows' /\ Passed' /\ Counted' /\ TrueLabels'
    BY <1>1 DEF AdcInv, Follows, Passed, Counted, TrueLabels
  <1>6. ASSUME clean PROVE dr1' = asked.ch1 /\ (asked.to \in Stereo => dr2' = asked.ch2)
    <2>1. conv = Requested
      BY <1>2, <1>6 DEF AdcInv, Converted
    <2>2. CASE asked.to \in Stereo
      BY <2>1, <2>2 DEF Complete, Requested
    <2>3. CASE asked.to \notin Stereo
      BY <2>1, <2>3 DEF Complete, Requested
    <2> QED
      BY <2>2, <2>3
  <1>7. Converted'
    BY <1>1, <1>2, <1>6 DEF AdcInv, Converted
  <1> QED
    BY <1>4, <1>5, <1>7 DEF AdcInv

\* What the callback is told is a call of it, and after a clean start a true one.
LEMMA SampleType ==
  ASSUME AdcInv
  PROVE  Sample \in [ch1 : Labels, val1 : Labels, ch2 : Labels, val2 : Labels]
  BY Zero DEF AdcInv, AdcTypeOK, Sample

LEMMA SampleTrue ==
  ASSUME AdcInv, clean, eoc, state # "IDLE"
  PROVE  Sample.val1 = Sample.ch1 /\ Sample.val2 = Sample.ch2
  <1>1. pc \notin SetUp /\ state = asked.to /\ asked.to # "IDLE"
    BY DEF AdcInv, Converted, Follows
  <1>2. pc \notin {"common", "label0", "label1"}
    BY <1>1 DEF SetUp
  <1>3. channel0 = asked.ch1 /\ dr1 = asked.ch1
    BY <1>1, <1>2 DEF AdcInv, Converted, Passed
  <1>4. state \in Stereo => channel1 = asked.ch2 /\ dr2 = asked.ch2
    BY <1>1, <1>2 DEF AdcInv, Converted, Passed
  <1> QED
    BY <1>3, <1>4 DEF Sample, ADC_NONE

LEMMA IrqStep == AdcInv /\ ADC_irq => AdcInv'
  <1> SUFFICES ASSUME AdcInv, ADC_irq PROVE AdcInv'
    OBVIOUS
  <1>1. UNCHANGED <<channel0, channel1, freq, cb, pc, asked, mode, sel1, sel2, tim3,
                    conv, dr1, dr2, clean>>
    BY DEF ADC_irq, Interrupt, task, selected
  <1>2. eoc /\ eoc' = FALSE /\ state' = IF state \in Singles THEN "IDLE" ELSE state
    BY DEF ADC_irq, Interrupt
  <1>3. called' = IF Reports THEN Sample ELSE called
    BY DEF ADC_irq, Interrupt
  <1>4. calls' = IF Reports /\ calls < 2 THEN calls + 1 ELSE calls
    BY DEF ADC_irq, Interrupt
  <1>5. AdcTypeOK'
    <2>1. called' \in [ch1 : Labels, val1 : Labels, ch2 : Labels, val2 : Labels]
      BY <1>3, SampleType DEF AdcInv, AdcTypeOK
    <2>2. calls' \in 0 .. 2
      BY <1>4 DEF AdcInv, AdcTypeOK
    <2>3. state' \in AdcStates /\ eoc' \in BOOLEAN
      BY <1>2 DEF AdcInv, AdcTypeOK, AdcStates
    <2> QED
      BY <1>1, <2>1, <2>2, <2>3 DEF AdcInv, AdcTypeOK
  <1>6. Follows'
    BY <1>1, <1>2 DEF AdcInv, Follows, Singles
  <1>7. Passed'
    BY <1>1 DEF AdcInv, Passed
  <1>8. Converted'
    BY <1>1, <1>2 DEF AdcInv, Converted, Requested
  <1>9. TrueLabels'
    BY <1>1, <1>2, <1>3, SampleTrue DEF AdcInv, TrueLabels, Reports
  <1>10. Counted'
    <2>1. CASE state = "IDLE"
      BY <2>1, <1>1, <1>2, <1>4 DEF AdcInv, Counted, Reports, Singles
    <2>2. CASE state # "IDLE" /\ asked.to \in Singles
      <3>1. calls = 0 /\ (clean => cb)
        BY <2>2 DEF AdcInv, Counted, Converted
      <3>2. state' = "IDLE"
        BY <2>2, <1>2 DEF AdcInv, Follows
      <3> QED
        BY <2>2, <3>1, <3>2, <1>1, <1>4 DEF Counted, Reports
    <2>3. CASE asked.to \notin Singles
      BY <2>3, <1>1 DEF Counted
    <2> QED
      BY <2>1, <2>2, <2>3
  <1> QED
    BY <1>5, <1>6, <1>7, <1>8, <1>9, <1>10 DEF AdcInv

-------------------------------------------------------------------------------
LEMMA StutterInv == AdcInv /\ UNCHANGED adcvars => AdcInv'
  <1> SUFFICES ASSUME AdcInv, UNCHANGED adcvars PROVE AdcInv'
    OBVIOUS
  <1>1. UNCHANGED <<state, channel0, channel1, freq, cb, pc, asked, mode, sel1, sel2,
                    tim3, conv, eoc, dr1, dr2, called, calls, clean>>
    BY DEF adcvars, adc, task, hardware, selected, converter, history
  <1>2. AdcTypeOK'
    BY <1>1 DEF AdcInv, AdcTypeOK
  <1>3. Follows' /\ Passed' /\ Converted' /\ Counted' /\ TrueLabels'
    BY <1>1 DEF AdcInv, Follows, Passed, Converted, Counted, TrueLabels, Requested
  <1> QED
    BY <1>2, <1>3 DEF AdcInv

LEMMA RequestStep == AdcInv /\ Request => AdcInv'
  <1> SUFFICES ASSUME AdcInv, Request PROVE AdcInv'
    OBVIOUS
  <1>1. freq \in Nat /\ CHANNELS \subseteq Labels /\ ADC_NONE \in Labels
    BY DEF AdcInv, AdcTypeOK, Labels
  <1>2. ASSUME NEW ch \in CHANNELS, ADC_sample_mono_single(ch) PROVE AdcInv'
    BY <1>1, <1>2, AcceptStep DEF ADC_sample_mono_single, AdcStates
  <1>3. ASSUME NEW ch1 \in CHANNELS, NEW ch2 \in CHANNELS,
               ADC_sample_stereo_single(ch1, ch2)
        PROVE  AdcInv'
    BY <1>1, <1>3, AcceptStep DEF ADC_sample_stereo_single, AdcStates
  <1>4. ASSUME NEW ch1 \in CHANNELS, NEW ch2 \in CHANNELS, NEW f \in FREQS,
               ADC_sample_stereo_continuous(ch1, ch2, f)
        PROVE  AdcInv'
    BY <1>1, <1>4, AcceptStep DEF ADC_sample_stereo_continuous, AdcStates
  <1>5. CASE ADC_set_callback
    BY <1>5, CallbackStep
  <1>6. CASE StopTimer
    BY <1>6, StopStep
  <1> QED
    BY <1>2, <1>3, <1>4, <1>5, <1>6, StutterInv DEF Request, Busy

LEMMA NextStep == AdcInv /\ [Next]_adcvars => AdcInv'
  <1> SUFFICES ASSUME AdcInv, [Next]_adcvars PROVE AdcInv'
    OBVIOUS
  <1>1. CASE Request
    BY <1>1, RequestStep
  <1>2. CASE TaskStep
    BY <1>2, CommonStep, LabelStep, SelectStep, StartStep, StopStep DEF TaskStep
  <1>3. CASE Trigger \/ Complete \/ ADC_irq
    BY <1>3, TriggerStep, CompleteStep, IrqStep
  <1>4. CASE UNCHANGED adcvars
    BY <1>4, StutterInv
  <1> QED
    BY <1>1, <1>2, <1>3, <1>4 DEF Next

LEMMA AdcInvariance == AdcSpec => []AdcInv
  BY InitInv, NextStep, PTL DEF AdcSpec

\* Every variable of the driver and of the converters stays within its type
\* (adc_driver.c:25-36), for all channels and frequencies.
THEOREM AdcTypeCorrect == AdcSpec => []AdcTypeOK
  <1>1. AdcInv => AdcTypeOK
    BY DEF AdcInv
  <1> QED
    BY <1>1, AdcInvariance, PTL

\* A sampling function that returned left the converters, the labels and the
\* timer agreeing (adc_driver.c:84-146), whatever interrupted it.
THEOREM SetUpAgrees == AdcSpec => []SetAsLabelled
  <1>1. AdcInv => SetAsLabelled
    <2> SUFFICES ASSUME AdcInv PROVE SetAsLabelled
      OBVIOUS
    <2>1. tim3 = (state = "STEREO_CONT" /\ pc = "out")
      <3>1. tim3 \in BOOLEAN /\ (tim3 <=> (state = "STEREO_CONT" /\ pc = "out"))
        BY DEF AdcInv, AdcTypeOK, Follows
      <3> QED
        BY <3>1, Zenon
    <2>2. ASSUME pc = "out", state # "IDLE"
          PROVE  /\ sel1 = channel0
                 /\ state \in Stereo => sel2 = channel1
                 /\ mode = IF state \in Stereo THEN "RegSimult" ELSE "Independent"
      BY <2>2 DEF AdcInv, Follows, Passed
    <2> QED
      BY <2>1, <2>2 DEF SetAsLabelled
  <1> QED
    BY <1>1, AdcInvariance, PTL

\* The callback is told the channels its values were taken from
\* (adc_driver.c:180-191), if nothing was pending when the request began.
THEOREM LabelsTrue == AdcSpec => []TrueLabels
  <1>1. AdcInv => TrueLabels
    BY DEF AdcInv
  <1> QED
    BY <1>1, AdcInvariance, PTL

\* One sample asked for is one call of the callback (adc_driver.c:177-191).
THEOREM OneAnswerEach == AdcSpec => []AnsweredOnce
  <1>1. AdcInv => AnsweredOnce
    <2> SUFFICES ASSUME AdcInv, asked.to \in Singles
                 PROVE  /\ calls <= 1
                        /\ clean /\ pc = "out" => (state = "IDLE") = (calls = 1)
      BY DEF AnsweredOnce
    <2>1. calls <= 1
      BY DEF AdcInv, Counted
    <2>2. ASSUME clean PROVE state = "IDLE" <=> calls = 1
      BY <2>2 DEF AdcInv, Counted
    <2> QED
      BY <2>1, <2>2, Zenon
  <1> QED
    BY <1>1, AdcInvariance, PTL

-------------------------------------------------------------------------------
(* The driver implements AdcService.                                          *)

LEMMA AcceptService ==
  ASSUME NEW to \in Singles, NEW ch1, NEW ch2, Accept(to, ch1, ch2, freq)
  PROVE  Service!ServiceNext
  <1>1. to \in Service!Singles /\ Service!SampleOne(to)
    BY DEF Accept, Free, Singles, Service!Singles, Service!SampleOne
  <1> QED
    BY <1>1 DEF Service!ServiceNext

LEMMA IrqService ==
  ASSUME AdcInv, ADC_irq
  PROVE  [Service!ServiceNext]_<<state, freq, calls>>
  <1>1. /\ state' = IF state \in Singles THEN "IDLE" ELSE state
        /\ freq' = freq
        /\ calls' = IF Reports /\ calls < 2 THEN calls + 1 ELSE calls
    BY DEF ADC_irq, Interrupt
  <1>2. CASE state = "IDLE"
    BY <1>1, <1>2 DEF Reports, Singles
  <1>3. CASE Reports
    <2>1. Service!Report
      BY <1>1, <1>3 DEF Reports, Service!Report, Service!Over, Service!Singles, Singles
    <2> QED
      BY <2>1 DEF Service!ServiceNext
  <1>4. CASE state # "IDLE" /\ ~Reports
    <2>1. Service!Drop
      BY <1>1, <1>4 DEF Service!Drop, Service!Over, Service!Singles, Singles
    <2> QED
      BY <2>1 DEF Service!ServiceNext
  <1> QED
    BY <1>2, <1>3, <1>4 DEF Reports

\* To its callers the driver is the service: each function takes effect in one
\* step, where it sets adc.state, whatever runs between its register writes.
THEOREM AdcImplements == AdcSpec => ImplementsService
  <1>1. AdcInit => Service!ServiceInit
    BY DEF AdcInit, Service!ServiceInit
  <1>2. AdcInv /\ [Next]_adcvars => [Service!ServiceNext]_<<state, freq, calls>>
    <2> SUFFICES ASSUME AdcInv, [Next]_adcvars
                 PROVE  [Service!ServiceNext]_<<state, freq, calls>>
      OBVIOUS
    <2>1. ASSUME NEW ch \in CHANNELS, ADC_sample_mono_single(ch)
          PROVE  Service!ServiceNext
      BY <2>1, AcceptService DEF ADC_sample_mono_single, Singles
    <2>2. ASSUME NEW ch1 \in CHANNELS, NEW ch2 \in CHANNELS,
                 ADC_sample_stereo_single(ch1, ch2)
          PROVE  Service!ServiceNext
      BY <2>2, AcceptService DEF ADC_sample_stereo_single, Singles
    <2>3. ASSUME NEW ch1 \in CHANNELS, NEW ch2 \in CHANNELS, NEW f \in FREQS,
                 ADC_sample_stereo_continuous(ch1, ch2, f)
          PROVE  Service!ServiceNext
      <3>1. Service!SampleMany(f)
        BY <2>3 DEF ADC_sample_stereo_continuous, Accept, Free, Service!SampleMany
      <3> QED
        BY <3>1 DEF Service!ServiceNext
    <2>4. CASE StopIdle
      <3>1. state = "STEREO_CONT"
        BY <2>4 DEF AdcInv, Follows, StopIdle
      <3>2. Service!Stop
        BY <2>4, <3>1 DEF StopIdle, history, Service!Stop
      <3> QED
        BY <3>2 DEF Service!ServiceNext
    <2>5. CASE ADC_irq
      BY <2>5, IrqService
    <2>6. CASE ADC_set_callback \/ Busy \/ StopTimer \/ Trigger \/ Complete
      BY <2>6
      DEF ADC_set_callback, Busy, StopTimer, Trigger, Complete, adcvars, adc, history
    <2>7. CASE CommonInit \/ SetChannel0 \/ SetChannel1 \/ SelectFirst \/ SelectSecond
               \/ Start
      BY <2>7
      DEF CommonInit, SetChannel0, SetChannel1, SelectFirst, SelectSecond, Start, adc,
          history
    <2>8. CASE UNCHANGED adcvars
      BY <2>8 DEF adcvars, adc, history
    <2> QED
      BY <2>1, <2>2, <2>3, <2>4, <2>5, <2>6, <2>7, <2>8 DEF Next, Request, TaskStep
  <1> QED
    BY <1>1, <1>2, AdcInvariance, PTL
    DEF AdcSpec, Service!ServiceSpec, ImplementsService
===============================================================================
