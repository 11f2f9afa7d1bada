------------------------------ MODULE AdcDriver --------------------------------
(*****************************************************************************)
(* The ADC driver (src/src/adc_driver.c), the two converters and the timer   *)
(* that drive it, and the task that calls it.  A driver function is a        *)
(* sequence of register and variable writes; the converters go on and        *)
(* ADC_irq may run between any two of them.  ADC_irq itself is one action:   *)
(* nothing it reads is written by a handler that can interrupt it.           *)
(*                                                                           *)
(* A converted value is abstracted to the channel it was taken from, 0       *)
(* standing for the channel the converters select after reset.               *)
(*****************************************************************************)
EXTENDS Naturals, Sequences

CONSTANTS
    CHANNELS,       \* the adc_channel numbers a caller may name
    FREQS           \* the frequencies a caller may ask for

ADC_NONE == 0

ASSUME AdcAssumption == CHANNELS \subseteq Nat \ {ADC_NONE} /\ FREQS \subseteq Nat

VARIABLES
    state, channel0, channel1, freq,    \* adc.state, channel0, channel1, freq
    cb,                                 \* whether adc.cb is set
    pc,         \* the next step of the driver function the task is in
    asked       \* its arguments

\* The hardware.
VARIABLES
    mode,       \* ADC_Mode of the common control register
    sel1, sel2, \* the channels ADC1 and ADC2 are set to convert
    tim3,       \* whether timer 3 runs
    conv,       \* the channels being converted, <<>> when at rest
    eoc,        \* end of conversion, pending in ADC1
    dr1, dr2    \* the data registers

\* History variables.
VARIABLES
    called,     \* the last call of the callback since the last request
    calls,      \* how many there were
    clean       \* the request began with nothing of an earlier one pending

adc       == <<state, channel0, channel1, freq, cb>>
task      == <<pc, asked>>
selected  == <<mode, sel1, sel2>>
converter == <<conv, eoc, dr1, dr2>>
hardware  == <<selected, tim3, converter>>
history   == <<called, calls, clean>>
adcvars   == <<adc, task, hardware, history>>

Singles == {"MONO_SINGLE", "STEREO_SINGLE"}
Stereo  == {"STEREO_SINGLE", "STEREO_CONT"}
AdcStates == {"IDLE", "MONO_SINGLE", "STEREO_SINGLE", "STEREO_CONT"}
Steps == {"out", "common", "label0", "label1", "select1", "select2", "start", "idle"}
Labels == CHANNELS \cup {ADC_NONE}

NotCalled == [ch1 |-> ADC_NONE, val1 |-> 0, ch2 |-> ADC_NONE, val2 |-> 0]

\* ADC_init, and the driver's structure cleared.
AdcInit ==
    /\ state = "IDLE" /\ channel0 = ADC_NONE /\ channel1 = ADC_NONE
    /\ freq = 0 /\ cb = FALSE
    /\ pc = "out" /\ asked = [to |-> "IDLE", ch1 |-> ADC_NONE, ch2 |-> ADC_NONE]
    /\ mode = "Independent" /\ sel1 = ADC_NONE /\ sel2 = ADC_NONE
    /\ tim3 = FALSE
    /\ conv = <<>> /\ eoc = FALSE /\ dr1 = ADC_NONE /\ dr2 = ADC_NONE
    /\ called = NotCalled /\ calls = 0 /\ clean = FALSE

-------------------------------------------------------------------------------
(* The driver's functions.                                                    *)

\* Mutant: the busy test is forgotten.
FreeAlways == pc = "out"

Free == pc = "out" /\ state = "IDLE"

\* A call that finds the driver busy returns ERR_ADC_BUSY and changes nothing.
Busy == /\ pc = "out" /\ state # "IDLE"
        /\ UNCHANGED adcvars

ADC_set_callback ==
    /\ Free
    /\ cb' = TRUE
    /\ UNCHANGED <<state, channel0, channel1, freq, task, hardware, history>>

Pending == conv # <<>> \/ eoc

\* The busy test and the new state, common to the three sampling functions.
Accept(to, ch1, ch2, f) ==
    /\ Free
    /\ state' = to /\ freq' = f
    /\ asked' = [to |-> to, ch1 |-> ch1, ch2 |-> ch2]
    /\ pc' = "common"
    /\ called' = NotCalled /\ calls' = 0 /\ clean' = (cb /\ ~Pending)
    /\ UNCHANGED <<channel0, channel1, cb, hardware>>

ADC_sample_mono_single(ch)        == Accept("MONO_SINGLE", ch, ADC_NONE, freq)
ADC_sample_stereo_single(ch1, ch2) == Accept("STEREO_SINGLE", ch1, ch2, freq)
ADC_sample_stereo_continuous(ch1, ch2, f) == Accept("STEREO_CONT", ch1, ch2, f)

\* ADC_CommonInit.
CommonInit ==
    /\ pc = "common"
    /\ mode' = IF asked.to \in Stereo THEN "RegSimult" ELSE "Independent"
    /\ pc' = "label0"
    /\ UNCHANGED <<adc, asked, sel1, sel2, tim3, converter, history>>

SetChannel0 ==
    /\ pc = "label0"
    /\ channel0' = asked.ch1
    /\ pc' = IF asked.to \in Stereo THEN "label1" ELSE "select1"
    /\ UNCHANGED <<state, channel1, freq, cb, asked, hardware, history>>

SetChannel1 ==
    /\ pc = "label1"
    /\ channel1' = asked.ch2
    /\ pc' = "select1"
    /\ UNCHANGED <<state, channel0, freq, cb, asked, hardware, history>>

\* What a conversion that starts now converts.
Latch(m, s1, s2) == IF m = "RegSimult" THEN <<s1, s2>> ELSE <<s1>>

\* A conversion in progress when a register is written goes on with the old
\* channels or starts again with the new ones.
MayRestart(latch) ==
    /\ conv' \in IF conv = <<>> THEN {<<>>} ELSE {conv, latch}
    /\ UNCHANGED <<eoc, dr1, dr2>>

\* Mutants: the second converter is never set; the start comes before the channel.
SelectsOnlyFirst ==
    /\ pc = "select1"
    /\ sel1' = asked.ch1
    /\ MayRestart(Latch(mode, sel1', sel2))
    /\ pc' = "start"
    /\ UNCHANGED <<adc, asked, mode, sel2, tim3, history>>

StartsOnOldChannel ==
    /\ pc = "select1"
    /\ sel1' = asked.ch1
    /\ conv' = Latch(mode, sel1, sel2)
    /\ pc' = IF asked.to \in Stereo THEN "select2" ELSE "start"
    /\ UNCHANGED <<adc, asked, mode, sel2, tim3, eoc, dr1, dr2, history>>

\* ADC_RegularChannelConfig of ADC1, and of ADC2.
SelectFirst ==
    /\ pc = "select1"
    /\ sel1' = asked.ch1
    /\ MayRestart(Latch(mode, sel1', sel2))
    /\ pc' = IF asked.to \in Stereo THEN "select2" ELSE "start"
    /\ UNCHANGED <<adc, asked, mode, sel2, tim3, history>>

SelectSecond ==
    /\ pc = "select2"
    /\ sel2' = asked.ch2
    /\ MayRestart(Latch(mode, sel1, sel2'))
    /\ pc' = "start"
    /\ UNCHANGED <<adc, asked, mode, sel1, tim3, history>>

\* ADC_SoftwareStartConv for one sample; for many TIM_TimeBaseInit, whose update event
\* is a first trigger, and TIM_Cmd.
Start ==
    /\ pc = "start"
    /\ IF asked.to \in Singles
       THEN /\ conv' \in IF conv = <<>> THEN {Latch(mode, sel1, sel2)}
                         ELSE {conv, Latch(mode, sel1, sel2)}
            /\ UNCHANGED tim3
       ELSE /\ conv' = IF conv = <<>> THEN Latch(mode, sel1, sel2) ELSE conv
            /\ tim3' = TRUE
    /\ UNCHANGED <<eoc, dr1, dr2>>
    /\ pc' = "out"
    /\ UNCHANGED <<adc, asked, selected, history>>

\* ADC_sample_continuous_stop: the timer, then the state.
StopTimer ==
    /\ pc = "out" /\ state = "STEREO_CONT"
    /\ tim3' = FALSE
    /\ pc' = "idle"
    /\ UNCHANGED <<adc, asked, selected, converter, history>>

StopIdle ==
    /\ pc = "idle"
    /\ state' = "IDLE"
    /\ pc' = "out"
    /\ UNCHANGED <<channel0, channel1, freq, cb, asked, hardware, history>>

-------------------------------------------------------------------------------
(* The converters.                                                            *)

\* The timer triggers a conversion; during one the trigger is lost.
Trigger ==
    /\ tim3 /\ conv = <<>>
    /\ conv' = Latch(mode, sel1, sel2)
    /\ UNCHANGED <<adc, task, selected, tim3, eoc, dr1, dr2, history>>

Complete ==
    /\ conv # <<>>
    /\ dr1' = conv[1]
    /\ dr2' = IF Len(conv) = 2 THEN conv[2] ELSE dr2
    /\ eoc' = TRUE /\ conv' = <<>>
    /\ UNCHANGED <<adc, task, selected, tim3, history>>

\* Whether ADC_irq will call the callback.
Reports == cb /\ state # "IDLE"

Sample == IF state \in Stereo
          THEN [ch1 |-> channel0, val1 |-> dr1, ch2 |-> channel1, val2 |-> dr2]
          ELSE [ch1 |-> channel0, val1 |-> dr1, ch2 |-> ADC_NONE, val2 |-> 0]

\* The interrupt with a given next state; calls is counted up to two.
Interrupt(next) ==
    /\ eoc /\ eoc' = FALSE
    /\ state' = next
    /\ called' = IF Reports THEN Sample ELSE called
    /\ calls' = IF Reports /\ calls < 2 THEN calls + 1 ELSE calls
    /\ UNCHANGED <<channel0, channel1, freq, cb, task, selected, tim3, conv, dr1, dr2,
                   clean>>

\* Mutants: a one-shot does not make the driver idle; only with a callback.
IrqStaysBusy == Interrupt(state)
IrqIdleIfReported == Interrupt(IF state \in Singles /\ cb THEN "IDLE" ELSE state)

ADC_irq == Interrupt(IF state \in Singles THEN "IDLE" ELSE state)

-------------------------------------------------------------------------------
Request ==
    \/ \E ch \in CHANNELS : ADC_sample_mono_single(ch)
    \/ \E ch1, ch2 \in CHANNELS : ADC_sample_stereo_single(ch1, ch2)
    \/ \E ch1, ch2 \in CHANNELS, f \in FREQS : ADC_sample_stereo_continuous(ch1, ch2, f)
    \/ ADC_set_callback
    \/ Busy
    \/ StopTimer

\* What the task does once it is in a driver function.
TaskStep ==
    \/ CommonInit \/ SetChannel0 \/ SetChannel1
    \/ SelectFirst \/ SelectSecond \/ Start
    \/ StopIdle

Next == Request \/ TaskStep \/ Trigger \/ Complete \/ ADC_irq

\* The task's code has no loop, a conversion takes a fixed time, and a pending
\* interrupt is taken.
AdcFairness == WF_adcvars(TaskStep) /\ WF_adcvars(Complete) /\ WF_adcvars(ADC_irq)

AdcSpec == AdcInit /\ [][Next]_adcvars /\ AdcFairness

-------------------------------------------------------------------------------
Conversions == {<<>>} \cup {<<c>> : c \in Labels} \cup (Labels \X Labels)

\* Every variable stays within its type; MONO_CONT is never entered.
AdcTypeOK ==
    /\ state \in AdcStates
    /\ channel0 \in Labels /\ channel1 \in Labels /\ freq \in Nat /\ cb \in BOOLEAN
    /\ pc \in Steps
    /\ asked \in [to : AdcStates, ch1 : Labels, ch2 : Labels]
    /\ mode \in {"Independent", "RegSimult"} /\ sel1 \in Labels /\ sel2 \in Labels
    /\ tim3 \in BOOLEAN /\ conv \in Conversions /\ eoc \in BOOLEAN
    /\ dr1 \in Labels /\ dr2 \in Labels
    /\ called \in [ch1 : Labels, val1 : Labels, ch2 : Labels, val2 : Labels]
    /\ calls \in 0 .. 2 /\ clean \in BOOLEAN

\* Once a sampling function has returned and the driver is busy, the converters
\* are set to what the labels say, whatever interrupts came during the set-up;
\* the timer runs exactly while continuous sampling is set up.
SetAsLabelled ==
    /\ tim3 = (state = "STEREO_CONT" /\ pc = "out")
    /\ pc = "out" /\ state # "IDLE" =>
        /\ sel1 = channel0
        /\ state \in Stereo => sel2 = channel1
        /\ mode = IF state \in Stereo THEN "RegSimult" ELSE "Independent"

\* The values the callback gets are those of the channels it is told, if
\* nothing of an earlier sampling was pending when the request began.
TrueLabels ==
    clean => called.val1 = called.ch1 /\ called.val2 = called.ch2

\* One sample asked for is one call of the callback, never two, and if nothing
\* was pending not less.
AnsweredOnce ==
    asked.to \in Singles =>
        /\ calls <= 1
        /\ clean /\ pc = "out" => (state = "IDLE") = (calls = 1)

\* A one-shot ends: the driver can be used again.
IdleAgain == state \in Singles ~> state = "IDLE"

Service == INSTANCE AdcService

\* Whatever the converters and the interrupt do within a function of the
\* driver, its caller sees it start, report and stop in one step each.
ImplementsService == Service!ServiceSpec
===============================================================================
