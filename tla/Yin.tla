---------------------------------- MODULE Yin ----------------------------------
(*****************************************************************************)
(* The pitch detector (src/src/signal_yin_est.c): for every distance the sum *)
(* of squared differences over a window, kept up incrementally while samples *)
(* come into a circular buffer, and normalised by its cumulative mean.       *)
(*                                                                           *)
(* Nothing in the repository calls it.  The header says that it is fed the   *)
(* index of each new sample.  Two assumptions are the model's: the buffer is *)
(* longer than two windows and held one value throughout when the sums began *)
(* at 0.  yin_init looks at neither, and the header asks for neither.        *)
(*****************************************************************************)
EXTENDS Integers, FiniteSetsExt

CONSTANTS
    WINDOW,
    BUF_LEN,        \* the length of the sample buffer
    SAMPLES,        \* the values of a sample
    YIN_ACC

ASSUME YinAssumption ==
    /\ WINDOW \in Nat \ {0} /\ BUF_LEN \in Nat /\ BUF_LEN > 2 * WINDOW
    /\ SAMPLES \subseteq Nat /\ YIN_ACC \in Nat \ {0}

VARIABLES
    spl_buf,
    spl_ix,         \* where the last sample is
    corr_buf, prim_buf

yinVars == <<spl_buf, spl_ix, corr_buf, prim_buf>>

Taus == 0 .. WINDOW - 1

\* yin_init, on a buffer of equal samples: with any other the sums of 0 it begins
\* with are not those of what the buffer holds.
YinInit ==
    /\ \E v \in SAMPLES : spl_buf = [i \in 0 .. BUF_LEN - 1 |-> v]
    /\ spl_ix = BUF_LEN - 1
    /\ corr_buf = [tau \in Taus |-> 0] /\ prim_buf = [tau \in Taus |-> 0]

\* An index that has left the buffer by less than its length.
Below(i) == IF i < 0 THEN i + BUF_LEN ELSE i
Above(i) == IF i >= BUF_LEN THEN i - BUF_LEN ELSE i

Squared(buf, i, tau) == LET d == buf[Above(i + tau + 1)] - buf[i] IN d * d

\* Mutant: what leaves the window is looked for one sample off.
DiscardOff(ix) == Below(Below(ix - WINDOW) - WINDOW + 1)

Discard(ix) == Below(Below(ix - WINDOW) - WINDOW)

\* yin_diff_corr
DiffCorr(buf, ix) ==
    [tau \in Taus |-> corr_buf[tau] - Squared(buf, Discard(ix), tau)
                                    + Squared(buf, Below(ix - WINDOW), tau)]

Total(f, S) == MapThenSumSet(LAMBDA t : f[t], S)

\* yin_diff_corr_prim
DiffCorrPrim(corr) ==
    [tau \in Taus |->
        LET cumu == Total(corr, 1 .. tau)
        IN  IF cumu = 0 THEN YIN_ACC ELSE (YIN_ACC * tau * corr[tau]) \div cumu]

\* A new sample, and yin_detect.
Feed(v) ==
    /\ spl_ix' = Above(spl_ix + 1)
    /\ spl_buf' = [spl_buf EXCEPT ![spl_ix'] = v]
    /\ corr_buf' = DiffCorr(spl_buf', spl_ix')
    /\ prim_buf' = DiffCorrPrim(corr_buf')

YinNext == \E v \in SAMPLES : Feed(v)

YinSpec == YinInit /\ [][YinNext]_yinVars

-------------------------------------------------------------------------------
\* The sample n before the last one.
Back(n) == spl_buf[Below(spl_ix - n)]

\* The sums kept up sample by sample are those the definition asks for (the
\* comment of signal_yin_est.c:6-17): over the window, the squared differences of
\* the samples that far apart.
SumsKept ==
    \A tau \in Taus :
        corr_buf[tau] =
            Total([j \in 0 .. WINDOW - 1 |->
                    (Back(WINDOW + j) - Back(WINDOW + j - tau - 1))
                        * (Back(WINDOW + j) - Back(WINDOW + j - tau - 1))], 0 .. WINDOW - 1)
================================================================================
