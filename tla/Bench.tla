---------------------------------- MODULE Bench --------------------------------
(*****************************************************************************)
(* Six machines that share nothing: the start of the processor, the scan of  *)
(* the I2C bus, the camera, the video signal, the pitch detector and URL     *)
(* coding.  The initial state takes one of them, which then runs alone, so   *)
(* that the states to check are the sum of theirs.                           *)
(*****************************************************************************)
EXTENDS Boot, I2cScan, Snapshot, Svideo, Yin, UrlCodec

VARIABLE bench      \* the machine that runs

others(m) ==
    /\ m # "boot"  => UNCHANGED bootVars
    /\ m # "scan"  => UNCHANGED scanVars
    /\ m # "camera" => UNCHANGED cameraVars
    /\ m # "video" => UNCHANGED videoVars
    /\ m # "yin"   => UNCHANGED yinVars

benchVars == <<bench, bootVars, scanVars, cameraVars, videoVars, yinVars, coded>>

\* Machines that do not run stand at one of their initial states.
BenchInit ==
    /\ bench \in {"boot", "scan", "camera", "video", "yin", "codec"}
    /\ BootInit /\ (bench # "boot" => reason = "unknown")
    /\ ScanInit /\ CameraInit /\ VideoInit
    /\ YinInit /\ (bench # "yin" => spl_buf[0] = 0)
    /\ CodecInit /\ (bench # "codec" => coded = [str |-> <<>>, num |-> 0])

Runs(m, A) == bench = m /\ A /\ others(m) /\ UNCHANGED <<bench, coded>>

\* A string is coded in its initial state and stays.
BenchNext ==
    \/ Runs("boot", BootNext)
    \/ Runs("scan", ScanNext)
    \/ Runs("camera", CameraNext)
    \/ Runs("video", SVIDEO_irq)
    \/ Runs("yin", YinNext)
    \/ bench = "codec" /\ UNCHANGED benchVars

\* The fairness of each machine's own specification.
BenchSpec ==
    /\ BenchInit /\ [][BenchNext]_benchVars
    /\ WF_benchVars(Runs("boot", MainStep))
    /\ WF_benchVars(Runs("camera", CameraStep))
    /\ WF_benchVars(Runs("camera", ov7670_vsync_int_fn))
    /\ SF_benchVars(Runs("camera", Command))

MCChars == {32, 37, 43, 50, 97, 230}
================================================================================
