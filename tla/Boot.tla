--------------------------------- MODULE Boot ----------------------------------
(*****************************************************************************)
(* Why the processor started (src/src/main.c:91-104): the reason lies in a   *)
(* memory that survives a reset, is read and cleared when main has set up    *)
(* the hardware, and decides whether the bootloader runs.  A reset, a fault  *)
(* or a loss of power may come between any two steps.                        *)
(*                                                                           *)
(* The shared memory and SYS_reboot, which writes the reason and then resets *)
(* the processor, are external; so is the bootloader, which ends in a reset. *)
(*****************************************************************************)
EXTENDS Naturals

VARIABLES
    reason,         \* the reboot reason in shared memory
    valid,          \* the memory passes SHMEM_validate
    rr,             \* main's copy of the reason
    phase           \* how far main is, or what runs instead of it

\* History variables.
VARIABLES
    asked,          \* the bootloader was asked for, and has not run since
    upset           \* and then came another reset than that of the request

bootVars == <<reason, valid, rr, phase, asked, upset>>

Reasons == {"unknown", "user", "bootloader", "crash"}
Phases == {"setup", "validated", "read", "cleared", "loop", "rebooting", "bootloader", "dead"}

BootInit ==
    /\ reason \in Reasons /\ valid = FALSE /\ rr = "unknown"
    /\ phase = "setup"
    /\ asked = FALSE /\ upset = FALSE

\* Mutant: the test is turned round.
Inverted == IF valid THEN "unknown" ELSE reason

Validated == IF valid THEN reason ELSE "unknown"

Validate ==
    /\ phase = "setup"
    /\ reason' = Validated /\ valid' = TRUE
    /\ phase' = "validated"
    /\ UNCHANGED <<rr, asked, upset>>

ReadReason ==
    /\ phase = "validated"
    /\ rr' = reason
    /\ phase' = "read"
    /\ UNCHANGED <<reason, valid, asked, upset>>

ClearReason ==
    /\ phase = "read"
    /\ reason' = "unknown"
    /\ phase' = "cleared"
    /\ UNCHANGED <<valid, rr, asked, upset>>

Decide ==
    /\ phase = "cleared"
    /\ IF rr = "bootloader" THEN phase' = "bootloader" /\ asked' = FALSE
       ELSE phase' = "loop" /\ UNCHANGED asked
    /\ UNCHANGED <<reason, valid, rr, upset>>

\* SYS_reboot by reset_boot and reset_fw_upgrade (cli.c:969-978), or by the page
\* /reset (server_impl.c:188); the reset itself is the next step.
Reboot(r) ==
    /\ phase = "loop" /\ r \in {"bootloader", "user"}
    /\ reason' = r
    /\ phase' = "rebooting"
    /\ asked' = (r = "bootloader") /\ upset' = FALSE
    /\ UNCHANGED <<valid, rr>>

RebootResets ==
    /\ phase = "rebooting"
    /\ phase' = "setup"
    /\ UNCHANGED <<reason, valid, rr, asked, upset>>

\* arch_reset by the command reset, the reset pin, or the end of the bootloader.
Reset ==
    /\ phase' = "setup"
    /\ upset' = TRUE
    /\ UNCHANGED <<reason, valid, rr, asked>>

\* hard_fault_handler_c: nothing but a reset gets out of it.
Fault ==
    /\ phase \notin {"dead", "bootloader"}
    /\ reason' = "crash"
    /\ phase' = "dead" /\ upset' = TRUE
    /\ UNCHANGED <<valid, rr, asked>>

PowerLoss ==
    /\ reason' \in Reasons /\ valid' = FALSE
    /\ phase' = "setup" /\ upset' = TRUE
    /\ UNCHANGED <<rr, asked>>

MainStep == Validate \/ ReadReason \/ ClearReason \/ Decide \/ RebootResets

BootNext == MainStep \/ (\E r \in Reasons : Reboot(r)) \/ Reset \/ Fault \/ PowerLoss

BootSpec == BootInit /\ [][BootNext]_bootVars /\ WF_bootVars(MainStep)

-------------------------------------------------------------------------------
\* The bootloader runs only when it was asked for and once for each time, also
\* when it ends in a reset, power was lost, or a reset came between reading the
\* reason and clearing it.
BootloaderAsked == [][phase' = "bootloader" /\ phase # "bootloader" => asked]_bootVars

\* When it was asked for it runs, unless another reset or a fault comes first.
BootloaderRuns == asked ~> ~asked \/ upset
================================================================================
