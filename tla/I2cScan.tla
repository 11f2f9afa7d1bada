-------------------------------- MODULE I2cScan --------------------------------
(*****************************************************************************)
(* The scan of the I2C bus (src/src/cli.c:326-386): one query at a time; the *)
(* bus interrupt queues a task with the answer, which reports it and sends   *)
(* the next query.                                                           *)
(*                                                                           *)
(* The bus driver is external: it takes no query while one runs, resetting   *)
(* it ends the one that runs, and its answer is known by the address that    *)
(* was asked.                                                                *)
(*****************************************************************************)
EXTENDS Integers, Sequences

CONSTANTS
    LAST,       \* 255 in the code: addresses below it are reported
    MAX_TASKS   \* a bound on the reports queued when another scan is begun

ASSUME ScanAssumption == LAST \in Nat \ {0} /\ MAX_TASKS \in Nat

VARIABLES
    cli_i2c_scan_addr,
    asking,         \* the address the bus is asking for, -1 when it is not
    reports,        \* report tasks queued, as the addresses that answered
    closed          \* the bus was closed at the end

\* History variables.
VARIABLES
    alone,          \* this scan was begun when none ran, and no other since
    reported        \* of this scan: the address printed, the one that answered

scanVars == <<cli_i2c_scan_addr, asking, reports, closed, alone, reported>>

ScanInit ==
    /\ cli_i2c_scan_addr = 0 /\ asking = -1 /\ reports = <<>> /\ closed = TRUE
    /\ alone = TRUE /\ reported = <<>>

\* f_i2c_scan resets the bus, and configures it, which may fail.
f_i2c_scan ==
    /\ Len(reports) < MAX_TASKS
    /\ \/ /\ cli_i2c_scan_addr' = 0
          /\ asking' = 0
          /\ closed' = FALSE
          /\ alone' = (asking = -1 /\ reports = <<>>) /\ reported' = <<>>
       \/ /\ asking' = -1
          /\ alone' = (alone /\ closed)
          /\ UNCHANGED <<cli_i2c_scan_addr, closed, reported>>
    /\ UNCHANGED reports

\* cli_i2c_scan_cb
cli_i2c_scan_cb ==
    /\ asking >= 0
    /\ reports' = Append(reports, asking)
    /\ asking' = -1
    /\ UNCHANGED <<cli_i2c_scan_addr, closed, alone, reported>>

Ask(a) == asking' = IF asking >= 0 THEN asking ELSE a

\* Mutant: the address is raised behind the query.
AsksFirst ==
    /\ cli_i2c_scan_addr' = cli_i2c_scan_addr + 2
    /\ Ask(cli_i2c_scan_addr)

\* The query after the last address, which is not reported, is what ends the scan.
Further ==
    /\ cli_i2c_scan_addr' = cli_i2c_scan_addr + 2
    /\ Ask(cli_i2c_scan_addr')

Within == cli_i2c_scan_addr < LAST

i2c_scan_report_task ==
    /\ reports # <<>>
    /\ reports' = Tail(reports)
    /\ IF Within
       THEN /\ reported' = Append(reported, [addr |-> cli_i2c_scan_addr,
                                             from |-> Head(reports)])
            /\ Further
            /\ UNCHANGED closed
       ELSE closed' = TRUE /\ UNCHANGED <<cli_i2c_scan_addr, asking, reported>>
    /\ UNCHANGED alone

ScanStep == cli_i2c_scan_cb \/ i2c_scan_report_task
ScanNext == f_i2c_scan \/ ScanStep

ScanSpec == ScanInit /\ [][ScanNext]_scanVars

-------------------------------------------------------------------------------
\* A scan that no other one cuts into reports every address once, in order, and
\* with the answer of that address; the query beyond the last is not reported.
EachOnce ==
    alone =>
        /\ \A i \in DOMAIN reported : reported[i] = [addr |-> 2 * (i - 1), from |-> 2 * (i - 1)]
        /\ closed /\ reported # <<>> => 2 * Len(reported) >= LAST /\ 2 * (Len(reported) - 1) < LAST
================================================================================
