------------------------------ MODULE SoakReport ------------------------------
(***************************************************************************)
(* The readiness report read while the worker writes.  read_report takes   *)
(* no lock: it reads the row, the log and the switch one after the other,  *)
(* each in a transaction of its own, and the worker, a stop or a repair    *)
(* may come between any two of them.  The production path is armed on what *)
(* the report says.                                                        *)
(***************************************************************************)
EXTENDS Soak

ASSUME ReportAssumption == Cooldown > 0

VARIABLE report   \* how far a report has come that still may pass

ReportInit == Init /\ report = "none"

\* One reading decides whether the report may still pass.
Advance(passes, next) ==
    /\ report' = IF passes THEN next ELSE "none"
    /\ UNCHANGED vars

ReadRow == report \in {"none", "passed"} /\ Advance(RowPasses, "row")

ReadLog == report = "row" /\ Advance(LogPasses, "log")

ReadSwitch == report = "log" /\ Advance(~killed, "passed")

\* Bound of the model: the clock stands still between the first two readings,
\* milliseconds apart where two orders are half an hour apart.
ReportNext ==
    \/ Next /\ UNCHANGED report /\ (report = "row" => now' = now)
    \/ ReadRow \/ ReadLog \/ ReadSwitch

ReportSpec == ReportInit /\ [][ReportNext]_<<vars, report>>

\* A report that passes is true of the database at its last reading: nothing a
\* run, a stop or a repair did between the readings has taken back what they said.
ReportIsTrue ==
    [][report = "log" /\ report' = "passed" => Passed]_<<vars, report>>

----------------------------------------------------------------------------
(* The inductive strengthening *)

\* A completed observation ends a run only because of a stop.
EndedByStop ==
    disk.status = "COMPLETE" /\ pc \in {"blocked", "blockedsave"} => err = "Other"

\* The worker met a stop and blocked itself; no repair lifts that.
Shut ==
    /\ disk.status = "BLOCKED" /\ disk.error = "Other" /\ killed /\ log.blocked
    /\ pc \in {"idle", "start", "blocked", "blockedsave"}
    /\ pc \in {"blocked", "blockedsave"} => err = "Other"

\* An observation without orders was opened anew: whatever executed did so in
\* this very moment.
JustOpened == \A i \in Executed : fill[i].at = now

\* What a report rests on between its readings.
ReportInductive ==
    /\ report \in {"none", "row", "log", "passed"}
    /\ EndedByStop
    /\ report = "row" => RowPasses \/ Shut \/ JustOpened
    /\ report = "log" => (RowPasses /\ LogPasses) \/ Shut

=============================================================================
