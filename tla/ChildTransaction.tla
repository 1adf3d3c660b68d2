-------------------------- MODULE ChildTransaction --------------------------
(***************************************************************************)
(* What one profiled child transaction promises to whoever sequences it:  *)
(* it sends its forward write at most once, and it either closes with a   *)
(* classified outcome that tells the truth about that write, or it        *)
(* escapes without a record, and then nothing is claimed.                 *)
(* ProfiledExecution implements it; ProfiledRollout relies on it.         *)
(***************************************************************************)

VARIABLES
    phase,    \* "open", "closed" (a record exists) or "escaped" (none will)
    wrote,    \* the forward write has left for the device
    outcome   \* the recorded FinalOutcome, "none" until closed

childVars == <<phase, wrote, outcome>>

\* FinalOutcome values whose record says that no write was attempted.
NoWriteOutcomes == {"BLOCKED", "STALE_PLAN"}

WriteOutcomes ==
    {"SUCCEEDED", "EXECUTION_FAILED", "AMBIGUOUS", "POST_VALIDATION_FAILED",
     "RECOVERED", "RECOVERY_FAILED", "RECOVERY_AMBIGUOUS",
     "AUTO_ROLLBACK_PENDING", "CONFIRMATION_FAILED", "CONFIRMATION_AMBIGUOUS"}

\* A failure or an ambiguity may be of a request that never left.
UnknownOutcomes == {"EXECUTION_FAILED", "AMBIGUOUS"}

Outcomes == NoWriteOutcomes \cup WriteOutcomes

ChildInit == phase = "open" /\ wrote = FALSE /\ outcome = "none"

\* The one forward write: a Cisco artifact or a Junos commit-confirmed.
Send ==
    /\ phase = "open" /\ ~wrote
    /\ wrote' = TRUE
    /\ UNCHANGED <<phase, outcome>>

Close ==
    /\ phase = "open"
    /\ phase' = "closed"
    /\ outcome' \in IF wrote THEN WriteOutcomes
                  ELSE NoWriteOutcomes \cup UnknownOutcomes
    /\ UNCHANGED wrote

\* An exception or the end of the process: the write fact stays unknown.
Escape ==
    /\ phase = "open"
    /\ phase' = "escaped"
    /\ UNCHANGED <<wrote, outcome>>

ChildNext == Send \/ Close \/ Escape

ChildSpec == ChildInit /\ [][ChildNext]_childVars
=============================================================================
