------------------------- MODULE ProfiledExecution -------------------------
(***************************************************************************)
(* One schema-v2 profiled execution: execute_profiled_plan with the two   *)
(* vendor transactions below it, the Ansible Runner write with a targeted *)
(* inverse (Cisco) and the exclusive candidate with commit-confirmed      *)
(* (Junos).                                                               *)
(*                                                                         *)
(* The executor is one process. Around it: the device, which may or may   *)
(* not apply what the provider reports on; its rollback timer; operators  *)
(* who edit the same interface out of band; and the end of the process at *)
(* any step. Messages, endpoints and digests are left out; a description  *)
(* is a model value, None being "no description", which the records also  *)
(* use for "nothing observed".                                            *)
(***************************************************************************)
EXTENDS Naturals

CONSTANTS
    Descriptions,   \* descriptions an interface can carry, None included
    None,           \* the absent description (Python None)
    Desired,        \* plan.desired_description
    NoPending,      \* no commit-confirmed is waiting for its confirmation
    ConfirmInTime,  \* TRUE: the five minutes outlast close, POST and confirm
    MaxEdits        \* bound on out-of-band edits

ASSUME ConstantsAssumption ==
    /\ None \in Descriptions
    /\ Desired \in Descriptions \ {None}
    /\ NoPending \notin Descriptions
    /\ ConfirmInTime \in BOOLEAN
    /\ MaxEdits \in Nat

VARIABLES
    plan,      \* the frozen plan: transaction strategy, current_description
    pc,        \* where execute_profiled_plan stands
    stages,    \* the stage results its locals hold
    record,    \* the ProfiledChangeRecord's outcome and stages, once built
    result,    \* "running", "record", "rejected", "raised" or "crashed"
    running,   \* the device's active description
    pending,   \* what an unconfirmed commit will be rolled back to
    locked,    \* this executor holds the exclusive Junos candidate
    sent,      \* write requests that left: "forward", "inverse", "confirm"
    edits,     \* out-of-band edits so far
    quiet      \* none of them since the executor last read the device

deviceVars == <<running, pending, locked>>
historyVars == <<sent, edits, quiet>>
vars == <<plan, pc, stages, record, result, deviceVars, historyVars>>

Strategies == {"cisco_targeted_inverse", "junos_commit_confirmed"}

Plans == [strategy : Strategies, previous : Descriptions \ {Desired}]

Junos == plan.strategy = "junos_commit_confirmed"

\* bool | None, as StageResult carries it.
Tri == {"true", "false", "none"}

Stage == [attempted : BOOLEAN, succeeded : Tri, changed : Tri,
          observed : Descriptions]

Truth(b) == IF b THEN "true" ELSE "false"

NotAttempted == [attempted |-> FALSE, succeeded |-> "none",
                 changed |-> "none", observed |-> None]

\* An attempted stage, unless it says otherwise without metadata.
Attempted(succeeded, changed, observed) ==
    [attempted |-> TRUE, succeeded |-> Truth(succeeded),
     changed |-> changed, observed |-> observed]

StageNames == {"preflight", "execution", "post", "recovery",
               "candidate", "confirmation"}

NoStages == [s \in StageNames |-> NotAttempted]

Dispositions == {"SUCCEEDED", "FAILED", "AMBIGUOUS"}

NoWriteOutcomes == {"BLOCKED", "STALE_PLAN"}
RecoveryOutcomes == {"RECOVERED", "RECOVERY_FAILED", "RECOVERY_AMBIGUOUS"}
ConfirmationOutcomes ==
    {"SUCCEEDED", "CONFIRMATION_FAILED", "CONFIRMATION_AMBIGUOUS"}
FinalOutcome ==
    NoWriteOutcomes \cup RecoveryOutcomes \cup ConfirmationOutcomes \cup
    {"EXECUTION_FAILED", "AMBIGUOUS", "POST_VALIDATION_FAILED",
     "AUTO_ROLLBACK_PENDING"}

NoRecord == [outcome |-> "none", stages |-> NoStages]

-----------------------------------------------------------------------------
(***************************************************************************)
(* ProfiledChangeRecord.consistent_outcome: the facts a record may state  *)
(* together. The candidate's diff digest is present exactly when the      *)
(* candidate succeeded, as the executor always passes them together.      *)
(***************************************************************************)

StageShape(s) ==
    IF s.attempted THEN s.succeeded # "none"
    ELSE s.succeeded = "none" /\ s.changed = "none" /\ s.observed = None

ObservationFacts(previous, outcome, s) ==
    /\ s.preflight.attempted
    /\ s.preflight.succeeded = "true" => s.preflight.observed = previous
    /\ s.execution.attempted => s.preflight.succeeded = "true"
    /\ s.post.attempted => s.execution.attempted
    /\ s.post.changed # "none" =>
           s.post.changed = Truth(s.post.observed # previous)
    /\ s.post.succeeded = "true" /\ outcome # "AMBIGUOUS" =>
           s.post.observed = Desired

RecoveryFacts(junos, previous, outcome, s) ==
    /\ s.recovery.attempted <=> outcome \in RecoveryOutcomes
    /\ s.recovery.attempted =>
           /\ ~junos
           /\ s.execution.succeeded = "true"
           /\ s.post.attempted /\ s.post.succeeded = "false"
           /\ s.post.observed # Desired
    /\ outcome = "RECOVERED" =>
           s.recovery.succeeded = "true" /\ s.recovery.observed = previous
    /\ outcome = "RECOVERY_AMBIGUOUS" => s.recovery.succeeded = "false"

JunosFacts(outcome, s) ==
    /\ s.candidate.attempted => s.preflight.succeeded = "true"
    /\ s.execution.attempted <=> s.candidate.succeeded = "true"
    /\ s.confirmation.attempted <=> outcome \in ConfirmationOutcomes
    /\ s.confirmation.attempted =>
           /\ s.execution.succeeded = "true"
           /\ s.post.succeeded = "true"
           /\ s.confirmation.succeeded = Truth(outcome = "SUCCEEDED")

OutcomeFacts(junos, outcome, s) ==
    /\ outcome \in FinalOutcome
    /\ outcome \in NoWriteOutcomes =>
           /\ ~(s.execution.attempted \/ s.post.attempted
                    \/ s.recovery.attempted)
           /\ s.preflight.succeeded = "true" =>
                  junos /\ outcome = "BLOCKED" /\ s.candidate.succeeded = "false"
    /\ outcome = "SUCCEEDED" =>
           s.execution.succeeded = "true" /\ s.post.succeeded = "true"
    /\ outcome \in {"EXECUTION_FAILED", "AMBIGUOUS"} =>
           /\ s.execution.attempted /\ s.execution.succeeded = "false"
           /\ s.post.attempted => ~junos /\ outcome = "AMBIGUOUS"
    /\ outcome = "POST_VALIDATION_FAILED" =>
           /\ ~junos /\ s.execution.succeeded = "true"
           /\ s.post.attempted /\ s.post.succeeded = "false"
    /\ outcome = "AUTO_ROLLBACK_PENDING" =>
           junos /\ s.execution.succeeded = "true" /\ s.post.succeeded # "true"
    /\ outcome \in {"CONFIRMATION_FAILED", "CONFIRMATION_AMBIGUOUS"} => junos

ConsistentOutcome(p, outcome, s) ==
    LET junos == p.strategy = "junos_commit_confirmed" IN
    /\ \A name \in StageNames : StageShape(s[name])
    /\ ObservationFacts(p.previous, outcome, s)
    /\ RecoveryFacts(junos, p.previous, outcome, s)
    /\ IF junos THEN JunosFacts(outcome, s)
       ELSE s.candidate = NotAttempted /\ s.confirmation = NotAttempted
    /\ OutcomeFacts(junos, outcome, s)

-----------------------------------------------------------------------------
Init ==
    /\ plan \in Plans
    /\ pc = "verify"
    /\ stages = NoStages
    /\ record = NoRecord
    /\ result = "running"
    /\ running \in Descriptions
    /\ pending = NoPending
    /\ locked = FALSE
    /\ sent = {}
    /\ edits = 0
    /\ quiet = FALSE

\* _record: the function returns, with a record or with its ValidationError.
Record(outcome, s) ==
    /\ stages' = s
    /\ pc' = "done"
    /\ IF ConsistentOutcome(plan, outcome, s)
       THEN result' = "record" /\ record' = [outcome |-> outcome, stages |-> s]
       ELSE result' = "rejected" /\ UNCHANGED record

\* An exception execute_profiled_plan does not catch.
Raise ==
    /\ pc' = "done"
    /\ result' = "raised"
    /\ UNCHANGED <<stages, record>>

\* The function goes on with these stage results.
Continue(at, s) ==
    /\ pc' = at
    /\ stages' = s
    /\ UNCHANGED <<record, result>>

Blocked == [stages EXCEPT !.preflight = Attempted(FALSE, "none", None)]

\* The approval and plan digests, and the Ansible runtime on the Cisco path.
VerifyApproval ==
    /\ pc = "verify"
    /\ \/ Raise                        \* approval malformed or another plan's
       \/ Record("BLOCKED", Blocked)   \* plan digest or Ansible runtime
       \/ Continue("preflight", stages)
    /\ UNCHANGED <<plan, deviceVars, historyVars>>

(***************************************************************************)
(* A fresh read of the device: what the collector returns is the running  *)
(* description of the expected interface, or belongs to something else    *)
(* (wrong hostname, wrong or missing interface). It can also raise.       *)
(***************************************************************************)
Reads == [identity : {TRUE}, description : {running}]
             \cup [identity : {FALSE}, description : Descriptions]

Reading == quiet' = TRUE /\ UNCHANGED <<sent, edits>>

\* Mutant: compared with the desired description instead of the previous one.
TransitionFromDesired(read) ==
    IF read.identity THEN Truth(read.description # Desired) ELSE "none"

\* _observed_transition: unknown when the observation cannot be compared.
ObservedTransition(read) ==
    IF read.identity THEN Truth(read.description # plan.previous) ELSE "none"

\* _preflight: admission, binding, credentials, then one read-only collection.
Preflight ==
    /\ pc = "preflight"
    /\ \/ \E outcome \in NoWriteOutcomes :
              Record(outcome, Blocked) /\ UNCHANGED historyVars
       \/ /\ \E read \in Reads :
                IF read.identity /\ read.description = plan.previous
                THEN Continue(IF Junos THEN "enter" ELSE "execute",
                        [stages EXCEPT !.preflight =
                            Attempted(TRUE, "none", read.description)])
                ELSE Record("STALE_PLAN", Blocked)
          /\ Reading
    /\ UNCHANGED <<plan, deviceVars>>

-----------------------------------------------------------------------------
(***************************************************************************)
(* Cisco: execute_profiled and _classify_interface_execution. What the    *)
(* runner reports (status, rc, the task's event) and what the device did  *)
(* are independent: an event can be lost, a success can have no effect.   *)
(***************************************************************************)
RunnerReports ==
    [status : {"successful", "failed", "timeout", "canceled"},
     rc : {"0", "2", "254"},
     event : {"ok", "failed", "unreachable", "absent"}]

\* An exception of the runner itself counts as a timeout: it is ambiguous.
ClassifyInterfaceExecution(report) ==
    IF \/ report.status \in {"timeout", "canceled"}
       \/ report.rc = "254"
       \/ report.event \in {"failed", "unreachable"}
    THEN "AMBIGUOUS"
    ELSE IF report.status = "successful" /\ report.rc = "0" /\ report.event = "ok"
    THEN "SUCCEEDED"
    ELSE "FAILED"

\* The task's "changed", a boolean only when the task reported one.
ReportedChange(report) == IF report.event = "absent" THEN {"none"} ELSE Tri

\* The artifact goes out once or the run fails before it; the device takes it
\* or not. Its report is read in the next step.
Send(request, description, next) ==
    /\ Continue(next, stages)
    /\ \E left \in BOOLEAN :
          /\ sent' = IF left THEN sent \cup {request} ELSE sent
          /\ running' \in IF left THEN {running, description} ELSE {running}
    /\ UNCHANGED <<pending, locked, edits, quiet>>

\* A success is reported only of a request that left.
Report(request, disposition, changed) ==
    \E report \in RunnerReports :
        /\ disposition = ClassifyInterfaceExecution(report)
        /\ changed \in ReportedChange(report)
        /\ disposition = "SUCCEEDED" => request \in sent

Execute ==
    /\ pc = "execute"
    /\ \/ Raise /\ UNCHANGED <<deviceVars, historyVars>>   \* HostTrustError
       \/ Send("forward", Desired, "executed")
    /\ UNCHANGED plan

\* Mutant: an ambiguous write is followed up like a successful one.
ExecutedOptimistic ==
    /\ pc = "executed"
    /\ \E disposition \in Dispositions, changed \in Tri :
        LET s == [stages EXCEPT !.execution =
                    Attempted(disposition = "SUCCEEDED", changed, None)]
        IN  /\ Report("forward", disposition, changed)
            /\ IF disposition = "FAILED" THEN Record("EXECUTION_FAILED", s)
               ELSE Continue("post", s)
    /\ UNCHANGED <<plan, deviceVars, historyVars>>

Executed ==
    /\ pc = "executed"
    /\ \E disposition \in Dispositions, changed \in Tri :
        LET s == [stages EXCEPT !.execution =
                    Attempted(disposition = "SUCCEEDED", changed, None)]
        IN  /\ Report("forward", disposition, changed)
            /\ \/ disposition = "SUCCEEDED" /\ Continue("post", s)
               \/ disposition = "AMBIGUOUS" /\ Continue("reconcile", s)
               \/ disposition = "FAILED" /\ Record("EXECUTION_FAILED", s)
    /\ UNCHANGED <<plan, deviceVars, historyVars>>

\* One read-only observation after an ambiguous write; it decides nothing.
Reconcile ==
    /\ pc = "reconcile"
    /\ \/ /\ Record("AMBIGUOUS", [stages EXCEPT !.post =
                        Attempted(FALSE, "none", None)])
          /\ UNCHANGED historyVars
       \/ /\ \E read \in Reads :
                Record("AMBIGUOUS", [stages EXCEPT !.post =
                    Attempted(TRUE, ObservedTransition(read), read.description)])
          /\ Reading
    /\ UNCHANGED <<plan, deviceVars>>

\* Mutant: the description is enough, whatever device it was read from.
CiscoPostAnyIdentity ==
    /\ pc = "post" /\ ~Junos
    /\ \E read \in Reads :
        LET desired == read.description = Desired
            s == [stages EXCEPT !.post =
                    Attempted(desired, ObservedTransition(read), read.description)]
        IN  IF desired THEN Record("SUCCEEDED", s) ELSE Continue("recover", s)
    /\ Reading
    /\ UNCHANGED <<plan, deviceVars>>

\* The independent post-observation of a Cisco write.
CiscoPost ==
    /\ pc = "post" /\ ~Junos
    /\ \/ /\ Record("POST_VALIDATION_FAILED",
                [stages EXCEPT !.post = Attempted(FALSE, "none", None)])
          /\ UNCHANGED historyVars
       \/ /\ \E read \in Reads :
                LET desired == read.identity /\ read.description = Desired
                    s == [stages EXCEPT !.post =
                            Attempted(desired, ObservedTransition(read),
                                      read.description)]
                IN  \/ desired /\ Record("SUCCEEDED", s)
                    \/ ~read.identity /\ Record("POST_VALIDATION_FAILED", s)
                    \/ read.identity /\ ~desired /\ Continue("recover", s)
          /\ Reading
    /\ UNCHANGED <<plan, deviceVars>>

\* The frozen inverse, once, after an identity-exact read of something else.
Recover ==
    /\ pc = "recover"
    /\ \/ Raise /\ UNCHANGED <<deviceVars, historyVars>>   \* HostTrustError
       \/ Send("inverse", plan.previous, "recovered")
    /\ UNCHANGED plan

Recovered ==
    /\ pc = "recovered"
    /\ \E disposition \in Dispositions, changed \in Tri :
        LET s == [stages EXCEPT !.recovery =
                    Attempted(disposition = "SUCCEEDED", changed, None)]
        IN  /\ Report("inverse", disposition, changed)
            /\ \/ disposition = "SUCCEEDED" /\ Continue("restore", s)
               \/ disposition = "AMBIGUOUS" /\ Record("RECOVERY_AMBIGUOUS", s)
               \/ disposition = "FAILED" /\ Record("RECOVERY_FAILED", s)
    /\ UNCHANGED <<plan, deviceVars, historyVars>>

\* Mutant: the failed read after an inverse is recorded like a failed POST.
RestoreForgotten ==
    /\ pc = "restore"
    /\ Record("POST_VALIDATION_FAILED", [stages EXCEPT !.recovery = NotAttempted])
    /\ UNCHANGED <<plan, deviceVars, historyVars>>

\* RECOVERED only when the previous description is read back.
Restore ==
    /\ pc = "restore"
    /\ \/ Record("RECOVERY_FAILED", stages) /\ UNCHANGED historyVars
       \/ /\ \E read \in Reads :
                LET restored == read.identity /\ read.description = plan.previous
                IN  Record(IF restored THEN "RECOVERED" ELSE "RECOVERY_FAILED",
                        [stages EXCEPT !.recovery =
                            Attempted(restored, @.changed, read.description)])
          /\ Reading
    /\ UNCHANGED <<plan, deviceVars>>

-----------------------------------------------------------------------------
\* JunosTransaction.__enter__: the exclusive candidate, proven clean, or none.
Enter ==
    /\ pc = "enter"
    /\ \/ /\ Record("BLOCKED", [stages EXCEPT !.candidate =
                        Attempted(FALSE, "none", None)])
          /\ UNCHANGED locked
       \/ Continue("prepare", stages) /\ locked' = TRUE
    /\ UNCHANGED <<plan, running, pending, historyVars>>

\* prepare: load, commit-check and a non-empty scoped diff, or roll back and
\* unlock. A candidate equal to the running configuration has no diff.
Prepare ==
    /\ pc = "prepare"
    /\ \/ /\ Record("BLOCKED", [stages EXCEPT !.candidate =
                        Attempted(FALSE, "none", None)])
          /\ locked' = FALSE
       \/ /\ running # Desired
          /\ Continue("commit", [stages EXCEPT !.candidate =
                                    Attempted(TRUE, "true", None)])
          /\ UNCHANGED locked
    /\ UNCHANGED <<plan, running, pending, historyVars>>

\* Mutant: a plain commit.
CommitPlain ==
    /\ pc = "commit"
    /\ Continue("close", stages)
    /\ sent' = sent \cup {"forward"}
    /\ running' \in {running, Desired}
    /\ UNCHANGED <<plan, pending, locked, edits, quiet>>

\* commit_confirmed(5): the temporary commit is the first active write.
CommitConfirmed ==
    /\ pc = "commit"
    /\ Continue("close", stages)
    /\ \/ /\ sent' = sent \cup {"forward"}
          /\ \/ running' = Desired /\ pending' = running
             \/ UNCHANGED <<running, pending>>
       \/ UNCHANGED <<sent, running, pending>>
    /\ UNCHANGED <<plan, locked, edits, quiet>>

\* Mutant: a result that was never set counts as a success.
CloseDefaultSuccess ==
    /\ pc = "close"
    /\ locked' = FALSE
    /\ Record("AUTO_ROLLBACK_PENDING", [stages EXCEPT !.execution =
                                            Attempted(TRUE, "true", None)])
    /\ UNCHANGED <<plan, running, pending, historyVars>>

\* Its classified result, with the candidate unlocked and the session closed
\* before it is looked at. A failed close forbids POST and confirmation.
Close ==
    /\ pc = "close"
    /\ locked' = FALSE
    /\ \E disposition \in Dispositions, closed \in BOOLEAN :
        LET ok == disposition = "SUCCEEDED"
            s == [stages EXCEPT !.execution =
                    Attempted(ok, IF ok THEN "true" ELSE "none", None)]
        IN  \/ disposition = "AMBIGUOUS" /\ Record("AMBIGUOUS", s)
            \/ disposition = "FAILED" /\ Record("EXECUTION_FAILED", s)
            \/ /\ ok /\ "forward" \in sent
               /\ IF closed THEN Continue("post", s)
                  ELSE Record("AUTO_ROLLBACK_PENDING", s)
    /\ UNCHANGED <<plan, running, pending, historyVars>>

\* The fresh observation on which the confirmation depends.
JunosPost ==
    /\ pc = "post" /\ Junos
    /\ \/ /\ Record("AUTO_ROLLBACK_PENDING",
                [stages EXCEPT !.post = Attempted(FALSE, "none", None)])
          /\ UNCHANGED historyVars
       \/ /\ \E read \in Reads :
                LET desired == read.identity /\ read.description = Desired
                    s == [stages EXCEPT !.post =
                            Attempted(desired, ObservedTransition(read),
                                      read.description)]
                IN  IF desired THEN Continue("confirm", s)
                    ELSE Record("AUTO_ROLLBACK_PENDING", s)
          /\ Reading
    /\ UNCHANGED <<plan, deviceVars>>

\* confirm_profiled: a second session and exclusive lock, then one plain commit,
\* which confirms what is pending and succeeds as well when nothing is.
Confirm ==
    /\ pc = "confirm"
    /\ \/ /\ Record("CONFIRMATION_FAILED", [stages EXCEPT !.confirmation =
                        Attempted(FALSE, "none", None)])
          /\ UNCHANGED <<pending, locked, sent>>
       \/ /\ \/ Continue("confirmed", stages) /\ pending' = NoPending
             \/ Continue("unconfirmed", stages) /\ UNCHANGED pending
          /\ locked' = TRUE
          /\ sent' = sent \cup {"confirm"}
    /\ UNCHANGED <<plan, running, edits, quiet>>

\* Only a processed confirmation is reported as a success.
Confirmed ==
    /\ pc \in {"confirmed", "unconfirmed"}
    /\ locked' = FALSE
    /\ \E outcome \in ConfirmationOutcomes :
          /\ outcome = "SUCCEEDED" => pc = "confirmed"
          /\ Record(outcome, [stages EXCEPT !.confirmation =
                        Attempted(outcome = "SUCCEEDED", "none", None)])
    /\ UNCHANGED <<plan, running, pending, historyVars>>

-----------------------------------------------------------------------------
\* Mutant: fires with nothing to restore.
TimerAlways ==
    /\ running' = pending
    /\ pending' = NoPending
    /\ UNCHANGED <<plan, pc, stages, record, result, locked, historyVars>>

\* The device's five minutes are over: it restores what it had.
RollbackTimer ==
    /\ pending # NoPending
    /\ ConfirmInTime => pc \notin {"close", "post", "confirm", "unconfirmed"}
    /\ running' = pending
    /\ pending' = NoPending
    /\ UNCHANGED <<plan, pc, stages, record, result, locked, historyVars>>

\* Somebody else's commit, which also confirms a pending one.
OutOfBandEdit ==
    /\ ~locked /\ edits < MaxEdits
    /\ running' \in Descriptions \ {running}
    /\ pending' = NoPending
    /\ edits' = edits + 1
    /\ quiet' = FALSE
    /\ UNCHANGED <<plan, pc, stages, record, result, locked, sent>>

\* The process ends; the device drops its session and with it the candidate.
Crash ==
    /\ pc # "done"
    /\ pc' = "done"
    /\ result' = "crashed"
    /\ locked' = FALSE
    /\ UNCHANGED <<plan, stages, record, running, pending, historyVars>>

Cisco == Execute \/ Executed \/ Reconcile \/ CiscoPost \/ Recover
            \/ Recovered \/ Restore

JunosSteps == Enter \/ Prepare \/ CommitConfirmed \/ Close \/ JunosPost
                 \/ Confirm \/ Confirmed

Executor == VerifyApproval \/ Preflight \/ Cisco \/ JunosSteps

\* A finished execution stays finished while the device lives on.
Finished == pc = "done" /\ UNCHANGED vars

Next == Executor \/ RollbackTimer \/ OutOfBandEdit \/ Crash \/ Finished

Spec == Init /\ [][Next]_vars

\* The device's timer does not stop. The executor owes nothing: the runner is
\* called without a timeout.
FairSpec == Spec /\ WF_vars(RollbackTimer)

-----------------------------------------------------------------------------
\* Every variable, and the nested stage facts of a record, has its type.
TypeOK ==
    /\ plan \in Plans
    /\ pc \in {"verify", "preflight", "execute", "executed", "reconcile",
               "post", "recover", "recovered", "restore", "enter", "prepare",
               "commit", "close", "confirm", "confirmed", "unconfirmed", "done"}
    /\ stages \in [StageNames -> Stage]
    /\ record \in [outcome : FinalOutcome \cup {"none"},
                   stages : [StageNames -> Stage]]
    /\ result \in {"running", "record", "rejected", "raised", "crashed"}
    /\ running \in Descriptions
    /\ pending \in Descriptions \cup {NoPending}
    /\ locked \in BOOLEAN
    /\ sent \subseteq {"forward", "inverse", "confirm"}
    /\ edits \in 0..MaxEdits
    /\ quiet \in BOOLEAN

\* No path through the executor assembles a record that the record's own
\* validator refuses: a refusal would lose the account of a write already made.
RecordNeverRejected == result # "rejected"

\* Once a forward request may have left, one place alone ends the execution in
\* an exception and without a record: the recovery call, which stands in no try
\* block and raises when the host's key has gone since the write. By then the
\* write is known and something else was read. (docs/architecture/
\* recovery-safety.md has every known recovery failure recorded.)
RecoveryAloneEscapes ==
    result = "raised" /\ "forward" \in sent =>
        /\ ~Junos /\ "inverse" \notin sent
        /\ stages["execution"].succeeded = "true"
        /\ stages["post"].changed # "none" /\ stages["post"].observed # Desired

\* The account of a write that may have left is not lost: whatever path an
\* execution takes it ends with a record, unless its process is killed or the
\* recovery call raises.
RecordNeverLost == RecordNeverRejected /\ RecoveryAloneEscapes

\* A record tells whether a write may have happened: a forward request that
\* left is always recorded as an attempted execution, and an execution recorded
\* as successful did leave.
WriteTruth ==
    result = "record" =>
        LET execution == record.stages["execution"] IN
        /\ "forward" \in sent => execution.attempted
        /\ execution.succeeded = "true" => "forward" \in sent
        /\ "inverse" \in sent => record.outcome \in RecoveryOutcomes

\* When nobody edits after the last read, a record of SUCCEEDED means that the
\* device runs the desired description with no rollback waiting, and RECOVERED
\* that it runs the previous one again.
OutcomeTruth ==
    result = "record" /\ quiet =>
        /\ record.outcome = "SUCCEEDED" => running = Desired /\ pending = NoPending
        /\ record.outcome = "RECOVERED" => running = plan.previous

\* The second write of an execution is never a guess: an inverse follows a
\* known success and an identity-exact read of something else, a confirmation
\* follows a known success and a read of the desired description.
SecondWriteJustified ==
    LET post == stages["post"] IN
    /\ "inverse" \in sent => /\ stages["execution"].succeeded = "true"
                             /\ post.changed # "none" /\ post.observed # Desired
    /\ "confirm" \in sent => /\ stages["execution"].succeeded = "true"
                             /\ post.changed = "true" /\ post.observed = Desired

\* The device restores an unconfirmed commit whatever became of the executor
\* (crash included): a Junos execution that ends without having sent its
\* confirmation leaves the previous description once the timer has fired.
UnconfirmedIsRestored ==
    (/\ Junos /\ pc = "done" /\ stages["preflight"].succeeded = "true"
     /\ "confirm" \notin sent /\ edits = 0)
        ~> (edits > 0 \/ (running = plan.previous /\ pending = NoPending))

\* junos_adapter.py reports "pending commit confirmed with known success". So a
\* recorded known success means that the desired description is no longer
\* temporary but stays, as long as nobody edits it.
KnownSuccessPersists ==
    (result = "record" /\ quiet /\ record.stages["confirmation"].succeeded = "true")
        => running = Desired

-----------------------------------------------------------------------------
(***************************************************************************)
(* The transaction as its caller sees it.                                 *)
(***************************************************************************)
ChildPhase == CASE result = "running" -> "open"
                [] result = "record" -> "closed"
                [] OTHER -> "escaped"

Child == INSTANCE ChildTransaction WITH
            phase <- ChildPhase,
            wrote <- "forward" \in sent,
            outcome <- record.outcome

ImplementsChild == Child!ChildSpec
=============================================================================
