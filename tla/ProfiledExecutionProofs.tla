---------------------- MODULE ProfiledExecutionProofs ----------------------
(***************************************************************************)
(* Theorems about ProfiledExecution, for every set of descriptions and    *)
(* every bound on out-of-band edits.                                      *)
(*                                                                         *)
(* The properties are not inductive: whether a record will be accepted    *)
(* depends on what the executor knew when it got there. KnownAt says, for *)
(* each place of execute_profiled_plan, which stages have been attempted  *)
(* and what they found; LeftAt says which requests can have left.         *)
(***************************************************************************)
EXTENDS ProfiledExecution, TLAPS

OnlyAttempted(s, names) ==
    \A name \in StageNames \ names : s[name] = NotAttempted

BasisKnown(s) == s["preflight"] = Attempted(TRUE, "none", plan.previous)

WriteKnown(s) == s["execution"].attempted /\ s["execution"].succeeded = "true"

\* An identity-exact observation after the write: something else, or Desired.
PostMissed(s) ==
    /\ s["post"].attempted /\ s["post"].succeeded = "false"
    /\ s["post"].changed = Truth(s["post"].observed # plan.previous)
    /\ s["post"].observed # Desired

PostDesired(s) ==
    /\ s["post"].attempted /\ s["post"].succeeded = "true"
    /\ s["post"].changed = "true" /\ s["post"].observed = Desired

CandidateKnown(s) == s["candidate"] = Attempted(TRUE, "true", None)

KnownAt(at, s) ==
    /\ at \in {"verify", "preflight"} => OnlyAttempted(s, {})
    /\ at \notin {"verify", "preflight", "done"} => BasisKnown(s)
    /\ at \in {"execute", "executed"} =>
           ~Junos /\ OnlyAttempted(s, {"preflight"})
    /\ at = "reconcile" =>
           /\ ~Junos /\ OnlyAttempted(s, {"preflight", "execution"})
           /\ s["execution"].attempted /\ s["execution"].succeeded = "false"
    /\ at = "post" =>
           /\ WriteKnown(s)
           /\ IF Junos
              THEN /\ CandidateKnown(s)
                   /\ OnlyAttempted(s, {"preflight", "candidate", "execution"})
              ELSE OnlyAttempted(s, {"preflight", "execution"})
    /\ at \in {"recover", "recovered"} =>
           /\ ~Junos /\ WriteKnown(s) /\ PostMissed(s)
           /\ OnlyAttempted(s, {"preflight", "execution", "post"})
    /\ at = "restore" =>
           /\ ~Junos /\ WriteKnown(s) /\ PostMissed(s)
           /\ s["recovery"] \in {Attempted(TRUE, changed, None) : changed \in Tri}
           /\ OnlyAttempted(s, {"preflight", "execution", "post", "recovery"})
    /\ at \in {"enter", "prepare"} =>
           Junos /\ OnlyAttempted(s, {"preflight"})
    /\ at \in {"commit", "close"} =>
           /\ Junos /\ CandidateKnown(s)
           /\ OnlyAttempted(s, {"preflight", "candidate"})
    /\ at \in {"confirm", "confirmed", "unconfirmed"} =>
           /\ Junos /\ CandidateKnown(s) /\ WriteKnown(s) /\ PostDesired(s)
           /\ OnlyAttempted(s, {"preflight", "candidate", "execution", "post"})

LeftAt(at, requests) ==
    /\ at \in {"verify", "preflight", "execute", "enter", "prepare", "commit"} =>
           requests = {}
    /\ at \in {"executed", "reconcile", "post", "recover", "close", "confirm"} =>
           requests \subseteq {"forward"}
    /\ at \in {"recovered", "restore"} => "confirm" \notin requests
    /\ at \in {"confirmed", "unconfirmed"} => "inverse" \notin requests
    /\ at \in {"post", "recover", "recovered", "restore", "confirm",
               "confirmed", "unconfirmed"} => "forward" \in requests

Open == pc # "done" => result = "running" /\ record = NoRecord

\* A record that exists is one its validator has accepted.
Accepted ==
    result = "record" => ConsistentOutcome(plan, record.outcome, record.stages)

IInv == /\ TypeOK /\ KnownAt(pc, stages) /\ LeftAt(pc, sent)
        /\ Open /\ Accepted
        /\ RecordNeverRejected /\ WriteTruth /\ SecondWriteJustified

LEMMA InitIInv == Init => IInv
<1> SUFFICES ASSUME Init PROVE IInv
  OBVIOUS
<1> USE ConstantsAssumption DEF Init
<1>1. /\ NotAttempted \in Stage
      /\ NoStages \in [StageNames -> Stage]
      /\ NoRecord \in [outcome : FinalOutcome \cup {"none"},
                       stages : [StageNames -> Stage]]
  BY DEF NoStages, NotAttempted, Stage, Tri, NoRecord
<1>2. locked \in BOOLEAN /\ quiet \in BOOLEAN
  OBVIOUS
<1> edits \in 0..MaxEdits
  OBVIOUS
<1>3. TypeOK
  BY <1>1, <1>2 DEF TypeOK
<1>4. KnownAt(pc, stages) /\ LeftAt(pc, sent) /\ Open
  BY DEF KnownAt, OnlyAttempted, NoStages, LeftAt, Open
<1> QED
  BY <1>3, <1>4
  DEF IInv, Accepted, RecordNeverRejected, WriteTruth, SecondWriteJustified

-----------------------------------------------------------------------------
\* The fields of a stage that was not attempted, and of one that was.
LEMMA NotAttemptedFacts ==
  /\ ~NotAttempted.attempted /\ NotAttempted.succeeded = "none"
  /\ NotAttempted.changed = "none" /\ NotAttempted.observed = None
  /\ StageShape(NotAttempted)
  BY DEF NotAttempted, StageShape

LEMMA AttemptedType ==
  ASSUME NEW succeeded \in BOOLEAN, NEW changed \in Tri,
         NEW observed \in Descriptions
  PROVE  Attempted(succeeded, changed, observed) \in Stage
  BY DEF Attempted, Stage, Truth, Tri

LEMMA ReadsType ==
  ASSUME TypeOK, NEW read \in Reads
  PROVE  /\ read.identity \in BOOLEAN /\ read.description \in Descriptions
         /\ ObservedTransition(read) \in Tri
  BY DEF Reads, TypeOK, ObservedTransition, Truth, Tri

\* What the executor leaves alone: its plan and the count of edits. What it
\* does to the device keeps its type.
Around ==
    /\ UNCHANGED <<plan, edits>>
    /\ running' \in Descriptions /\ pending' \in Descriptions \cup {NoPending}
    /\ locked' \in BOOLEAN /\ quiet' \in BOOLEAN

\* What a step that only continues has to show.
LEMMA ContinueStep ==
  ASSUME IInv, Around, NEW s \in [StageNames -> Stage],
         NEW at \in {"verify", "preflight", "execute", "executed", "reconcile",
               "post", "recover", "recovered", "restore", "enter", "prepare",
               "commit", "close", "confirm", "confirmed", "unconfirmed"},
         Continue(at, s), pc # "done",
         sent' \subseteq {"forward", "inverse", "confirm"},
         KnownAt(at, s), LeftAt(at, sent'), SecondWriteJustified'
  PROVE  IInv'
<1>1. TypeOK'
  BY DEF IInv, TypeOK, Continue, Around
<1>2. result' = "running" /\ record' = NoRecord
  BY DEF IInv, Open, Continue
<1>3. Open' /\ Accepted' /\ RecordNeverRejected' /\ WriteTruth'
  BY <1>2 DEF Open, Accepted, RecordNeverRejected, WriteTruth
<1>4. KnownAt(pc, stages)' /\ LeftAt(pc, sent)'
  BY DEF Continue, Around, KnownAt, BasisKnown, PostMissed, Junos, LeftAt
<1> QED
  BY <1>1, <1>3, <1>4 DEF IInv

\* What a step that returns has to show.
LEMMA RecordStep ==
  ASSUME IInv, Around, UNCHANGED sent,
         NEW outcome \in FinalOutcome, NEW s \in [StageNames -> Stage],
         Record(outcome, s), ConsistentOutcome(plan, outcome, s),
         "forward" \in sent => s["execution"].attempted,
         s["execution"].succeeded = "true" => "forward" \in sent,
         "inverse" \in sent => outcome \in RecoveryOutcomes,
         SecondWriteJustified'
  PROVE  IInv'
<1>1. TypeOK'
  BY DEF IInv, TypeOK, Record, Around
<1>2. /\ pc' = "done" /\ result' = "record"
      /\ record' = [outcome |-> outcome, stages |-> s]
  BY DEF Record
<1>3. RecordNeverRejected' /\ WriteTruth'
  BY <1>2 DEF RecordNeverRejected, WriteTruth
<1>4. KnownAt(pc, stages)' /\ LeftAt(pc, sent)' /\ Open'
  BY <1>2 DEF KnownAt, LeftAt, Open
<1>5. Accepted'
  <2>1. /\ record'.outcome = outcome /\ record'.stages = s /\ plan' = plan
    BY <1>2 DEF Around
  <2> QED
    BY <2>1 DEF Accepted
<1> QED
  BY <1>1, <1>3, <1>4, <1>5 DEF IInv

\* An exception ends the execution with everything else as it was.
LEMMA RaiseStep ==
  ASSUME IInv, Raise, UNCHANGED <<plan, deviceVars, historyVars>>
  PROVE  IInv'
<1>1. TypeOK'
  BY DEF IInv, TypeOK, Raise, deviceVars, historyVars
<1>2. pc' = "done" /\ result' = "raised"
  BY DEF Raise
<1>3. Accepted' /\ RecordNeverRejected' /\ WriteTruth'
  BY <1>2 DEF Accepted, RecordNeverRejected, WriteTruth
<1>4. KnownAt(pc, stages)' /\ LeftAt(pc, sent)' /\ Open'
  BY <1>2 DEF KnownAt, LeftAt, Open
<1>5. SecondWriteJustified'
  BY DEF IInv, SecondWriteJustified, Raise, historyVars
<1> QED
  BY <1>1, <1>3, <1>4, <1>5 DEF IInv

\* What is known of the frozen basis, and of every stage still to come.
LEMMA BasisFacts ==
  ASSUME NEW s, BasisKnown(s)
  PROVE  /\ s["preflight"].attempted /\ s["preflight"].succeeded = "true"
         /\ s["preflight"].observed = plan.previous
         /\ StageShape(s["preflight"])
  BY DEF BasisKnown, Attempted, Truth, StageShape

LEMMA RestFacts ==
  ASSUME NEW s, NEW names, OnlyAttempted(s, names)
  PROVE  \A name \in StageNames \ names :
            /\ s[name] = NotAttempted /\ ~s[name].attempted
            /\ s[name].succeeded = "none" /\ s[name].changed = "none"
            /\ StageShape(s[name])
  BY NotAttemptedFacts DEF OnlyAttempted

LEMMA CandidateFacts ==
  ASSUME NEW s, CandidateKnown(s)
  PROVE  /\ s["candidate"].attempted /\ s["candidate"].succeeded = "true"
         /\ StageShape(s["candidate"])
  BY DEF CandidateKnown, Attempted, Truth, StageShape

\* Nothing attempted yet but a preflight that failed.
LEMMA BlockedStep ==
  ASSUME IInv, pc \in {"verify", "preflight"}, Around, UNCHANGED sent,
         NEW outcome \in NoWriteOutcomes, Record(outcome, Blocked)
  PROVE  IInv'
<1>1. OnlyAttempted(stages, {}) /\ sent = {} /\ TypeOK
  BY DEF IInv, KnownAt, LeftAt
<1>2. Blocked["preflight"] = Attempted(FALSE, "none", None)
  BY <1>1 DEF Blocked, TypeOK, StageNames
<1>3. \A name \in StageNames \ {"preflight"} : Blocked[name] = NotAttempted
  BY <1>1 DEF Blocked, TypeOK, OnlyAttempted
<1>4. Blocked \in [StageNames -> Stage]
  BY <1>1, AttemptedType, ConstantsAssumption DEF Blocked, TypeOK, Tri
<1>5. ConsistentOutcome(plan, outcome, Blocked)
  <2>1. StageShape(Blocked["preflight"]) /\ StageShape(NotAttempted)
    BY <1>2 DEF StageShape, NotAttempted, Attempted, Truth
  <2>2. \A name \in StageNames : StageShape(Blocked[name])
    BY <1>3, <2>1
  <2>3. /\ Blocked["preflight"].attempted
        /\ Blocked["preflight"].succeeded # "true"
    BY <1>2 DEF Attempted, Truth
  <2>4. /\ ~Blocked["execution"].attempted /\ ~Blocked["post"].attempted
        /\ Blocked["post"].changed = "none"
        /\ Blocked["post"].succeeded = "none"
    BY <1>3 DEF NotAttempted, StageNames
  <2>5. ASSUME NEW junos \in BOOLEAN
        PROVE  /\ RecoveryFacts(junos, plan.previous, outcome, Blocked)
               /\ JunosFacts(outcome, Blocked)
               /\ OutcomeFacts(junos, outcome, Blocked)
    BY <1>2, <1>3
    DEF RecoveryFacts, JunosFacts, OutcomeFacts, NotAttempted, Attempted, Truth,
        StageNames, FinalOutcome, NoWriteOutcomes, RecoveryOutcomes,
        ConfirmationOutcomes
  <2> QED
    BY <1>3, <2>2, <2>3, <2>4, <2>5
    DEF StageNames, ConsistentOutcome, ObservationFacts
<1>6. outcome \in FinalOutcome /\ SecondWriteJustified'
  BY <1>1 DEF FinalOutcome, SecondWriteJustified
<1>7. Blocked["execution"].attempted = FALSE /\ Blocked["execution"].succeeded = "none"
  BY <1>3 DEF NotAttempted, StageNames
<1> QED
  BY <1>1, <1>4, <1>5, <1>6, <1>7, RecordStep

LEMMA VerifyApprovalIInv ==
  ASSUME IInv, VerifyApproval
  PROVE  IInv'
<1>1. pc = "verify" /\ UNCHANGED <<plan, deviceVars, historyVars>> /\ TypeOK
  BY DEF VerifyApproval, IInv
<1>2. Around /\ UNCHANGED sent
  BY <1>1 DEF TypeOK, Around, deviceVars, historyVars
<1>3. CASE Raise
  BY <1>1, <1>3, RaiseStep
<1>4. CASE Record("BLOCKED", Blocked)
  BY <1>1, <1>2, <1>4, BlockedStep DEF NoWriteOutcomes
<1>5. CASE Continue("preflight", stages)
  <2>1. KnownAt("preflight", stages) /\ LeftAt("preflight", sent')
    BY <1>1, <1>2 DEF IInv, KnownAt, LeftAt
  <2>2. SecondWriteJustified'
    BY <1>2, <1>5 DEF IInv, SecondWriteJustified, Continue
  <2> QED
    BY <1>1, <1>2, <1>5, <2>1, <2>2, ContinueStep DEF TypeOK
<1> QED
  BY <1>3, <1>4, <1>5 DEF VerifyApproval

LEMMA PreflightIInv ==
  ASSUME IInv, Preflight
  PROVE  IInv'
<1>1. pc = "preflight" /\ UNCHANGED <<plan, deviceVars>> /\ TypeOK
  BY DEF Preflight, IInv
<1>2. sent = {} /\ OnlyAttempted(stages, {})
  BY <1>1 DEF IInv, KnownAt, LeftAt
<1>3. ASSUME NEW outcome \in NoWriteOutcomes,
             Record(outcome, Blocked), UNCHANGED historyVars
      PROVE  IInv'
  <2>1. Around /\ UNCHANGED sent
    BY <1>1, <1>3 DEF TypeOK, Around, deviceVars, historyVars
  <2> QED
    BY <1>1, <1>3, <2>1, BlockedStep
<1>4. ASSUME NEW read \in Reads, Reading,
             ~(read.identity /\ read.description = plan.previous),
             Record("STALE_PLAN", Blocked)
      PROVE  IInv'
  <2>1. Around /\ UNCHANGED sent
    BY <1>1, <1>4 DEF TypeOK, Around, deviceVars, Reading
  <2> QED
    BY <1>1, <1>4, <2>1, BlockedStep DEF NoWriteOutcomes
<1>5. ASSUME NEW read \in Reads, Reading, read.description = plan.previous,
             Continue(IF Junos THEN "enter" ELSE "execute",
                [stages EXCEPT !.preflight =
                    Attempted(TRUE, "none", read.description)])
      PROVE  IInv'
  <2> DEFINE at == IF Junos THEN "enter" ELSE "execute"
             s == [stages EXCEPT !.preflight =
                    Attempted(TRUE, "none", plan.previous)]
  <2>1. Around /\ UNCHANGED sent
    BY <1>1, <1>5 DEF TypeOK, Around, deviceVars, Reading
  <2>2. plan.previous \in Descriptions
    BY <1>1 DEF TypeOK, Plans
  <2>3. s \in [StageNames -> Stage] /\ BasisKnown(s)
    BY <1>1, <2>2, AttemptedType DEF TypeOK, Tri, BasisKnown, StageNames
  <2>4. OnlyAttempted(s, {"preflight"})
    BY <1>1, <1>2 DEF TypeOK, OnlyAttempted
  <2>5. KnownAt(at, s) /\ LeftAt(at, sent') /\ Continue(at, s)
    BY <1>2, <1>5, <2>1, <2>3, <2>4 DEF KnownAt, LeftAt
  <2>6. SecondWriteJustified'
    BY <1>2, <2>1 DEF SecondWriteJustified
  <2> QED
    BY <1>1, <1>2, <2>1, <2>3, <2>5, <2>6, ContinueStep
<1> QED
  BY <1>3, <1>4, <1>5 DEF Preflight

-----------------------------------------------------------------------------
\* A request that leaves or not, and a device that takes it or not.
LEMMA SendType ==
  ASSUME TypeOK, NEW request \in {"forward", "inverse"},
         NEW description \in Descriptions, NEW next,
         Send(request, description, next), UNCHANGED plan
  PROVE  /\ Around /\ Continue(next, stages)
         /\ sent' \in {sent, sent \cup {request}}
         /\ sent' \subseteq {"forward", "inverse", "confirm"}
<1>1. running' \in Descriptions
  BY DEF Send, TypeOK
<1>2. /\ UNCHANGED <<pending, locked, edits, quiet>>
      /\ sent' \in {sent, sent \cup {request}} /\ Continue(next, stages)
  BY DEF Send
<1> QED
  BY <1>1, <1>2 DEF TypeOK, Around

LEMMA ExecuteIInv ==
  ASSUME IInv, Execute
  PROVE  IInv'
<1>1. pc = "execute" /\ UNCHANGED plan /\ TypeOK
  BY DEF Execute, IInv
<1>2. CASE Raise /\ UNCHANGED <<deviceVars, historyVars>>
  BY <1>1, <1>2, RaiseStep
<1>3. CASE Send("forward", Desired, "executed")
  <2>1. /\ Around /\ Continue("executed", stages)
        /\ sent' \in {sent, sent \cup {"forward"}}
        /\ sent' \subseteq {"forward", "inverse", "confirm"}
    BY <1>1, <1>3, SendType, ConstantsAssumption
  <2>2. sent = {} /\ KnownAt("executed", stages)
    BY <1>1 DEF IInv, KnownAt, LeftAt
  <2>3. LeftAt("executed", sent') /\ SecondWriteJustified'
    BY <2>1, <2>2 DEF LeftAt, SecondWriteJustified
  <2> QED
    BY <1>1, <2>1, <2>2, <2>3, ContinueStep DEF TypeOK
<1> QED
  BY <1>2, <1>3 DEF Execute

LEMMA ExecutedIInv ==
  ASSUME IInv, Executed
  PROVE  IInv'
<1> PICK disposition \in Dispositions, changed \in Tri :
      LET s == [stages EXCEPT !.execution =
                    Attempted(disposition = "SUCCEEDED", changed, None)]
      IN  /\ Report("forward", disposition, changed)
          /\ \/ disposition = "SUCCEEDED" /\ Continue("post", s)
             \/ disposition = "AMBIGUOUS" /\ Continue("reconcile", s)
             \/ disposition = "FAILED" /\ Record("EXECUTION_FAILED", s)
  BY DEF Executed
<1> DEFINE ok == disposition = "SUCCEEDED"
           s == [stages EXCEPT !.execution = Attempted(ok, changed, None)]
<1> ok \in BOOLEAN
  OBVIOUS
<1>1. /\ pc = "executed" /\ UNCHANGED <<plan, deviceVars, historyVars>>
      /\ ok => "forward" \in sent
  BY DEF Executed, Report
<1>2. /\ ~Junos /\ BasisKnown(stages) /\ OnlyAttempted(stages, {"preflight"})
      /\ sent \subseteq {"forward"} /\ TypeOK
  BY <1>1 DEF IInv, KnownAt, LeftAt
<1>3. /\ s \in [StageNames -> Stage]
      /\ s["execution"] = Attempted(ok, changed, None)
      /\ \A name \in StageNames \ {"execution"} : s[name] = stages[name]
  BY <1>2, AttemptedType, ConstantsAssumption DEF TypeOK, StageNames
<1>4. /\ Around /\ UNCHANGED sent /\ SecondWriteJustified'
      /\ s["execution"].attempted /\ s["execution"].succeeded = Truth(ok)
      /\ BasisKnown(s) /\ OnlyAttempted(s, {"preflight", "execution"})
  <2>1. Around /\ UNCHANGED sent
    BY <1>1, <1>2 DEF TypeOK, Around, deviceVars, historyVars
  <2>2. s["execution"].attempted /\ s["execution"].succeeded = Truth(ok)
    BY <1>3 DEF Attempted
  <2>3. BasisKnown(s) /\ OnlyAttempted(s, {"preflight", "execution"})
    BY <1>2, <1>3 DEF BasisKnown, OnlyAttempted, StageNames
  <2> QED
    BY <1>2, <2>1, <2>2, <2>3 DEF SecondWriteJustified
<1>5. CASE disposition = "SUCCEEDED"
  <2>1. Continue("post", s)
    BY <1>5
  <2>2. KnownAt("post", s) /\ LeftAt("post", sent)
    BY <1>1, <1>2, <1>4, <1>5 DEF KnownAt, LeftAt, WriteKnown, Truth
  <2> QED
    BY <1>1, <1>2, <1>3, <1>4, <2>1, <2>2, ContinueStep
<1>6. CASE disposition = "AMBIGUOUS"
  <2>1. Continue("reconcile", s)
    BY <1>6
  <2>2. KnownAt("reconcile", s) /\ LeftAt("reconcile", sent)
    BY <1>1, <1>2, <1>4, <1>6 DEF KnownAt, LeftAt, Truth
  <2> QED
    BY <1>1, <1>2, <1>3, <1>4, <2>1, <2>2, ContinueStep
<1>7. CASE disposition = "FAILED"
  <2>1. Record("EXECUTION_FAILED", s)
    BY <1>7
  <2>2. ConsistentOutcome(plan, "EXECUTION_FAILED", s)
    BY <1>2, <1>3, <1>4, <1>7
    DEF ConsistentOutcome, StageShape, ObservationFacts, RecoveryFacts,
        JunosFacts, OutcomeFacts, RecoveryOutcomes, ConfirmationOutcomes,
        NoWriteOutcomes, FinalOutcome, BasisKnown, OnlyAttempted, NotAttempted, Attempted,
        Truth, Junos, StageNames
  <2>3. s["execution"].succeeded = "false"
    BY <1>4, <1>7 DEF Truth
  <2>4. /\ "EXECUTION_FAILED" \in FinalOutcome
        /\ "inverse" \notin sent
    BY <1>2 DEF FinalOutcome
  <2> QED
    BY <1>3, <1>4, <2>1, <2>2, <2>3, <2>4, RecordStep
<1> QED
  BY <1>5, <1>6, <1>7 DEF Dispositions

LEMMA ReconcileIInv ==
  ASSUME IInv, Reconcile
  PROVE  IInv'
<1>1. pc = "reconcile" /\ UNCHANGED <<plan, deviceVars>> /\ TypeOK
  BY DEF Reconcile, IInv
<1>2. /\ ~Junos /\ BasisKnown(stages) /\ sent \subseteq {"forward"}
      /\ OnlyAttempted(stages, {"preflight", "execution"})
      /\ stages["execution"].attempted /\ stages["execution"].succeeded = "false"
  BY <1>1 DEF IInv, KnownAt, LeftAt
<1>3. ASSUME Around, UNCHANGED sent, NEW succeeded \in BOOLEAN,
             NEW observed \in Descriptions, NEW changed \in Tri,
             changed \in {"none", Truth(observed # plan.previous)},
             Record("AMBIGUOUS", [stages EXCEPT !.post =
                        Attempted(succeeded, changed, observed)])
      PROVE  IInv'
  <2> DEFINE s == [stages EXCEPT !.post = Attempted(succeeded, changed, observed)]
  <2>1. s \in [StageNames -> Stage]
    BY <1>1, AttemptedType DEF TypeOK
  <2>2. /\ s["post"] = Attempted(succeeded, changed, observed)
        /\ \A name \in StageNames \ {"post"} : s[name] = stages[name]
    BY <1>1 DEF TypeOK, StageNames
  <2>3. BasisKnown(s) /\ OnlyAttempted(s, {"preflight", "execution", "post"})
    BY <1>2, <2>2 DEF BasisKnown, OnlyAttempted, StageNames
  <2>4. /\ s["execution"].attempted /\ s["execution"].succeeded = "false"
        /\ StageShape(s["execution"])
    BY <1>2, <2>2 DEF StageNames, StageShape
  <2>5. /\ s["post"].attempted /\ s["post"].succeeded \in {"true", "false"}
        /\ s["post"].changed = changed /\ s["post"].observed = observed
        /\ StageShape(s["post"])
    BY <2>2 DEF Attempted, Truth, StageShape
  <2>6. ConsistentOutcome(plan, "AMBIGUOUS", s)
    BY <1>2, <1>3, <2>3, <2>4, <2>5, BasisFacts, RestFacts
    DEF ConsistentOutcome, ObservationFacts, RecoveryFacts, OutcomeFacts,
        RecoveryOutcomes, NoWriteOutcomes, FinalOutcome, ConfirmationOutcomes,
        StageNames, Junos
  <2>7. /\ s["execution"].attempted /\ s["execution"].succeeded = "false"
        /\ "inverse" \notin sent /\ SecondWriteJustified'
    BY <1>2, <1>3, <2>2 DEF StageNames, SecondWriteJustified
  <2> QED
    BY <1>3, <2>1, <2>6, <2>7, RecordStep DEF FinalOutcome
<1>4. CASE /\ Record("AMBIGUOUS", [stages EXCEPT !.post =
                        Attempted(FALSE, "none", None)])
           /\ UNCHANGED historyVars
  <2>1. Around /\ UNCHANGED sent
    BY <1>1, <1>4 DEF TypeOK, Around, deviceVars, historyVars
  <2> QED
    BY <1>3, <1>4, <2>1, ConstantsAssumption DEF Tri
<1>5. CASE /\ \E read \in Reads :
                Record("AMBIGUOUS", [stages EXCEPT !.post =
                    Attempted(TRUE, ObservedTransition(read), read.description)])
           /\ Reading
  <2>1. Around /\ UNCHANGED sent
    BY <1>1, <1>5 DEF TypeOK, Around, deviceVars, Reading
  <2>2. PICK read \in Reads :
                Record("AMBIGUOUS", [stages EXCEPT !.post =
                    Attempted(TRUE, ObservedTransition(read), read.description)])
    BY <1>5
  <2>3. /\ read.description \in Descriptions /\ ObservedTransition(read) \in Tri
        /\ ObservedTransition(read) \in
               {"none", Truth(read.description # plan.previous)}
    BY <1>1, ReadsType DEF ObservedTransition
  <2> QED
    BY <1>3, <2>1, <2>2, <2>3
<1> QED
  BY <1>4, <1>5 DEF Reconcile

LEMMA CiscoPostIInv ==
  ASSUME IInv, CiscoPost
  PROVE  IInv'
<1>1. pc = "post" /\ UNCHANGED <<plan, deviceVars>> /\ TypeOK
  BY DEF CiscoPost, IInv
<1>2. /\ ~Junos /\ BasisKnown(stages) /\ sent = {"forward"} /\ WriteKnown(stages)
      /\ OnlyAttempted(stages, {"preflight", "execution"})
  BY <1>1 DEF CiscoPost, IInv, KnownAt, LeftAt
<1> DEFINE Post(succeeded, changed, observed) ==
             [stages EXCEPT !.post = Attempted(succeeded, changed, observed)]
<1>3. ASSUME Around, UNCHANGED sent, NEW succeeded \in BOOLEAN,
             NEW observed \in Descriptions, NEW changed \in Tri,
             changed \in {"none", Truth(observed # plan.previous)},
             succeeded => observed = Desired
      PROVE  /\ Post(succeeded, changed, observed) \in [StageNames -> Stage]
             /\ Record(IF succeeded THEN "SUCCEEDED" ELSE "POST_VALIDATION_FAILED",
                       Post(succeeded, changed, observed)) => IInv'
  <2> DEFINE s == Post(succeeded, changed, observed)
  <2>1. s \in [StageNames -> Stage]
    BY <1>1, AttemptedType DEF TypeOK
  <2>2. /\ s["post"] = Attempted(succeeded, changed, observed)
        /\ \A name \in StageNames \ {"post"} : s[name] = stages[name]
    BY <1>1 DEF TypeOK, StageNames
  <2>3. BasisKnown(s) /\ OnlyAttempted(s, {"preflight", "execution", "post"})
    BY <1>2, <2>2 DEF BasisKnown, OnlyAttempted, StageNames
  <2>4. /\ s["execution"].attempted /\ s["execution"].succeeded = "true"
        /\ StageShape(s["execution"])
    BY <1>2, <2>2 DEF StageNames, StageShape, WriteKnown
  <2>5. CASE succeeded
    <3>1. /\ s["post"].attempted /\ s["post"].succeeded = "true"
          /\ s["post"].changed = changed /\ s["post"].observed = observed
          /\ StageShape(s["post"]) /\ observed = Desired
      BY <1>3, <2>2, <2>5 DEF Attempted, Truth, StageShape
    <3>2. ConsistentOutcome(plan, "SUCCEEDED", s)
      BY <1>2, <1>3, <2>3, <2>4, <3>1, BasisFacts, RestFacts
    DEF ConsistentOutcome, ObservationFacts, RecoveryFacts, OutcomeFacts,
        RecoveryOutcomes, NoWriteOutcomes, FinalOutcome, ConfirmationOutcomes,
        StageNames, Junos
    <3>3. /\ s["execution"].attempted /\ "inverse" \notin sent
          /\ "forward" \in sent /\ SecondWriteJustified'
      BY <1>2, <1>3, <2>2 DEF StageNames, SecondWriteJustified, WriteKnown
    <3> QED
      BY <1>3, <2>1, <2>5, <3>2, <3>3, RecordStep DEF FinalOutcome, ConfirmationOutcomes
  <2>6. CASE ~succeeded
    <3>1. /\ s["post"].attempted /\ s["post"].succeeded = "false"
          /\ s["post"].changed = changed /\ s["post"].observed = observed
          /\ StageShape(s["post"])
      BY <2>2, <2>6 DEF Attempted, Truth, StageShape
    <3>2. ConsistentOutcome(plan, "POST_VALIDATION_FAILED", s)
      BY <1>2, <1>3, <2>3, <2>4, <3>1, BasisFacts, RestFacts
    DEF ConsistentOutcome, ObservationFacts, RecoveryFacts, OutcomeFacts,
        RecoveryOutcomes, NoWriteOutcomes, FinalOutcome, ConfirmationOutcomes,
        StageNames, Junos
    <3>3. /\ s["execution"].attempted /\ "inverse" \notin sent
          /\ "forward" \in sent /\ SecondWriteJustified'
      BY <1>2, <1>3, <2>2 DEF StageNames, SecondWriteJustified, WriteKnown
    <3> QED
      BY <1>3, <2>1, <2>6, <3>2, <3>3, RecordStep DEF FinalOutcome
  <2> QED
    BY <2>5, <2>6
<1>4. CASE /\ Record("POST_VALIDATION_FAILED",
                [stages EXCEPT !.post = Attempted(FALSE, "none", None)])
           /\ UNCHANGED historyVars
  <2>1. Around /\ UNCHANGED sent
    BY <1>1, <1>4 DEF TypeOK, Around, deviceVars, historyVars
  <2> QED
    BY <1>3, <1>4, <2>1, ConstantsAssumption DEF Tri
<1>5. ASSUME Reading, NEW read \in Reads, NEW desired \in BOOLEAN,
             desired <=> read.identity /\ read.description = Desired,
             LET s == Post(desired, ObservedTransition(read), read.description)
             IN  \/ desired /\ Record("SUCCEEDED", s)
                 \/ ~read.identity /\ Record("POST_VALIDATION_FAILED", s)
                 \/ read.identity /\ ~desired /\ Continue("recover", s)
      PROVE  IInv'
  <2> DEFINE s == Post(desired, ObservedTransition(read), read.description)
  <2>1. Around /\ UNCHANGED sent
    BY <1>1, <1>5 DEF TypeOK, Around, deviceVars, Reading
  <2>2. /\ read.description \in Descriptions /\ ObservedTransition(read) \in Tri
        /\ ObservedTransition(read) \in
               {"none", Truth(read.description # plan.previous)}
        /\ read.identity => ObservedTransition(read) =
               Truth(read.description # plan.previous)
    BY <1>1, ReadsType DEF ObservedTransition
  <2>3. s \in [StageNames -> Stage]
    BY <1>3, <1>5, <2>1, <2>2
  <2>4. CASE desired /\ Record("SUCCEEDED", s)
    BY <1>3, <1>5, <2>1, <2>2, <2>4
  <2>5. CASE ~read.identity /\ Record("POST_VALIDATION_FAILED", s)
    BY <1>3, <1>5, <2>1, <2>2, <2>5
  <2>6. CASE read.identity /\ ~desired /\ Continue("recover", s)
    <3>1. /\ s["post"] = Attempted(FALSE, ObservedTransition(read), read.description)
          /\ \A name \in StageNames \ {"post"} : s[name] = stages[name]
      BY <1>1, <2>6 DEF TypeOK, StageNames
    <3>2. PostMissed(s)
      <4>1. /\ s["post"].attempted /\ s["post"].succeeded = "false"
            /\ s["post"].changed = ObservedTransition(read)
            /\ s["post"].observed = read.description
        BY <3>1 DEF Attempted, Truth
      <4>2. read.description # Desired
        BY <1>5, <2>6
      <4> QED
        BY <2>2, <2>6, <4>1, <4>2 DEF PostMissed
    <3>3. /\ BasisKnown(s) /\ WriteKnown(s)
          /\ OnlyAttempted(s, {"preflight", "execution", "post"})
      BY <1>2, <3>1 DEF BasisKnown, WriteKnown, OnlyAttempted, StageNames
    <3>4. KnownAt("recover", s) /\ LeftAt("recover", sent')
      BY <1>2, <2>1, <3>2, <3>3 DEF KnownAt, LeftAt
    <3>5. SecondWriteJustified' /\ sent' \subseteq {"forward", "inverse", "confirm"}
      BY <1>2, <2>1 DEF SecondWriteJustified
    <3> QED
      BY <1>1, <2>1, <2>3, <2>6, <3>4, <3>5, ContinueStep
  <2> QED
    BY <1>5, <2>4, <2>5, <2>6
<1>6. CASE /\ \E read \in Reads :
                LET desired == read.identity /\ read.description = Desired
                    s == Post(desired, ObservedTransition(read), read.description)
                IN  \/ desired /\ Record("SUCCEEDED", s)
                    \/ ~read.identity /\ Record("POST_VALIDATION_FAILED", s)
                    \/ read.identity /\ ~desired /\ Continue("recover", s)
           /\ Reading
  <2>1. PICK read \in Reads :
                LET desired == read.identity /\ read.description = Desired
                    s == Post(desired, ObservedTransition(read), read.description)
                IN  \/ desired /\ Record("SUCCEEDED", s)
                    \/ ~read.identity /\ Record("POST_VALIDATION_FAILED", s)
                    \/ read.identity /\ ~desired /\ Continue("recover", s)
    BY <1>6
  <2> QED
    BY <1>5, <1>6, <2>1
<1> QED
  BY <1>4, <1>6 DEF CiscoPost

LEMMA RecoverIInv ==
  ASSUME IInv, Recover
  PROVE  IInv'
<1>1. pc = "recover" /\ UNCHANGED plan /\ TypeOK
  BY DEF Recover, IInv
<1>2. CASE Raise /\ UNCHANGED <<deviceVars, historyVars>>
  BY <1>1, <1>2, RaiseStep
<1>3. CASE Send("inverse", plan.previous, "recovered")
  <2>1. plan.previous \in Descriptions
    BY <1>1 DEF TypeOK, Plans
  <2>2. /\ Around /\ Continue("recovered", stages)
        /\ sent' \in {sent, sent \cup {"inverse"}}
        /\ sent' \subseteq {"forward", "inverse", "confirm"}
    BY <1>1, <1>3, <2>1, SendType
  <2>3. /\ sent = {"forward"} /\ KnownAt("recovered", stages)
        /\ WriteKnown(stages) /\ PostMissed(stages)
    BY <1>1 DEF IInv, KnownAt, LeftAt
  <2>4. stages["post"].changed # "none"
    BY <2>3 DEF PostMissed, Truth
  <2>5. LeftAt("recovered", sent') /\ SecondWriteJustified'
    BY <2>2, <2>3, <2>4
    DEF LeftAt, SecondWriteJustified, Continue, WriteKnown, PostMissed
  <2> QED
    BY <1>1, <2>2, <2>3, <2>5, ContinueStep DEF TypeOK
<1> QED
  BY <1>2, <1>3 DEF Recover

\* A record of a recovery: what it may say of the inverse and of its check.
LEMMA RecoveryRecord ==
  ASSUME TypeOK, ~Junos, BasisKnown(stages), WriteKnown(stages),
         PostMissed(stages), NEW succeeded \in {"true", "false"},
         NEW recovery \in Stage, recovery.attempted,
         recovery.succeeded = succeeded,
         OnlyAttempted(stages, {"preflight", "execution", "post", "recovery"}),
         NEW outcome \in RecoveryOutcomes,
         outcome = "RECOVERED" =>
             succeeded = "true" /\ recovery.observed = plan.previous,
         outcome = "RECOVERY_AMBIGUOUS" => succeeded = "false"
  PROVE  LET s == [stages EXCEPT !.recovery = recovery] IN
         /\ s \in [StageNames -> Stage]
         /\ ConsistentOutcome(plan, outcome, s)
         /\ s["execution"] = stages["execution"] /\ s["post"] = stages["post"]
<1> DEFINE s == [stages EXCEPT !.recovery = recovery]
<1>1. s \in [StageNames -> Stage]
  BY DEF TypeOK
<1>2. /\ s["recovery"] = recovery
      /\ \A name \in StageNames \ {"recovery"} : s[name] = stages[name]
  BY DEF TypeOK, StageNames
<1>3. /\ BasisKnown(s)
      /\ OnlyAttempted(s, {"preflight", "execution", "post", "recovery"})
  BY <1>2 DEF BasisKnown, OnlyAttempted, StageNames
<1>4. /\ s["execution"] = stages["execution"] /\ s["post"] = stages["post"]
      /\ s["execution"].attempted /\ s["execution"].succeeded = "true"
      /\ StageShape(s["execution"])
      /\ s["post"].attempted /\ s["post"].succeeded = "false"
      /\ s["post"].changed = Truth(s["post"].observed # plan.previous)
      /\ s["post"].observed # Desired /\ StageShape(s["post"])
  BY <1>2 DEF WriteKnown, PostMissed, StageShape, StageNames
<1>5. /\ s["recovery"].attempted /\ s["recovery"].succeeded = succeeded
      /\ s["recovery"].observed = recovery.observed
      /\ StageShape(s["recovery"])
  BY <1>2 DEF StageShape
<1>6. ConsistentOutcome(plan, outcome, s)
  BY <1>3, <1>4, <1>5, BasisFacts, RestFacts
  DEF ConsistentOutcome, ObservationFacts, RecoveryFacts, OutcomeFacts,
      RecoveryOutcomes, NoWriteOutcomes, FinalOutcome, ConfirmationOutcomes,
      StageNames, Junos
<1> QED
  BY <1>1, <1>4, <1>6

LEMMA RecoveredIInv ==
  ASSUME IInv, Recovered
  PROVE  IInv'
<1>1. pc = "recovered" /\ UNCHANGED <<plan, deviceVars, historyVars>> /\ TypeOK
  BY DEF Recovered, IInv
<1>2. /\ ~Junos /\ BasisKnown(stages) /\ WriteKnown(stages) /\ PostMissed(stages)
      /\ OnlyAttempted(stages, {"preflight", "execution", "post"})
      /\ "forward" \in sent /\ "confirm" \notin sent /\ SecondWriteJustified
  BY <1>1 DEF IInv, KnownAt, LeftAt
<1>3. Around /\ UNCHANGED sent
  BY <1>1 DEF TypeOK, Around, deviceVars, historyVars
<1> DEFINE S(succeeded, changed) ==
      [stages EXCEPT !.recovery = Attempted(succeeded, changed, None)]
<1>4. ASSUME NEW changed \in Tri, Continue("restore", S(TRUE, changed))
      PROVE  IInv'
  <2> DEFINE s == S(TRUE, changed)
  <2>1. s \in [StageNames -> Stage]
    BY <1>1, AttemptedType, ConstantsAssumption DEF TypeOK
  <2>2. /\ s["recovery"] = Attempted(TRUE, changed, None)
        /\ \A name \in StageNames \ {"recovery"} : s[name] = stages[name]
    BY <1>1 DEF TypeOK, StageNames
  <2>3. /\ BasisKnown(s) /\ WriteKnown(s) /\ PostMissed(s)
        /\ OnlyAttempted(s, {"preflight", "execution", "post", "recovery"})
    BY <1>2, <2>2
    DEF BasisKnown, WriteKnown, PostMissed, OnlyAttempted, StageNames
  <2>4. KnownAt("restore", s) /\ LeftAt("restore", sent')
    BY <1>2, <1>3, <2>2, <2>3 DEF KnownAt, LeftAt
  <2>5. SecondWriteJustified'
    <3>1. /\ stages'["execution"] = stages["execution"]
          /\ stages'["post"] = stages["post"]
      BY <1>4, <2>2 DEF Continue, StageNames
    <3> QED
      BY <1>2, <1>3, <3>1 DEF SecondWriteJustified
  <2> QED
    BY <1>1, <1>3, <1>4, <2>1, <2>4, <2>5, ContinueStep DEF TypeOK
<1>5. ASSUME NEW changed \in Tri,
             NEW outcome \in {"RECOVERY_AMBIGUOUS", "RECOVERY_FAILED"},
             Record(outcome, S(FALSE, changed))
      PROVE  IInv'
  <2> DEFINE recovery == Attempted(FALSE, changed, None)
             s == S(FALSE, changed)
  <2>1. /\ recovery \in Stage /\ recovery.attempted
        /\ recovery.succeeded = "false"
    BY ConstantsAssumption DEF Attempted, Stage, Truth, Tri
  <2>2. OnlyAttempted(stages, {"preflight", "execution", "post", "recovery"})
    BY <1>2 DEF OnlyAttempted
  <2>3. outcome \in RecoveryOutcomes /\ outcome # "RECOVERED"
    BY DEF RecoveryOutcomes
  <2>4. /\ s \in [StageNames -> Stage] /\ ConsistentOutcome(plan, outcome, s)
        /\ s["execution"] = stages["execution"] /\ s["post"] = stages["post"]
    BY <1>1, <1>2, <2>1, <2>2, <2>3, RecoveryRecord
  <2>5. SecondWriteJustified' /\ s["execution"].attempted
    BY <1>2, <1>3, <1>5, <2>4 DEF SecondWriteJustified, Record, WriteKnown
  <2>6. outcome \in FinalOutcome
    BY <2>3 DEF FinalOutcome
  <2> QED
    BY <1>2, <1>3, <1>5, <2>3, <2>4, <2>5, <2>6, RecordStep
<1>6. PICK disposition \in Dispositions, changed \in Tri :
        LET s == S(disposition = "SUCCEEDED", changed)
        IN  \/ disposition = "SUCCEEDED" /\ Continue("restore", s)
            \/ disposition = "AMBIGUOUS" /\ Record("RECOVERY_AMBIGUOUS", s)
            \/ disposition = "FAILED" /\ Record("RECOVERY_FAILED", s)
  BY DEF Recovered
<1> QED
  BY <1>4, <1>5, <1>6

LEMMA RestoreIInv ==
  ASSUME IInv, Restore
  PROVE  IInv'
<1>1. pc = "restore" /\ UNCHANGED <<plan, deviceVars>> /\ TypeOK
  BY DEF Restore, IInv
<1>2. /\ ~Junos /\ BasisKnown(stages) /\ WriteKnown(stages) /\ PostMissed(stages)
      /\ stages["recovery"] \in {Attempted(TRUE, changed, None) : changed \in Tri}
      /\ OnlyAttempted(stages, {"preflight", "execution", "post", "recovery"})
      /\ "forward" \in sent /\ "confirm" \notin sent /\ SecondWriteJustified
  BY <1>1 DEF IInv, KnownAt, LeftAt
<1>3. ASSUME Around, UNCHANGED sent, NEW succeeded \in {"true", "false"},
             NEW recovery \in Stage, recovery.attempted,
             recovery.succeeded = succeeded,
             NEW outcome \in {"RECOVERED", "RECOVERY_FAILED"},
             outcome = "RECOVERED" =>
                 succeeded = "true" /\ recovery.observed = plan.previous,
             Record(outcome, [stages EXCEPT !.recovery = recovery])
      PROVE  IInv'
  <2> DEFINE s == [stages EXCEPT !.recovery = recovery]
  <2>1. outcome \in RecoveryOutcomes /\ outcome # "RECOVERY_AMBIGUOUS"
    BY DEF RecoveryOutcomes
  <2>2. /\ s \in [StageNames -> Stage] /\ ConsistentOutcome(plan, outcome, s)
        /\ s["execution"] = stages["execution"] /\ s["post"] = stages["post"]
    BY <1>1, <1>2, <1>3, <2>1, RecoveryRecord
  <2>3. SecondWriteJustified' /\ s["execution"].attempted
    BY <1>2, <1>3, <2>2 DEF SecondWriteJustified, Record, WriteKnown
  <2>4. outcome \in FinalOutcome
    BY <2>1 DEF FinalOutcome
  <2> QED
    BY <1>2, <1>3, <2>1, <2>2, <2>3, <2>4, RecordStep
<1>4. CASE Record("RECOVERY_FAILED", stages) /\ UNCHANGED historyVars
  <2>1. Around /\ UNCHANGED sent
    BY <1>1, <1>4 DEF TypeOK, Around, deviceVars, historyVars
  <2>2. /\ stages["recovery"] \in Stage /\ stages["recovery"].attempted
        /\ stages["recovery"].succeeded = "true"
    BY <1>1, <1>2 DEF TypeOK, StageNames, Attempted, Truth
  <2>3. [stages EXCEPT !.recovery = stages["recovery"]] = stages
    BY <1>1 DEF TypeOK, StageNames
  <2>4. Record("RECOVERY_FAILED", [stages EXCEPT !.recovery = stages["recovery"]])
    BY <1>4, <2>3
  <2> QED
    BY <1>3, <2>1, <2>2, <2>4
<1>5. ASSUME Reading, NEW read \in Reads, NEW restored \in BOOLEAN,
             restored <=> read.identity /\ read.description = plan.previous,
             Record(IF restored THEN "RECOVERED" ELSE "RECOVERY_FAILED",
                    [stages EXCEPT !.recovery =
                        Attempted(restored, @.changed, read.description)])
      PROVE  IInv'
  <2>1. Around /\ UNCHANGED sent
    BY <1>1, <1>5 DEF TypeOK, Around, deviceVars, Reading
  <2>2. PICK changed \in Tri : stages["recovery"] = Attempted(TRUE, changed, None)
    BY <1>2
  <2> DEFINE recovery == Attempted(restored, changed, read.description)
  <2>3. stages["recovery"].changed = changed
    BY <2>2 DEF Attempted
  <2>4. Record(IF restored THEN "RECOVERED" ELSE "RECOVERY_FAILED",
               [stages EXCEPT !.recovery = recovery])
    BY <1>5, <2>3
  <2>5. recovery \in Stage
    BY <1>1, <1>5, AttemptedType, ReadsType
  <2>6. /\ recovery.attempted /\ recovery.succeeded = Truth(restored)
        /\ recovery.observed = read.description
    BY DEF Attempted
  <2>7. CASE restored
    BY <1>3, <1>5, <2>1, <2>5, <2>6, <2>4, <2>7 DEF Truth
  <2>8. CASE ~restored
    BY <1>3, <1>5, <2>1, <2>5, <2>6, <2>4, <2>8 DEF Truth
  <2> QED
    BY <2>7, <2>8
<1>6. CASE /\ \E read \in Reads :
                LET restored == read.identity /\ read.description = plan.previous
                IN  Record(IF restored THEN "RECOVERED" ELSE "RECOVERY_FAILED",
                        [stages EXCEPT !.recovery =
                            Attempted(restored, @.changed, read.description)])
           /\ Reading
  BY <1>5, <1>6
<1> QED
  BY <1>4, <1>6 DEF Restore

-----------------------------------------------------------------------------
\* A candidate that was refused blocks the change before any active write.
LEMMA CandidateRefused ==
  ASSUME IInv, pc \in {"enter", "prepare"}, Around, UNCHANGED sent,
         Record("BLOCKED", [stages EXCEPT !.candidate =
                                Attempted(FALSE, "none", None)])
  PROVE  IInv'
<1> DEFINE s == [stages EXCEPT !.candidate = Attempted(FALSE, "none", None)]
<1>1. /\ TypeOK /\ Junos /\ BasisKnown(stages) /\ sent = {}
      /\ OnlyAttempted(stages, {"preflight"})
  BY DEF IInv, KnownAt, LeftAt
<1>2. s \in [StageNames -> Stage]
  BY <1>1, AttemptedType, ConstantsAssumption DEF TypeOK, Tri
<1>3. /\ s["candidate"] = Attempted(FALSE, "none", None)
      /\ \A name \in StageNames \ {"candidate"} : s[name] = stages[name]
  BY <1>1 DEF TypeOK, StageNames
<1>4. BasisKnown(s) /\ OnlyAttempted(s, {"preflight", "candidate"})
  BY <1>1, <1>3 DEF BasisKnown, OnlyAttempted, StageNames
<1>5. /\ s["candidate"].attempted /\ s["candidate"].succeeded = "false"
      /\ StageShape(s["candidate"])
  BY <1>3 DEF Attempted, Truth, StageShape
<1> HIDE DEF s
<1>6. ConsistentOutcome(plan, "BLOCKED", s)
  BY <1>1, <1>4, <1>5, BasisFacts, RestFacts
  DEF ConsistentOutcome, ObservationFacts, RecoveryFacts, JunosFacts,
      OutcomeFacts, RecoveryOutcomes, ConfirmationOutcomes, NoWriteOutcomes,
      FinalOutcome, StageNames, Junos
<1>7. s["execution"].succeeded # "true" /\ SecondWriteJustified'
  BY <1>1, <1>4, RestFacts DEF StageNames, SecondWriteJustified
<1> QED
  BY <1>1, <1>2, <1>6, <1>7, RecordStep DEF s, FinalOutcome, NoWriteOutcomes

LEMMA EnterIInv ==
  ASSUME IInv, Enter
  PROVE  IInv'
<1>1. /\ pc = "enter" /\ UNCHANGED <<plan, running, pending, historyVars>>
      /\ TypeOK
  BY DEF Enter, IInv
<1>2. CASE /\ Record("BLOCKED", [stages EXCEPT !.candidate =
                        Attempted(FALSE, "none", None)])
           /\ UNCHANGED locked
  <2>1. Around /\ UNCHANGED sent
    BY <1>1, <1>2 DEF TypeOK, Around, historyVars
  <2> QED
    BY <1>1, <1>2, <2>1, CandidateRefused
<1>3. CASE Continue("prepare", stages) /\ locked' = TRUE
  <2>1. Around /\ UNCHANGED sent
    BY <1>1, <1>3 DEF TypeOK, Around, historyVars
  <2>2. sent = {} /\ KnownAt("prepare", stages) /\ LeftAt("prepare", sent)
    BY <1>1 DEF IInv, KnownAt, LeftAt
  <2>3. SecondWriteJustified'
    BY <2>1, <2>2 DEF SecondWriteJustified
  <2> QED
    BY <1>1, <1>3, <2>1, <2>2, <2>3, ContinueStep DEF TypeOK
<1> QED
  BY <1>2, <1>3 DEF Enter

LEMMA PrepareIInv ==
  ASSUME IInv, Prepare
  PROVE  IInv'
<1>1. /\ pc = "prepare" /\ UNCHANGED <<plan, running, pending, historyVars>>
      /\ TypeOK
  BY DEF Prepare, IInv
<1>2. CASE /\ Record("BLOCKED", [stages EXCEPT !.candidate =
                        Attempted(FALSE, "none", None)])
           /\ locked' = FALSE
  <2>1. Around /\ UNCHANGED sent
    BY <1>1, <1>2 DEF TypeOK, Around, historyVars
  <2> QED
    BY <1>1, <1>2, <2>1, CandidateRefused
<1>3. CASE /\ Continue("commit", [stages EXCEPT !.candidate =
                                    Attempted(TRUE, "true", None)])
           /\ UNCHANGED locked
  <2> DEFINE s == [stages EXCEPT !.candidate = Attempted(TRUE, "true", None)]
  <2>1. Around /\ UNCHANGED sent
    BY <1>1, <1>3 DEF TypeOK, Around, historyVars
  <2>2. /\ Junos /\ BasisKnown(stages) /\ sent = {}
        /\ OnlyAttempted(stages, {"preflight"})
    BY <1>1 DEF IInv, KnownAt, LeftAt
  <2>3. s \in [StageNames -> Stage]
    BY <1>1, AttemptedType, ConstantsAssumption DEF TypeOK, Tri
  <2>4. /\ BasisKnown(s) /\ CandidateKnown(s)
        /\ OnlyAttempted(s, {"preflight", "candidate"})
    BY <1>1, <2>2
    DEF BasisKnown, CandidateKnown, OnlyAttempted, TypeOK, StageNames
  <2>5. KnownAt("commit", s) /\ LeftAt("commit", sent') /\ SecondWriteJustified'
    BY <2>1, <2>2, <2>4 DEF KnownAt, LeftAt, SecondWriteJustified
  <2> QED
    BY <1>1, <1>3, <2>1, <2>2, <2>3, <2>5, ContinueStep
<1> QED
  BY <1>2, <1>3 DEF Prepare

LEMMA CommitConfirmedIInv ==
  ASSUME IInv, CommitConfirmed
  PROVE  IInv'
<1>1. /\ pc = "commit" /\ UNCHANGED <<plan, locked, edits, quiet>>
      /\ Continue("close", stages) /\ TypeOK
  BY DEF CommitConfirmed, IInv
<1>2. sent = {} /\ KnownAt("close", stages)
  BY <1>1 DEF IInv, KnownAt, LeftAt
<1>3. /\ running' \in {running, Desired} /\ pending' \in {pending, running}
      /\ sent' \in {sent, sent \cup {"forward"}}
  BY DEF CommitConfirmed
<1>4. Around
  BY <1>1, <1>3, ConstantsAssumption DEF Around, TypeOK
<1>5. LeftAt("close", sent') /\ SecondWriteJustified'
  BY <1>2, <1>3 DEF LeftAt, SecondWriteJustified
<1> QED
  BY <1>1, <1>2, <1>3, <1>4, <1>5, ContinueStep DEF TypeOK

LEMMA CloseIInv ==
  ASSUME IInv, Close
  PROVE  IInv'
<1>1. /\ pc = "close" /\ locked' = FALSE /\ TypeOK
      /\ UNCHANGED <<plan, running, pending, historyVars>>
  BY DEF Close, IInv
<1>2. /\ Junos /\ BasisKnown(stages) /\ CandidateKnown(stages)
      /\ sent \subseteq {"forward"}
      /\ OnlyAttempted(stages, {"preflight", "candidate"})
  BY <1>1 DEF IInv, KnownAt, LeftAt
<1>3. Around /\ UNCHANGED sent /\ SecondWriteJustified'
  <2>1. Around /\ UNCHANGED sent
    BY <1>1 DEF TypeOK, Around, historyVars
  <2> QED
    BY <1>2, <2>1 DEF SecondWriteJustified
<1> DEFINE S(ok, changed) == [stages EXCEPT !.execution = Attempted(ok, changed, None)]
<1>4. ASSUME NEW ok \in BOOLEAN, NEW changed \in Tri
      PROVE  /\ S(ok, changed) \in [StageNames -> Stage]
             /\ S(ok, changed)["execution"] = Attempted(ok, changed, None)
             /\ BasisKnown(S(ok, changed)) /\ CandidateKnown(S(ok, changed))
             /\ OnlyAttempted(S(ok, changed),
                              {"preflight", "candidate", "execution"})
  <2>1. Attempted(ok, changed, None) \in Stage
    BY AttemptedType, ConstantsAssumption
  <2> QED
    BY <1>1, <1>2, <2>1
    DEF TypeOK, BasisKnown, CandidateKnown, OnlyAttempted, StageNames
<1>5. ASSUME NEW outcome \in {"AMBIGUOUS", "EXECUTION_FAILED"},
             Record(outcome, S(FALSE, "none"))
      PROVE  IInv'
  <2> DEFINE s == S(FALSE, "none")
  <2>1. s["execution"] = Attempted(FALSE, "none", None)
    BY <1>4 DEF Tri
  <2>2. /\ s \in [StageNames -> Stage] /\ BasisKnown(s)
        /\ CandidateKnown(s)
        /\ OnlyAttempted(s, {"preflight", "candidate", "execution"})
    BY <1>4 DEF Tri
  <2>3. /\ s["execution"].attempted /\ s["execution"].succeeded = "false"
        /\ StageShape(s["execution"])
    BY <2>1 DEF Attempted, Truth, StageShape
  <2> HIDE DEF s
  <2>4. ConsistentOutcome(plan, outcome, s)
    BY <1>2, <2>2, <2>3, BasisFacts, CandidateFacts, RestFacts
    DEF ConsistentOutcome, ObservationFacts, RecoveryFacts, JunosFacts,
        OutcomeFacts, RecoveryOutcomes, ConfirmationOutcomes, NoWriteOutcomes,
        FinalOutcome, StageNames, Junos
  <2>5. outcome \in FinalOutcome /\ "inverse" \notin sent
    BY <1>2 DEF FinalOutcome
  <2> QED
    BY <1>3, <1>5, <2>2, <2>3, <2>4, <2>5, RecordStep DEF s
<1>6. ASSUME "forward" \in sent
      PROVE  /\ Continue("post", S(TRUE, "true")) => IInv'
             /\ Record("AUTO_ROLLBACK_PENDING", S(TRUE, "true")) => IInv'
  <2> DEFINE s == S(TRUE, "true")
  <2>1. s["execution"] = Attempted(TRUE, "true", None)
    BY <1>4 DEF Tri
  <2>2. /\ s \in [StageNames -> Stage] /\ BasisKnown(s)
        /\ CandidateKnown(s)
        /\ OnlyAttempted(s, {"preflight", "candidate", "execution"})
    BY <1>4 DEF Tri
  <2>3. /\ s["execution"].attempted /\ s["execution"].succeeded = "true"
        /\ StageShape(s["execution"])
    BY <2>1 DEF Attempted, Truth, StageShape
  <2>4. ASSUME Record("AUTO_ROLLBACK_PENDING", s)
        PROVE  IInv'
    <3> HIDE DEF s
    <3>1. ConsistentOutcome(plan, "AUTO_ROLLBACK_PENDING", s)
      BY <1>2, <2>2, <2>3, BasisFacts, CandidateFacts, RestFacts
    DEF ConsistentOutcome, ObservationFacts, RecoveryFacts, JunosFacts,
        OutcomeFacts, RecoveryOutcomes, ConfirmationOutcomes, NoWriteOutcomes,
        FinalOutcome, StageNames, Junos
    <3>2. "AUTO_ROLLBACK_PENDING" \in FinalOutcome /\ "inverse" \notin sent
      BY <1>2 DEF FinalOutcome
    <3> QED
      BY <1>3, <1>6, <2>2, <2>3, <2>4, <3>1, <3>2, RecordStep DEF s
  <2>5. ASSUME Continue("post", s)
        PROVE  IInv'
    <3>1. KnownAt("post", s) /\ LeftAt("post", sent')
      BY <1>2, <1>3, <1>6, <2>2, <2>3 DEF KnownAt, LeftAt, WriteKnown
    <3> QED
      BY <1>1, <1>2, <1>3, <2>2, <2>5, <3>1, ContinueStep
  <2> QED
    BY <2>4, <2>5
<1>7. PICK disposition \in Dispositions, closed \in BOOLEAN :
        LET ok == disposition = "SUCCEEDED"
            s == S(ok, IF ok THEN "true" ELSE "none")
        IN  \/ disposition = "AMBIGUOUS" /\ Record("AMBIGUOUS", s)
            \/ disposition = "FAILED" /\ Record("EXECUTION_FAILED", s)
            \/ /\ ok /\ "forward" \in sent
               /\ IF closed THEN Continue("post", s)
                  ELSE Record("AUTO_ROLLBACK_PENDING", s)
  BY DEF Close
<1> QED
  BY <1>5, <1>6, <1>7

LEMMA JunosPostIInv ==
  ASSUME IInv, JunosPost
  PROVE  IInv'
<1>1. pc = "post" /\ UNCHANGED <<plan, deviceVars>> /\ TypeOK
  BY DEF JunosPost, IInv
<1>2. /\ Junos /\ BasisKnown(stages) /\ CandidateKnown(stages)
      /\ WriteKnown(stages) /\ sent = {"forward"}
      /\ OnlyAttempted(stages, {"preflight", "candidate", "execution"})
  BY <1>1 DEF JunosPost, IInv, KnownAt, LeftAt
<1> DEFINE Post(succeeded, changed, observed) ==
             [stages EXCEPT !.post = Attempted(succeeded, changed, observed)]
<1>3. ASSUME Around, UNCHANGED sent, NEW succeeded \in BOOLEAN, ~succeeded,
             NEW observed \in Descriptions, NEW changed \in Tri,
             changed \in {"none", Truth(observed # plan.previous)},
             Record("AUTO_ROLLBACK_PENDING", Post(succeeded, changed, observed))
      PROVE  IInv'
  <2> DEFINE s == Post(succeeded, changed, observed)
  <2>1. s \in [StageNames -> Stage]
    BY <1>1, AttemptedType DEF TypeOK
  <2>2. /\ s["post"] = Attempted(succeeded, changed, observed)
        /\ \A name \in StageNames \ {"post"} : s[name] = stages[name]
    BY <1>1 DEF TypeOK, StageNames
  <2>3. /\ BasisKnown(s) /\ CandidateKnown(s) /\ WriteKnown(s)
        /\ OnlyAttempted(s, {"preflight", "candidate", "execution", "post"})
    BY <1>2, <2>2
    DEF BasisKnown, CandidateKnown, WriteKnown, OnlyAttempted, StageNames
  <2>4. /\ s["post"].attempted /\ s["post"].succeeded = "false"
        /\ s["post"].changed \in {"none", Truth(s["post"].observed # plan.previous)}
        /\ StageShape(s["post"])
    BY <1>3, <2>2 DEF Attempted, Truth, StageShape
  <2>5. /\ s["execution"].attempted /\ s["execution"].succeeded = "true"
        /\ StageShape(s["execution"])
    BY <2>3 DEF WriteKnown, StageShape
  <2> HIDE DEF s
  <2>6. ConsistentOutcome(plan, "AUTO_ROLLBACK_PENDING", s)
    BY <1>2, <2>3, <2>4, <2>5, BasisFacts, CandidateFacts, RestFacts
    DEF ConsistentOutcome, ObservationFacts, RecoveryFacts, JunosFacts,
        OutcomeFacts, RecoveryOutcomes, ConfirmationOutcomes, NoWriteOutcomes,
        FinalOutcome, StageNames, Junos
  <2>7. "AUTO_ROLLBACK_PENDING" \in FinalOutcome /\ SecondWriteJustified'
    BY <1>2, <1>3 DEF FinalOutcome, SecondWriteJustified
  <2> QED
    BY <1>2, <1>3, <2>1, <2>5, <2>6, <2>7, RecordStep DEF s
<1>4. CASE /\ Record("AUTO_ROLLBACK_PENDING",
                [stages EXCEPT !.post = Attempted(FALSE, "none", None)])
           /\ UNCHANGED historyVars
  <2>1. Around /\ UNCHANGED sent
    BY <1>1, <1>4 DEF TypeOK, Around, deviceVars, historyVars
  <2> QED
    BY <1>3, <1>4, <2>1, ConstantsAssumption DEF Tri
<1>5. ASSUME Reading, NEW read \in Reads, NEW desired \in BOOLEAN,
             desired <=> read.identity /\ read.description = Desired,
             LET s == Post(desired, ObservedTransition(read), read.description)
             IN  IF desired THEN Continue("confirm", s)
                 ELSE Record("AUTO_ROLLBACK_PENDING", s)
      PROVE  IInv'
  <2> DEFINE s == Post(desired, ObservedTransition(read), read.description)
  <2>1. Around /\ UNCHANGED sent
    BY <1>1, <1>5 DEF TypeOK, Around, deviceVars, Reading
  <2>2. /\ read.description \in Descriptions /\ ObservedTransition(read) \in Tri
        /\ ObservedTransition(read) \in
               {"none", Truth(read.description # plan.previous)}
        /\ read.identity => ObservedTransition(read) =
               Truth(read.description # plan.previous)
    BY <1>1, ReadsType DEF ObservedTransition
  <2>3. CASE ~desired
    BY <1>3, <1>5, <2>1, <2>2, <2>3
  <2>4. CASE desired
    <3>1. s \in [StageNames -> Stage] /\ Continue("confirm", s)
      BY <1>1, <1>5, <2>2, <2>4, AttemptedType DEF TypeOK
    <3>2. /\ s["post"] = Attempted(desired, ObservedTransition(read), Desired)
          /\ \A name \in StageNames \ {"post"} : s[name] = stages[name]
      BY <1>1, <1>5, <2>4 DEF TypeOK, StageNames
    <3>3. ObservedTransition(read) = "true"
      BY <1>1, <1>5, <2>2, <2>4 DEF TypeOK, Plans, Truth
    <3>4. PostDesired(s)
      BY <2>4, <3>2, <3>3 DEF PostDesired, Attempted, Truth
    <3>5. /\ BasisKnown(s) /\ CandidateKnown(s) /\ WriteKnown(s)
          /\ OnlyAttempted(s, {"preflight", "candidate", "execution", "post"})
      BY <1>2, <3>2
      DEF BasisKnown, CandidateKnown, WriteKnown, OnlyAttempted, StageNames
    <3> HIDE DEF s
    <3>6. KnownAt("confirm", s) /\ LeftAt("confirm", sent')
      BY <1>2, <2>1, <3>4, <3>5 DEF KnownAt, LeftAt
    <3>7. SecondWriteJustified' /\ sent' \subseteq {"forward", "inverse", "confirm"}
      BY <1>2, <2>1 DEF SecondWriteJustified
    <3> QED
      BY <1>1, <2>1, <3>1, <3>6, <3>7, ContinueStep
  <2> QED
    BY <2>3, <2>4
<1>6. CASE /\ \E read \in Reads :
                LET desired == read.identity /\ read.description = Desired
                    s == Post(desired, ObservedTransition(read), read.description)
                IN  IF desired THEN Continue("confirm", s)
                    ELSE Record("AUTO_ROLLBACK_PENDING", s)
           /\ Reading
  <2>1. PICK read \in Reads :
                LET desired == read.identity /\ read.description = Desired
                    s == Post(desired, ObservedTransition(read), read.description)
                IN  IF desired THEN Continue("confirm", s)
                    ELSE Record("AUTO_ROLLBACK_PENDING", s)
    BY <1>6
  <2> QED
    BY <1>5, <1>6, <2>1
<1> QED
  BY <1>4, <1>6 DEF JunosPost

\* What a confirmation's record says of it.
LEMMA ConfirmationRecord ==
  ASSUME IInv, pc \in {"confirm", "confirmed", "unconfirmed"}, Around,
         UNCHANGED sent, NEW outcome \in ConfirmationOutcomes,
         NEW ok \in BOOLEAN, ok <=> outcome = "SUCCEEDED",
         Record(outcome, [stages EXCEPT !.confirmation =
                            Attempted(ok, "none", None)])
  PROVE  IInv'
<1> DEFINE s == [stages EXCEPT !.confirmation = Attempted(ok, "none", None)]
<1>1. /\ TypeOK /\ Junos /\ BasisKnown(stages) /\ CandidateKnown(stages)
      /\ WriteKnown(stages) /\ PostDesired(stages)
      /\ OnlyAttempted(stages, {"preflight", "candidate", "execution", "post"})
      /\ "forward" \in sent /\ "inverse" \notin sent /\ SecondWriteJustified
  BY DEF IInv, KnownAt, LeftAt
<1>2. s \in [StageNames -> Stage]
  BY <1>1, AttemptedType, ConstantsAssumption DEF TypeOK, Tri
<1>3. /\ s["confirmation"] = Attempted(ok, "none", None)
      /\ \A name \in StageNames \ {"confirmation"} : s[name] = stages[name]
  BY <1>1 DEF TypeOK, StageNames
<1>4. /\ BasisKnown(s) /\ CandidateKnown(s)
      /\ OnlyAttempted(s, {"preflight", "candidate", "execution", "post",
                           "confirmation"})
  BY <1>1, <1>3
  DEF BasisKnown, CandidateKnown, OnlyAttempted, StageNames
<1>5. /\ s["execution"] = stages["execution"] /\ s["post"] = stages["post"]
      /\ s["execution"].attempted /\ s["execution"].succeeded = "true"
      /\ StageShape(s["execution"])
  BY <1>1, <1>3 DEF WriteKnown, StageNames, StageShape
<1>6. /\ s["post"].attempted /\ s["post"].succeeded = "true"
      /\ s["post"].changed = Truth(s["post"].observed # plan.previous)
      /\ s["post"].observed = Desired /\ StageShape(s["post"])
  BY <1>1, <1>5 DEF PostDesired, StageShape, TypeOK, Plans, Truth
<1>7. /\ s["confirmation"].attempted /\ StageShape(s["confirmation"])
      /\ s["confirmation"].succeeded = Truth(outcome = "SUCCEEDED")
  <2>1. CASE ok
    BY <1>3, <2>1 DEF Attempted, Truth, StageShape
  <2>2. CASE ~ok
    BY <1>3, <2>2 DEF Attempted, Truth, StageShape
  <2> QED
    BY <2>1, <2>2
<1> HIDE DEF s
<1>8. ConsistentOutcome(plan, outcome, s)
  BY <1>1, <1>4, <1>5, <1>6, <1>7, BasisFacts, CandidateFacts, RestFacts
  DEF ConsistentOutcome, ObservationFacts, RecoveryFacts, JunosFacts,
      OutcomeFacts, RecoveryOutcomes, ConfirmationOutcomes, NoWriteOutcomes,
      FinalOutcome, StageNames, Junos
<1>9. SecondWriteJustified'
  BY <1>1, <1>5 DEF SecondWriteJustified, Record, s
<1> QED
  BY <1>1, <1>2, <1>5, <1>8, <1>9, RecordStep DEF FinalOutcome, s

LEMMA ConfirmIInv ==
  ASSUME IInv, Confirm
  PROVE  IInv'
<1>1. pc = "confirm" /\ UNCHANGED <<plan, running, edits, quiet>> /\ TypeOK
  BY DEF Confirm, IInv
<1>2. CASE /\ Record("CONFIRMATION_FAILED", [stages EXCEPT !.confirmation =
                        Attempted(FALSE, "none", None)])
           /\ UNCHANGED <<pending, locked, sent>>
  <2>1. Around /\ UNCHANGED sent
    BY <1>1, <1>2 DEF TypeOK, Around
  <2> QED
    BY <1>1, <1>2, <2>1, ConfirmationRecord DEF ConfirmationOutcomes
<1>3. CASE /\ \/ Continue("confirmed", stages) /\ pending' = NoPending
              \/ Continue("unconfirmed", stages) /\ UNCHANGED pending
           /\ locked' = TRUE /\ sent' = sent \cup {"confirm"}
  <2>1. Around
    BY <1>1, <1>3 DEF TypeOK, Around
  <2>2. PICK at \in {"confirmed", "unconfirmed"} : Continue(at, stages)
    BY <1>3
  <2>3. /\ sent = {"forward"} /\ KnownAt(at, stages)
        /\ WriteKnown(stages) /\ PostDesired(stages)
    BY <1>1 DEF IInv, KnownAt, LeftAt
  <2>4. LeftAt(at, sent') /\ SecondWriteJustified'
    BY <1>3, <2>2, <2>3
    DEF LeftAt, SecondWriteJustified, Continue, WriteKnown, PostDesired
  <2> QED
    BY <1>1, <1>3, <2>1, <2>2, <2>3, <2>4, ContinueStep DEF TypeOK
<1> QED
  BY <1>2, <1>3 DEF Confirm

LEMMA ConfirmedIInv ==
  ASSUME IInv, Confirmed
  PROVE  IInv'
<1>1. /\ pc \in {"confirmed", "unconfirmed"} /\ locked' = FALSE /\ TypeOK
      /\ UNCHANGED <<plan, running, pending, historyVars>>
  BY DEF Confirmed, IInv
<1>2. Around /\ UNCHANGED sent
  BY <1>1 DEF TypeOK, Around, historyVars
<1>3. PICK outcome \in ConfirmationOutcomes :
        Record(outcome, [stages EXCEPT !.confirmation =
                        Attempted(outcome = "SUCCEEDED", "none", None)])
  BY DEF Confirmed
<1> QED
  BY <1>1, <1>2, <1>3, ConfirmationRecord

-----------------------------------------------------------------------------
\* What the executor knows is about its own variables only.
LEMMA OwnVariables ==
  ASSUME IInv, UNCHANGED <<plan, pc, stages, record, result, sent>>, TypeOK'
  PROVE  IInv'
<1>1. KnownAt(pc, stages)'
  <2>1. KnownAt(pc, stages)
    BY DEF IInv
  <2> QED
    BY <2>1
    DEF KnownAt, OnlyAttempted, BasisKnown, WriteKnown, PostMissed, PostDesired,
        CandidateKnown, Junos
<1>2. LeftAt(pc, sent)' /\ Open'
  BY DEF IInv, LeftAt, Open
<1>3. /\ Accepted' /\ RecordNeverRejected' /\ WriteTruth'
      /\ SecondWriteJustified'
  BY DEF IInv, Accepted, RecordNeverRejected, WriteTruth, SecondWriteJustified
<1> QED
  BY <1>1, <1>2, <1>3 DEF IInv

\* The device and its other operators touch none of it.
LEMMA EnvironmentIInv ==
  ASSUME IInv, RollbackTimer \/ OutOfBandEdit
  PROVE  IInv'
<1>1. TypeOK /\ UNCHANGED <<plan, pc, stages, record, result, locked, sent>>
  BY DEF IInv, RollbackTimer, OutOfBandEdit, historyVars
<1>2. running' \in Descriptions /\ pending' \in Descriptions \cup {NoPending}
  BY <1>1 DEF TypeOK, RollbackTimer, OutOfBandEdit
<1>3. edits' \in 0..MaxEdits
  BY <1>1, ConstantsAssumption
  DEF TypeOK, RollbackTimer, OutOfBandEdit, historyVars
<1>4. quiet' \in BOOLEAN
  BY <1>1 DEF TypeOK, RollbackTimer, OutOfBandEdit, historyVars
<1>5. TypeOK'
  BY <1>1, <1>2, <1>3, <1>4 DEF TypeOK
<1> QED
  BY <1>1, <1>5, OwnVariables

LEMMA CrashIInv ==
  ASSUME IInv, Crash
  PROVE  IInv'
<1>1. TypeOK'
  BY DEF IInv, TypeOK, Crash, historyVars
<1>2. pc' = "done" /\ result' = "crashed"
  BY DEF Crash
<1>3. Accepted' /\ RecordNeverRejected' /\ WriteTruth'
  BY <1>2 DEF Accepted, RecordNeverRejected, WriteTruth
<1>4. KnownAt(pc, stages)' /\ LeftAt(pc, sent)' /\ Open'
  BY <1>2 DEF KnownAt, LeftAt, Open
<1>5. SecondWriteJustified'
  BY DEF IInv, SecondWriteJustified, Crash, historyVars
<1> QED
  BY <1>1, <1>3, <1>4, <1>5 DEF IInv

LEMMA StutterIInv ==
  ASSUME IInv, UNCHANGED vars
  PROVE  IInv'
<1>1. TypeOK'
  BY DEF IInv, TypeOK, vars, deviceVars, historyVars
<1> QED
  BY <1>1, OwnVariables DEF vars, historyVars

LEMMA NextIInv == IInv /\ [Next]_vars => IInv'
<1> SUFFICES ASSUME IInv, [Next]_vars PROVE IInv'
  OBVIOUS
<1>1. CASE Cisco
  BY <1>1, ExecuteIInv, ExecutedIInv, ReconcileIInv, CiscoPostIInv, RecoverIInv,
     RecoveredIInv, RestoreIInv DEF Cisco
<1>2. CASE JunosSteps
  BY <1>2, EnterIInv, PrepareIInv, CommitConfirmedIInv, CloseIInv,
     JunosPostIInv, ConfirmIInv, ConfirmedIInv DEF JunosSteps
<1>3. CASE VerifyApproval \/ Preflight
  BY <1>3, VerifyApprovalIInv, PreflightIInv
<1>4. CASE RollbackTimer \/ OutOfBandEdit
  BY <1>4, EnvironmentIInv
<1>5. CASE Crash
  BY <1>5, CrashIInv
<1>6. CASE Finished \/ UNCHANGED vars
  BY <1>6, StutterIInv DEF Finished
<1> QED
  BY <1>1, <1>2, <1>3, <1>4, <1>5, <1>6 DEF Next, Executor

\* What execute_profiled_plan knows at each of its steps (the stages it has
\* attempted, the report it holds, what has been sent) holds whenever it runs.
THEOREM Invariance == Spec => []IInv
  BY InitIInv, NextIInv, PTL DEF Spec

\* The executor's variables, the device's and the history keep their types.
THEOREM TypeCorrect == Spec => []TypeOK
<1>1. IInv => TypeOK
  BY DEF IInv
<1> QED
  BY <1>1, Invariance, PTL

\* No path of execute_profiled_plan assembles a record that
\* ProfiledChangeRecord.consistent_outcome refuses.
THEOREM NoRecordRejected == Spec => []RecordNeverRejected
<1>1. IInv => RecordNeverRejected
  BY DEF IInv
<1> QED
  BY <1>1, Invariance, PTL

\* A record never hides a write that left, nor claims one that did not.
THEOREM RecordsTellTheWrite == Spec => []WriteTruth
<1>1. IInv => WriteTruth
  BY DEF IInv
<1> QED
  BY <1>1, Invariance, PTL

\* Neither the inverse nor the confirmation is sent after an ambiguous write,
\* or on an observation that is not identity-exact.
THEOREM SecondWriteNeverGuessed == Spec => []SecondWriteJustified
<1>1. IInv => SecondWriteJustified
  BY DEF IInv
<1> QED
  BY <1>1, Invariance, PTL

\* A step that goes on or returns is no exception.
LEMMA NoException ==
  ASSUME IInv, pc # "done", result' # "raised" \/ UNCHANGED result
  PROVE  RecoveryAloneEscapes'
  BY DEF IInv, Open, RecoveryAloneEscapes

LEMMA EscapeSteps ==
  ASSUME IInv, RecoveryAloneEscapes, [Next]_vars
  PROVE  RecoveryAloneEscapes'
<1>1. CASE VerifyApproval \/ Execute
  <2>1. CASE Raise /\ UNCHANGED sent
    <3>1. sent = {}
      BY <1>1 DEF IInv, LeftAt, VerifyApproval, Execute
    <3> QED
      BY <2>1, <3>1 DEF RecoveryAloneEscapes
  <2>2. CASE ~(Raise /\ UNCHANGED sent)
    BY <1>1, <2>2, NoException
    DEF VerifyApproval, Execute, Send, Continue, Record, historyVars
  <2> QED
    BY <2>1, <2>2
<1>2. CASE Recover
  <2>1. CASE Raise /\ UNCHANGED historyVars
    <3>1. /\ ~Junos /\ "inverse" \notin sent
          /\ WriteKnown(stages) /\ PostMissed(stages)
      BY <1>2 DEF IInv, KnownAt, LeftAt, Recover
    <3>2. UNCHANGED <<plan, sent, stages>>
      BY <1>2, <2>1 DEF Recover, Raise, historyVars
    <3> QED
      BY <3>1, <3>2 DEF RecoveryAloneEscapes, WriteKnown, PostMissed, Truth, Junos
  <2>2. CASE Send("inverse", plan.previous, "recovered")
    BY <1>2, <2>2, NoException DEF Recover, Send, Continue
  <2> QED
    BY <1>2, <2>1, <2>2 DEF Recover
<1>3. CASE Preflight \/ Executed \/ Reconcile \/ CiscoPost \/ Recovered \/ Restore
  BY <1>3, NoException
  DEF Preflight, Executed, Reconcile, CiscoPost, Recovered, Restore, Continue, Record
<1>4. CASE JunosSteps
  BY <1>4, NoException
  DEF JunosSteps, Enter, Prepare, CommitConfirmed, Close, JunosPost, Confirm, Confirmed,
      Continue, Record
<1>5. CASE Crash
  BY <1>5, NoException DEF Crash
<1>6. CASE RollbackTimer \/ OutOfBandEdit \/ Finished \/ UNCHANGED vars
  BY <1>6
  DEF RollbackTimer, OutOfBandEdit, Finished, vars, historyVars, RecoveryAloneEscapes, Junos
<1> QED
  BY <1>1, <1>2, <1>3, <1>4, <1>5, <1>6 DEF Next, Executor, Cisco

\* After a write that may have left, execute_profiled_plan ends in an exception
\* only where its recovery call raises one.
THEOREM Escapes == Spec => []RecoveryAloneEscapes
<1>1. Init => RecoveryAloneEscapes
  BY DEF Init, RecoveryAloneEscapes
<1> QED
  BY <1>1, EscapeSteps, Invariance, PTL DEF Spec

\* Every execution whose write may have left has a record that its validator
\* accepts, unless its process was killed or its recovery call raised.
THEOREM RecordsKept == Spec => []RecordNeverLost
<1>1. RecordNeverRejected /\ RecoveryAloneEscapes => RecordNeverLost
  BY DEF RecordNeverLost
<1> QED
  BY <1>1, NoRecordRejected, Escapes, PTL

-----------------------------------------------------------------------------
(***************************************************************************)
(* What a record says of the device. A Junos confirmation can come too     *)
(* late: it succeeds as well when the rollback timer has already fired, so *)
(* the theorem is about the executions whose five minutes outlast close,   *)
(* POST and confirm.                                                        *)
(***************************************************************************)

AfterPost == {"confirm", "confirmed", "unconfirmed"}

DeviceInv ==
    /\ ~Junos => pending = NoPending
    /\ pc \in AfterPost /\ quiet => running = Desired
    /\ pc = "confirmed" => pending = NoPending
    /\ OutcomeTruth

\* A record is built, or the executor goes on, without a claim about the device.
LEMMA NoClaim ==
  ASSUME DeviceInv, UNCHANGED <<plan, pending>>,
         pc' \notin AfterPost,
         result' = "record" => record'.outcome \notin {"SUCCEEDED", "RECOVERED"}
  PROVE  DeviceInv'
  BY DEF DeviceInv, OutcomeTruth, Junos, AfterPost

\* What a call of _record returns with.
LEMMA Returns ==
  ASSUME NEW outcome, NEW s, Record(outcome, s)
  PROVE  pc' = "done" /\ (result' = "record" => record'.outcome = outcome)
  BY DEF Record

LEMMA GoesOn ==
  ASSUME IInv, NEW at, NEW s, Continue(at, s), pc # "done"
  PROVE  pc' = at /\ result' # "record"
  BY DEF IInv, Open, Continue

\* A read that names the target shows what the device runs (_observe).
LEMMA ExactRead ==
  ASSUME NEW read \in Reads, read.identity
  PROVE  read.description = running
<1>1. CASE read \in [identity : {TRUE}, description : {running}]
  BY <1>1
<1>2. CASE read \in [identity : {FALSE}, description : Descriptions]
  BY <1>2
<1> QED
  BY <1>1, <1>2 DEF Reads

LEMMA CiscoDevice ==
  ASSUME IInv, DeviceInv, Cisco
  PROVE  DeviceInv'
<1>1. pc # "done" /\ UNCHANGED <<plan, pending>>
  BY DEF Cisco, Execute, Send, Executed, Reconcile, CiscoPost, Recover, Recovered, Restore,
         deviceVars
<1>2. CASE Execute \/ Recover
  BY <1>1, <1>2, GoesOn, NoClaim DEF Execute, Recover, Raise, Send, AfterPost
<1>3. CASE Executed \/ Recovered
  <2>1. \/ \E at \in {"post", "reconcile", "restore"} : \E s : Continue(at, s)
        \/ \E outcome \in {"EXECUTION_FAILED", "RECOVERY_AMBIGUOUS", "RECOVERY_FAILED"} : \E s :
               Record(outcome, s)
    BY <1>3 DEF Executed, Recovered
  <2> QED
    BY <1>1, <2>1, GoesOn, Returns, NoClaim DEF AfterPost
<1>4. CASE Reconcile
  <2>1. PICK s : Record("AMBIGUOUS", s)
    BY <1>4 DEF Reconcile
  <2> QED
    BY <1>1, <2>1, Returns, NoClaim DEF AfterPost
<1>5. CASE CiscoPost
  <2>1. CASE \E read \in Reads : \E s : /\ read.identity /\ read.description = Desired
                                        /\ Record("SUCCEEDED", s) /\ UNCHANGED running
    <3>1. PICK read \in Reads : \E s : /\ read.identity /\ read.description = Desired
                                       /\ Record("SUCCEEDED", s) /\ UNCHANGED running
      BY <2>1
    <3>2. running' = Desired /\ ~Junos /\ pending = NoPending
      BY <1>5, <3>1, ExactRead DEF CiscoPost, DeviceInv
    <3>3. pc' = "done" /\ (result' = "record" => record'.outcome = "SUCCEEDED")
      BY <3>1, Returns
    <3> QED
      BY <1>1, <3>2, <3>3 DEF DeviceInv, OutcomeTruth, Junos, AfterPost
  <2>2. CASE \/ \E s : Record("POST_VALIDATION_FAILED", s)
             \/ \E s : Continue("recover", s)
    BY <1>1, <2>2, GoesOn, Returns, NoClaim DEF AfterPost
  <2> QED
    BY <1>5, <2>1, <2>2 DEF CiscoPost, deviceVars
<1>6. CASE Restore
  <2>1. ~Junos
    BY <1>6 DEF Restore, IInv, KnownAt
  <2>2. CASE \E read \in Reads : \E s : /\ read.identity /\ read.description = plan.previous
                                        /\ Record("RECOVERED", s) /\ UNCHANGED running
    <3>1. PICK read \in Reads : \E s : /\ read.identity /\ read.description = plan.previous
                                       /\ Record("RECOVERED", s) /\ UNCHANGED running
      BY <2>2
    <3>2. running' = plan.previous
      BY <3>1, ExactRead
    <3>3. pc' = "done" /\ (result' = "record" => record'.outcome = "RECOVERED")
      BY <3>1, Returns
    <3> QED
      BY <1>1, <2>1, <3>2, <3>3 DEF DeviceInv, OutcomeTruth, Junos, AfterPost
  <2>3. CASE \E s : Record("RECOVERY_FAILED", s)
    BY <1>1, <2>3, Returns, NoClaim DEF AfterPost
  <2> QED
    BY <1>6, <2>2, <2>3 DEF Restore, deviceVars
<1> QED
  BY <1>2, <1>3, <1>4, <1>5, <1>6 DEF Cisco

LEMMA JunosDevice ==
  ASSUME IInv, DeviceInv, JunosSteps
  PROVE  DeviceInv'
<1>1. pc # "done" /\ UNCHANGED plan
  BY DEF JunosSteps, Enter, Prepare, CommitConfirmed, Close, JunosPost, Confirm, Confirmed
<1>2. CASE Enter \/ Prepare
  BY <1>1, <1>2, GoesOn, Returns, NoClaim DEF Enter, Prepare, AfterPost
<1>3. CASE CommitConfirmed
  <2>1. Junos
    BY <1>3 DEF CommitConfirmed, IInv, KnownAt
  <2> QED
    BY <1>1, <1>3, <2>1, GoesOn
    DEF CommitConfirmed, DeviceInv, OutcomeTruth, Junos, AfterPost
<1>4. CASE Close
  <2>1. \/ \E s : Continue("post", s)
        \/ \E outcome \in {"AMBIGUOUS", "EXECUTION_FAILED", "AUTO_ROLLBACK_PENDING"} : \E s :
               Record(outcome, s)
    BY <1>4 DEF Close
  <2> QED
    BY <1>1, <1>4, <2>1, GoesOn, Returns, NoClaim DEF Close, AfterPost
<1>5. CASE JunosPost
  <2>1. CASE \E read \in Reads : \E s : /\ read.identity /\ read.description = Desired
                                        /\ Continue("confirm", s)
    <3>1. PICK read \in Reads : \E s : /\ read.identity /\ read.description = Desired
                                       /\ Continue("confirm", s)
      BY <2>1
    <3>2. running' = Desired /\ UNCHANGED pending
      BY <1>5, <3>1, ExactRead DEF JunosPost, deviceVars
    <3>3. pc' = "confirm" /\ result' # "record"
      BY <1>1, <3>1, GoesOn
    <3> QED
      BY <1>1, <3>2, <3>3 DEF DeviceInv, OutcomeTruth, Junos
  <2>2. CASE \E s : Record("AUTO_ROLLBACK_PENDING", s)
    BY <1>1, <1>5, <2>2, Returns, NoClaim DEF JunosPost, deviceVars, AfterPost
  <2> QED
    BY <1>5, <2>1, <2>2 DEF JunosPost
<1>6. CASE Confirm
  <2>1. CASE \E s : Record("CONFIRMATION_FAILED", s) /\ UNCHANGED pending
    BY <1>1, <2>1, Returns, NoClaim DEF AfterPost
  <2>2. CASE \/ \E s : Continue("confirmed", s) /\ pending' = NoPending
             \/ \E s : Continue("unconfirmed", s) /\ UNCHANGED pending
    BY <1>1, <1>6, <2>2, GoesOn DEF Confirm, DeviceInv, OutcomeTruth, Junos, AfterPost
  <2> QED
    BY <1>6, <2>1, <2>2 DEF Confirm
<1>7. CASE Confirmed
  <2>1. PICK outcome \in ConfirmationOutcomes : \E s :
          Record(outcome, s) /\ (outcome = "SUCCEEDED" => pc = "confirmed")
    BY <1>7 DEF Confirmed
  <2>2. outcome # "RECOVERED" /\ UNCHANGED <<running, pending, quiet>>
    BY <1>7, <2>1 DEF Confirmed, ConfirmationOutcomes, historyVars
  <2> QED
    BY <1>1, <2>1, <2>2, Returns DEF DeviceInv, OutcomeTruth, Junos, AfterPost
<1> QED
  BY <1>2, <1>3, <1>4, <1>5, <1>6, <1>7 DEF JunosSteps

LEMMA DeviceSteps ==
  ASSUME ConfirmInTime, IInv, DeviceInv, [Next]_vars
  PROVE  DeviceInv'
<1>1. CASE VerifyApproval
  BY <1>1, GoesOn, Returns, NoClaim DEF VerifyApproval, Raise, deviceVars, AfterPost
<1>2. CASE Preflight
  <2>1. \/ \E at \in {"enter", "execute"} : \E s : Continue(at, s)
        \/ \E outcome \in NoWriteOutcomes : \E s : Record(outcome, s)
    BY <1>2 DEF Preflight, NoWriteOutcomes
  <2> QED
    BY <1>2, <2>1, GoesOn, Returns, NoClaim
    DEF Preflight, deviceVars, NoWriteOutcomes, AfterPost
<1>3. CASE RollbackTimer
  <2>1. Junos /\ pc \notin AfterPost /\ pending' = NoPending
    BY <1>3 DEF RollbackTimer, DeviceInv, AfterPost
  <2>2. result = "record" => record.outcome # "RECOVERED"
    BY <2>1 DEF IInv, Accepted, ConsistentOutcome, RecoveryFacts, RecoveryOutcomes, Junos
  <2> QED
    BY <1>3, <2>1, <2>2 DEF RollbackTimer, DeviceInv, OutcomeTruth, Junos, historyVars
<1>4. CASE OutOfBandEdit
  BY <1>4 DEF OutOfBandEdit, DeviceInv, OutcomeTruth, Junos
<1>5. CASE Crash
  BY <1>5, NoClaim DEF Crash, AfterPost
<1>6. CASE Finished \/ UNCHANGED vars
  BY <1>6 DEF Finished, vars, deviceVars, historyVars, DeviceInv, OutcomeTruth, Junos
<1> QED
  BY <1>1, <1>2, <1>3, <1>4, <1>5, <1>6, CiscoDevice, JunosDevice DEF Next, Executor

\* As long as nobody edits after the executor's last read, a record of SUCCEEDED
\* is true of the device and nothing is waiting to undo it, and one of RECOVERED
\* tells that the frozen previous description is back (execute_profiled_plan).
THEOREM RecordsTellTheDevice == ConfirmInTime => (Spec => []OutcomeTruth)
<1> SUFFICES ASSUME ConfirmInTime PROVE Spec => []OutcomeTruth
  OBVIOUS
<1>1. Init => DeviceInv
  BY DEF Init, DeviceInv, OutcomeTruth, AfterPost
<1>2. IInv /\ DeviceInv /\ [Next]_vars => DeviceInv'
  BY DeviceSteps
<1>3. DeviceInv => OutcomeTruth
  BY DEF DeviceInv
<1> QED
  BY <1>1, <1>2, <1>3, Invariance, PTL DEF Spec

-----------------------------------------------------------------------------
(***************************************************************************)
(* The execution implements ChildTransaction. That the outcome it closes  *)
(* with fits the write it made follows from the validator: a record that  *)
(* it accepts, and that tells the truth about the write, cannot carry an  *)
(* outcome that ChildTransaction forbids.                                 *)
(***************************************************************************)

\* The request set only grows, does not change with the record, and nothing
\* changes any more once the execution has ended.
Shape ==
    /\ "forward" \in sent => "forward" \in sent'
    /\ result' # "running" => ("forward" \in sent <=> "forward" \in sent')
    /\ result # "running" => UNCHANGED <<result, record, sent>>
    /\ result' \in {"running", "raised", "crashed", "rejected"} => UNCHANGED record

LEMMA ReturnShape ==
  ASSUME IInv, pc # "done", UNCHANGED sent,
         \/ UNCHANGED <<result, record>>
         \/ result' \in {"raised", "rejected"} /\ UNCHANGED record
         \/ result' = "record"
  PROVE  Shape
  BY DEF IInv, Open, Shape

LEMMA SendShape ==
  ASSUME IInv, pc # "done", UNCHANGED <<result, record>>, sent \subseteq sent'
  PROVE  Shape
  BY DEF IInv, Open, Shape

LEMMA CiscoShape ==
  ASSUME IInv, Cisco
  PROVE  Shape
<1>1. CASE Execute \/ Recover
  <2>1. CASE Raise /\ UNCHANGED <<deviceVars, historyVars>>
    BY <1>1, <2>1, ReturnShape DEF Execute, Recover, Raise, historyVars
  <2>2. ASSUME NEW request, NEW description, NEW next,
               Send(request, description, next)
        PROVE  Shape
    <3>1. pc # "done"
      BY <1>1 DEF Execute, Recover
    <3>2. UNCHANGED <<result, record>> /\ sent \subseteq sent'
      BY <2>2 DEF Send, Continue
    <3> QED
      BY <3>1, <3>2, SendShape
  <2> QED
    BY <1>1, <2>1, <2>2 DEF Execute, Recover
<1>2. CASE Executed \/ Recovered
  BY <1>2, ReturnShape
  DEF Executed, Recovered, Continue, Record, historyVars
<1>3. CASE Reconcile
  BY <1>3, ReturnShape
  DEF Reconcile, Continue, Record, historyVars, Reading
<1>4. CASE CiscoPost
  BY <1>4, ReturnShape
  DEF CiscoPost, Continue, Record, historyVars, Reading
<1>5. CASE Restore
  BY <1>5, ReturnShape
  DEF Restore, Continue, Record, historyVars, Reading
<1> QED
  BY <1>1, <1>2, <1>3, <1>4, <1>5 DEF Cisco

LEMMA JunosShape ==
  ASSUME IInv, JunosSteps
  PROVE  Shape
<1>1. CASE Enter \/ Prepare
  BY <1>1, ReturnShape
  DEF Enter, Prepare, Continue, Record, historyVars
<1>2. CASE CommitConfirmed
  BY <1>2, SendShape DEF CommitConfirmed, Continue
<1>3. CASE Close
  BY <1>3, ReturnShape DEF Close, Continue, Record, historyVars
<1>4. CASE JunosPost
  BY <1>4, ReturnShape
  DEF JunosPost, Continue, Record, historyVars, Reading
<1>5. CASE Confirm
  <2>1. CASE UNCHANGED sent
    BY <1>5, <2>1, ReturnShape DEF Confirm, Continue, Record
  <2>2. CASE sent' = sent \cup {"confirm"} /\ UNCHANGED <<result, record>>
    BY <1>5, <2>2, SendShape DEF Confirm, Continue
  <2> QED
    BY <1>5, <2>1, <2>2 DEF Confirm, Continue
<1>6. CASE Confirmed
  BY <1>6, ReturnShape DEF Confirmed, Record, historyVars
<1> QED
  BY <1>1, <1>2, <1>3, <1>4, <1>5, <1>6 DEF JunosSteps

LEMMA StepShape ==
  ASSUME IInv, [Next]_vars
  PROVE  Shape
<1>1. CASE VerifyApproval
  BY <1>1, ReturnShape
  DEF VerifyApproval, Raise, Continue, Record, historyVars
<1>2. CASE Preflight
  BY <1>2, ReturnShape
  DEF Preflight, Continue, Record, historyVars, Reading
<1>3. CASE Crash
  BY <1>3 DEF Crash, IInv, Open, Shape, historyVars
<1>4. CASE RollbackTimer \/ OutOfBandEdit \/ Finished \/ UNCHANGED vars
  BY <1>4
  DEF RollbackTimer, OutOfBandEdit, Finished, vars, historyVars, Shape
<1> QED
  BY <1>1, <1>2, <1>3, <1>4, CiscoShape, JunosShape DEF Next, Executor

\* What an accepted and true record lets its caller conclude.
ChildOutcome ==
    record.outcome \in IF "forward" \in sent THEN Child!WriteOutcomes
                       ELSE Child!NoWriteOutcomes \cup Child!UnknownOutcomes

LEMMA OutcomeFits == IInv /\ result = "record" => ChildOutcome
<1> SUFFICES ASSUME IInv, result = "record" PROVE ChildOutcome
  OBVIOUS
<1> USE DEF ChildOutcome
<1> DEFINE s == record.stages
           outcome == record.outcome
<1>1. /\ outcome \in FinalOutcome \cup {"none"}
      /\ ConsistentOutcome(plan, outcome, s)
      /\ "forward" \in sent => s["execution"].attempted
      /\ s["execution"].succeeded = "true" => "forward" \in sent
  BY DEF IInv, TypeOK, Accepted, WriteTruth
<1> HIDE DEF s, outcome
<1>2. PICK junos \in BOOLEAN :
        /\ RecoveryFacts(junos, plan.previous, outcome, s)
        /\ OutcomeFacts(junos, outcome, s)
        /\ junos => JunosFacts(outcome, s)
  BY <1>1 DEF ConsistentOutcome
<1>3. outcome \in FinalOutcome
  BY <1>2 DEF OutcomeFacts
<1>4. outcome \in NoWriteOutcomes => ~s["execution"].attempted
  BY <1>2 DEF OutcomeFacts
<1>5. outcome \in {"SUCCEEDED", "POST_VALIDATION_FAILED", "AUTO_ROLLBACK_PENDING"}
          => s["execution"].succeeded = "true"
  BY <1>2 DEF OutcomeFacts
<1>6. outcome \in RecoveryOutcomes => s["execution"].succeeded = "true"
  BY <1>2 DEF RecoveryFacts
<1>7. outcome \in {"CONFIRMATION_FAILED", "CONFIRMATION_AMBIGUOUS"}
          => s["execution"].succeeded = "true"
  BY <1>2 DEF OutcomeFacts, JunosFacts, ConfirmationOutcomes
<1>8. CASE "forward" \in sent
  BY <1>1, <1>3, <1>4, <1>8
  DEF FinalOutcome, NoWriteOutcomes, RecoveryOutcomes, ConfirmationOutcomes,
      Child!WriteOutcomes, outcome
<1>9. CASE "forward" \notin sent
  BY <1>1, <1>3, <1>5, <1>6, <1>7, <1>9
  DEF FinalOutcome, NoWriteOutcomes, RecoveryOutcomes, ConfirmationOutcomes,
      Child!NoWriteOutcomes, Child!UnknownOutcomes, outcome
<1> QED
  BY <1>8, <1>9

LEMMA InitImplementsChild == Init => Child!ChildInit
  BY DEF Init, Child!ChildInit, ChildPhase, NoRecord

LEMMA StepImplementsChild ==
  IInv /\ IInv' /\ [Next]_vars => [Child!ChildNext]_(Child!childVars)
<1> SUFFICES ASSUME IInv, IInv', [Next]_vars
             PROVE  Child!ChildNext \/ UNCHANGED Child!childVars
  OBVIOUS
<1>1. Shape
  BY StepShape
<1>2. result \in {"running", "record", "rejected", "raised", "crashed"}
  BY DEF IInv, TypeOK
<1>3. CASE result # "running"
  BY <1>1, <1>3 DEF Shape, Child!childVars, ChildPhase
<1>4. CASE result = "running" /\ result' = "running"
  BY <1>1, <1>4 DEF Shape, Child!childVars, Child!ChildNext, Child!Send, ChildPhase
<1>5. CASE result = "running" /\ result' = "record"
  <2>1. (IInv /\ result = "record" => ChildOutcome)'
    BY OutcomeFits, PTL
  <2> QED
    BY <1>1, <1>5, <2>1
    DEF ChildOutcome, Shape, Child!ChildNext, Child!Close, ChildPhase
<1>6. CASE result = "running" /\ result' \in {"raised", "crashed", "rejected"}
  BY <1>1, <1>6 DEF Shape, Child!ChildNext, Child!Escape, ChildPhase
<1>7. result' \in {"running", "record", "rejected", "raised", "crashed"}
  BY DEF IInv, TypeOK
<1> QED
  BY <1>2, <1>3, <1>4, <1>5, <1>6, <1>7

\* An execution is the transaction its caller sequences.
THEOREM Implementation == Spec => ImplementsChild
<1> QED
  BY InitImplementsChild, StepImplementsChild, Invariance, PTL
  DEF Spec, ImplementsChild, Child!ChildSpec

=============================================================================
