------------------------------ MODULE StagingRun ------------------------------
(***************************************************************************)
(* Disposable staging runs: one Buildkite job reserves its evidence file, *)
(* creates a laboratory with Terraform, starts it once, recycles the      *)
(* devices whose profile asks for it, waits for readiness, establishes    *)
(* trust, collects read-only facts, and then, whatever happened, destroys *)
(* what it owns, proves it absent and retires its run directory. Success  *)
(* is published as a receipt that promotion requires.                     *)
(*                                                                         *)
(* Jobs are serialized by a concurrency group. A cancelled or lost job    *)
(* leaves what it had; the operator may then run the destroy-only         *)
(* recovery on it. Laboratory nodes and the readiness wait are those of   *)
(* StagingReadiness; at most one lab is live, so there is one of them.    *)
(***************************************************************************)
EXTENDS StagingReadiness

CONSTANTS
    Runs,        \* run ids, one per build, numbered as the builds are
    Recycled,    \* members whose boot policy asks for a recycle
    Last,        \* Terraform resources are 0..Last in order of creation
    MaxFaults    \* bound on failing calls, lost responses and crashes

ASSUME RunAssumption ==
    /\ Runs \subseteq Nat
    /\ Recycled \subseteq Members
    /\ Last \in Nat /\ MaxFaults \in Nat

VARIABLES
    pc,         \* run -> where its job stands
    lab,        \* run -> the resources CML holds under its title
    state,      \* run -> the managed addresses in its Terraform state
    files,      \* run -> what its private run directory holds
    locals,     \* run -> the facts the lifecycle keeps
    evidence,   \* run -> its evidence file
    receipt,    \* run -> how far its success was published
    recovery,   \* run -> where a recovery of it stands
    faults      \* failures so far

jobVars == <<pc, locals>>
cmlVars == <<lab, labVars>>
recordVars == <<evidence, receipt>>
vars == <<pc, lab, state, files, locals, evidence, receipt, recovery, faults,
          labVars, watch>>

Graph == 0..Last       \* 0 is the lab itself, all others live in it
Outcomes == {"SUCCEEDED", "FAILED", "AMBIGUOUS", "CLEANUP_FAILED"}
Phases == {"create", "start", "read_only", "destroy", "absence", "retirement"}
Ended == {"done", "refused", "raised", "crashed"}
Live(r) == pc[r] \notin Ended \cup {"idle"}

NoLocals ==
    [primary |-> "none", cleanup |-> "none", context |-> FALSE,
     phases |-> {}, recycled |-> {}, ready |-> {}, trusted |-> FALSE,
     collected |-> {}]

Init ==
    /\ ReadinessInit
    /\ pc = [r \in Runs |-> "idle"]
    /\ lab = [r \in Runs |-> {}]
    /\ state = [r \in Runs |-> {}]
    /\ files = [r \in Runs |-> {}]
    /\ locals = [r \in Runs |-> NoLocals]
    /\ evidence = [r \in Runs |-> "none"]
    /\ receipt = [r \in Runs |-> "none"]
    /\ recovery = [r \in Runs |-> "off"]
    /\ faults = 0

-----------------------------------------------------------------------------
Goto(r, at) == pc' = [pc EXCEPT ![r] = at]
Sound == UNCHANGED faults
Faulty == faults < MaxFaults /\ faults' = faults + 1

\* The process ends, and what it knew is gone.
Exits(r, how) == Goto(r, how) /\ locals' = [locals EXCEPT ![r] = NoLocals]

\* A phase of the evidence has succeeded.
Passed(r, phase) == locals' = [locals EXCEPT ![r].phases = @ \cup {phase}]

Lowest(S) == CHOOSE x \in S : \A y \in S : x <= y
Highest(S) == CHOOSE x \in S : \A y \in S : x >= y

\* An exception of the protected part: primary failure, then cleanup.
Fails(r, kind) ==
    /\ locals' = [locals EXCEPT ![r].primary = kind]
    /\ Goto(r, "own")

\* An exception of the cleanup ends it.
CleanupFails(r, kind) ==
    /\ locals' = [locals EXCEPT ![r].cleanup = kind]
    /\ Goto(r, "conclude")

\* A call without effect: it succeeds and the run goes on, or it raises.
Call(r, next) ==
    \/ Goto(r, next) /\ Sound /\ UNCHANGED locals
    \/ Faulty /\ Fails(r, "error")

\* The next job of the concurrency group, in order: evidence file and run
\* directory, both create-only, then the credentials.
Begin(r) ==
    /\ pc[r] = "idle"
    /\ \A q \in Runs : q < r => pc[q] \in Ended
    /\ evidence' = [evidence EXCEPT ![r] = "reserved"]
    /\ files' = [files EXCEPT ![r] = {"directory"}]
    /\ \/ Goto(r, "admit") /\ Sound
       \/ Goto(r, "refused") /\ Faulty
    /\ UNCHANGED <<cmlVars, watch, state, locals, receipt, recovery>>

\* Mutant: only the run's own title counts as a collision.
CollisionOwnTitle(r) == lab[r] # {}

\* Any lab with the staging title, whoever's.
Collision(r) == \E q \in Runs : lab[q] # {}

Admit(r) ==
    /\ pc[r] = "admit"
    /\ IF Collision(r) THEN Fails(r, "error") /\ Sound ELSE Call(r, "inputs")
    /\ UNCHANGED <<cmlVars, watch, state, files, recordVars, recovery>>

\* Recovery inputs are durable before Terraform plans the exact create graph.
PrepareCreate(r) ==
    /\ pc[r] = "inputs"
    /\ files' = [files EXCEPT ![r] = @ \cup {"inputs"}]
    /\ \/ Goto(r, "apply") /\ Sound /\ UNCHANGED locals
       \/ Faulty /\ Fails(r, "error")
    /\ UNCHANGED <<cmlVars, watch, state, recordVars, recovery>>

\* terraform apply, one resource: created and recorded; refused; or created by
\* a request whose response was lost, so that the state does not list it.
CreateResource(r) ==
    /\ pc[r] = "apply"
    /\ LET k == Lowest(Graph \ state[r]) IN
       \/ /\ Sound
          /\ lab' = [lab EXCEPT ![r] = @ \cup {k}]
          /\ state' = [state EXCEPT ![r] = @ \cup {k}]
          /\ files' = [files EXCEPT ![r] = @ \cup {"state"}]
          /\ IF k = Last THEN Passed(r, "create") /\ Goto(r, "adopt")
             ELSE UNCHANGED jobVars
          /\ IF k = 0 THEN NewLab ELSE UNCHANGED <<labVars, watch>>
       \/ /\ Faulty
          /\ lab' \in {lab, [lab EXCEPT ![r] = @ \cup {k}]}
          /\ Goto(r, "createfailed")
          /\ UNCHANGED <<state, files, locals, labVars, watch>>
    /\ UNCHANGED <<recordVars, recovery>>

\* Mutant: a failed create that recorded nothing has created nothing.
CreateFailureTrusted(r) == "error"

CreateFailure(r) == IF state[r] = {} THEN "ambiguous" ELSE "error"

\* A failed apply is classified by what the state says now, if it can be read.
ClassifyCreate(r) ==
    /\ pc[r] = "createfailed"
    /\ \/ Sound /\ Fails(r, CreateFailure(r))
       \/ Faulty /\ Fails(r, "ambiguous")
    /\ UNCHANGED <<cmlVars, watch, state, files, recordVars, recovery>>

\* Outputs are claims: admit_created_realization observes the lab by itself.
Adopt(r) ==
    /\ pc[r] = "adopt"
    /\ Call(r, "startlab")
    /\ UNCHANGED <<cmlVars, watch, state, files, recordVars, recovery>>

-----------------------------------------------------------------------------
Subject(r) == Lowest(Recycled \ locals[r].recycled)

\* After the START and after each recycle.
NextSubject(r, recycled) ==
    Goto(r, IF Recycled \subseteq recycled THEN "ready" ELSE "firstboot")

LabStarted(r) == Passed(r, "start") /\ NextSubject(r, {})

\* One PUT. An uncertain answer is followed by one observation, never by
\* another PUT.
StartLab(r) ==
    /\ pc[r] = "startlab"
    /\ \/ Sound /\ power' = PoweredOn(Members) /\ LabStarted(r)
       \/ Faulty /\ UNCHANGED power /\ Fails(r, "error")
       \/ /\ Faulty /\ power' \in {power, PoweredOn(Members)}
          /\ Goto(r, "labcheck") /\ UNCHANGED locals
    /\ UNCHANGED <<lab, boots, bootedAt, open, watch, state, files, recordVars,
                   recovery>>

CheckLabStart(r) ==
    /\ pc[r] = "labcheck"
    /\ \/ Faulty /\ Fails(r, "ambiguous")
       \/ /\ Sound
          /\ IF \E d \in Members : Seen(d) \in {"STARTED", "BOOTED"}
             THEN LabStarted(r) ELSE Fails(r, "ambiguous")
    /\ UNCHANGED <<cmlVars, watch, state, files, recordVars, recovery>>

\* Polled until BOOTED, which starts the persistence interval, or timed out.
AwaitFirstBoot(r) ==
    /\ pc[r] = "firstboot"
    /\ \/ Seen(Subject(r)) = "BOOTED" /\ Goto(r, "stop") /\ Sound
            /\ UNCHANGED locals
       \/ Seen(Subject(r)) # "BOOTED" /\ Fails(r, "error") /\ Sound
       \/ Faulty /\ Fails(r, "error")
    /\ UNCHANGED <<cmlVars, watch, state, files, recordVars, recovery>>

\* The subject is admitted once more and asked once to stop, or to start.
Request(r, from, next, check, after) ==
    /\ pc[r] = from
    /\ \/ Sound /\ power' = after /\ Goto(r, next) /\ UNCHANGED locals
       \/ Faulty /\ UNCHANGED power /\ Fails(r, "error")
       \/ /\ Faulty /\ power' \in {power, after}
          /\ Goto(r, check) /\ UNCHANGED locals
    /\ UNCHANGED <<lab, boots, bootedAt, open, watch, state, files, recordVars,
                   recovery>>

\* Reconciled by one GET, or ambiguous.
Reconcile(r, from, next, reconciled) ==
    /\ pc[r] = from
    /\ \/ Faulty /\ Fails(r, "ambiguous")
       \/ /\ Sound
          /\ IF Seen(Subject(r)) \in reconciled
             THEN Goto(r, next) /\ UNCHANGED locals
             ELSE Fails(r, "ambiguous")
    /\ UNCHANGED <<cmlVars, watch, state, files, recordVars, recovery>>

StopSubject(r) ==
    Request(r, "stop", "awaitstop", "stopcheck", PoweredOff(Subject(r)))

ReconcileStop(r) == Reconcile(r, "stopcheck", "awaitstop", {"STOPPED"})

\* Mutant: the stop was acknowledged, so the subject has stopped.
StoppedAcknowledged(r) == TRUE

Stopped(r) == Seen(Subject(r)) = "STOPPED"

\* Polled; a time-out or a failed observation leaves the recycle ambiguous.
AwaitStop(r) ==
    /\ pc[r] = "awaitstop"
    /\ \/ Stopped(r) /\ Sound /\ Goto(r, "restart") /\ UNCHANGED locals
       \/ ~Stopped(r) /\ Sound /\ Fails(r, "ambiguous")
       \/ Faulty /\ Fails(r, "ambiguous")
    /\ UNCHANGED <<cmlVars, watch, state, files, recordVars, recovery>>

StartSubject(r) ==
    Request(r, "restart", "awaitboot", "startcheck", PoweredOn({Subject(r)}))

ReconcileStart(r) ==
    Reconcile(r, "startcheck", "awaitboot", {"STARTED", "BOOTED"})

AwaitBoot(r) ==
    /\ pc[r] = "awaitboot"
    /\ LET recycled == locals[r].recycled \cup {Subject(r)} IN
       \/ /\ Seen(Subject(r)) = "BOOTED" /\ Sound
          /\ locals' = [locals EXCEPT ![r].recycled = recycled]
          /\ NextSubject(r, recycled)
       \/ Seen(Subject(r)) # "BOOTED" /\ Sound /\ Fails(r, "ambiguous")
       \/ Faulty /\ Fails(r, "ambiguous")
    /\ UNCHANGED <<cmlVars, watch, state, files, recordVars, recovery>>

Recycle(r) ==
    \/ AwaitFirstBoot(r) \/ StopSubject(r) \/ ReconcileStop(r) \/ AwaitStop(r)
    \/ StartSubject(r) \/ ReconcileStart(r) \/ AwaitBoot(r)

-----------------------------------------------------------------------------
\* Every resolved device is recorded at once; a time-out raises, and so does
\* the record of one that is rejected.
WaitReadiness(r) ==
    /\ pc[r] = "ready"
    /\ \E lost \in SUBSET watch.remaining, delay \in Delays :
         /\ Round(lost, delay)
         /\ IF lost = {} THEN Sound ELSE Faulty
    /\ locals' = [locals EXCEPT
            ![r].ready = Members \ watch'.remaining,
            ![r].primary = IF watch'.result \in {"waiting", "READY"} THEN @
                           ELSE "error"]
    /\ Goto(r, CASE watch'.result = "waiting" -> "ready"
                 [] watch'.result = "READY" -> "trust"
                 [] OTHER -> "own")
    /\ UNCHANGED <<lab, state, files, recordVars, recovery>>

\* The context becomes READY with the trust that was established in it.
ReadyContext(r) == locals' = [locals EXCEPT ![r].trusted = TRUE, ![r].context = TRUE]

\* Host keys sampled, known_hosts written, the READY context validated.
EstablishTrust(r) ==
    /\ pc[r] = "trust"
    /\ \/ Goto(r, "collect") /\ Sound /\ ReadyContext(r)
       \/ Faulty /\ Fails(r, "error")
    /\ UNCHANGED <<cmlVars, watch, state, files, recordVars, recovery>>

\* One device, in scope order; its facts are published before the next one.
Collect(r) ==
    /\ pc[r] = "collect"
    /\ LET d == Lowest(Members \ locals[r].collected)
           collected == locals[r].collected \cup {d}
       IN \/ /\ Sound
             /\ locals' = [locals EXCEPT
                    ![r].collected = collected,
                    ![r].phases = IF collected = Members
                                  THEN @ \cup {"read_only"} ELSE @]
             /\ Goto(r, IF collected = Members THEN "own" ELSE "collect")
          \/ Faulty /\ Fails(r, "error")
    /\ UNCHANGED <<cmlVars, watch, state, files, recordVars, recovery>>

-----------------------------------------------------------------------------
\* managed_resources_exist: only a nonempty state is cleanup authority; a READY
\* realization that is owned no more is no clean ending. Nobody
\* looks at nodes or the wait from here on, and the model forgets them.
Own(r) ==
    /\ pc[r] = "own"
    /\ \/ /\ Sound
          /\ IF state[r] = {} /\ locals[r].context
             THEN CleanupFails(r, "ambiguous")
             ELSE /\ Goto(r, IF state[r] = {} THEN "conclude" ELSE "plan")
                  /\ UNCHANGED locals
       \/ "state" \in files[r] /\ Faulty /\ CleanupFails(r, "ambiguous")
    /\ NewLab
    /\ UNCHANGED <<lab, state, files, recordVars, recovery>>

\* Planning refreshes: a resource CML no longer has is not planned to be
\* deleted, and a plan that deletes less than the state lists is rejected.
DestroyPlanAccepted(r) == state[r] # {} /\ state[r] \subseteq lab[r]

PlanDestroy(r) ==
    /\ pc[r] = "plan"
    /\ \/ /\ Sound
          /\ IF /\ DestroyPlanAccepted(r)
                /\ locals[r].context => state[r] = Graph
             THEN Goto(r, "destroy") /\ UNCHANGED locals
             ELSE CleanupFails(r, "error")
       \/ \E kind \in {"error", "ambiguous"} : Faulty /\ CleanupFails(r, kind)
    /\ UNCHANGED <<cmlVars, watch, state, files, recordVars, recovery>>

\* What CML holds when resource k is deleted; with the lab everything goes.
Without(r, k) == [lab EXCEPT ![r] = IF k = 0 THEN {} ELSE @ \ {k}]

\* terraform apply of the saved plan, one resource, in the reverse order.
\*   deleted and recorded; or accepted by CML, which keeps the lab; or the call
\*   fails, with or without effect, and the state keeps the resource.
DeleteResource(r, deleted, fails) ==
    LET k == Highest(state[r])
        recorded == [state EXCEPT ![r] = @ \ {k}]
    IN \/ Sound /\ lab' = Without(r, k) /\ state' = recorded /\ deleted
       \/ Faulty /\ k = 0 /\ UNCHANGED lab /\ state' = recorded /\ deleted
       \/ Faulty /\ lab' = Without(r, k) /\ state' \in {state, recorded} /\ fails
       \/ Faulty /\ UNCHANGED <<lab, state>> /\ fails

Destroy(r) ==
    /\ pc[r] = "destroy"
    /\ DeleteResource(r,
        IF state'[r] = {}
        THEN Goto(r, "absent") /\ Passed(r, "destroy")
        ELSE UNCHANGED jobVars,
        Goto(r, "uncertain") /\ UNCHANGED locals)
    /\ UNCHANGED <<labVars, watch, files, recordVars, recovery>>

\* A failed destroy counts only if state and CML both say that all is gone. A
\* CML that does not answer raises an ordinary error here.
ReconcileDestroy(r) ==
    /\ pc[r] = "uncertain"
    /\ \/ /\ Sound
          /\ IF state[r] = {} /\ lab[r] = {}
             THEN Goto(r, "absent") /\ Passed(r, "destroy")
             ELSE CleanupFails(r, "ambiguous")
       \/ Faulty /\ CleanupFails(r, IF state[r] = {} THEN "error" ELSE "ambiguous")
    /\ UNCHANGED <<cmlVars, watch, state, files, recordVars, recovery>>

\* Mutant: an empty state is absence.
AbsentByState(r) == state[r] = {}

\* Terraform's state is empty and CML answers 404 for the lab.
Absent(r) == state[r] = {} /\ lab[r] = {}

VerifyAbsent(r) ==
    /\ pc[r] = "absent"
    /\ \/ /\ Sound
          /\ IF Absent(r)
             THEN Goto(r, "retire") /\ Passed(r, "absence")
             ELSE CleanupFails(r, "error")
       \/ Faulty /\ CleanupFails(r, "error")
    /\ UNCHANGED <<cmlVars, watch, state, files, recordVars, recovery>>

\* Absence is proved again, then the directory goes, not atomically.
RetireState(r) ==
    /\ pc[r] = "retire"
    /\ \/ /\ Sound
          /\ IF Absent(r)
             THEN /\ files' = [files EXCEPT ![r] = {}]
                  /\ Goto(r, "conclude") /\ Passed(r, "retirement")
             ELSE CleanupFails(r, "error") /\ UNCHANGED files
       \/ /\ Faulty /\ Absent(r)
          /\ \E left \in SUBSET files[r] :
                /\ "directory" \in left
                /\ files' = [files EXCEPT ![r] = left]
          /\ CleanupFails(r, "error")
    /\ UNCHANGED <<cmlVars, watch, state, recordVars, recovery>>

-----------------------------------------------------------------------------
Outcome(l) ==
    CASE l.primary = "none" /\ l.cleanup = "none" -> "SUCCEEDED"
      [] l.primary = "ambiguous" \/ l.cleanup = "ambiguous" -> "AMBIGUOUS"
      [] l.primary # "ambiguous" /\ l.cleanup = "error" -> "CLEANUP_FAILED"
      [] OTHER -> "FAILED"

\* The evidence model: device facts of all members or of none.
EvidenceValid(l) == l.collected \in {{}, Members}

\* The run is reported once; evidence that is rejected is an exception, and
\* the reserved file stays empty.
Conclude(r) ==
    /\ pc[r] = "conclude"
    /\ IF EvidenceValid(locals[r])
       THEN /\ evidence' = [evidence EXCEPT ![r] = Outcome(locals[r])]
            /\ IF evidence'[r] = "SUCCEEDED"
               THEN Goto(r, "annotate") /\ UNCHANGED locals
               ELSE Exits(r, "done")
       ELSE Exits(r, "raised") /\ UNCHANGED evidence
    /\ Sound
    /\ UNCHANGED <<cmlVars, watch, state, files, receipt, recovery>>

\* The label alone is not a success.
EvidenceSucceeded(r) ==
    /\ evidence[r] = "SUCCEEDED" /\ locals[r].phases = Phases
    /\ locals[r].ready = Members /\ locals[r].collected = Members
    /\ locals[r].recycled = Recycled /\ locals[r].trusted

\* Annotation, artifact and metadata: each must succeed before the next.
Publish(r) ==
    /\ \/ /\ pc[r] \in {"annotate", "upload"} /\ Faulty
          /\ Exits(r, "done") /\ UNCHANGED receipt
       \/ /\ pc[r] = "annotate" /\ Sound /\ UNCHANGED receipt
          /\ IF EvidenceSucceeded(r)
             THEN Goto(r, "upload") /\ UNCHANGED locals ELSE Exits(r, "done")
       \/ /\ pc[r] = "upload" /\ Sound
          /\ receipt' = [receipt EXCEPT ![r] = "uploaded"]
          /\ Goto(r, "receipt") /\ UNCHANGED locals
       \/ /\ pc[r] = "receipt" /\ Exits(r, "done")
          /\ \/ Sound /\ receipt' = [receipt EXCEPT ![r] = "published"]
             \/ /\ Faulty
                /\ receipt' \in {receipt, [receipt EXCEPT ![r] = "published"]}
    /\ UNCHANGED <<cmlVars, watch, state, files, evidence, recovery>>

\* A cancelled or lost job ends where it is; a request of Terraform that has
\* left still takes effect.
Crash(r) ==
    /\ Live(r) /\ Faulty /\ Exits(r, "crashed")
    /\ \/ UNCHANGED lab
       \/ /\ pc[r] = "apply"
          /\ lab' = [lab EXCEPT ![r] = @ \cup {Lowest(Graph \ state[r])}]
       \/ pc[r] = "destroy" /\ lab' = Without(r, Highest(state[r]))
    /\ NewLab
    /\ UNCHANGED <<state, files, recordVars, recovery>>

-----------------------------------------------------------------------------
\* The retained inputs of the create are what it wrote, or are not there.
RecoveryInputs(r) == "inputs" \in files[r]

\* The state tells which lab is the run's.
LabBinding(r) == "state" \in files[r] /\ 0 \in state[r]

\* recover_profiled_cml_staging.py --execute: directory, state file and inputs,
\* the lab's binding out of the state, and a plan that deletes all of it.
RecoveryAdmits(r) ==
    /\ "directory" \in files[r] /\ RecoveryInputs(r) /\ LabBinding(r)
    /\ DestroyPlanAccepted(r)

At(r, at) == recovery' = [recovery EXCEPT ![r] = at]

RecoverPlan(r) ==
    /\ recovery[r] = "off" /\ pc[r] \in Ended
    /\ RecoveryAdmits(r)
    /\ At(r, "destroy") /\ Sound
    /\ UNCHANGED <<cmlVars, state, files>>

RecoverDestroy(r) ==
    /\ recovery[r] = "destroy"
    /\ DeleteResource(r, At(r, IF state'[r] = {} THEN "prove" ELSE "destroy"),
                      At(r, "off"))
    /\ UNCHANGED <<labVars, files>>

RecoverProve(r) ==
    /\ recovery[r] = "prove"
    /\ \/ Sound /\ At(r, IF Absent(r) THEN "unlink" ELSE "off")
       \/ Faulty /\ At(r, "off")
    /\ UNCHANGED <<cmlVars, state, files>>

\* State file first, recovery inputs last, one unlink at a time.
RecoverUnlink(r) ==
    /\ recovery[r] = "unlink"
    /\ \/ /\ Sound
          /\ LET next == IF "state" \in files[r] THEN "state" ELSE "inputs" IN
             /\ files' = [files EXCEPT ![r] = @ \ {next}]
             /\ At(r, IF next = "state" THEN "unlink" ELSE "off")
       \/ Faulty /\ At(r, "off") /\ UNCHANGED files
    /\ UNCHANGED <<cmlVars, state>>

Recover(r) ==
    /\ RecoverPlan(r) \/ RecoverDestroy(r) \/ RecoverProve(r) \/ RecoverUnlink(r)
    /\ UNCHANGED <<jobVars, watch, recordVars>>

-----------------------------------------------------------------------------
NodePlaces ==
    {"labcheck", "firstboot", "stop", "stopcheck", "awaitstop", "restart",
     "startcheck", "awaitboot", "ready"}

\* The job's own steps, without its crash.
Job(r) ==
    \/ Begin(r) \/ Admit(r) \/ PrepareCreate(r) \/ CreateResource(r)
    \/ ClassifyCreate(r) \/ Adopt(r) \/ StartLab(r) \/ CheckLabStart(r)
    \/ Recycle(r) \/ WaitReadiness(r) \/ EstablishTrust(r) \/ Collect(r)
    \/ Own(r) \/ PlanDestroy(r) \/ Destroy(r) \/ ReconcileDestroy(r)
    \/ VerifyAbsent(r) \/ RetireState(r) \/ Conclude(r) \/ Publish(r)

\* Nodes move while a job has to do with them.
Laboratory ==
    /\ \E r \in Runs : pc[r] \in NodePlaces
    /\ LabStep
    /\ UNCHANGED <<jobVars, lab, state, files, recordVars, recovery, faults>>

Next == Laboratory \/ \E r \in Runs : Job(r) \/ Crash(r) \/ Recover(r)

Spec == Init /\ [][Next]_vars

\* Where the job runs Terraform, or collects through Ansible, without a time-out.
Commands ==
    {"inputs", "apply", "createfailed", "adopt", "collect", "own", "plan",
     "destroy", "uncertain", "absent", "retire"}

\* Every other call has a time-out and every wait a deadline. Such a command,
\* the operator, CML and the crash owe nothing.
FairSpec == Spec /\ \A r \in Runs : WF_vars(pc[r] \notin Commands /\ Job(r))

-----------------------------------------------------------------------------
ErrorKinds == {"none", "error", "ambiguous"}

LocalsType ==
    [primary : ErrorKinds, cleanup : ErrorKinds, context : BOOLEAN,
     phases : SUBSET Phases, recycled : SUBSET Members,
     ready : SUBSET Members, trusted : BOOLEAN, collected : SUBSET Members]

Places ==
    {"idle", "admit", "inputs", "apply", "createfailed", "adopt", "startlab",
     "trust", "collect", "own", "plan", "destroy", "uncertain", "absent",
     "retire", "conclude", "annotate", "upload", "receipt"}
        \cup NodePlaces \cup Ended

\* Types of the lifecycle's facts, of Terraform's and CML's state.
TypeOK ==
    /\ ReadinessTypeOK
    /\ pc \in [Runs -> Places]
    /\ lab \in [Runs -> SUBSET Graph] /\ state \in [Runs -> SUBSET Graph]
    /\ files \in [Runs -> SUBSET {"directory", "inputs", "state"}]
    /\ locals \in [Runs -> LocalsType]
    /\ evidence \in [Runs -> Outcomes \cup {"none", "reserved"}]
    /\ receipt \in [Runs -> {"none", "uploaded", "published"}]
    /\ recovery \in [Runs -> {"off", "destroy", "prove", "unlink"}]
    /\ faults \in 0..MaxFaults

(***************************************************************************)
(* What the evidence says of a run is so: after SUCCEEDED or FAILED CML   *)
(* holds nothing of it; SUCCEEDED has collected and recycled everything   *)
(* and its directory is gone; and a receipt, which promotion takes for a  *)
(* proof, is published of a recorded success only                          *)
(* (ProfiledStagingLifecycle.run, buildkite/run_profiled_cml_staging.py). *)
(***************************************************************************)
OutcomeTruth ==
    \A r \in Runs :
        /\ evidence[r] \in {"SUCCEEDED", "FAILED"} => lab[r] = {}
        /\ evidence[r] = "SUCCEEDED" => files[r] = {}
        /\ evidence[r] = "SUCCEEDED" /\ Live(r) => EvidenceSucceeded(r)
        /\ receipt[r] # "none" => evidence[r] = "SUCCEEDED"

(***************************************************************************)
(* A device counts as recycled only if its node, which the interval let   *)
(* persist its configuration, has really booted a second time, however    *)
(* the STOP and START requests were answered (recycle, _put_state_once,   *)
(* _wait_for_state).                                                        *)
(***************************************************************************)
RecycledTwice ==
    \A r \in Runs : 
        pc[r] \in NodePlaces => \A d \in locals[r].recycled : boots[d] = 2

(***************************************************************************)
(* The fixed staging addresses bear one laboratory: whatever crashed or   *)
(* was left behind, no second lab is created beside one that is there     *)
(* (admit_no_staging_collision under the concurrency group).               *)
(***************************************************************************)
SingleLab ==
    \A q, r \in Runs : lab[q] # {} /\ lab[r] # {} => q = r

(***************************************************************************)
(* Neither a run's own cleanup nor a recovery lets go of the Terraform    *)
(* state or of the inputs that destroy it while CML still holds anything  *)
(* of the run (retire_state, recover_profiled_cml_staging.py main).        *)
(***************************************************************************)
RetireOnlyWhenGone ==
    [][\A r \in Runs : ~(files[r] \subseteq files'[r]) => lab[r] = {}]_vars

(***************************************************************************)
(* A job that has begun ends, unless one of its commands never does: what- *)
(* ever fails, times out or is uncertain, no poll, no readiness wait and   *)
(* no recycle keeps it, and it waits for no operator and no other job. The *)
(* exception is the code's: Terraform is run without a time-out            *)
(* (_terraform), and the pipeline sets none for the job.                   *)
(***************************************************************************)
OnlyCommandsHang ==
    \A r \in Runs : Live(r) ~> (pc[r] \in Ended \/ [](pc[r] \in Commands))

(***************************************************************************)
(* "Schema-v3 ProfiledStagingEvidence ... preserves ... per-device        *)
(* readiness and read-only facts ... and separate primary/cleanup         *)
(* failures" (docs/architecture/profiled-disposable-cml-staging.md): a     *)
(* lifecycle that comes to its conclusion has its evidence recorded.       *)
(***************************************************************************)
RunRecorded == \A r \in Runs : pc[r] # "raised"

(***************************************************************************)
(* "state is retained when destruction fails, so cleanup can be diagnosed *)
(* and resumed without state removal or manual CML deletion" (ADR 0014):  *)
(* recovery admits every ended run whose state still lists resources.     *)
(***************************************************************************)
CleanupResumable ==
    \A r \in Runs :
        pc[r] \in Ended /\ recovery[r] = "off" /\ state[r] # {} => RecoveryAdmits(r)
=============================================================================
