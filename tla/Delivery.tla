------------------------------ MODULE Delivery ------------------------------
(***************************************************************************)
(* The delivery steps of a build, scripts/buildkite/profiled_delivery.py,  *)
(* as .buildkite/pipeline.yml schedules them: plan, promotion, the human   *)
(* block, deploy and evidence.  A lane is one build's single-target or     *)
(* rollout delivery; all lanes change the same device.                     *)
(*                                                                         *)
(* Four things fail independently and are apart here: what Buildkite holds *)
(* (build), the agent host's attempt directories, report and durable store *)
(* (host), the running job (job), and the executor, which is a process of  *)
(* its own in a single-target job and may outlive it.                      *)
(*                                                                         *)
(* A fault is a failed call, a killed job, a job that Buildkite gives up   *)
(* although its process runs on, or a step that runs once more with a      *)
(* retry count of zero.  A visible retry is refused before anything else   *)
(* and changes nothing.  The digest of a document stands for the document. *)
(***************************************************************************)
EXTENDS Naturals, FiniteSets

CONSTANTS
    Singles, Rollouts,  \* the lanes
    Versions,           \* what two plannings of one lane may tell apart
    MaxFaults,          \* bound on the faults of all lanes together
    None

Lanes == Singles \cup Rollouts

Steps == {"plan", "promotion", "deploy", "evidence"}
Prerequisites == {"validation", "batfish", "cml"}
\* How an execution may end, as far as exit statuses tell.
Outcomes == {"SUCCEEDED", "RECOVERED", "FAILED"}
Overall == {"SUCCEEDED", "AMBIGUOUS", "PARTIAL"}
Results == [kind : {"plan", "compliance"}, version : Versions]
Records == [result : Results, outcome : Outcomes \cup {"COMPLIANT"}]

\* None stands for what is not there.
ASSUME DeliveryAssumption ==
    /\ Singles \cap Rollouts = {}
    /\ MaxFaults \in Nat
    /\ None \notin Lanes \cup Steps \cup Results \cup Records \cup Overall

VARIABLES build, host, job,
    slot,    \* the concurrency group ncdp/profiled-live-delivery
    lock,    \* the device's lock file
    faults

shared == <<slot, lock, faults>>
vars == <<build, host, job, shared>>

Channels == {"planning", "promotion", "promotion bytes", "record", "durable", "chronology"}
NoDocuments == [c \in Channels |-> None]
NewBuild == [receipts |-> Prerequisites, artifact |-> NoDocuments, meta |-> NoDocuments,
             shown |-> None, unblocked |-> FALSE, approved |-> None,
             ended |-> {}, passed |-> {}, noWrite |-> FALSE]
NewHost == [directories |-> {}, executor |-> "idle", times |-> 0, executed |-> None,
            report |-> None, record |-> None, chronology |-> None]
Idle == [step |-> None, pc |-> "idle", value |-> None, code |-> 0, post |-> None, failed |-> FALSE]

\* The engineering steps are over; at most one has left no success receipt.
Init ==
    /\ build \in [Lanes -> {[NewBuild EXCEPT !.receipts = @ \ {p}] : p \in Prerequisites \cup {None}}]
    /\ host = [l \in Lanes |-> NewHost]
    /\ job = [l \in Lanes |-> Idle]
    /\ slot = None /\ lock = None /\ faults = 0

-----------------------------------------------------------------------------
(* Jobs *)

At(l, step, pc) == job[l].step = step /\ job[l].pc = pc
Goto(l, pc) == job' = [job EXCEPT ![l].pc = pc]
Fault == faults < MaxFaults /\ faults' = faults + 1

\* The steps of the deploy queue: one job at a time, and an attempt directory
\* that is made once and never removed.
Protected == {"plan", "deploy"}
FreshTemporary(l, s) == TRUE                                           \* mutant
FreshDeployOnly(l, s) == s = "deploy" => s \notin host[l].directories  \* mutant
Fresh(l, s) == s \in Protected => s \notin host[l].directories



\* What lets the next step begin: single-target steps are soft_fail, a rollout's are not.
Over(l, s) == s \in IF l \in Rollouts THEN build[l].passed ELSE build[l].ended
Released(l, s) ==
    CASE s = "plan" -> TRUE
      [] s = "promotion" -> Over(l, "plan")
      [] s = "deploy" -> build[l].unblocked
      [] s = "evidence" -> l \in Singles /\ Over(l, "deploy")

\* A step begins, or begins once more.  An attempt directory that is there
\* already ends the attempt before it has done anything.
Begin(l, s) ==
    /\ job[l].pc = "idle"
    /\ Released(l, s)
    /\ s \in Protected => slot = None
    /\ IF s \in build[l].ended THEN Fault ELSE UNCHANGED faults
    /\ Fresh(l, s)
    /\ host' = [host EXCEPT ![l].directories = @ \cup ({s} \cap Protected)]
    /\ slot' = IF s \in Protected THEN l ELSE slot
    /\ job' = [job EXCEPT ![l].step = s, ![l].pc = "begun"]
    /\ UNCHANGED <<build, lock>>

\* The mutant leaves the lock to whoever comes next.
ExitHolding(l, b, code) ==
    /\ build' = [build EXCEPT ![l] = [b EXCEPT
           !.ended = @ \cup {job[l].step},
           !.passed = IF code = 0 THEN @ \cup {job[l].step} ELSE @]]
    /\ job' = [job EXCEPT ![l] = Idle]
    /\ slot' = IF slot = l THEN None ELSE slot
    /\ lock' = lock

\* The job is over; b is what Buildkite holds of the build by then.  The
\* device's lock goes with the job's descriptors.
Exit(l, b, code) ==
    /\ build' = [build EXCEPT ![l] = [b EXCEPT
           !.ended = @ \cup {job[l].step},
           !.passed = IF code = 0 THEN @ \cup {job[l].step} ELSE @]]
    /\ job' = [job EXCEPT ![l] = Idle]
    /\ slot' = IF slot = l THEN None ELSE slot
    /\ lock' = IF lock = l THEN None ELSE lock


\* A person unblocks after reading what the promotion step has shown.
Unblock(l) ==
    /\ Over(l, "promotion")
    /\ ~ build[l].unblocked
    /\ build' = [build EXCEPT ![l].unblocked = TRUE, ![l].approved = build[l].shown]
    /\ UNCHANGED <<host, job, shared>>

\* The job is killed.  The executor of a single-target job is its child and
\* may stay behind; that of a rollout is the job itself.
Crash(l) ==
    /\ job[l].pc # "idle"
    /\ Fault
    /\ \E orphaned \in BOOLEAN :
         host' = [host EXCEPT ![l].executor =
             IF @ = "running" /\ ~ (orphaned /\ l \in Singles) THEN "ended" ELSE @]
    /\ Exit(l, build[l], 2)

\* Buildkite gives up a job of the deploy queue, whose process runs on.
Lost(l) ==
    /\ slot = l
    /\ Fault
    /\ slot' = None
    /\ build' = [build EXCEPT ![l].ended = @ \cup {job[l].step}]
    /\ UNCHANGED <<host, job, lock>>

\* A call raises in a step that has no answer to it but to end.
Raises(l) ==
    /\ job[l].step \in {"plan", "promotion", "evidence"}
    /\ Fault
    /\ Exit(l, build[l], 2)
    /\ UNCHANGED host

-----------------------------------------------------------------------------
(* Plan and promotion *)

\* The device is read and one typed result made of it.
Observed(l) ==
    /\ \E r \in Results : job' = [job EXCEPT ![l].value = r, ![l].pc = "upload"]
    /\ UNCHANGED <<build, slot, lock>>

Collect(l) ==
    /\ At(l, "plan", "begun") /\ l \in Singles
    /\ Observed(l)
    /\ UNCHANGED <<host, faults>>

\* A rollout looks for its prerequisites before it reads anything.
CollectRollout(l) ==
    /\ At(l, "plan", "begun") /\ l \in Rollouts
    /\ IF build[l].receipts = Prerequisites THEN Observed(l) ELSE Exit(l, build[l], 2)
    /\ UNCHANGED <<host, faults>>

\* An artifact goes up; what is read later is the one that its digest names.
Upload(l, c, next) ==
    /\ job[l].pc = "upload"
    /\ build' = [build EXCEPT ![l].artifact[c] = job[l].value]
    /\ Goto(l, next)
    /\ UNCHANGED <<host, shared>>

PublishDigest(l, c) ==
    /\ job[l].pc = "metadata"
    /\ Exit(l, [build[l] EXCEPT !.meta[c] = job[l].value], 0)
    /\ UNCHANGED <<host, faults>>

Plan(l) ==
    \/ Collect(l) \/ CollectRollout(l)
    \/ job[l].step = "plan" /\ (Upload(l, "planning", "metadata") \/ PublishDigest(l, "planning"))

\* The planning result as a later step admits it.
PlanningResult(l) ==
    IF build[l].meta["planning"] = build[l].artifact["planning"] THEN build[l].meta["planning"] ELSE None

\* The promotion of a plan binds every prerequisite; without them there is none.
Promotion(l, r) == IF build[l].receipts = Prerequisites THEN r ELSE None

\* A compliant result has no promotion.
Mint(l) ==
    /\ At(l, "promotion", "begun")
    /\ LET r == PlanningResult(l) IN
       IF r # None /\ r.kind = "compliance" THEN Exit(l, build[l], 0)
       ELSE IF r = None \/ Promotion(l, r) = None THEN Exit(l, build[l], 2)
       ELSE /\ job' = [job EXCEPT ![l].value = Promotion(l, r), ![l].pc = "upload"]
            /\ UNCHANGED <<build, slot, lock>>
    /\ UNCHANGED <<host, faults>>

Annotate(l) ==
    /\ At(l, "promotion", "annotate")
    /\ build' = [build EXCEPT ![l].shown = job[l].value]
    /\ Goto(l, IF l \in Rollouts THEN "bytes" ELSE "metadata")
    /\ UNCHANGED <<host, shared>>

\* A rollout publishes the digest of its promotion's bytes as well, first.
PublishBytes(l) ==
    /\ At(l, "promotion", "bytes")
    /\ build' = [build EXCEPT ![l].meta["promotion bytes"] = job[l].value]
    /\ Goto(l, "metadata")
    /\ UNCHANGED <<host, shared>>

Promote(l) ==
    \/ Mint(l) \/ Annotate(l) \/ PublishBytes(l)
    \/ job[l].step = "promotion" /\ (Upload(l, "promotion", "annotate") \/ PublishDigest(l, "promotion"))

-----------------------------------------------------------------------------
(* Deploy *)

\* The uploaded promotion is what the published plan and the prerequisites
\* make again, and its digest is the published one.
Authorized(l, r) ==
    LET expected == Promotion(l, r) IN
    /\ expected # None
    /\ build[l].artifact["promotion"] = expected
    /\ build[l].meta["promotion"] = expected

AuthorizedRollout(l, r) ==
    /\ build[l].artifact["promotion"] = build[l].meta["promotion bytes"]
    /\ Authorized(l, r)

\* The end of a deploy job before anything can have been written.
Refuse(l) ==
    Exit(l, [build[l] EXCEPT !.noWrite = @ \/ l \in Singles], IF l \in Singles THEN 2 ELSE 3)

Admit(l) ==
    /\ At(l, "deploy", "begun") /\ l \in Singles
    /\ LET r == PlanningResult(l) IN
       IF r = None \/ (r # None /\ r.kind = "plan" /\ ~ Authorized(l, r)) THEN Refuse(l)
       ELSE /\ job' = [job EXCEPT ![l].value = r,
                                  ![l].pc = IF r.kind = "plan" THEN "reserve" ELSE "persist"]
            /\ UNCHANGED <<build, slot, lock>>
    /\ UNCHANGED <<host, faults>>

AdmitRollout(l) ==
    /\ At(l, "deploy", "begun") /\ l \in Rollouts
    /\ LET r == PlanningResult(l) IN
       IF r # None /\ r.kind = "compliance" THEN Exit(l, build[l], 0)
       ELSE IF r = None \/ ~ AuthorizedRollout(l, r) THEN Refuse(l)
       ELSE /\ job' = [job EXCEPT ![l].value = r, ![l].pc = "reserve"]
            /\ UNCHANGED <<build, slot, lock>>
    /\ UNCHANGED <<host, faults>>

LockIgnored(l) == TRUE      \* mutant
LockFree(l) == lock = None


Reserve(l) ==
    /\ At(l, "deploy", "reserve")
    /\ IF LockFree(l)
       THEN lock' = l /\ Goto(l, IF l \in Singles THEN "prepare" ELSE "spawn") /\ UNCHANGED <<build, slot>>
       ELSE Refuse(l)
    /\ UNCHANGED <<host, faults>>

\* Trust, the durable destination and its inputs, and the PRE chronology.
Prepare(l) ==
    /\ At(l, "deploy", "prepare")
    /\ \/ /\ host[l].record = None
          /\ Goto(l, "spawn")
          /\ UNCHANGED <<build, host, shared>>
       \/ Fault /\ Refuse(l) /\ UNCHANGED host

\* The mutant takes any exception around the child for one before it.
SpawnUnsure(l) ==
    /\ At(l, "deploy", "spawn")
    /\ host' = [host EXCEPT ![l].executor = "running", ![l].report = None,
                            ![l].times = @ + 1, ![l].executed = job[l].value]
    /\ \/ Goto(l, "child") /\ UNCHANGED <<build, shared>>
       \/ Fault /\ Refuse(l)

\* Exactly one child.  When the call itself raises the child may have started.
Spawn(l) ==
    /\ At(l, "deploy", "spawn")
    /\ \/ /\ host' = [host EXCEPT ![l].executor = "running", ![l].report = None,
                                  ![l].times = @ + 1, ![l].executed = job[l].value]
          /\ Goto(l, "child")
          /\ UNCHANGED <<build, shared>>
       \/ /\ l \in Singles
          /\ Fault
          /\ job' = [job EXCEPT ![l].pc = "post", ![l].code = 3]
          /\ UNCHANGED <<build, host, slot, lock>>


\* The executor ends: with a record of its outcome, or with an exception.
ExecutorEnds(l) ==
    /\ host[l].executor = "running"
    /\ \E o \in Outcomes \cup {None} :
         /\ l \in Rollouts => o # "RECOVERED"
         /\ host' = [host EXCEPT ![l].executor = "ended",
                       ![l].report = IF o = None THEN None ELSE [result |-> host[l].executed, outcome |-> o]]
    /\ UNCHANGED <<build, job, shared>>

\* ncdp profiled-deploy exits zero for a recovered device as well.
ExitStatus(report) ==
    IF report # None /\ report.outcome \in {"SUCCEEDED", "RECOVERED"} THEN 0 ELSE 2

Await(l) ==
    /\ At(l, "deploy", "child") /\ l \in Singles
    /\ host[l].executor = "ended"
    /\ job' = [job EXCEPT ![l].pc = "post", ![l].code = ExitStatus(host[l].report)]
    /\ UNCHANGED <<build, host, shared>>

\* One POST capture, then the report.
Post(l) ==
    /\ At(l, "deploy", "post")
    /\ \E post \in Overall \cup {None} :
         job' = [job EXCEPT ![l].post = post,
                            ![l].failed = post # "SUCCEEDED" \/ host[l].report = None,
                            ![l].pc = IF host[l].report = None THEN "annotate" ELSE "record"]
    /\ UNCHANGED <<build, host, shared>>

\* execute_rollout returns with its durable parent, its locks released, or raises.
RolloutEnds(l) ==
    /\ At(l, "deploy", "child") /\ l \in Rollouts
    /\ host[l].executor = "ended"
    /\ IF host[l].report = None
       THEN Exit(l, build[l], 3) /\ UNCHANGED host
       ELSE /\ host' = [host EXCEPT ![l].record = host[l].report]
            /\ job' = [job EXCEPT ![l].pc = "receipt",
                                  ![l].code = IF host[l].report.outcome = "SUCCEEDED" THEN 0 ELSE 3]
            /\ lock' = IF lock = l THEN None ELSE lock
            /\ UNCHANGED <<build, slot>>
    /\ UNCHANGED faults

\* The channels after the boundary fail one by one: a failed one leaves its
\* mark on the exit status and `onward` is where the job goes on then.
Evidence(l, pc, next, onward, effect) ==
    /\ At(l, "deploy", pc)
    /\ \/ effect /\ Goto(l, next) /\ UNCHANGED shared
       \/ /\ Fault
          /\ job' = [job EXCEPT ![l].pc = onward, ![l].failed = TRUE]
          /\ UNCHANGED <<build, host, slot, lock>>

Sent(l, c, value) == build' = [build EXCEPT ![l].artifact[c] = value] /\ UNCHANGED host
Named(l, c, value) == build' = [build EXCEPT ![l].meta[c] = value] /\ UNCHANGED host

UploadRecord(l) == Evidence(l, "record", "persist", "persist", Sent(l, "record", host[l].report))

\* The envelope's outcome is the record's; a compliant result has its own kind.
Envelope(l) ==
    IF job[l].value.kind = "compliance" THEN [result |-> job[l].value, outcome |-> "COMPLIANT"] ELSE host[l].report

PersistRecord(l) ==
    /\ host[l].record = None
    /\ Evidence(l, "persist", "receipt", "annotate",
                host' = [host EXCEPT ![l].record = Envelope(l)] /\ UNCHANGED build)

PublishReceipt(l) ==
    \/ Evidence(l, "receipt", "name", "annotate", Sent(l, "durable", host[l].record))
    \/ Evidence(l, "name", IF l \in Singles /\ job[l].value.kind = "plan" THEN "chronology" ELSE "annotate",
                "annotate", Named(l, "durable", host[l].record))

\* The chronology needs the receipt and a POST attempt that was saved.
PublishChronology(l) ==
    \/ /\ At(l, "deploy", "chronology")
       /\ job[l].post = None
       /\ Goto(l, "annotate")
       /\ UNCHANGED <<build, host, shared>>
    \/ /\ job[l].post # None
       /\ Evidence(l, "chronology", "chronology file", "annotate",
                   host' = [host EXCEPT ![l].chronology = job[l].post] /\ UNCHANGED build)
    \/ Evidence(l, "chronology file", "chronology name", "annotate", Sent(l, "chronology", job[l].post))
    \/ Evidence(l, "chronology name", "annotate", "annotate", Named(l, "chronology", job[l].post))

\* The exit status: the executor's, or that of the evidence.
DeployStatusOfChild(j) == j.code     \* mutant
DeployStatus(j) == IF j.code # 0 THEN j.code ELSE IF j.failed THEN 3 ELSE 0


EndDeploy(l) ==
    /\ At(l, "deploy", "annotate")
    /\ \/ Exit(l, build[l], DeployStatus(job[l])) /\ UNCHANGED faults
       \/ Fault /\ Exit(l, build[l], DeployStatus([job[l] EXCEPT !.failed = TRUE]))
    /\ UNCHANGED host

Deploy(l) ==
    \/ Admit(l) \/ AdmitRollout(l) \/ Reserve(l) \/ Prepare(l) \/ Spawn(l) \/ Await(l) \/ Post(l) \/ RolloutEnds(l)
    \/ UploadRecord(l) \/ PersistRecord(l) \/ PublishReceipt(l) \/ PublishChronology(l) \/ EndDeploy(l)

-----------------------------------------------------------------------------
(* Evidence *)

\* A typed record of the published result, first.
ReadRecord(l) ==
    /\ At(l, "evidence", "begun")
    /\ LET r == PlanningResult(l)
           record == IF r # None /\ r.kind = "compliance"
                     THEN [result |-> r, outcome |-> "COMPLIANT"] ELSE build[l].artifact["record"]
       IN IF r = None \/ record = None \/ (record # None /\ record.result # r)
          THEN Exit(l, build[l], 2)
          ELSE /\ job' = [job EXCEPT ![l].value = record, ![l].pc = "receipts"]
               /\ UNCHANGED <<build, slot, lock>>
    /\ UNCHANGED <<host, faults>>

\* Then the receipts, each bound to its published digest.
Established(l, record) ==
    /\ build[l].artifact["durable"] = record
    /\ build[l].meta["durable"] = record
ChronologyEstablished(l) ==
    /\ build[l].artifact["chronology"] = "SUCCEEDED"
    /\ build[l].meta["chronology"] = "SUCCEEDED"

ReadReceipts(l) ==
    /\ At(l, "evidence", "receipts")
    /\ Exit(l, build[l],
            IF /\ Established(l, job[l].value)
               /\ job[l].value.outcome # "COMPLIANT" => ChronologyEstablished(l)
            THEN 0 ELSE 3)
    /\ UNCHANGED <<host, faults>>

CollectEvidence(l) == ReadRecord(l) \/ ReadReceipts(l)

-----------------------------------------------------------------------------
Lane(l) ==
    \/ \E s \in Steps : Begin(l, s)
    \/ Plan(l) \/ Promote(l) \/ Deploy(l) \/ CollectEvidence(l) \/ Raises(l)

Next == \E l \in Lanes : Lane(l) \/ Unblock(l) \/ ExecutorEnds(l) \/ Crash(l) \/ Lost(l)

Spec == Init /\ [][Next]_vars

-----------------------------------------------------------------------------
(* Properties *)

\* The type invariant: channels hold documents of their own kind, and a lock or
\* a place in the group belongs to a job that runs.
TypeOK ==
    /\ \A l \in Lanes :
         /\ build[l].receipts \subseteq Prerequisites
         /\ \A c \in {"planning", "promotion", "promotion bytes"} :
              {build[l].artifact[c], build[l].meta[c]} \subseteq Results \cup {None}
         /\ \A c \in {"record", "durable"} :
              {build[l].artifact[c], build[l].meta[c]} \subseteq Records \cup {None}
         /\ {build[l].artifact["chronology"], build[l].meta["chronology"]} \subseteq Overall \cup {None}
         /\ build[l].passed \subseteq build[l].ended
         /\ host[l].executor \in {"idle", "running", "ended"}
         /\ {host[l].report, host[l].record} \subseteq Records \cup {None}
    /\ \A owner \in {slot, lock} \ {None} : job[owner].step \in Protected
    /\ lock # None => job[lock].step = "deploy"
    /\ faults \in 0 .. MaxFaults

\* A build executes its plan at most once, although jobs are killed or given
\* up and steps begin again: main's create-only attempt directory
\* (profiled_delivery.py:1225) is what stands between a second deploy and the
\* executor when nothing durable has been written yet.
ExecutedOnce == \A l \in Lanes : host[l].times <= 1

\* What is executed is the plan whose promotion a person had before them when
\* they unblocked, whichever steps ran again before or after that
\* (pipeline.yml: "unblocking authorizes only this exact build/promotion").
\* Who unblocks a build that shows no promotion has reviewed nothing.
ReviewedIsExecuted ==
    \A l \in Lanes :
        host[l].times > 0 /\ build[l].approved # None => host[l].executed = build[l].approved

\* Executors whose jobs are alive are never two, although a job that Buildkite
\* has given up keeps running while the next one begins: the device's lock,
\* not the concurrency group, excludes.  The orphan of a killed single-target
\* job has lost the lock and is outside this promise.
WritersExclusive ==
    Cardinality({l \in Lanes : host[l].executor = "running" /\ job[l].pc = "child"}) <= 1

\* A step that passes stands for durable evidence: a deploy for an outcome that
\* deserves it and, for one device, a complete chronology; the evidence step
\* for a record, equal in the store and in the artifacts, and its chronology.
\* Only a compliant rollout passes without a record.
PassedIsRecorded ==
    \A l \in Lanes :
        LET h == host[l]
            executed == h.record.outcome # "COMPLIANT"
        IN /\ "deploy" \in build[l].passed =>
                \/ l \in Rollouts /\ h.times = 0
                \/ /\ h.record # None
                   /\ h.record.outcome \in {"SUCCEEDED", "COMPLIANT"} \cup (IF l \in Singles THEN {"RECOVERED"} ELSE {})
                   /\ Established(l, h.record)
                   /\ executed => h.executed = h.record.result
                   /\ executed /\ l \in Singles => h.chronology = "SUCCEEDED" /\ ChronologyEstablished(l)
           /\ "evidence" \in build[l].passed =>
                /\ h.record # None
                /\ executed => build[l].artifact["record"] = h.record /\ h.chronology = "SUCCEEDED"

\* An annotation "NO WRITE" is true of the build for good: no executor has
\* been started before it nor will be after it.
NoWriteIsTrue == \A l \in Lanes : build[l].noWrite => host[l].times = 0
=============================================================================
