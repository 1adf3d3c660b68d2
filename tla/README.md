# Network change delivery: specifications and proofs

TLA+ modules for the network change delivery platform. The first part is its
profiled delivery path: a change of one interface description on Cisco and Junos
devices that is planned, reviewed, promoted, unblocked by a person, executed with
recovery, observed before and after, and recorded durably. The second is what
surrounds that path: proposed service changes and their assurance, the accepted
state of the managed network, the inventory in NetBox, and the collection of
configurations by Oxidized. Each module names in its header the code it stands for; `PROJECT.json` maps every definition to its
lines (the package is under `src/src/network_change_delivery/`, scripts under
`src/scripts/`, documents under `src/docs/`).

## 1. Inventory

| Part | State it keeps | Operations | Talks to |
| --- | --- | --- | --- |
| Planning and intent (`profiled_planning.py`, `profiled_intent.py`, `profiled_rollout_intent.py`, `profiled_rollout.py`) | none; produces a frozen, digested plan with the observed baseline, and cohorts | read inventory, observe D0, freeze | NetBox, device reads |
| Promotion and authorization (`profiled_promotion.py`, `profiled_rollout_promotion.py`, `profiled_rollout_authorization.py`, `buildkite_*.py`) | same-build artifacts and metadata | bind plan, assurance, staging and the human unblock | Buildkite |
| Delivery jobs (`scripts/buildkite/profiled_delivery.py`, `cli.py`) | one create-only attempt directory per build and job; artifacts, receipts, metadata | plan, promote, deploy, evidence steps | everything below |
| Reservation (`profiled_rollout_reservation.py`) | one lock file per device, held as descriptors | ordered nonblocking acquisition, release | file system |
| Rollout (`profiled_rollout_execution.py`, `_preflight`, `_final_validation`, `_audit`) | locals of one call: attempted, successful, audits, chronologies, stop reason | preflight, child sequence, evidence, final validation, parent | child execution, observation, store |
| Child execution (`profiled_execution.py`) | stage results of one call | approval, preflight, write, POST, recovery or confirmation, record | vendor adapters |
| Cisco adapter (`ansible_adapter.py`) | a private runner directory | read, write, classify the report | device |
| Junos adapter (`junos_adapter.py`) | an exclusive candidate, a pending commit-confirmed on the device | lock, load, diff, commit confirmed, confirm, close | device and its rollback timer |
| Audit store (`audit_store.py`, `profiled_rollout_audit_store.py`, observation stores) | content-addressed artifacts, original bytes, one envelope per record ID | publish by link, reuse, verify, read back | file system |
| Configuration observation (`profiled_configuration_observation.py`, `oxidized_controller.py`, `oxidized_observation.py`) | PRE and POST captures, Git chronology | request a collection, attribute it, bind revisions | Oxidized |
| Oxidized's reconciler (`oxidized_reconciler.py`, `oxidized_source.py`, `oxidized_service.py`, `oxidized_host_trust.py`) | the source file, the container, readiness and ambiguity markers, host trust | refresh, restart, publish readiness, enrol and retire trust | NetBox, OpenBao, Docker |
| Managed state (`managed_state*.py`) | one chain of acceptance records per vertical | resolve, accept, compare, initial adoption | file system, device reads |
| Staging (`profiled_staging*.py`, `scripts/*profiled_cml_staging.py`) | private run directory with Terraform state and recovery inputs, laboratory, one evidence file per build | create, start, recycle, wait, trust, collect, destroy, prove absent, retire, publish, recover | CML, Terraform, Buildkite |
| Service verticals (`routed_underlay.py`, `ospf_triangle.py`, `vlan_service.py`, `security_policy.py`) | none; intent, proposed state D1, reading, rendered lines, assurance evidence | read, propose, render, ask Batfish, evaluate | device reads, Batfish |
| Inventory (`scripts/netbox/migrate_*.py`, `activate_*.py`, `inventory.py`, `profile_inventory.py`, `reference_*.py`) | NetBox's objects, their primary keys, tags and relations | five migrations, four resolvers and the legacy ones | NetBox |
| SNMP (`snmp_*.py`), observability (`observability_*.py`) | target files, receipts, markers | provision, publish, reconcile | device, Prometheus |
| OpenBao scripts | server-side configuration | converge | HTTP |

What is hard, and what each part owes:

* **Child execution.** A report is not the device: it may be lost, partial or
  contradictory, and reads may come from the wrong device. Owed: at most one
  forward write; a second write only on knowledge; a record for every ending
  that has one, accepted by its validator and true; a Junos device that
  restores itself when nobody confirms.
* **Rollout.** Jobs plan without a lock and deliver later; each member has five
  independent failures after its write. Owed: disjoint populations, no write
  over a baseline that was not approved, evidence before further exposure, one
  true and acceptable parent.
* **Reservation.** Several descriptors taken one by one, and jobs that die.
  Owed: mutual exclusion, no mutual refusal, release in every ending.
* **Audit store.** Many publishers, three kinds of files per record, failing
  flushes, power loss. Owed: a receipt that stands for a durable envelope, one
  publisher per record ID, no visible record with missing parts.
* **Staging.** Every call to Terraform or CML may fail, or succeed and be lost;
  jobs are cancelled; what is left must be found again. Owed: an outcome that is
  true of CML, no second laboratory on the fixed addresses, nothing let go of
  before it is gone, a bounded wait, an end for every job.
* **Delivery job.** Jobs are killed, given up while they run on, and begun
  again; five evidence channels fail independently. Owed: a plan executed at most
  once and only the one that was reviewed, exclusive writers, a passed step that
  stands for durable evidence, "NO WRITE" that stays true.
* **Service verticals.** Four services own different keys of one network, each
  reads, renders and is assured by itself. Owed: lines that lead from whatever was
  read to the proposal, a reading that means what it says, an assurance that
  passes exactly what works.
* **Managed state.** Concurrent acceptance without a lock, adoption in two passes
  over a network that changes. Owed: one history, a first state that was read twice.
* **Inventory.** One-shot transactions that draw primary keys which later ones and
  the readers name as literals. Owed: what was reported is there, what is accepted
  is the reference.
* **Collection.** Oxidized runs jobs of its own and stores after it has said that it
  is done; its container, source and trust are replaced underneath. Owed: a bound
  revision no older than its request, readiness that is true of the container.

`PROJECT.json` lists every part under "components" and the hazards at their
lines under "hazards".

## 2. Modules

| Module | Contents |
| --- | --- |
| `ChildTransaction` | what one child promises its caller: at most one forward write, then one ending that is true to it |
| `ProfiledExecution` | `execute_profiled_plan` with both vendor transactions; refines `ChildTransaction` |
| `ProfiledRollout` | protected jobs: reservation, `execute_rollout`, `_single_deploy`; its child calls are `ChildTransaction`s |
| `AuditStore` | concurrent publication of records and their parts, with failures and power loss |
| `StagingReadiness` | laboratory nodes and the readiness wait, `_wait_readiness` |
| `StagingRun` | a build's staging job from reservation to receipt, its cleanup, and recovery; extends `StagingReadiness` |
| `Delivery` | the four delivery steps of a build: attempts, evidence channels, executor process, lock |
| `UnderlayService`, `OspfService`, `VlanService`, `AclService` | the four verticals, each extending the one below: intent, D1, reader, rendered change, Batfish answers and their evaluation |
| `ManagedSnapshot` | the four seen alike: snapshots of an envelope, their comparison, reference networks |
| `ServiceChange` | proposals, their application, drift and assurance over one network |
| `InitialAdoption` | the two-pass adoption of the running network as first accepted state |
| `ManagedStateStore` | the chain of acceptances and its concurrent writers |
| `InventoryAuthority` | NetBox's objects, the five migrations, the operators' edits, the resolvers |
| `ConfigurationCollection` | Oxidized, the observers of a node, the reconciler and its markers |
| `Operations` | the last five procedures, each a behaviour of its own |
| `MC*` | the small instances TLC runs |
| `*Proofs` | theorems, a module per component; `OperationsProofs` and `ServiceProofs` share `Operations`, and `OperationsProofs` extends `InventoryProofs` |

`ProfiledExecution` and `ProfiledRollout` meet in `ChildTransaction`: the first
implements it (`ImplementsChild`, proved), the second uses it per job and
device (`ImplementsChildren`). So what the rollout assumes about a child is
what the executor is shown to do. `Delivery` looks at the same job from the
outside, with one device and an executor that has an outcome; `StagingRun`
gives it the staging receipt it starts from, `ConfigurationCollection` the PRE
and POST observation it brackets the executor with. `Operations` is a sum and
not a product: nothing in the code runs one of its procedures inside another,
and no invariant of one mentions another, so their interleavings would only
multiply the states. It exists to check them with one set of bounds.

### ProfiledExecution

`pc` follows `execute_profiled_plan`: approval and digest (`VerifyApproval`),
`_preflight`, then the Cisco branch (`Execute` ... `Restore`) or the Junos one
(`Enter` ... `Confirmed`). `stages` are the `StageResult` locals, in the same
six slots a `ProfiledChangeRecord` has; `record` and `result` are how the call
ended: with a record, with a record its validator refused ("rejected"), with an
exception ("raised"), or not at all ("crashed"). `ConsistentOutcome` transcribes
the validator, so building a record is a step that can fail.

Around the executor the device has its `running` description, the `pending`
rollback target of a commit-confirmed, and whether the candidate is `locked`.
A write reaches the device or not (`Send`) and is reported as it was, as
failed, or in a contradictory way (`RunnerReports`), and
`ClassifyInterfaceExecution` is the code's reading of that. Reads may return
another device's identity. `RollbackTimer`, `OutOfBandEdit` and `Crash` happen
at any point.

Left out: commands, XML, endpoints, digests and messages. A plan's strategy,
its frozen description and the desired one are what the control depends on.

### ProfiledRollout

One record of `locals` per job holds the locals of `_reserved`: the attempted
prefix of the cohorts, audits and chronologies, the stop reason and its member.
`store` is what the durable store holds for the job. `Plan` happens before the
human pause and takes no lock; `Reserve` takes one lock file per step, in name
order, and gives all of them up on the first refusal; `Preflight` re-reads the
population; `CapturePre`, `Child`, `CapturePost`, `Persist` are one member's
turn; `FinalRead`, `FinalStore` and `Parent` close the rollout. `Correlated` and
`References` transcribe the parent's validator and the store's reference check,
so publishing the parent is a step that can be refused. A single-target job uses
`CapturePre`, the child and `Publish`.

The locks belong to a job's process, its child does not. A single-target job runs its
child as a subprocess (`profiled_delivery.py:175`), which survives a parent that is killed
and holds none of its descriptors; a request that a killed rollout has under way still
arrives; and a Junos device may roll back after the job has ended. `remnant` says what a
job's last child call has left behind: `Crash` frees the locks at once, and `RemnantRead`,
`RemnantWrite` and `RemnantRestores` go on without them, or not. So `NoBlindOverwrite` has an
exception, and states it: a child that has outlived its job writes after another
job has, or the child another job left behind is at work on the device. `NeverBlind`
is the property without the exception, which `RolloutOrphan` shows to be false.
`DisjointPopulations` speaks of jobs, which hold the locks; it says nothing of remnants.

### AuditStore

Each publisher walks `Files`: canonical artifacts, original bytes, envelope.
`Write`, `Flush`, `Link`, `SyncDirectory` and `SyncFails` are the system calls of
`_publish_new`; `Look`, `Verify` and `ReadBack` are the checks of
`persist_artifact`, `persist_profiled_record` and `publish_durable`. `entry` is
what readers see and `disk` the set of contents a power loss may leave; a flush
of a directory makes every name in it certain. Another failing call than those
shown (`open`, `close`, an `errno` other than EEXIST from `link`) ends the
attempt exactly as a failing `Flush` does. The read-back of one artifact in
`persist_input` is subsumed by `Verify`, which reads all of them again.

### StagingReadiness and StagingRun

`pc` follows one job: `Begin` (`scripts/buildkite/run_profiled_cml_staging.py`),
then `ProfiledStagingLifecycle.run` over `LocalTerraformOperations`: `Admit`,
`PrepareCreate`, `CreateResource` ... `Collect`, and, whatever happened, `Own`,
`PlanDestroy` ... `RetireState` and `Conclude`, then `Publish`. `locals` are the
facts the lifecycle keeps: primary and cleanup failure, the context, the phases
that succeeded and the per-device facts. `lab` is what CML holds under the run's
title, `state` what Terraform has recorded; the distance between the two is what
cleanup and recovery have to live with. `files` is the private run directory,
`evidence` and `receipt` what the build publishes. `Recover` is
`recover_profiled_cml_staging.py --execute`, which an operator may run on any
ended job.

A fault is a refused call, a lost response (with or without effect), an
observation that cannot be made, a delete that CML acknowledges without
performing it, a publication that fails, or a job that is cut off. Requests that
CML accepts are slow: nodes boot, stop and open their services by actions of
their own (`LabStep`), and the code's waits may time out before that. A STOP
that was accepted still reads BOOTED until it has happened (`Seen`).

The wait is one action per round of the loop, with the clock in `watch`. `Own`,
`Crash` and each new laboratory forget the nodes: nothing reads them afterwards.
STARTED stands for QUEUED, STARTED, STARTING and BOOTING: all four are transitional
states (`_TRANSITIONAL_CML_NODE_STATES`) and no other decision of the code tells them apart. Jobs run in the order of their builds, one at a time,
as the concurrency group has it. The observation of
a round takes any of `Delays` seconds, since its GETs follow one another and each has a
time-out of its own (`profiled_staging_cml.py:82`); the deadlines are compared afterwards, so
the wait may end as much after the maximum, which
`docs/architecture/profiled-disposable-cml-staging.md:129` and `:135` call absolute. A device first seen
BOOTED by such an observation has evidence that its own model rejects (`REJECTED`): it is
recorded with the time of the observation, the time-out with the deadline, and
`evidence_matches_outcome` wants the first not to exceed the second. `ReadinessWindow`
says exactly how far both go. The connection attempts of a round take
no time of their own: each is limited to what is left until the deadline. Left out: the local runner,
which is not in the group; a Terraform process that outlives its killed job; credentials, topology
slots, digests and SSH details, each of which can only fail, as a call does.

### Delivery

A lane is one build's delivery, single-target or rollout; all lanes change one
device. `build` is what Buildkite holds (artifacts, metadata, receipts, which steps
ended and passed, what the promotion showed, the unblock), `host` what the deploy
host holds (attempt directories, executor, its report, the durable record),
`job` the running step, `slot` the concurrency group and `lock` the device's lock
file. A document is what it was made from: its plan and version, and for a record
the outcome; a channel holds it or not, and channels fail one by one. The engineering steps
before the delivery are over and have left their receipts, except at most one.

A fault is a failed call, a killed job, a job of the deploy queue that Buildkite
gives up although its process runs on (`Lost`), or a step that begins once more
with a retry count of zero. The pipeline forbids the last one; it is there because
the attempt directory is the code's own defence against it. A visible retry is
refused before anything else. Single-target steps are `soft_fail`, so the next
step begins whatever they did; a rollout's are not. Attempt directories are those of
one host, as the code assumes. `ReviewedIsExecuted` and `WritersExclusive` say
what they do not cover: a person who unblocks a build that shows no promotion
has reviewed nothing, and the orphan of a killed single-target job has lost the lock with
its parent (`docs/architecture/profiled-rollout-execution-admission.md:85`); what it can then
overwrite is a question to `ProfiledRollout`.

### The service verticals and ServiceChange

A network is a function from keys `<<device, element, field>>` to small sets of
values: what D1 says, nothing, and one or more other values. Every vertical owns
an envelope of keys. For each one there is its intent and D1 with their
validators (`...Exact`), the reader (`...Read`, which returns the empty set where
the code refuses), the rendered change (`...Render`, `...Changed`: the lines in
the code's order, folded into what they do to the device), the answers
of Batfish (`...Answers`: those of a network, with what was misparsed in it) and the
evaluation of those answers (`...Assured`, one conjunct per question the
code asks). `Settle` is the device: what stands inside a removed interface or
process goes with it. The passive state of an OSPF interface follows the process
default where it is not named, so an edit of the default disturbs the OSPF proposal.

`ServiceChange` proposes, applies and drifts over one network. The code writes
nothing to a device here: `Apply` is somebody who enters the rendered lines.
The starting networks are the last accepted one, D1, and one in which everything is
otherwise. `Assure` asks the questions of the synthetic candidate, with at most one
key that Batfish understood amiss and with or without an initialisation issue.
`ProtectedAsRead` needs, for the flows that are to pass, access ports whose native
VLAN is neither service VLAN: the VLAN reader refuses such a port, the policy's does
not look. Two things the code does are
visible in the formulas: the VLAN reader never reports D1 (an access port is read as unsupported, see
`tests/test_vlan_service.py:238`), so the VLAN comparison after a write is not
claimed; and the policy's lines create subinterface 20 where it was missing.

### ManagedStateStore and InitialAdoption

A record of the chain is the sequence of observations accepted up to it, so its
digest, its predecessor and its generation are all in it. `Accept` is an external
caller: the repository calls `persist_acceptance` only for the adoption. `Link`
and `Flush` are the steps of `_publish_new`; a failed flush takes the link away
if it can, a power failure may take what was not flushed and bring back what was
unlinked. `OneHistory` claims a caller's own publication, in a directory that resolves. It
says nothing of two acceptances that extended one head, after which the directory
never resolves again, nor of a caller that was answered with a file another
caller had linked and not yet flushed.

`InitialAdoption` reads vertical by vertical while the network changes, twice, and
promotes the staging directory by a rename that does not replace. Two operators may run
it at once. A killed adoption leaves its staging directory, which nobody looks
at. A collector that answers the second read with the first is one of the losses.

### InventoryAuthority

An object is its primary key, whether its content is the exact one, what it
refers to, and its marks (tags, roles, purposes). The starting inventory is that of
`docs/acceptance/profiled-netbox-inventory-detour-b3-2.md`: the next device is 8,
the next interface 11, the next address 13. All later primary keys follow from the migrations'
order, and are those the resolvers name as literals. Each migration is a
list of ensured objects run as one transaction (`Transaction`): it may be refused,
killed at any step or rolled back, and then the keys it drew are gone; or it is
committed and its result is lost. After a key was burned a migration may succeed
and its resolver refuse for ever: `ResolvedAsMigrated` asks for success of both only while
nothing was edited and no key was drawn in vain (`clean`), and for the objects themselves, and
for what a resolver may accept, always. The B3-2 migration cannot run again once the devices are
active, and the cables are checked by the resolver, not by the migrations after it.

The several GETs of a resolver are evaluated on one state. Two first runs of one
migration at once are excluded by NetBox, where the unique slug is inserted first. Slugs and permissions are not
numbered, a cable is edited at one end only, and an interface's layer-2 fields and
a device type are folded into whether its value is exact.

### ConfigurationCollection

Oxidized is external and modelled from what the code expects of it: it publishes
a job's end before it stores, runs a job when it has no `node.last`, ignores
a request for a node it is collecting, and commits only content that differs. Contents
are counted by the edits of the device, jobs by their starts; a job that ran at
the time of the request may or may not be within the tolerance of the clock. An
observer is a delivery's PRE and POST capture, with its baseline, or an
operator's single one: both go through `Admit` (lock, readiness), `ReadLast`,
`Submit`, `Poll` and a binding. A job that ended is assumed to store within the
ten seconds of the code's own settlement window. `Reconcile` is
`oxidized_reconciler` with its markers: the readiness marker names container and
trust enrolment, `doubt` and `suspect` are the two ambiguity markers. The marker's fifteen minutes end by the
same action as its retirement. One node is modelled: locks and history are per node.

`ObservedAsCollected` has three exceptions, stated in it, which the code admits:
Oxidized lost what it collected, so "unchanged" is concluded; an earlier job's own
commit came after the baseline was read and is taken for this collection's; and a
reconciliation that replaced the source and ended before the reload (`missed`), after which
the next one finds nothing changed and publishes readiness for a container with the old
source. `docs/adr/0019-persistent-oxidized-service-and-collection-readiness.md:37` says that a
changed source requires a reload before readiness.

## 3. Runs

| Run | Instance | Shows |
| --- | --- | --- |
| `Execution` | both strategies, four descriptions, two out-of-band edits | record acceptance and truth, justified second writes, no exception after a write but the recovery call's, self-restoring device, refinement of `ChildTransaction` |
| `ExecutionLateConfirm` (violation) | `ConfirmInTime = FALSE` | `KnownSuccessPersists`: a confirmation after the rollback confirms nothing and is a success |
| `RolloutRecord` | one rollout, four devices of two families, one out-of-band edit | parent accepted and true, evidence before exposure |
| `RolloutOverlap` | a rollout and either a second one or a single-target job on its devices, fair, two descriptions | disjoint populations, no blind overwrite but where a child that outlived its job takes part, somebody is admitted, nothing stays reserved unless a command never returns |
| `RolloutOrphan` (violation) | two single-target jobs on one device that want it to differ | `NeverBlind`: the executor of a killed job writes over what the next job has delivered |
| `AuditStore` | three publishers sharing artifacts, two with one record ID, one fault | receipts durable and unique, visible records readable |
| `AuditStoreReuse` (violation) | the same | `ReceiptReadable`: an artifact reused before its directory was flushed is withdrawn under a record with a receipt |
| `Staging` | two builds, two devices, one recycled, any two faults, observations that take none or 60 s, fair | outcomes and receipts true, one laboratory, real second boots, a bounded wait, nothing retired too early, every job ends unless a command never returns |
| `StagingEvidence` (violation) | the same, one fault | `RunRecorded`: a device that cannot be read after another one was leaves evidence that its own model refuses; the run ends with an exception and records nothing |
| `StagingResume` (violation) | the same, one fault | `CleanupResumable`: a delete that Terraform did not record leaves a state that no destroy plan matches, and the recovery refuses it for good |
| `Delivery` | a single-target and a rollout build over one device, two versions of a plan, any two faults | executed once and as reviewed, exclusive writers, passed steps recorded, "NO WRITE" true |
| `Operations` | four verticals and one drift; three acceptors and two faults; two adopters, two changes and one loss; five migrations and two mishaps; two observers, three jobs, two reconciliations and one outage | rendered lines converge, the policy protects, assurance separates, one history, an adoption of what was read, an inventory as migrated, observations as collected |

Bounds. Four descriptions are none, the desired one, the frozen one and one
more, which is every way two of them can differ or agree; two edits let one
happen before and one after the write. Four devices of two families give two
canaries and a wave of two, so that a stop can fall in the canaries, between
them, and in the wave. In `RolloutOverlap` a child that does not
succeed escapes, is blocked or is stale, and what it leaves on the device may be undone later;
the outcomes that differ only for the record are in `RolloutRecord`. Two jobs are enough for an overlap; a third has nothing
to add to a lock that is refused, never waited for. In the store three
publishers are the two ways of meeting, over an artifact and over a record ID,
at once; one fault is either a failed flush or a power loss. Two builds of staging
let one meet what the other left behind; two devices, one of them recycled, give
a partial collection, a partial readiness and both ways of booting; one resource
beside the lab is enough for a state and a lab that differ; two faults are a
failure and one more in the cleanup or recovery that follows. A step of the wait
is 60 s, which divides the 60, 180 and 300 s the code compares with; an observation takes
no time or 60 s, four nodes' time-outs of 15 s, so that it can end on a deadline, between two and past
the last. Two lanes
are enough for two jobs on one device; two versions tell a plan made twice
apart; two faults are a job that is lost or begun again and one failing channel.

In `Operations` one drift changes any key to any of its values at any point
between the reads and the changes; that many keys deviate at once is left to the
starting network in which everything is otherwise, and to the theorems, which hold for any
number of drifts. Three acceptors are
two that extend one head and a third that builds on what is resolved. An
adoption reads each vertical twice, so two changes can fall into and between
the passes; `DriftingKeys` has one key of three verticals and an option that
makes a reader refuse. Two mishaps burn a key and edit an object, or edit twice;
`EditedKeys` has an object of each kind a resolver relates. Three jobs are one
before, one at and one after a request; an edit and a failure share one
outage, beside the edit that a delivery itself makes.

Fairness. `FairSpec` of `ProfiledExecution` assumes that the device's timer does not
stop, and nothing of the executor. Terraform (`run_profiled_cml_staging.py:192`, `216`), the
single-target child (`profiled_delivery.py:175`) and the Ansible runs have no
time-out, and the pipeline sets none for its jobs, so no job is assumed to return from such
a command. `FairSpec` of `ProfiledRollout` and of `StagingRun` assume weak fairness of a
job's steps outside its `Commands`: locks are never waited for, every poll has a deadline and every
HTTP call a time-out. What they give is stated accordingly: `OnlyCommandsReserve`
and `OnlyCommandsHang` say that a job which does not end is in one of its commands for ever,
and that nothing else keeps it, a reservation, a refusal, a readiness wait or a recycle
least of all. CML, the operator's recovery and the crash owe nothing: `OnlyCommandsHang` holds with
nodes that never boot. `Crash` is not fair anywhere. Deadlock is checked in the
execution runs; the others end
when all jobs, lanes or procedures have ended. `Delivery` and `Operations` are checked for
safety only: a lane waits for a person, and a procedure is an operator's.

`RecordNeverLost` states its own exception (`RecoveryAloneEscapes`): the recovery call of a Cisco execution stands
in no try block (`profiled_execution.py:618`) and raises when the host's key has gone since
the forward write, so that a known write ends without a record, although
`docs/architecture/recovery-safety.md:31-33` has every known recovery failure recorded.

`ConfirmInTime = TRUE` in `Execution` says that closing the session, the POST
read and the confirmation fit into the five minutes. `OutcomeTruth` needs it, in its run and in
its theorem; `ExecutionLateConfirm` shows what happens without it.

`ParentAccepted` has one exception, stated in the property: the preflight was
positive and storing it failed, so that the parent refers to a preflight the
store does not hold. No child has started then.

## 4. Proofs

All theorems are for every value of the constants that satisfies the module's assumption
(named `...Assumption` there; TLC evaluates each one in a run). What the assumptions ask for
is what the code makes sure of before it starts: a plan wants a description, devices are
finitely many and numbered as their locks are sorted, every job selects some device and a
single-target job one, an artifact never has an envelope's name, builds are numbered, an
initial acceptance exists. No bound of a run is among them: jobs, devices, files, builds,
versions, faults and edits are arbitrary sets and numbers.

| Module | Theorems that state a property of a run | Inductive invariant |
| --- | --- | --- |
| `ProfiledExecutionProofs` | `TypeCorrect`, `RecordsKept`, `RecordsTellTheWrite`, `SecondWriteNeverGuessed`, `RecordsTellTheDevice`, `Implementation` | `IInv`, `DeviceInv` |
| `ProfiledRolloutProofs` | `PopulationsDisjoint`, `Exposures`, `Acceptance`, `Truth`, `Admission`, `TypeCorrect`, `Approved`, `Children` | `LockInv`, `RecordInv`, `RemnantsInv`; `AdmissionInv`, `UneditedInv` |
| `AuditStoreProofs` | `ReceiptsSurvive`, `OneReceipt`, `VisibleRecords`, `StoreTypeCorrect` | `IInv`, `Whole`, `Reached` |
| `DeliveryProofs` | `ExecutedAsReviewed`, `OneExecution`, `RecordedWhenPassed`, `OneWriter`, `NoWriteTold`, `TypeCorrect` | `IInv` |
| `OperationsProofs`, `InventoryProofs` | `Acceptances`, `Adoptions`, `Collections`, `Inventories` | `HistoryInv`; `AdoptionInv`; `CollectionInv`, `SourceInv`; `InventoryInv` |
| `ServiceProofs` | `Renderings`, `Protections`, `Assurances` | `ServiceInv` |
| `StagingRunProofs` | `TypeCorrect`, `RunOutcomes`, `Retirements`, `OneLaboratory`, `Recycles`, `Window` | `RunInv`, `LabInv`, `NodeInv` |

Execution. Whether a record is accepted depends on what the executor knew when it built it.
`IInv` says for each place of the function which stages have been attempted with which
result (`KnownAt`) and which requests can have left (`LeftAt`); there is one lemma per action,
and three lemmas (`ContinueStep`, `RecordStep`, `RaiseStep`) for the three ways a step can end.
`Implementation` then goes step by step: every step of the executor is one of
`ChildTransaction` or a stutter. `RecordsTellTheDevice` is about the device, not about what is known of
it: `DeviceInv` says that nothing but an edit moves the configuration between the desired
read and the end. It has `ConfirmInTime` as its hypothesis, because without it the
property is false (`ExecutionLateConfirm`): a Junos device may have rolled back before the confirmation.

Rollout. `LockInv` says that held sets are disjoint and complete for a working job; the
order of acquisition is not needed for that. It is needed for `Admission`: locks are taken upwards
(`Upward`) and a refused job gives up all of its locks, so a refusal always leaves a
`Survivor`, a job that works or ended, or one that holds a lock above everything that is being given
up. `RecordInv` is the account of one job by place: what its lists, its children's ends
and its stored artifacts are (`Exposure`, `Standing`). A rollout stops before a member
(`StoppedBefore`), at a member whose evidence is complete, partial or missing (`StoppedAt`), or
after all (`Complete`); `ParentReady` is their union, and each of them makes a parent that
`Correlated` and `References` accept. For that the order of a rollout must be a permutation of its
deployable members, which is why `InOrder` is the set of all of them rather than one that is computed.
`RemnantsInv` says what a job may have left behind by place: at most its last child, and a child that
is yet to read or to write only when the job itself was killed.
`Approved` (no blind overwrite) adds that the description a plan froze is still
there at the write (`Unedited`), or the exception applies (`Excused`) and goes on applying
until the write (`Lasting`). Another job's write between `Plan` and `Reserve` is caught by
the child's own read, and after it the exclusive population leaves no job to write. What is left
are remnants: a child still to write found the frozen description at its read, and only a
write of another job, or what that one left on the device, has changed it since.

Store. `IInv` says that an entry which is linked but not flushed still shows its publisher's
content (`Linked`), without which a failing publisher could withdraw another's
envelope, and where a publisher stands among its files (`Progress`). `Whole` says
that contents are flushed before they are linked, so that no name can show a torn file.
`VisibleRecords` needs `Reached`: up to the first fault nothing visible is
withdrawn, and what a publisher has behind it is readable. After one, a reused artifact may
vanish under a record with a receipt (`AuditStoreReuse`).

Delivery. `IInv` is one conjunction per lane, over its build, its host and its job
(`Attempted`, `Planned`, `Recorded`, `Knows`, `Passed`), and who owns the lock and
the slot (`Owned`). Three facts carry it: an attempt directory is made only once, so a lane has
one deploy job at most; a plan is published once and everything later is that plan; and
nothing but the job at hand writes what that job knows.

Procedures. `HistoryInv` says that two callers never claim one record and that a published
one is on disk. That it is then in the history of a directory that resolves is an
induction along the chain; induction theorems are out of the prover's reach, so
`LeastNumber` takes the first predecessor that would be missing. `AdoptionInv` ties each
reading to what was in the network at the time, and the root to one adopter.
`CollectionInv` orders jobs, contents and commits (`JobsInOrder`) and says of each job that may
answer a request that what it collected is in the history, on its way there, or lost
(`AttemptSound`); `SourceInv` says who knows that the source on disk is not the container's.

Inventory. `Inventories` holds whatever operators edit, as often as they like. It
has two halves. While nothing was edited and no primary key drawn in vain, the inventory is
in order: `Canonical` gives every object its primary key, relations, value and marks as a function of the
set of migrations done. That is inductive because a migration that the code lets through comes in
its turn (`RunInOrder`: what a migration asks for first can only have been left by the one
before it) and then draws exactly the numbers of the reference (`RunNumbered`: each step's object
has the number after that of the one before it in its table). So every resolver accepts what was done
(`ResolvesInOrder`), and the reference itself is such an inventory (`ReferenceKnown`). The other half is
`Whole`, what no edit changes: which addresses can refer to a management port, which ports are protected,
that a prefix is named by what it is, that cables have primary keys apart. With it the few
things a resolver reads are enough to know the rest: seven prefixes that are as allocated are
the seven, two ends that find the one cable of the same number are its two ends (`CableAcross`), an
address on a protected port of the device is one of its two (`ProfileRead`). A report stays true
because a later migration only adds marks and sets what is otherwise empty (`MadeRun`). The migrations
are fixed lists of up to 41 steps; `Block` puts them together from a few kinds of step, so that
what a run does (`RunGrown`) is shown once for all five.

Services. What passes an assurance works, and for that no invariant is needed: the lemmas
`UnderlayPassed`, `OspfPassed`, `VlanPassed` and `AclPassed` are about any network whatever, not only
about a candidate with one key misread, which is all TLC tries. The other direction goes through what a
network with the vertical's D1 in it has (`UnderlayStands` and its siblings).
`ServiceInv` says of each proposal that its lines fit the network until somebody enters them
(`Fits`) and that afterwards every owned element is as D1 wants it (`Wanted`), as long as nothing
owned was edited. It is inductive because no two verticals own a key and each one's lines
change only what it owns; the one exception is that the policy creates the subinterface it attaches to, which the
VLAN service wants there anyway. Lines are rendered against what a reader understood, so
`RenderFits` decides for each vertical which readings lead to a proposal at all; `WantedConverges` shows that a
reader which still understands such a network reads D1. For the OSPF verticals the network must be
`Configured`: a Junos interface outside the area has no passive statement, which is what Junos's
syntax says and `Settle` does. `Protections` uses the reader alone: a policy that reads as D1 is attached
to one side of one subinterface and to nothing else (`AclReadsDesired`), wherever the network went.

Staging. Three invariants, each inductive under the ones before it. `RunInv` is
the account of one run by place: what its job has done so far (`OnTheWay`), what CML, the
Terraform state and the directory can hold then (`Holding`), what evidence, receipt and recovery may
say (`Recorded`). `LabInv` adds that jobs run in the order of their builds and that CML holds
nothing of another run while one prepares or applies. `NodeInv` says per device whether it has
been started once, is being recycled, or has booted twice (`NodesOf`), and what the wait may have seen
of the boots (`Watched`). `Window` needs no bound on the pace: an observation that takes at most
`Slowest` seconds ends at most that long after the maximum, which the wait never sleeps past.

TLC checked every inductive invariant on the instance of its run before it was proved (of
`Whole`, with its quantifiers over the devices and ports there are). What is left to TLC, and why:

- `UnconfirmedIsRestored`, `OnlyCommandsReserve`, `OnlyCommandsHang`: liveness under fairness, which
  the proof system does not support.
- The findings of the violation runs, which are false.

## 5. Not modelled, and the plan

Not modelled on purpose: wire formats, digests and canonical JSON; file modes
and ownership; the legacy single-device workflow and fleet; OpenBao and
laboratory realization scripts, which are sequential operator procedures over an
external server; the publications of SNMP and observability targets; SNMP
provisioning; the evidence viewer. `PROJECT.json` gives the reason per part.

Managed directories that the store has
only just made are excluded from `ReceiptDurable` (`Fresh`), because the code never
flushes them into their parents.

What could come next, in order:

1. Proofs: the types of the procedures; a refinement of the staging run to a laboratory
   that exists, or does not, between two receipts.
2. SNMP provisioning, a second and smaller transaction with one device, and the
   guarded publications with their ambiguity marker and the directory lock.
3. An acceptance of a changed service end to end, once the code has a caller
   that persists one: `ServiceChange` and `ManagedStateStore` would then share steps.
