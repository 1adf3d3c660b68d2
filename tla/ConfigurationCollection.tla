---------------------- MODULE ConfigurationCollection ----------------------
(*************************************************************************)
(* The collection of one node's configuration by Oxidized, the observers *)
(* that bind a collection to a revision of the private Git history       *)
(* (oxidized_controller, oxidized_observation and the PRE and POST       *)
(* captures of a delivery), and the reconciler that keeps the container, *)
(* its source and the readiness marker (oxidized_reconciler).            *)
(*                                                                       *)
(* Oxidized publishes a job's end before it stores what it collected,    *)
(* runs jobs nobody asked for when it starts, and ignores a request for  *)
(* a node it is collecting.                                              *)
(*                                                                       *)
(* Jobs and edits are counted: a job's number is its start, an edit's    *)
(* number the configuration the device has since.                        *)
(*************************************************************************)
EXTENDS Naturals

CONSTANTS MaxJobs,      \* jobs Oxidized starts
          MaxReconciles,
          MaxOutages    \* edits of the device and failures together

VARIABLES device,       \* its configuration
          oxidized,     \* the container: its id, source, node.last, and the job it runs
          jobs,         \* how many jobs were started
          history,      \* the latest revision of the node's path
          lost,         \* jobs whose collection was never stored
          observers, lock,
          source, authority, trust, marker, doubt, suspect, missed, reconciler,
          reconciles, outages

files == <<source, authority, trust, marker, doubt, suspect, missed>>
service == <<files, reconciler, reconciles>>
collection == <<device, oxidized, jobs, history, lost, observers, lock, service, outages>>

Names == {"delivery", "operator"}
NoRevision == [job |-> 0, content |-> 0]
NoLast == [job |-> 0, ok |-> FALSE]
Down == [id |-> 0, source |-> 0, last |-> NoLast, phase |-> "idle", got |-> 0]

\* A container starts without a node.last and collects every such node.
Up(id, from) == [Down EXCEPT !.id = id, !.source = from]

NewAttempt == [pc |-> "baseline", expected |-> NoRevision, before |-> NoRevision, first |-> 0, since |-> 0,
               mark |-> NoLast, accepted |-> 0, after |-> NoRevision]

Starts(container, revision, wanted) ==
    /\ device = 1 /\ oxidized = container /\ jobs = 1 /\ lost = {} /\ history = revision
    /\ observers = [n \in Names |-> NewAttempt] /\ lock = {}
    /\ source = 1 /\ authority = wanted /\ trust = 1 /\ marker = [id |-> 1, trust |-> 1]
    /\ doubt = FALSE /\ suspect = FALSE /\ missed = FALSE
    /\ reconciler = [pc |-> "idle", reload |-> FALSE, changed |-> FALSE]
    /\ reconciles = 0 /\ outages = 0

Begin == Starts(Up(1, 1), NoRevision, 1)

\* The container just started or has collected; the inventory or the credentials
\* may have changed since.
InitCollection ==
    \E last \in {NoLast, [job |-> 1, ok |-> TRUE]}, wanted \in {1, 2} :
       \E revision \in {NoRevision, [job |-> 1, content |-> 1]} :
          Starts([Up(1, 1) EXCEPT !.last = last], revision, wanted)

Outage == outages < MaxOutages /\ outages' = outages + 1

----------------------------------------------------------------------------
(* The device and Oxidized. *)

Change ==
    /\ Outage /\ device' = device + 1
    /\ UNCHANGED <<oxidized, jobs, history, lost, observers, lock, service>>

StartJob ==
    /\ oxidized.id # 0 /\ oxidized.phase = "idle" /\ oxidized.last = NoLast /\ jobs < MaxJobs
    /\ jobs' = jobs + 1
    /\ oxidized' = [oxidized EXCEPT !.phase = "collecting", !.got = device]
    /\ UNCHANGED <<device, history, lost, observers, lock, service, outages>>

\* What a job collects is what the device had at some time since its start.
EndJob ==
    /\ oxidized.phase = "collecting"
    /\ \/ /\ \E c \in oxidized.got..device :
                oxidized' = [oxidized EXCEPT !.phase = "storing", !.got = c, !.last = [job |-> jobs, ok |-> TRUE]]
          /\ UNCHANGED outages
       \/ /\ Outage
          /\ oxidized' = [oxidized EXCEPT !.phase = "idle", !.got = 0, !.last = [job |-> jobs, ok |-> FALSE]]
    /\ UNCHANGED <<device, jobs, history, lost, observers, lock, service>>

\* The path gets a commit only when its content differs.
Store ==
    /\ oxidized.phase = "storing"
    /\ oxidized' = [oxidized EXCEPT !.phase = "idle", !.got = 0]
    /\ \/ /\ history' = IF history.content = oxidized.got THEN history ELSE [job |-> jobs, content |-> oxidized.got]
          /\ UNCHANGED <<lost, outages>>
       \/ Outage /\ lost' = lost \union {jobs} /\ UNCHANGED history
    /\ UNCHANGED <<device, jobs, observers, lock, service>>

\* The container stops, and with it the job.
Stops ==
    /\ oxidized' = Down
    /\ lost' = IF oxidized.phase = "storing" THEN lost \union {jobs} ELSE lost

Die ==
    /\ oxidized.id # 0 /\ Outage /\ Stops
    /\ UNCHANGED <<device, jobs, history, observers, lock, service>>

----------------------------------------------------------------------------
(* An observation: one attempt of the operator's, two of a delivery's. *)

At(n, pc) == observers[n].pc = pc
Set(n, attempt) == observers' = [observers EXCEPT ![n] = attempt]
Environment == <<device, jobs, history, lost, service, outages>>

\* What failed keeps nothing; the controller's lock goes with its process.
Fails(n) == Set(n, [NewAttempt EXCEPT !.pc = "failed"]) /\ lock' = lock \ {n}

\* capture_attempt needs a baseline, and POST needs the one PRE left.
ReadBaseline(n) ==
    /\ At(n, "baseline")
    /\ LET o == observers[n] IN
       IF n = "delivery" /\ (history = NoRevision \/ o.expected \notin {NoRevision, history})
       THEN Fails(n)
       ELSE Set(n, [o EXCEPT !.pc = "admit", !.before = history]) /\ UNCHANGED lock
    /\ UNCHANGED <<oxidized, Environment>>

\* The container runs as this repository defines it; another one is not in the model.
Running == oxidized.id # 0

Trusted == trust # 0

\* The marker is of one container and one enrolment of the hosts' keys.
Marker(id, keys) == [id |-> id, trust |-> keys]
NoMarker == Marker(0, 0)

Ready == ~doubt /\ Running /\ Trusted /\ marker = Marker(oxidized.id, trust)

\* A job that runs at the request started before it, by less than the tolerance or not.
Admit(n) ==
    /\ At(n, "admit")
    /\ IF lock # {} \/ ~Ready THEN Fails(n)
       ELSE /\ lock' = {n}
            /\ \/ Set(n, [observers[n] EXCEPT !.pc = "mark", !.first = jobs + 1, !.since = device])
               \/ /\ oxidized.phase = "collecting"
                  /\ Set(n, [observers[n] EXCEPT !.pc = "mark", !.first = jobs, !.since = oxidized.got])
    /\ UNCHANGED <<oxidized, Environment>>

ReadLast(n) ==
    /\ At(n, "mark")
    /\ IF ~Running THEN Fails(n)
       ELSE Set(n, [observers[n] EXCEPT !.pc = "submit", !.mark = oxidized.last]) /\ UNCHANGED lock
    /\ UNCHANGED <<oxidized, Environment>>

Submit(n) ==
    /\ At(n, "submit")
    /\ IF ~Running THEN Fails(n) /\ UNCHANGED oxidized
       ELSE /\ Set(n, [observers[n] EXCEPT !.pc = "poll"]) /\ UNCHANGED lock
            /\ oxidized' = IF oxidized.phase = "collecting" THEN oxidized ELSE [oxidized EXCEPT !.last = NoLast]
    /\ UNCHANGED Environment

\* A job that started before the request is inconsistent evidence.
Since(o, last) == last.job >= o.first

Poll(n) ==
    /\ At(n, "poll")
    /\ LET o == observers[n]
           last == oxidized.last
       IN  /\ ~Running \/ last \notin {NoLast, o.mark}
           /\ IF Running /\ Since(o, last) /\ last.ok
              THEN /\ Set(n, [o EXCEPT !.pc = "bind", !.accepted = last.job, !.mark = NoLast])
                   /\ lock' = {}
              ELSE Fails(n)
    /\ UNCHANGED <<oxidized, Environment>>

\* A request that times out leaves its job behind; a killed observer too.
GiveUp(n) ==
    /\ At(n, "poll") /\ Outage /\ Fails(n)
    /\ UNCHANGED <<device, oxidized, jobs, history, lost, service>>

Bound(n) == Set(n, [observers[n] EXCEPT !.pc = "bound", !.after = history])

\* A changed revision counts at once, unless its time contradicts the collection.
BindChanged(n) ==
    /\ At(n, "bind") /\ history # observers[n].before
    /\ \/ Bound(n) /\ UNCHANGED outages
       \/ Outage /\ Set(n, [NewAttempt EXCEPT !.pc = "failed"])
    /\ UNCHANGED <<device, oxidized, jobs, history, lost, service, lock>>

\* The mutant takes the end of the job for the end of its storage.
SettledAtOnce(o) == o.accepted # 0

\* The job of a finished collection stores within the window.
Settled(o) == ~(oxidized.phase = "storing" /\ jobs = o.accepted)

BindUnchanged(n) ==
    /\ At(n, "bind") /\ history = observers[n].before /\ Settled(observers[n])
    /\ IF history = NoRevision THEN Set(n, [NewAttempt EXCEPT !.pc = "failed"]) ELSE Bound(n)
    /\ UNCHANGED <<oxidized, Environment, lock>>

\* The delivery executes between its two observations; POST starts from PRE's revision.
Execute ==
    /\ At("delivery", "bound") /\ observers["delivery"].expected = NoRevision
    /\ device' \in {device, device + 1}
    /\ Set("delivery", [NewAttempt EXCEPT !.expected = observers["delivery"].after])
    /\ UNCHANGED <<oxidized, jobs, history, lost, service, outages, lock>>

Observe(n) ==
    \/ ReadBaseline(n) \/ Admit(n) \/ ReadLast(n) \/ Submit(n) \/ Poll(n) \/ GiveUp(n)
    \/ BindChanged(n) \/ BindUnchanged(n)

----------------------------------------------------------------------------
(* The reconciler, and the operators who enrol the hosts' keys. *)

Quiet == <<device, jobs, history, observers, lock>>
Pc(pc) == reconciler' = [reconciler EXCEPT !.pc = pc]
Ends == reconciler' = [pc |-> "idle", reload |-> FALSE, changed |-> FALSE]

\* The marker goes before anything is replaced.
Invalidate ==
    /\ reconciler.pc = "idle" /\ reconciles < MaxReconciles
    /\ reconciles' = reconciles + 1
    /\ reconciler' = [pc |-> "source", reload |-> suspect, changed |-> FALSE]
    /\ marker' = NoMarker
    /\ UNCHANGED <<Quiet, oxidized, lost, source, authority, trust, doubt, suspect, missed, outages>>

\* A source that was replaced, but not known to be, leaves a mark; a reconciler
\* that is killed there leaves none.
ReplacedAndFails ==
    /\ source # authority /\ source' = authority
    /\ \/ suspect' = TRUE /\ UNCHANGED missed
       \/ missed' = TRUE /\ UNCHANGED suspect

Materialize ==
    /\ reconciler.pc = "source"
    /\ \/ /\ source' = authority
          /\ reconciler' = [reconciler EXCEPT !.pc = "container", !.changed = (source # authority)]
          /\ UNCHANGED <<suspect, missed, outages>>
       \/ Outage /\ Ends /\ UNCHANGED <<source, suspect, missed>>
       \/ Outage /\ Ends /\ ReplacedAndFails
    /\ UNCHANGED <<Quiet, oxidized, lost, authority, trust, marker, doubt, reconciles>>

Restart == reconciler.changed \/ reconciler.reload \/ ~Running

Remove ==
    /\ reconciler.pc = "container"
    /\ \/ /\ IF Restart THEN Stops /\ Pc("run") ELSE UNCHANGED <<oxidized, lost>> /\ Pc("publish")
          /\ UNCHANGED <<missed, outages>>
       \/ /\ Outage /\ Ends
          /\ missed' = (missed \/ (reconciler.changed /\ Running))
          /\ UNCHANGED <<oxidized, lost>>
    /\ UNCHANGED <<Quiet, source, authority, trust, marker, doubt, suspect, reconciles>>

\* A container's id is the reconciliation that started it.
RunContainer ==
    /\ reconciler.pc = "run"
    /\ \/ /\ oxidized' = Up(reconciles + 1, source) /\ missed' = FALSE
          /\ Pc("publish")
          /\ UNCHANGED outages
       \/ Outage /\ Ends /\ UNCHANGED <<oxidized, missed>>
    /\ UNCHANGED <<Quiet, lost, source, authority, trust, marker, doubt, suspect, reconciles>>

\* The API answers with every node once the container runs.
NodesAnswer == Running

\* The marker is in doubt until it is known to be durable; the failure may come
\* after it is no longer in doubt.
PublicationFails(published) ==
    \/ doubt' = TRUE /\ marker' \in {marker, published}
    \/ doubt' = FALSE /\ marker' = published

PublishReadiness ==
    /\ reconciler.pc = "publish" /\ Ends
    /\ LET published == Marker(oxidized.id, trust) IN
       \/ IF NodesAnswer /\ Trusted
          THEN marker' = published /\ doubt' = FALSE /\ suspect' = FALSE /\ UNCHANGED outages
          ELSE UNCHANGED <<marker, doubt, suspect, outages>>
       \/ Outage /\ NodesAnswer /\ Trusted /\ PublicationFails(published) /\ UNCHANGED suspect
    /\ UNCHANGED <<Quiet, oxidized, lost, source, authority, trust, missed, reconciles>>

\* New host trust, at first in doubt.
EnrollTrust ==
    /\ Outage /\ trust' \in {0, 2} \ {trust}
    /\ UNCHANGED <<Quiet, oxidized, lost, source, authority, marker, doubt, suspect, missed, reconciler, reconciles>>

\* Retirement takes the marker first; a marker also expires.
RetireTrust ==
    /\ Trusted /\ Outage
    /\ marker' = NoMarker /\ trust' \in {trust, 0}
    /\ UNCHANGED <<Quiet, oxidized, lost, source, authority, doubt, suspect, missed, reconciler, reconciles>>

Reconcile ==
    \/ Invalidate \/ Materialize \/ Remove \/ RunContainer \/ PublishReadiness
    \/ EnrollTrust \/ RetireTrust

CollectOrObserve ==
    \/ Change \/ StartJob \/ EndJob \/ Store \/ Die
    \/ (\E n \in Names : Observe(n)) \/ Execute
    \/ Reconcile

----------------------------------------------------------------------------
(* Properties. *)

\* What an observation binds is a configuration the device had since the request
\* (bind_collection_result), with two exceptions the code admits: Oxidized never
\* stored what the accepted job collected, or a job that started before the request
\* stored its own revision after the baseline was read.  And a container that a
\* collection is admitted to (read_collection_ready) works from the source on
\* disk, unless a reconciliation replaced that source and ended before the reload.
ObservedAsCollected ==
    /\ \A n \in Names :
          LET o == observers[n] IN
          At(n, "bound") => \/ o.after.content >= o.since
                            \/ o.accepted \in lost
                            \/ o.after # o.before /\ o.after.job < o.first /\ o.after.job # o.accepted
    /\ Ready => oxidized.source = source \/ missed
=============================================================================
