--------------------------- MODULE StagingReadiness ---------------------------
(***************************************************************************)
(* The disposable laboratory after its START, and the wait for its        *)
(* management services (_wait_readiness). CML boots and stops nodes and   *)
(* the services come up when they like; the wait looks at the node states *)
(* through bounded GETs, which may fail, and decides between waiting      *)
(* until the normal deadline, extending it once, and giving up.           *)
(*                                                                         *)
(* Time passes in steps of Tick between two rounds of the loop; the code  *)
(* observes node states every 10 s and tries the services every 5 s. An   *)
(* observation takes time as well: its GETs follow one another, each may  *)
(* take up to its time-outs, and the deadlines are compared afterwards.   *)
(***************************************************************************)
EXTENDS Integers, FiniteSets

CONSTANTS
    Members,    \* the devices of the staging scope, in scope order
    Tick,       \* seconds from one round to the next
    Delays,     \* seconds the observation of one round may take
    Slowest     \* no observation takes longer

ASSUME ReadinessAssumption ==
    /\ Members \subseteq Nat \ {0} /\ IsFiniteSet(Members) /\ Members # {}
    /\ Tick \in Nat \ {0}
    /\ Slowest \in Nat /\ Delays \subseteq 0..Slowest /\ Delays # {}

VARIABLES
    power,      \* member -> state of its CML node
    boots,      \* member -> how often the node has booted
    bootedAt,   \* member -> when it booted last, in seconds of the wait
    open,       \* members whose management service accepts connections
    watch       \* the locals of the wait

labVars == <<power, boots, bootedAt, open>>

NormalTimeout == 180
MaximumTimeout == 300
PostBootGrace == 60
Never == -1

\* STARTED stands for QUEUED, STARTED, STARTING and BOOTING.
PowerStates == {"DEFINED_ON_CORE", "STARTED", "BOOTED", "STOPPING", "STOPPED"}
TransitionalStates == {"DEFINED_ON_CORE", "STARTED"}

NewWatch ==
    [clock |-> 0, deadline |-> NormalTimeout, remaining |-> Members,
     seen |-> [d \in Members |-> "unknown"], first |-> [d \in Members |-> Never],
     result |-> "waiting", blind |-> FALSE]

NewPower == [d \in Members |-> "DEFINED_ON_CORE"]
Zero == [d \in Members |-> 0]

ReadinessInit ==
    /\ power = NewPower /\ boots = Zero /\ bootedAt = Zero /\ open = {}
    /\ watch = NewWatch

\* Another lab is created: its nodes are defined, the wait has not begun.
NewLab ==
    /\ power' = NewPower /\ boots' = Zero /\ bootedAt' = Zero /\ open' = {}
    /\ watch' = NewWatch

-----------------------------------------------------------------------------
\* CML: a started node boots, a booted one opens its service, a node asked to
\* stop does so.
Boots(d) ==
    /\ power[d] = "STARTED"
    /\ power' = [power EXCEPT ![d] = "BOOTED"]
    /\ boots' = [boots EXCEPT ![d] = @ + 1]
    /\ bootedAt' = [bootedAt EXCEPT ![d] = watch.clock]
    /\ UNCHANGED <<open, watch>>

Opens(d) ==
    /\ power[d] = "BOOTED" /\ d \notin open
    /\ open' = open \cup {d}
    /\ UNCHANGED <<power, boots, bootedAt, watch>>

Stops(d) ==
    /\ power[d] = "STOPPING"
    /\ power' = [power EXCEPT ![d] = "STOPPED"]
    /\ open' = open \ {d}
    /\ UNCHANGED <<boots, bootedAt, watch>>

LabStep == \E d \in Members : Boots(d) \/ Opens(d) \/ Stops(d)

\* What a GET says of a node: it is BOOTED until it has stopped.
Seen(d) == IF power[d] = "STOPPING" THEN "BOOTED" ELSE power[d]

\* What a PUT that starts or stops a node does, when CML accepts it. A node
\* that is not stopped is not started again.
PoweredOn(D) ==
    [d \in Members |-> IF d \in D /\ power[d] \in {"DEFINED_ON_CORE", "STOPPED"}
                       THEN "STARTED" ELSE power[d]]
PoweredOff(d) ==
    [power EXCEPT ![d] = IF @ \in {"STARTED", "BOOTED"} THEN "STOPPING" ELSE @]

-----------------------------------------------------------------------------
\* Mutant: the grace runs from the observation before, not from the first.
FirstBootedLatest(w, seen) ==
    [d \in Members |-> IF seen[d] = "BOOTED" THEN w.clock ELSE w.first[d]]

FirstBooted(w, seen) ==
    [d \in Members |-> IF seen[d] = "BOOTED" /\ w.first[d] = Never
                       THEN w.clock ELSE w.first[d]]

GraceExpired(w) ==
    \E d \in w.remaining : /\ w.seen[d] = "BOOTED" /\ w.first[d] # Never
                           /\ w.clock >= w.first[d] + PostBootGrace

ExtensionAdmitted(w) ==
    \A d \in w.remaining :
        \/ w.seen[d] \in TransitionalStates
        \/ /\ w.seen[d] = "BOOTED" /\ w.first[d] # Never
           /\ w.clock < w.first[d] + PostBootGrace

\* Mutant: what extends the wait is one more grace, not the maximum.
DeadlineByGrace(w) ==
    IF w.clock >= w.deadline /\ ExtensionAdmitted(w)
    THEN w.deadline + PostBootGrace ELSE w.deadline

\* The normal deadline is extended once, when it is reached.
Deadline(w) ==
    IF w.clock >= w.deadline /\ ExtensionAdmitted(w) THEN MaximumTimeout
    ELSE w.deadline

\* Mutant: nothing ends the wait at the maximum.
GivesUpAtNormalOnly(w) ==
    /\ w.clock >= NormalTimeout
    /\ \/ GraceExpired(w)
       \/ w.deadline = NormalTimeout /\ ~ExtensionAdmitted(w)

GivesUp(w) ==
    \/ w.clock >= NormalTimeout /\ GraceExpired(w)
    \/ w.clock >= Deadline(w)

\* What the evidence of a time-out says of its length: the time it is when a
\* grace has expired, the deadline otherwise. An evidence whose device was seen
\* BOOTED later than that is rejected (evidence_matches_outcome).
TimedOutAt(w) ==
    IF w.clock >= NormalTimeout /\ GraceExpired(w) THEN w.clock ELSE Deadline(w)

GivenUp(w) ==
    IF \E d \in w.remaining : w.first[d] > TimedOutAt(w) THEN "REJECTED"
    ELSE "TIMED_OUT"

\* Sleeping never goes past the deadline.
NextRound(clock, deadline) ==
    IF clock + Tick <= deadline THEN clock + Tick ELSE deadline

\* One observation of the nodes still unresolved, which takes its time. `lost`
\* are the members whose GET failed; their last state is forgotten.
Looked(lost, delay) ==
    LET seen == [d \in Members |->
                    IF d \notin watch.remaining THEN watch.seen[d]
                    ELSE IF d \in lost THEN "unknown" ELSE Seen(d)]
        late == [watch EXCEPT !.clock = @ + delay]
    IN [late EXCEPT !.seen = seen, !.first = FirstBooted(late, seen),
                    !.blind = @ \/ lost # {}]

\* One round: look at the nodes, decide, try the services.
Round(lost, delay) ==
    /\ watch.result = "waiting"
    /\ lost \subseteq watch.remaining
    /\ LET w == Looked(lost, delay)
           rest == w.remaining \ open
       IN watch' =
            IF GivesUp(w) THEN [w EXCEPT !.result = GivenUp(w)]
            ELSE [w EXCEPT
                    !.deadline = Deadline(w),
                    !.remaining = rest,
                    !.result = IF rest = {} THEN "READY" ELSE @,
                    !.clock = IF rest = {} THEN @ ELSE NextRound(@, Deadline(w))]
    /\ UNCHANGED labVars

-----------------------------------------------------------------------------
WatchType ==
    [clock : Nat, deadline : {NormalTimeout, MaximumTimeout},
     remaining : SUBSET Members,
     seen : [Members -> PowerStates \cup {"unknown"}],
     first : [Members -> Nat \cup {Never}],
     result : {"waiting", "READY", "TIMED_OUT", "REJECTED"}, blind : BOOLEAN]

ReadinessTypeOK ==
    /\ power \in [Members -> PowerStates]
    /\ boots \in [Members -> Nat] /\ bootedAt \in [Members -> Nat]
    /\ open \subseteq Members
    /\ watch \in WatchType

(***************************************************************************)
(* The wait gives up between the normal and the maximum deadline, however *)
(* its observations came out, or as late after the maximum as the         *)
(* observation that was under way then: the post-boot grace never shortens *)
(* the normal window and no extension crosses the maximum. It never sleeps *)
(* past the maximum. While every observation succeeds it does not go on,  *)
(* past the normal deadline, for a device that had been up for the whole  *)
(* grace and one observation by then and still refuses. Only a device that *)
(* the last observation saw BOOTED for the first time, past the normal    *)
(* deadline, can leave the time-out unrecorded (_wait_readiness,          *)
(* _post_boot_grace_expired, _extension_is_admitted,                       *)
(* _record_timed_out_readiness).                                            *)
(*                                                                         *)
(* docs/architecture/profiled-disposable-cml-staging.md calls 300 seconds *)
(* the absolute maximum and has every time-out retain the first BOOTED.    *)
(* The code exceeds the one by an observation, and the other fails then.   *)
(***************************************************************************)
ReadinessWindow ==
    /\ watch.result \in {"TIMED_OUT", "REJECTED"} =>
         watch.clock \in NormalTimeout..(MaximumTimeout + Slowest)
    /\ watch.result = "READY" => watch.clock < MaximumTimeout
    /\ watch.result = "waiting" => watch.clock <= MaximumTimeout
    /\ watch.result = "waiting" /\ watch.clock > NormalTimeout /\ ~watch.blind =>
         \A d \in watch.remaining :
            power[d] = "BOOTED" =>
               watch.clock - Tick < bootedAt[d] + Slowest + PostBootGrace
    /\ watch.result = "REJECTED" =>
         /\ watch.clock > NormalTimeout
         /\ \E d \in watch.remaining : watch.first[d] = watch.clock
=============================================================================
