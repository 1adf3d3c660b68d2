-------------------------- MODULE StagingRunProofs --------------------------
(***************************************************************************)
(* Proofs about StagingRun, for any set of runs, devices and resources.    *)
(*                                                                         *)
(* Three invariants, each inductive under the ones before it. RunInv is    *)
(* the account of one run: by the place of its job, what it must have done *)
(* and what CML, the Terraform state, its directory, its evidence and its  *)
(* receipt can be (TypeCorrect, RunOutcomes, Retirements). LabInv relates  *)
(* the runs: jobs run in order, and CML holds nothing of another run while *)
(* one prepares or applies (OneLaboratory). NodeInv says, by the place of  *)
(* the job, what the nodes have done and what the wait may have seen       *)
(* (Recycles, Window).                                                      *)
(***************************************************************************)
EXTENDS StagingRun, WellFoundedInduction, TLAPS

-----------------------------------------------------------------------------
(* The account that a run, its laboratory and its records give together. *)

Building == {"adopt", "startlab", "labcheck", "firstboot", "stop", "stopcheck", "awaitstop",
             "restart", "startcheck", "awaitboot", "ready", "trust", "collect"}
Recycling == {"firstboot", "stop", "stopcheck", "awaitstop", "restart", "startcheck", "awaitboot"}
Cleaning == {"own", "plan", "destroy", "uncertain", "absent", "retire"}
Telling == {"annotate", "upload", "receipt"}

\* Everything the evidence of a success lists, but for the cleanup.
Worked(l) ==
    /\ {"create", "start", "read_only"} \subseteq l.phases
    /\ l.recycled = Recycled /\ l.ready = Members /\ l.collected = Members /\ l.trusted

\* What is known of a run at place p: L and S are what CML and the state hold, F
\* the files, l the facts the lifecycle keeps, e the evidence, c the receipt and v
\* the place of its recovery.
OnTheWay(p, l) ==
    /\ p \in {"idle", "admit", "inputs", "apply"} => l.collected = {}
    /\ p \in Building \ {"collect"} => l.collected = {}
    /\ p \in {"idle", "admit", "inputs", "apply", "adopt", "startlab", "labcheck"} =>
           l.recycled = {}
    /\ p \in Building => "create" \in l.phases
    /\ p \in Building \ {"adopt", "startlab", "labcheck"} => "start" \in l.phases
    /\ p \in Recycling => l.recycled \subseteq Recycled /\ l.recycled # Recycled
    /\ p \in {"ready", "trust", "collect"} => l.recycled = Recycled
    /\ p \in {"trust", "collect"} => l.ready = Members
    /\ p = "collect" => l.trusted /\ l.collected # Members

Holding(p, L, S, F, l) ==
    /\ p \in {"idle", "admit", "inputs"} => L = {} /\ S = {}
    /\ p = "idle" => F = {}
    /\ p = "apply" => L = S /\ Last \notin S
    /\ p \in Building => S # {}
    /\ p = "own" /\ S = {} /\ L # {} => l.primary = "ambiguous"
    /\ p = "own" /\ l.primary = "none" => S # {}
    /\ p \in Cleaning /\ l.primary = "none" => Worked(l)
    /\ p \in {"absent", "retire"} => "destroy" \in l.phases
    /\ p = "retire" => "absence" \in l.phases
    /\ p = "conclude" /\ l.cleanup = "none" /\ l.primary # "ambiguous" => L = {}
    /\ p = "conclude" /\ l.cleanup = "none" /\ l.primary = "none" =>
           F = {} /\ Worked(l) /\ l.phases = Phases

Recorded(p, L, F, l, e, c, v) ==
    /\ e \in {"SUCCEEDED", "FAILED"} => L = {} /\ p \in Telling \cup {"done", "crashed"}
    /\ e = "SUCCEEDED" => F = {}
    /\ p \in Telling => e = "SUCCEEDED" /\ Worked(l) /\ l.phases = Phases
    /\ c # "none" => e = "SUCCEEDED"
    /\ v # "off" => p \in Ended
    /\ v = "unlink" => L = {}

RunInv ==
    \A r \in Runs :
        /\ OnTheWay(pc[r], locals[r])
        /\ Holding(pc[r], lab[r], state[r], files[r], locals[r])
        /\ Recorded(pc[r], lab[r], files[r], locals[r], evidence[r], receipt[r], recovery[r])
-----------------------------------------------------------------------------
(* One job at a time, and one laboratory. *)
LabInv ==
    /\ \A q, r \in Runs : q < r /\ pc[r] # "idle" => pc[q] \in Ended
    /\ \A q, r \in Runs : q # r /\ pc[r] \in {"inputs", "apply"} => lab[q] = {}
    /\ SingleLab
-----------------------------------------------------------------------------
(* The nodes while a job has to do with them, and the wait. *)
Fresh ==
    /\ power = NewPower /\ boots = Zero /\ bootedAt = Zero /\ open = {} /\ watch = NewWatch

\* A node that has not been asked to stop.
Once(d) ==
    \/ power[d] \in {"DEFINED_ON_CORE", "STARTED"} /\ boots[d] = 0
    \/ power[d] = "BOOTED" /\ boots[d] = 1

Twice(d) == power[d] = "BOOTED" /\ boots[d] = 2

\* The node that is being recycled, by the place of the job.
BeingRecycled(p, d) ==
    CASE p = "stop" -> power[d] = "BOOTED" /\ boots[d] = 1
      [] p \in {"stopcheck", "awaitstop"} ->
             power[d] \in {"BOOTED", "STOPPING", "STOPPED"} /\ boots[d] = 1
      [] p = "restart" -> power[d] = "STOPPED" /\ boots[d] = 1
      [] p = "startcheck" ->
             (power[d] \in {"STOPPED", "STARTED"} /\ boots[d] = 1) \/ Twice(d)
      [] p = "awaitboot" -> (power[d] = "STARTED" /\ boots[d] = 1) \/ Twice(d)
      [] OTHER -> Once(d)

\* The first sight of a booted node is no later than one observation after its boot.
Watched ==
    /\ watch.result = "waiting"
    /\ watch.clock > NormalTimeout => watch.deadline = MaximumTimeout
    /\ watch.deadline = MaximumTimeout => watch.clock >= NormalTimeout
    /\ \A d \in Members : watch.seen[d] = "BOOTED" => watch.first[d] # Never
    /\ \A d \in Members : watch.first[d] <= watch.clock
    /\ ~watch.blind =>
          \A d \in Members :
             /\ watch.first[d] # Never =>
                    power[d] = "BOOTED" /\ watch.first[d] <= bootedAt[d] + Slowest
             /\ d \in watch.remaining /\ power[d] = "BOOTED" /\ watch.first[d] = Never =>
                    bootedAt[d] = watch.clock
             /\ d \in watch.remaining /\ watch.first[d] # Never /\ watch.clock > NormalTimeout =>
                    watch.clock - Tick < watch.first[d] + PostBootGrace

\* Every node has been recycled, is being recycled, or has been started once.
Node(p, l, subject, d) ==
    IF d \in l.recycled THEN Twice(d)
    ELSE IF p \in Recycling /\ d = subject THEN BeingRecycled(p, d)
    ELSE Once(d)

NodesOf(r) ==
    /\ pc[r] \in {"adopt", "startlab"} \/ (pc[r] = "apply" /\ state[r] # {}) => Fresh
    /\ pc[r] \in NodePlaces => \A d \in Members : Node(pc[r], locals[r], Subject(r), d)
    /\ pc[r] \in NodePlaces \ {"ready"} => watch = NewWatch /\ bootedAt = Zero
    /\ pc[r] = "ready" => Watched

\* A round that decides nothing, or that all services are up, is in time; one that
\* gives up is at most one observation late.
InTime ==
    /\ watch.result = "waiting" => watch.clock <= watch.deadline
    /\ watch.result = "READY" => watch.clock < watch.deadline
    /\ watch.result \in {"TIMED_OUT", "REJECTED"} =>
         watch.clock \in NormalTimeout..(MaximumTimeout + Slowest)
    /\ watch.result = "REJECTED" =>
         /\ watch.clock > NormalTimeout
         /\ \E d \in watch.remaining : watch.first[d] = watch.clock

Waiting ==
    /\ InTime
    /\ watch.result = "waiting" => watch = NewWatch \/ \E r \in Runs : pc[r] = "ready"

NodeInv == Waiting /\ \A r \in Runs : NodesOf(r)

\* A step puts x for run r, or leaves the run what it has.
Put(f, g, r, x) == g = [f EXCEPT ![r] = x] \/ (g = f /\ x = f[r])

\* A step of one run leaves the account of the others alone.
LEMMA RunMoves ==
  ASSUME TypeOK, RunInv, NEW r \in Runs, ReadinessTypeOK', faults' \in 0..MaxFaults,
         NEW p \in Places, NEW L \in SUBSET Graph, NEW S \in SUBSET Graph,
         NEW F \in SUBSET {"directory", "inputs", "state"}, NEW l \in LocalsType,
         NEW e \in Outcomes \cup {"none", "reserved"},
         NEW c \in {"none", "uploaded", "published"},
         NEW v \in {"off", "destroy", "prove", "unlink"},
         Put(pc, pc', r, p), Put(lab, lab', r, L), Put(state, state', r, S),
         Put(files, files', r, F), Put(locals, locals', r, l), Put(evidence, evidence', r, e),
         Put(receipt, receipt', r, c), Put(recovery, recovery', r, v),
         OnTheWay(p, l), Holding(p, L, S, F, l), Recorded(p, L, F, l, e, c, v)
  PROVE  TypeOK' /\ RunInv'
<1>1. /\ pc' \in [Runs -> Places] /\ pc'[r] = p
      /\ \A q \in Runs \ {r} : pc'[q] = pc[q]
  BY DEF Put, TypeOK
<1>2. /\ lab' \in [Runs -> SUBSET Graph] /\ lab'[r] = L
      /\ \A q \in Runs \ {r} : lab'[q] = lab[q]
  BY DEF Put, TypeOK
<1>3. /\ state' \in [Runs -> SUBSET Graph] /\ state'[r] = S
      /\ \A q \in Runs \ {r} : state'[q] = state[q]
  BY DEF Put, TypeOK
<1>4. /\ files' \in [Runs -> SUBSET {"directory", "inputs", "state"}] /\ files'[r] = F
      /\ \A q \in Runs \ {r} : files'[q] = files[q]
  BY DEF Put, TypeOK
<1>5. /\ locals' \in [Runs -> LocalsType] /\ locals'[r] = l
      /\ \A q \in Runs \ {r} : locals'[q] = locals[q]
  BY DEF Put, TypeOK
<1>6. /\ evidence' \in [Runs -> Outcomes \cup {"none", "reserved"}] /\ evidence'[r] = e
      /\ \A q \in Runs \ {r} : evidence'[q] = evidence[q]
  BY DEF Put, TypeOK
<1>7. /\ receipt' \in [Runs -> {"none", "uploaded", "published"}] /\ receipt'[r] = c
      /\ \A q \in Runs \ {r} : receipt'[q] = receipt[q]
  BY DEF Put, TypeOK
<1>8. /\ recovery' \in [Runs -> {"off", "destroy", "prove", "unlink"}] /\ recovery'[r] = v
      /\ \A q \in Runs \ {r} : recovery'[q] = recovery[q]
  BY DEF Put, TypeOK
<1>9. TypeOK'
  BY <1>1, <1>2, <1>3, <1>4, <1>5, <1>6, <1>7, <1>8 DEF TypeOK
<1>10. ASSUME NEW q \in Runs
       PROVE  /\ OnTheWay(pc'[q], locals'[q])
              /\ Holding(pc'[q], lab'[q], state'[q], files'[q], locals'[q])
              /\ Recorded(pc'[q], lab'[q], files'[q], locals'[q], evidence'[q], receipt'[q],
                          recovery'[q])
  <2>1. CASE q = r
    BY <1>1, <1>2, <1>3, <1>4, <1>5, <1>6, <1>7, <1>8, <2>1
  <2>2. CASE q # r
    BY <1>1, <1>2, <1>3, <1>4, <1>5, <1>6, <1>7, <1>8, <2>2 DEF RunInv
  <2> QED
    BY <2>1, <2>2
<1> QED
  BY <1>9, <1>10 DEF RunInv

\* What is known of one run.
Known(r) ==
    /\ pc[r] \in Places /\ lab[r] \in SUBSET Graph /\ state[r] \in SUBSET Graph
    /\ files[r] \in SUBSET {"directory", "inputs", "state"} /\ locals[r] \in LocalsType
    /\ evidence[r] \in Outcomes \cup {"none", "reserved"}
    /\ receipt[r] \in {"none", "uploaded", "published"}
    /\ recovery[r] \in {"off", "destroy", "prove", "unlink"}
    /\ OnTheWay(pc[r], locals[r])
    /\ Holding(pc[r], lab[r], state[r], files[r], locals[r])
    /\ Recorded(pc[r], lab[r], files[r], locals[r], evidence[r], receipt[r], recovery[r])

LEMMA RunKnown ==
  ASSUME TypeOK, RunInv, NEW r \in Runs
  PROVE  Known(r)
  BY DEF TypeOK, RunInv, Known

\* The job only goes on, and may note some facts.
LEMMA JobMoves ==
  ASSUME TypeOK, RunInv, NEW r \in Runs, ReadinessTypeOK', faults' \in 0..MaxFaults,
         UNCHANGED <<lab, state, files, evidence, receipt, recovery>>,
         pc[r] \notin {"idle", "apply"} \cup Telling \cup Ended,
         NEW p \in Places \ ({"idle", "apply"} \cup Telling), NEW l \in LocalsType,
         Put(pc, pc', r, p), Put(locals, locals', r, l),
         OnTheWay(p, l), Holding(p, lab[r], state[r], files[r], l)
  PROVE  TypeOK' /\ RunInv'
<1>1. Known(r)
  BY RunKnown
<1>2. Recorded(p, lab[r], files[r], l, evidence[r], receipt[r], recovery[r])
  BY <1>1 DEF Known, Recorded, Telling, Ended
<1>3. /\ Put(lab, lab', r, lab[r]) /\ Put(state, state', r, state[r])
      /\ Put(files, files', r, files[r]) /\ Put(evidence, evidence', r, evidence[r])
      /\ Put(receipt, receipt', r, receipt[r]) /\ Put(recovery, recovery', r, recovery[r])
  BY DEF Put
<1>4. /\ lab[r] \in SUBSET Graph /\ state[r] \in SUBSET Graph
      /\ files[r] \in SUBSET {"directory", "inputs", "state"}
      /\ evidence[r] \in Outcomes \cup {"none", "reserved"}
      /\ receipt[r] \in {"none", "uploaded", "published"}
      /\ recovery[r] \in {"off", "destroy", "prove", "unlink"} /\ p \in Places
  BY <1>1 DEF Known
<1> QED
  BY <1>2, <1>3, <1>4, RunMoves

LEMMA SoundOrFaulty ==
  ASSUME TypeOK, Sound \/ Faulty
  PROVE  faults' \in 0..MaxFaults
  BY RunAssumption DEF TypeOK, Sound, Faulty

LEMMA JobFails ==
  ASSUME TypeOK, RunInv, NEW r \in Runs, ReadinessTypeOK', faults' \in 0..MaxFaults,
         UNCHANGED <<lab, state, files, evidence, receipt, recovery>>,
         pc[r] \notin {"idle", "apply"} \cup Telling \cup Ended,
         NEW kind \in {"error", "ambiguous"}, Fails(r, kind),
         state[r] = {} /\ lab[r] # {} => kind = "ambiguous"
  PROVE  TypeOK' /\ RunInv'
<1>1. Known(r)
  BY RunKnown
<1>2. PICK l : l = [locals[r] EXCEPT !.primary = kind]
  OBVIOUS
<1>3. l \in LocalsType /\ l.primary = kind
  BY <1>1, <1>2 DEF Known, LocalsType, ErrorKinds
<1>4. Put(pc, pc', r, "own") /\ Put(locals, locals', r, l)
  BY <1>2 DEF Fails, Goto, Put
<1>5. OnTheWay("own", l) /\ Holding("own", lab[r], state[r], files[r], l)
  BY <1>3 DEF OnTheWay, Holding, Building, Recycling, Cleaning
<1>6. "own" \in Places \ ({"idle", "apply"} \cup Telling)
  BY DEF Places, Telling
<1> QED
  BY <1>3, <1>4, <1>5, <1>6, JobMoves

\* A nonempty set of natural numbers has a least member.
LEMMA LowestIn ==
  ASSUME NEW T \in SUBSET Nat, T # {}
  PROVE  Lowest(T) \in T /\ \A y \in T : Lowest(T) <= y
<1>1. PICK x \in T : \A y \in T : <<y, x>> \notin OpToRel(<, Nat)
  BY NatLessThanWellFounded, WFMin
<1>2. \A y \in T : ~(y < x)
  BY <1>1 DEF OpToRel
<1>3. x \in Nat /\ \A y \in T : y \in Nat
  OBVIOUS
<1>4. \A y \in T : x <= y
  BY ONLY <1>2, <1>3
<1> QED
  BY <1>4 DEF Lowest

\* What a round of the wait has seen before it decides.
SeenNow(lost) ==
    [d \in Members |-> IF d \notin watch.remaining THEN watch.seen[d]
                       ELSE IF d \in lost THEN "unknown" ELSE Seen(d)]
Late(delay) == [watch EXCEPT !.clock = @ + delay]

LEMMA LookedIs ==
  ASSUME ReadinessTypeOK, NEW lost \in SUBSET watch.remaining, NEW delay \in Delays,
         NEW w, w = Looked(lost, delay)
  PROVE  /\ w \in WatchType /\ delay \in 0..Slowest
         /\ w.clock = watch.clock + delay /\ w.deadline = watch.deadline
         /\ w.result = watch.result
         /\ w.remaining = watch.remaining /\ w.seen = SeenNow(lost)
         /\ w.first = FirstBooted(Late(delay), SeenNow(lost))
         /\ w.blind <=> watch.blind \/ lost # {}
<1>1. /\ watch \in WatchType /\ watch.remaining \in SUBSET Members /\ watch.clock \in Nat
      /\ watch.seen \in [Members -> PowerStates \cup {"unknown"}]
      /\ watch.first \in [Members -> Nat \cup {Never}]
      /\ power \in [Members -> PowerStates]
  BY DEF ReadinessTypeOK, WatchType
<1>2. \A d \in Members : Seen(d) \in PowerStates
  BY <1>1 DEF Seen, PowerStates
<1>3. SeenNow(lost) \in [Members -> PowerStates \cup {"unknown"}]
  BY <1>1, <1>2 DEF SeenNow
<1>4. delay \in 0..Slowest /\ delay \in Nat
  BY ReadinessAssumption
<1>5. PICK t : t = watch.clock + delay
  OBVIOUS
<1>6. t \in Nat
  BY <1>1, <1>4, <1>5
<1>7. /\ Late(delay).clock = t /\ Late(delay).first = watch.first
      /\ Late(delay) = [watch EXCEPT !.clock = t]
  BY <1>1, <1>5 DEF Late, WatchType
<1>8. FirstBooted(Late(delay), SeenNow(lost)) \in [Members -> Nat \cup {Never}]
  BY <1>1, <1>6, <1>7 DEF FirstBooted
<1>9. PICK b : b = (watch.blind \/ lost # {})
  OBVIOUS
<1>10. b \in BOOLEAN /\ (b <=> watch.blind \/ lost # {})
  BY <1>9, Zenon
<1>11. PICK f : f = FirstBooted(Late(delay), SeenNow(lost))
  OBVIOUS
<1>12. PICK s : s = SeenNow(lost)
  OBVIOUS
<1>13. /\ w = [Late(delay) EXCEPT !.seen = s, !.first = f, !.blind = b]
  <2>1. w = [Late(delay) EXCEPT !.seen = s, !.first = f, !.blind = @ \/ lost # {}]
    BY <1>11, <1>12 DEF Looked, Late, SeenNow
  <2>2. Late(delay).blind = watch.blind
    BY <1>1, <1>7 DEF WatchType
  <2> QED
    BY <1>9, <2>1, <2>2
<1>14. /\ Late(delay) \in WatchType /\ Late(delay).clock = t
       /\ Late(delay).deadline = watch.deadline /\ Late(delay).result = watch.result
       /\ Late(delay).remaining = watch.remaining
  BY ONLY <1>1, <1>6, <1>7 DEF WatchType
<1>15. s \in [Members -> PowerStates \cup {"unknown"}] /\ f \in [Members -> Nat \cup {Never}]
  BY <1>3, <1>8, <1>11, <1>12
<1>16. PICK v : v = Late(delay)
  OBVIOUS
<1>17. /\ v \in WatchType /\ w = [v EXCEPT !.seen = s, !.first = f, !.blind = b]
  BY <1>13, <1>14, <1>16
<1>18. /\ w \in WatchType
       /\ w.clock = v.clock /\ w.deadline = v.deadline /\ w.result = v.result
       /\ w.remaining = v.remaining /\ w.seen = s /\ w.first = f /\ w.blind = b
  BY ONLY <1>10, <1>15, <1>17 DEF WatchType
<1> QED
  BY <1>4, <1>5, <1>10, <1>11, <1>12, <1>14, <1>16, <1>18

\* How a round ends.
LEMMA RoundIs ==
  ASSUME ReadinessTypeOK, NEW lost \in SUBSET watch.remaining, NEW delay \in Delays,
         Round(lost, delay), NEW w, w = Looked(lost, delay)
  PROVE  /\ watch' \in WatchType /\ UNCHANGED labVars /\ watch.result = "waiting"
         /\ watch'.first = w.first /\ watch'.blind = w.blind /\ watch'.seen = w.seen
         /\ watch'.remaining \subseteq watch.remaining
         /\ GivesUp(w) => watch'.result = GivenUp(w) /\ watch'.remaining = w.remaining
                          /\ watch'.result \in {"TIMED_OUT", "REJECTED"}
                          /\ watch'.clock = w.clock /\ watch'.deadline = w.deadline
         /\ ~GivesUp(w) =>
               /\ watch'.deadline = Deadline(w)
               /\ watch'.remaining = w.remaining \ open
               /\ watch'.result = IF w.remaining \ open = {} THEN "READY" ELSE "waiting"
               /\ watch'.clock = IF w.remaining \ open = {} THEN w.clock
                                 ELSE NextRound(w.clock, Deadline(w))
<1>1. /\ w \in WatchType /\ w.remaining = watch.remaining
      /\ watch.result = "waiting" /\ w.result = watch.result
  BY LookedIs DEF Round
<1>2. watch' = IF GivesUp(w) THEN [w EXCEPT !.result = GivenUp(w)]
               ELSE [w EXCEPT !.deadline = Deadline(w), !.remaining = w.remaining \ open,
                       !.result = IF w.remaining \ open = {} THEN "READY" ELSE @,
                       !.clock = IF w.remaining \ open = {} THEN @ ELSE NextRound(@, Deadline(w))]
  BY DEF Round
<1>3. PICK t, q, c : /\ t = Deadline(w)
                     /\ q = IF w.remaining \ open = {} THEN "READY" ELSE "waiting"
                     /\ c = IF w.remaining \ open = {} THEN w.clock ELSE NextRound(w.clock, t)
  OBVIOUS
<1>4. t \in {NormalTimeout, MaximumTimeout} /\ q \in {"READY", "waiting"} /\ c \in Nat
  BY <1>1, <1>3, ReadinessAssumption
  DEF WatchType, Deadline, NextRound, NormalTimeout, MaximumTimeout
<1>5. CASE GivesUp(w)
  <2>1. PICK g : g = GivenUp(w)
    OBVIOUS
  <2>2. watch' = [w EXCEPT !.result = g] /\ g \in {"TIMED_OUT", "REJECTED"}
    BY <1>2, <1>5, <2>1 DEF GivenUp
  <2>3. /\ watch' \in WatchType /\ watch'.first = w.first /\ watch'.blind = w.blind
        /\ watch'.seen = w.seen
        /\ watch'.remaining = w.remaining /\ watch'.result = g
        /\ watch'.clock = w.clock /\ watch'.deadline = w.deadline
    BY ONLY <1>1, <2>2 DEF WatchType
  <2> QED
    BY <1>1, <1>5, <2>2, <2>3 DEF Round
<1>6. CASE ~GivesUp(w)
  <2>1. watch' = [w EXCEPT !.deadline = t, !.remaining = w.remaining \ open,
                           !.result = q, !.clock = c]
    BY <1>1, <1>2, <1>3, <1>6
  <2>2. /\ watch' \in WatchType /\ watch'.first = w.first /\ watch'.blind = w.blind
        /\ watch'.seen = w.seen
        /\ watch'.remaining = w.remaining \ open /\ watch'.result = q
        /\ watch'.clock = c /\ watch'.deadline = t
    BY ONLY <1>1, <1>4, <2>1 DEF WatchType
  <2> QED
    BY <1>1, <1>3, <1>6, <2>2 DEF Round
<1> QED
  BY <1>5, <1>6

LEMMA FreshTypes ==
  /\ NewPower \in [Members -> PowerStates] /\ Zero \in [Members -> Nat] /\ NewWatch \in WatchType
  BY DEF NewPower, Zero, NewWatch, WatchType, PowerStates, NormalTimeout, MaximumTimeout, Never

\* Whatever the nodes and the wait do.
LEMMA ReadinessTypes ==
  ASSUME ReadinessTypeOK,
         \/ UNCHANGED <<labVars, watch>>
         \/ NewLab
         \/ LabStep
         \/ /\ UNCHANGED <<boots, bootedAt, open, watch>>
            /\ \/ power' = power
               \/ \E D \in SUBSET Members : power' = PoweredOn(D)
               \/ \E d \in Members : power' = PoweredOff(d)
         \/ \E lost \in SUBSET watch.remaining, delay \in Delays : Round(lost, delay)
  PROVE  ReadinessTypeOK'
<1>1. CASE UNCHANGED <<labVars, watch>>
  BY <1>1 DEF labVars, ReadinessTypeOK
<1>2. CASE NewLab
  BY <1>2, FreshTypes DEF NewLab, ReadinessTypeOK
<1>3. CASE LabStep
  <2>1. watch.clock \in Nat
    BY DEF ReadinessTypeOK, WatchType
  <2> QED
    BY <1>3, <2>1 DEF LabStep, Boots, Opens, Stops, ReadinessTypeOK, PowerStates
<1>4. CASE /\ UNCHANGED <<boots, bootedAt, open, watch>>
           /\ \/ power' = power
              \/ \E D \in SUBSET Members : power' = PoweredOn(D)
              \/ \E d \in Members : power' = PoweredOff(d)
  <2>1. power \in [Members -> PowerStates]
    BY DEF ReadinessTypeOK
  <2>2. power' \in [Members -> PowerStates]
    BY <1>4, <2>1 DEF PoweredOn, PoweredOff, PowerStates
  <2> QED
    BY <1>4, <2>2 DEF ReadinessTypeOK
<1>5. CASE \E lost \in SUBSET watch.remaining, delay \in Delays : Round(lost, delay)
  <2>1. PICK lost \in SUBSET watch.remaining, delay \in Delays : Round(lost, delay)
    BY <1>5
  <2>2. watch' \in WatchType /\ UNCHANGED labVars
    BY <2>1, RoundIs
  <2> QED
    BY <2>2 DEF labVars, ReadinessTypeOK
<1> QED
  BY <1>1, <1>2, <1>3, <1>4, <1>5

-----------------------------------------------------------------------------
(* The steps of the account, one lemma for each stretch of a job. *)

LEMMA BeginSane ==
  ASSUME TypeOK, RunInv, NEW r \in Runs, Begin(r)
  PROVE  TypeOK' /\ RunInv'
<1>1. Known(r) /\ pc[r] = "idle"
  BY RunKnown DEF Begin
<1>2. PICK p \in {"admit", "refused"} : Goto(r, p)
  BY DEF Begin
<1>3. /\ Put(pc, pc', r, p) /\ Put(evidence, evidence', r, "reserved")
      /\ Put(files, files', r, {"directory"})
      /\ Put(lab, lab', r, lab[r]) /\ Put(state, state', r, state[r])
      /\ Put(locals, locals', r, locals[r]) /\ Put(receipt, receipt', r, receipt[r])
      /\ Put(recovery, recovery', r, recovery[r])
  BY <1>2 DEF Begin, Put, Goto, cmlVars
<1>4. ReadinessTypeOK' /\ faults' \in 0..MaxFaults
  BY ReadinessTypes, SoundOrFaulty DEF Begin, cmlVars, TypeOK
<1>5. /\ OnTheWay(p, locals[r])
      /\ Holding(p, lab[r], state[r], {"directory"}, locals[r])
      /\ Recorded(p, lab[r], {"directory"}, locals[r], "reserved", receipt[r], recovery[r])
  BY <1>1, <1>2
  DEF Known, OnTheWay, Holding, Recorded, Building, Recycling, Cleaning, Telling, Ended
<1>6. p \in Places /\ "reserved" \in Outcomes \cup {"none", "reserved"}
  BY <1>2 DEF Places, Ended
<1> QED
  BY <1>1, <1>3, <1>4, <1>5, <1>6, RunMoves DEF Known

LEMMA PrepareSane ==
  ASSUME TypeOK, RunInv, NEW r \in Runs, Admit(r) \/ PrepareCreate(r)
  PROVE  TypeOK' /\ RunInv'
<1>1. Known(r) /\ pc[r] \in {"admit", "inputs"}
  BY RunKnown DEF Admit, PrepareCreate
<1>2. ReadinessTypeOK' /\ faults' \in 0..MaxFaults
  BY ReadinessTypes, SoundOrFaulty DEF Admit, PrepareCreate, Call, cmlVars, TypeOK
<1>3. UNCHANGED <<lab, state, evidence, receipt, recovery>>
  BY DEF Admit, PrepareCreate, cmlVars, recordVars
<1>4. CASE Fails(r, "error") /\ UNCHANGED files
  <2>1. pc[r] \notin {"idle", "apply"} \cup Telling \cup Ended
    BY <1>1 DEF Telling, Ended
  <2>2. lab[r] = {}
    BY <1>1 DEF Known, Holding
  <2> QED
    BY <1>2, <1>3, <1>4, <2>1, <2>2, JobFails
<1>5. CASE ~(Fails(r, "error") /\ UNCHANGED files)
  <2>1. PICK p \in {"inputs", "apply", "own"}, F \in {files[r], files[r] \cup {"inputs"}},
             l \in {locals[r], [locals[r] EXCEPT !.primary = "error"]} :
           /\ Put(pc, pc', r, p) /\ Put(files, files', r, F) /\ Put(locals, locals', r, l)
           /\ p # "own" => l = locals[r]
           /\ p = "own" => l = [locals[r] EXCEPT !.primary = "error"]
    BY <1>5 DEF Admit, PrepareCreate, Call, Fails, Goto, Put
  <2>2. l \in LocalsType /\ (p = "own" => l.primary = "error")
    BY <1>1, <2>1 DEF Known, LocalsType, ErrorKinds
  <2>3. F \in SUBSET {"directory", "inputs", "state"} /\ p \in Places
    BY <1>1, <2>1 DEF Known, Places
  <2>4. /\ Put(lab, lab', r, lab[r]) /\ Put(state, state', r, state[r])
        /\ Put(evidence, evidence', r, evidence[r])
        /\ Put(receipt, receipt', r, receipt[r]) /\ Put(recovery, recovery', r, recovery[r])
    BY <1>3 DEF Put
  <2>5. /\ OnTheWay(p, l) /\ Holding(p, lab[r], state[r], F, l)
        /\ Recorded(p, lab[r], F, l, evidence[r], receipt[r], recovery[r])
    <3>1. OnTheWay(p, l)
      BY <1>1, <2>1 DEF Known, OnTheWay, Building, Recycling
    <3>2. Holding(p, lab[r], state[r], F, l)
      BY <1>1, <2>1, <2>2, RunAssumption DEF Known, Holding, Building, Cleaning
    <3>3. Recorded(p, lab[r], F, l, evidence[r], receipt[r], recovery[r])
      BY <1>1, <2>1 DEF Known, Recorded, Telling, Ended
    <3> QED
      BY <3>1, <3>2, <3>3
  <2> QED
    BY <1>1, <1>2, <2>1, <2>2, <2>3, <2>4, <2>5, RunMoves DEF Known
<1> QED
  BY <1>4, <1>5

LEMMA CreateSane ==
  ASSUME TypeOK, RunInv, NEW r \in Runs, CreateResource(r)
  PROVE  TypeOK' /\ RunInv'
<1> DEFINE k == Lowest(Graph \ state[r])
<1>1. Known(r) /\ pc[r] = "apply" /\ lab[r] = state[r] /\ Last \in Graph \ state[r]
  BY RunKnown, RunAssumption DEF CreateResource, Known, Holding, Graph
<1>2. k \in Graph \ state[r]
  BY <1>1, LowestIn DEF Graph
<1>3. ReadinessTypeOK' /\ faults' \in 0..MaxFaults
  BY ReadinessTypes, SoundOrFaulty DEF CreateResource, TypeOK
<1>4. UNCHANGED <<evidence, receipt, recovery>>
  BY DEF CreateResource, recordVars
<1>5. /\ Put(evidence, evidence', r, evidence[r]) /\ Put(receipt, receipt', r, receipt[r])
      /\ Put(recovery, recovery', r, recovery[r])
  BY <1>4 DEF Put
<1> HIDE DEF k
<1>6. CASE /\ lab' = [lab EXCEPT ![r] = @ \cup {k}] /\ state' = [state EXCEPT ![r] = @ \cup {k}]
           /\ files' = [files EXCEPT ![r] = @ \cup {"state"}]
           /\ IF k = Last THEN Passed(r, "create") /\ Goto(r, "adopt") ELSE UNCHANGED jobVars
  <2>1. PICK S, F : S = state[r] \cup {k} /\ F = files[r] \cup {"state"}
    OBVIOUS
  <2>2. PICK p, l : /\ p = IF k = Last THEN "adopt" ELSE "apply"
                    /\ l = IF k = Last THEN [locals[r] EXCEPT !.phases = @ \cup {"create"}]
                           ELSE locals[r]
    OBVIOUS
  <2>3. /\ Put(lab, lab', r, S) /\ Put(state, state', r, S) /\ Put(files, files', r, F)
        /\ Put(pc, pc', r, p) /\ Put(locals, locals', r, l)
    BY <1>1, <1>6, <2>1, <2>2 DEF Put, Goto, Passed, jobVars
  <2>4. /\ l \in LocalsType /\ l.recycled = locals[r].recycled
        /\ l.collected = locals[r].collected /\ (p = "adopt" => "create" \in l.phases)
    BY <1>1, <2>2 DEF Known, LocalsType, Phases
  <2>5. S \in SUBSET Graph /\ F \in SUBSET {"directory", "inputs", "state"} /\ p \in Places
    BY <1>1, <1>2, <2>1, <2>2 DEF Known, Places
  <2>6. OnTheWay(p, l)
    BY <1>1, <2>2, <2>4 DEF Known, OnTheWay, Building, Recycling
  <2>7. Holding(p, S, S, F, l)
    BY <1>1, <2>1, <2>2 DEF Holding, Building, Cleaning
  <2>8. Recorded(p, S, F, l, evidence[r], receipt[r], recovery[r])
    BY <1>1, <2>2 DEF Known, Recorded, Telling, Ended
  <2> QED
    BY <1>1, <1>3, <1>5, <2>3, <2>4, <2>5, <2>6, <2>7, <2>8, RunMoves DEF Known
<1>7. CASE /\ lab' \in {lab, [lab EXCEPT ![r] = @ \cup {k}]} /\ Goto(r, "createfailed")
           /\ UNCHANGED <<state, files, locals>>
  <2>1. PICK L \in {lab[r], lab[r] \cup {k}} : Put(lab, lab', r, L)
    BY <1>7 DEF Put
  <2>2. L \in SUBSET Graph /\ "createfailed" \in Places
    BY <1>1, <1>2, <2>1 DEF Known, Places
  <2>3. /\ Put(pc, pc', r, "createfailed") /\ Put(state, state', r, state[r])
        /\ Put(files, files', r, files[r]) /\ Put(locals, locals', r, locals[r])
    BY <1>7 DEF Goto, Put
  <2>4. /\ OnTheWay("createfailed", locals[r])
        /\ Holding("createfailed", L, state[r], files[r], locals[r])
        /\ Recorded("createfailed", L, files[r], locals[r], evidence[r], receipt[r], recovery[r])
    BY <1>1
    DEF Known, OnTheWay, Holding, Recorded, Building, Recycling, Cleaning, Telling, Ended
  <2> QED
    BY <1>1, <1>3, <1>5, <2>1, <2>2, <2>3, <2>4, RunMoves DEF Known
<1> QED
  BY <1>6, <1>7 DEF CreateResource, k

LEMMA CreatedSane ==
  ASSUME TypeOK, RunInv, NEW r \in Runs, ClassifyCreate(r) \/ Adopt(r)
  PROVE  TypeOK' /\ RunInv'
<1>1. Known(r) /\ pc[r] \in {"createfailed", "adopt"}
  BY RunKnown DEF ClassifyCreate, Adopt
<1>2. ReadinessTypeOK' /\ faults' \in 0..MaxFaults
  BY ReadinessTypes, SoundOrFaulty DEF ClassifyCreate, Adopt, Call, cmlVars, TypeOK
<1>3. /\ UNCHANGED <<lab, state, files, evidence, receipt, recovery>>
      /\ pc[r] \notin {"idle", "apply"} \cup Telling \cup Ended
  BY <1>1 DEF ClassifyCreate, Adopt, cmlVars, recordVars, Telling, Ended
<1>4. CASE \E kind \in {"error", "ambiguous"} :
             Fails(r, kind) /\ (state[r] = {} /\ lab[r] # {} => kind = "ambiguous")
  BY <1>2, <1>3, <1>4, JobFails
<1>5. CASE pc[r] = "adopt" /\ Goto(r, "startlab") /\ UNCHANGED locals
  <2>1. OnTheWay("startlab", locals[r])
    BY <1>1, <1>5 DEF Known, OnTheWay, Building, Recycling
  <2>2. Holding("startlab", lab[r], state[r], files[r], locals[r])
    BY <1>1, <1>5 DEF Known, Holding, Building, Cleaning
  <2>3. Put(pc, pc', r, "startlab") /\ Put(locals, locals', r, locals[r])
    BY <1>5 DEF Goto, Put
  <2>4. "startlab" \in Places \ ({"idle", "apply"} \cup Telling) /\ locals[r] \in LocalsType
    BY <1>1 DEF Places, Telling, Known
  <2> QED
    BY <1>2, <1>3, <2>1, <2>2, <2>3, <2>4, JobMoves
<1>6. pc[r] = "adopt" => state[r] # {}
  BY <1>1 DEF Known, Holding, Building
<1> QED
  BY <1>4, <1>5, <1>6 DEF ClassifyCreate, CreateFailure, Adopt, Call

\* A run whose laboratory is there goes on, or fails.
LEMMA BuildingGoes ==
  ASSUME TypeOK, RunInv, NEW r \in Runs, ReadinessTypeOK', faults' \in 0..MaxFaults,
         UNCHANGED <<lab, state, files, evidence, receipt, recovery>>, pc[r] \in Building,
         \/ \E kind \in {"error", "ambiguous"} : Fails(r, kind)
         \/ \E p \in Building, l \in LocalsType :
               Put(pc, pc', r, p) /\ Put(locals, locals', r, l) /\ OnTheWay(p, l)
  PROVE  TypeOK' /\ RunInv'
<1>1. Known(r) /\ state[r] # {} /\ pc[r] \notin {"idle", "apply"} \cup Telling \cup Ended
  BY RunKnown DEF Known, Holding, Building, Telling, Ended
<1>2. CASE \E kind \in {"error", "ambiguous"} : Fails(r, kind)
  BY <1>1, <1>2, JobFails
<1>3. ASSUME NEW p \in Building, NEW l \in LocalsType,
             Put(pc, pc', r, p), Put(locals, locals', r, l), OnTheWay(p, l)
      PROVE  TypeOK' /\ RunInv'
  <2>1. Holding(p, lab[r], state[r], files[r], l)
    BY <1>1 DEF Holding, Building, Cleaning
  <2>2. p \in Places \ ({"idle", "apply"} \cup Telling)
    BY DEF Building, Places, NodePlaces, Telling
  <2> QED
    BY <1>1, <1>3, <2>1, <2>2, JobMoves
<1> QED
  BY <1>2, <1>3

LEMMA StartSane ==
  ASSUME TypeOK, RunInv, NEW r \in Runs, StartLab(r) \/ CheckLabStart(r)
  PROVE  TypeOK' /\ RunInv'
<1>1. Known(r) /\ pc[r] \in {"startlab", "labcheck"}
  BY RunKnown DEF StartLab, CheckLabStart
<1>2. /\ ReadinessTypeOK' /\ faults' \in 0..MaxFaults
      /\ UNCHANGED <<lab, state, files, evidence, receipt, recovery>>
  <2>1. Members \in SUBSET Members
    OBVIOUS
  <2>2. ReadinessTypeOK'
    BY <2>1, ReadinessTypes DEF StartLab, CheckLabStart, cmlVars, TypeOK
  <2> QED
    BY <2>2, SoundOrFaulty DEF StartLab, CheckLabStart, cmlVars, recordVars
<1>3. pc[r] \in Building
  BY <1>1 DEF Building
<1>4. CASE \E kind \in {"error", "ambiguous"} : Fails(r, kind)
  BY <1>2, <1>3, <1>4, BuildingGoes
<1>5. CASE LabStarted(r)
  <2>1. PICK l : l = [locals[r] EXCEPT !.phases = @ \cup {"start"}]
    OBVIOUS
  <2>2. /\ l \in LocalsType /\ l.recycled = locals[r].recycled
        /\ l.collected = locals[r].collected /\ l.phases = locals[r].phases \cup {"start"}
    BY <1>1, <2>1 DEF Known, LocalsType, Phases
  <2>3. PICK p \in {"ready", "firstboot"} :
          Goto(r, p) /\ p = IF Recycled \subseteq {} THEN "ready" ELSE "firstboot"
    BY <1>5 DEF LabStarted, NextSubject
  <2>4. Put(pc, pc', r, p) /\ Put(locals, locals', r, l) /\ p \in Building
    BY <1>5, <2>1, <2>3 DEF LabStarted, Passed, Goto, Put, Building
  <2>5. OnTheWay(p, l)
    BY <1>1, <2>2, <2>3 DEF Known, OnTheWay, Building, Recycling
  <2> QED
    BY <1>2, <1>3, <2>2, <2>4, <2>5, BuildingGoes
<1>6. CASE pc[r] = "startlab" /\ Goto(r, "labcheck") /\ UNCHANGED locals
  <2>1. OnTheWay("labcheck", locals[r]) /\ "labcheck" \in Building
    BY <1>1, <1>6 DEF Known, OnTheWay, Building, Recycling
  <2>2. Put(pc, pc', r, "labcheck") /\ Put(locals, locals', r, locals[r])
    BY <1>6 DEF Goto, Put
  <2> QED
    BY <1>1, <1>2, <1>3, <2>1, <2>2, BuildingGoes DEF Known
<1> QED
  BY <1>4, <1>5, <1>6 DEF StartLab, CheckLabStart

\* Between two nodes to recycle, and the next one.
LEMMA SubjectIs ==
  ASSUME NEW r, locals[r].recycled \subseteq Recycled, locals[r].recycled # Recycled
  PROVE  Subject(r) \in Recycled \ locals[r].recycled /\ Subject(r) \in Members
<1>1. Recycled \ locals[r].recycled \in SUBSET Nat /\ Recycled \subseteq Members
  BY RunAssumption, ReadinessAssumption
<1> QED
  BY <1>1, LowestIn DEF Subject

\* The node being recycled goes through its places.
LEMMA RecycleGoes ==
  ASSUME TypeOK, RunInv, NEW r \in Runs, ReadinessTypeOK', faults' \in 0..MaxFaults,
         UNCHANGED <<lab, state, files, evidence, receipt, recovery>>, pc[r] \in Recycling,
         \/ \E kind \in {"error", "ambiguous"} : Fails(r, kind)
         \/ \E p \in Recycling : Goto(r, p) /\ UNCHANGED locals
  PROVE  TypeOK' /\ RunInv'
<1>1. Known(r) /\ pc[r] \in Building
  BY RunKnown DEF Building, Recycling
<1>2. ASSUME NEW p \in Recycling, Goto(r, p), UNCHANGED locals
      PROVE  TypeOK' /\ RunInv'
  <2>1. OnTheWay(p, locals[r]) /\ p \in Building
    BY <1>1 DEF Known, OnTheWay, Building, Recycling
  <2>2. Put(pc, pc', r, p) /\ Put(locals, locals', r, locals[r])
    BY <1>2 DEF Goto, Put
  <2> QED
    BY <1>1, <2>1, <2>2, BuildingGoes DEF Known
<1> QED
  BY <1>1, <1>2, BuildingGoes

LEMMA RecycleSane ==
  ASSUME TypeOK, RunInv, NEW r \in Runs, Recycle(r)
  PROVE  TypeOK' /\ RunInv'
<1>1. Known(r) /\ pc[r] \in Recycling
  BY RunKnown DEF Recycle, AwaitFirstBoot, StopSubject, ReconcileStop, AwaitStop, StartSubject,
                  ReconcileStart, AwaitBoot, Request, Reconcile, Recycling
<1>2. Subject(r) \in Recycled \ locals[r].recycled /\ Subject(r) \in Members
  BY <1>1, SubjectIs DEF Known, OnTheWay
<1>3. UNCHANGED <<lab, state, files, evidence, receipt, recovery>>
  BY DEF Recycle, AwaitFirstBoot, StopSubject, ReconcileStop, AwaitStop, StartSubject,
         ReconcileStart, AwaitBoot, Request, Reconcile, cmlVars, recordVars
<1>4. faults' \in 0..MaxFaults
  BY SoundOrFaulty
  DEF Recycle, AwaitFirstBoot, StopSubject, ReconcileStop, AwaitStop, StartSubject,
      ReconcileStart, AwaitBoot, Request, Reconcile
<1>5. ReadinessTypeOK'
  <2>1. CASE UNCHANGED <<labVars, watch>>
    BY <2>1, ReadinessTypes DEF TypeOK
  <2>2. CASE StopSubject(r) \/ StartSubject(r)
    <3>1. {Subject(r)} \in SUBSET Members
      BY <1>2
    <3> QED
      BY <1>2, <2>2, <3>1, ReadinessTypes DEF StopSubject, StartSubject, Request, TypeOK
  <2> QED
    BY <2>1, <2>2 DEF Recycle, AwaitFirstBoot, ReconcileStop, AwaitStop, ReconcileStart,
                      AwaitBoot, Reconcile, cmlVars
<1>6. CASE AwaitBoot(r) /\ ~(\E kind \in {"error", "ambiguous"} : Fails(r, kind))
  <2>1. PICK N : N = locals[r].recycled \cup {Subject(r)}
    OBVIOUS
  <2>2. /\ locals' = [locals EXCEPT ![r].recycled = N] /\ pc[r] = "awaitboot"
        /\ Goto(r, IF Recycled \subseteq N THEN "ready" ELSE "firstboot")
    BY <1>6, <2>1 DEF AwaitBoot, NextSubject
  <2>3. PICK l, p : /\ l = [locals[r] EXCEPT !.recycled = N]
                    /\ p = IF Recycled \subseteq N THEN "ready" ELSE "firstboot"
    OBVIOUS
  <2>4. N \subseteq Recycled /\ N \in SUBSET Members
    BY <1>1, <1>2, <2>1, RunAssumption DEF Known, OnTheWay
  <2>5. /\ l \in LocalsType /\ l.recycled = N /\ l.collected = locals[r].collected
        /\ l.phases = locals[r].phases
    BY <1>1, <2>3, <2>4 DEF Known, LocalsType
  <2>6. OnTheWay(p, l)
    BY <1>1, <2>2, <2>3, <2>4, <2>5 DEF Known, OnTheWay, Building, Recycling
  <2>7. Put(pc, pc', r, p) /\ Put(locals, locals', r, l) /\ p \in Building /\ pc[r] \in Building
    BY <2>2, <2>3 DEF Goto, Put, Building
  <2> QED
    BY <1>3, <1>4, <1>5, <2>5, <2>6, <2>7, BuildingGoes
<1>7. CASE \/ \E kind \in {"error", "ambiguous"} : Fails(r, kind)
           \/ \E p \in Recycling : Goto(r, p) /\ UNCHANGED locals
  BY <1>1, <1>3, <1>4, <1>5, <1>7, RecycleGoes
<1> QED
  BY <1>6, <1>7 DEF Recycle, AwaitFirstBoot, StopSubject, ReconcileStop, AwaitStop, StartSubject,
                    ReconcileStart, Request, Reconcile, Recycling

LEMMA ReadSane ==
  ASSUME TypeOK, RunInv, NEW r \in Runs, WaitReadiness(r) \/ EstablishTrust(r)
  PROVE  TypeOK' /\ RunInv'
<1>1. Known(r) /\ pc[r] \in {"ready", "trust"} /\ pc[r] \in Building
  BY RunKnown DEF WaitReadiness, EstablishTrust, Building
<1>2. /\ ReadinessTypeOK' /\ faults' \in 0..MaxFaults
      /\ UNCHANGED <<lab, state, files, evidence, receipt, recovery>>
  <2>1. ReadinessTypeOK'
    BY ReadinessTypes DEF WaitReadiness, EstablishTrust, cmlVars, TypeOK
  <2>2. Sound \/ Faulty
    BY DEF WaitReadiness, EstablishTrust
  <2> QED
    BY <2>1, <2>2, SoundOrFaulty DEF WaitReadiness, EstablishTrust, cmlVars, recordVars
<1>3. CASE EstablishTrust(r) /\ ~Fails(r, "error")
  <2>1. PICK l : l = [locals[r] EXCEPT !.trusted = TRUE, !.context = TRUE]
    OBVIOUS
  <2>2. /\ l \in LocalsType /\ l.recycled = locals[r].recycled /\ l.ready = locals[r].ready
        /\ l.collected = locals[r].collected /\ l.phases = locals[r].phases /\ l.trusted
    BY <1>1, <2>1 DEF Known, LocalsType
  <2>3. Put(pc, pc', r, "collect") /\ Put(locals, locals', r, l) /\ "collect" \in Building
    BY <1>3, <2>1 DEF EstablishTrust, ReadyContext, Goto, Put, Building
  <2>4. OnTheWay("collect", l)
    BY <1>1, <1>3, <2>2, ReadinessAssumption
    DEF EstablishTrust, Known, OnTheWay, Building, Recycling
  <2> QED
    BY <1>1, <1>2, <2>2, <2>3, <2>4, BuildingGoes
<1>4. CASE WaitReadiness(r)
  <2>1. watch' \in WatchType
    BY <1>2 DEF ReadinessTypeOK
  <2>2. PICK R, k : /\ R = Members \ watch'.remaining
                    /\ k = IF watch'.result \in {"waiting", "READY"} THEN locals[r].primary
                           ELSE "error"
    OBVIOUS
  <2>3. PICK l : l = [locals[r] EXCEPT !.ready = R, !.primary = k]
    OBVIOUS
  <2>4. /\ l \in LocalsType /\ l.recycled = locals[r].recycled /\ l.ready = R /\ l.primary = k
        /\ l.collected = locals[r].collected /\ l.phases = locals[r].phases
    BY <1>1, <2>2, <2>3 DEF Known, LocalsType, ErrorKinds
  <2>5. Put(locals, locals', r, l)
    BY <1>4, <2>2, <2>3 DEF WaitReadiness, Put
  <2>6. watch'.result = "READY" => watch'.remaining = {}
    <3>1. PICK lost \in SUBSET watch.remaining, delay \in Delays : Round(lost, delay)
      BY <1>4 DEF WaitReadiness
    <3>2. PICK w : w = Looked(lost, delay)
      OBVIOUS
    <3> QED
      BY <3>1, <3>2, RoundIs, LookedIs DEF TypeOK
  <2>7. watch'.result \in {"waiting", "READY", "TIMED_OUT", "REJECTED"}
    BY <2>1 DEF WatchType
  <2>8. CASE watch'.result \in {"waiting", "READY"}
    <3>1. PICK p \in {"ready", "trust"} :
            Goto(r, p) /\ (p = "trust" => watch'.result = "READY")
      BY <1>4, <2>7, <2>8 DEF WaitReadiness
    <3>2. OnTheWay(p, l)
      BY <1>1, <1>4, <2>2, <2>4, <2>6, <3>1
      DEF WaitReadiness, Known, OnTheWay, Building, Recycling
    <3>3. Put(pc, pc', r, p) /\ p \in Building
      BY <3>1 DEF Goto, Put, Building
    <3> QED
      BY <1>1, <1>2, <2>4, <2>5, <3>2, <3>3, BuildingGoes
  <2>9. CASE watch'.result \notin {"waiting", "READY"}
    <3>1. Put(pc, pc', r, "own") /\ "own" \in Places \ ({"idle", "apply"} \cup Telling)
      BY <1>4, <2>9 DEF WaitReadiness, Goto, Put, Places, Telling
    <3>2. OnTheWay("own", l)
      BY DEF OnTheWay, Building, Recycling
    <3>3. Holding("own", lab[r], state[r], files[r], l)
      BY <1>1, <2>2, <2>4, <2>9 DEF Known, Holding, Building, Cleaning
    <3>4. pc[r] \notin {"idle", "apply"} \cup Telling \cup Ended
      BY <1>1 DEF Telling, Ended
    <3> QED
      BY <1>1, <1>2, <2>4, <2>5, <3>1, <3>2, <3>3, <3>4, JobMoves
  <2> QED
    BY <2>8, <2>9
<1>5. CASE Fails(r, "error")
  BY <1>1, <1>2, <1>5, BuildingGoes
<1> QED
  BY <1>3, <1>4, <1>5

LEMMA CollectSane ==
  ASSUME TypeOK, RunInv, NEW r \in Runs, Collect(r)
  PROVE  TypeOK' /\ RunInv'
<1>1. Known(r) /\ pc[r] = "collect" /\ pc[r] \in Building
  BY RunKnown DEF Collect, Building
<1>2. /\ ReadinessTypeOK' /\ faults' \in 0..MaxFaults
      /\ UNCHANGED <<lab, state, files, evidence, receipt, recovery>>
  <2>1. ReadinessTypeOK'
    BY ReadinessTypes DEF Collect, cmlVars, TypeOK
  <2> QED
    BY <2>1, SoundOrFaulty DEF Collect, cmlVars, recordVars
<1>3. CASE Fails(r, "error")
  BY <1>1, <1>2, <1>3, BuildingGoes
<1>4. CASE ~Fails(r, "error")
  <2>1. PICK C : C = locals[r].collected \cup {Lowest(Members \ locals[r].collected)}
    OBVIOUS
  <2>2. PICK H, p : /\ H = IF C = Members THEN locals[r].phases \cup {"read_only"}
                           ELSE locals[r].phases
                    /\ p = IF C = Members THEN "own" ELSE "collect"
    OBVIOUS
  <2>3. PICK l : l = [locals[r] EXCEPT !.collected = C, !.phases = H]
    OBVIOUS
  <2>4. Put(pc, pc', r, p) /\ Put(locals, locals', r, l)
    BY <1>4, <2>1, <2>2, <2>3 DEF Collect, Goto, Put
  <2>5. C \in SUBSET Members
    <3>1. Members \ locals[r].collected \in SUBSET Nat /\ Members \ locals[r].collected # {}
      BY <1>1, ReadinessAssumption DEF Known, OnTheWay, LocalsType
    <3> QED
      BY <1>1, <2>1, <3>1, LowestIn DEF Known, LocalsType
  <2>6. /\ l \in LocalsType /\ l.collected = C /\ l.phases = H
        /\ l.recycled = locals[r].recycled /\ l.ready = locals[r].ready
        /\ l.trusted = locals[r].trusted
    BY <1>1, <2>2, <2>3, <2>5 DEF Known, LocalsType, Phases
  <2>7. CASE C # Members
    <3>1. OnTheWay("collect", l)
      BY <1>1, <2>2, <2>6, <2>7 DEF Known, OnTheWay, Building, Recycling
    <3> QED
      BY <1>1, <1>2, <2>2, <2>4, <2>6, <2>7, <3>1, BuildingGoes
  <2>8. CASE C = Members
    <3>1. Worked(l)
      BY <1>1, <2>2, <2>6, <2>8 DEF Known, OnTheWay, Building, Worked
    <3>2. state[r] # {} /\ pc[r] \notin {"idle", "apply"} \cup Telling \cup Ended
      BY <1>1 DEF Known, Holding, Telling, Ended
    <3>3. OnTheWay("own", l) /\ Holding("own", lab[r], state[r], files[r], l)
      BY <3>1, <3>2 DEF OnTheWay, Holding, Building, Recycling, Cleaning
    <3>4. "own" \in Places \ ({"idle", "apply"} \cup Telling)
      BY DEF Places, Telling
    <3> QED
      BY <1>2, <2>2, <2>4, <2>6, <2>8, <3>2, <3>3, <3>4, JobMoves
  <2> QED
    BY <2>7, <2>8
<1> QED
  BY <1>3, <1>4

\* The cleanup fails and comes to a conclusion that says so.
LEMMA CleanupFailsSane ==
  ASSUME TypeOK, RunInv, NEW r \in Runs, ReadinessTypeOK', faults' \in 0..MaxFaults,
         UNCHANGED <<lab, state, evidence, receipt, recovery>>, pc[r] \in Cleaning,
         NEW F \in SUBSET {"directory", "inputs", "state"}, Put(files, files', r, F),
         NEW kind \in {"error", "ambiguous"}, CleanupFails(r, kind)
  PROVE  TypeOK' /\ RunInv'
<1>1. Known(r)
  BY RunKnown
<1>2. PICK l : l = [locals[r] EXCEPT !.cleanup = kind]
  OBVIOUS
<1>3. l \in LocalsType /\ l.cleanup = kind
  BY <1>1, <1>2 DEF Known, LocalsType, ErrorKinds
<1>4. /\ Put(pc, pc', r, "conclude") /\ Put(locals, locals', r, l)
      /\ Put(lab, lab', r, lab[r]) /\ Put(state, state', r, state[r])
      /\ Put(evidence, evidence', r, evidence[r]) /\ Put(receipt, receipt', r, receipt[r])
      /\ Put(recovery, recovery', r, recovery[r])
  BY <1>2 DEF CleanupFails, Goto, Put
<1>5. /\ OnTheWay("conclude", l) /\ Holding("conclude", lab[r], state[r], F, l)
      /\ Recorded("conclude", lab[r], F, l, evidence[r], receipt[r], recovery[r])
  BY <1>1, <1>3
  DEF Known, OnTheWay, Holding, Recorded, Building, Recycling, Cleaning, Telling, Ended
<1>6. "conclude" \in Places
  BY DEF Places
<1> QED
  BY <1>1, <1>3, <1>4, <1>5, <1>6, RunMoves DEF Known

\* The cleanup goes on without touching what CML or the state hold.
LEMMA CleanupGoes ==
  ASSUME TypeOK, RunInv, NEW r \in Runs, ReadinessTypeOK', faults' \in 0..MaxFaults,
         UNCHANGED <<lab, state, files, evidence, receipt, recovery>>, pc[r] \in Cleaning,
         NEW p \in {"plan", "destroy", "absent", "retire"},
         NEW H \in SUBSET Phases, NEW l, l = [locals[r] EXCEPT !.phases = H],
         Put(pc, pc', r, p), Put(locals, locals', r, l), locals[r].phases \subseteq H,
         p \in {"absent", "retire"} => "destroy" \in H,
         p = "retire" => "absence" \in H
  PROVE  TypeOK' /\ RunInv'
<1>1. Known(r) /\ pc[r] \notin {"idle", "apply"} \cup Telling \cup Ended
  BY RunKnown DEF Cleaning, Telling, Ended
<1>2. /\ l \in LocalsType /\ l.phases = H /\ l.primary = locals[r].primary
      /\ l.recycled = locals[r].recycled /\ l.ready = locals[r].ready
      /\ l.collected = locals[r].collected /\ l.trusted = locals[r].trusted
  BY <1>1 DEF Known, LocalsType
<1>3. OnTheWay(p, l)
  BY DEF OnTheWay, Building, Recycling
<1>4. Holding(p, lab[r], state[r], files[r], l)
  BY <1>1, <1>2 DEF Known, Holding, Building, Cleaning, Worked
<1>5. p \in Places \ ({"idle", "apply"} \cup Telling)
  BY DEF Places, Telling
<1> QED
  BY <1>1, <1>2, <1>3, <1>4, <1>5, JobMoves

LEMMA OwnSane ==
  ASSUME TypeOK, RunInv, NEW r \in Runs, Own(r) \/ PlanDestroy(r)
  PROVE  TypeOK' /\ RunInv'
<1>1. Known(r) /\ pc[r] \in {"own", "plan"} /\ pc[r] \in Cleaning
  BY RunKnown DEF Own, PlanDestroy, Cleaning
<1>2. /\ ReadinessTypeOK' /\ faults' \in 0..MaxFaults
      /\ UNCHANGED <<lab, state, files, evidence, receipt, recovery>>
  <2>1. ReadinessTypeOK'
    BY ReadinessTypes DEF Own, PlanDestroy, cmlVars, TypeOK
  <2> QED
    BY <2>1, SoundOrFaulty DEF Own, PlanDestroy, cmlVars, recordVars
<1>3. CASE \E kind \in {"error", "ambiguous"} : CleanupFails(r, kind)
  <2>1. Put(files, files', r, files[r]) /\ files[r] \in SUBSET {"directory", "inputs", "state"}
    BY <1>1, <1>2 DEF Put, Known
  <2> QED
    BY <1>1, <1>2, <1>3, <2>1, CleanupFailsSane
<1>4. ASSUME NEW p \in {"plan", "destroy"}, Goto(r, p), UNCHANGED locals
      PROVE  TypeOK' /\ RunInv'
  <2>1. PICK l : l = [locals[r] EXCEPT !.phases = locals[r].phases]
    OBVIOUS
  <2>2. l = locals[r] /\ locals[r].phases \in SUBSET Phases
    BY <1>1, <2>1 DEF Known, LocalsType
  <2>3. Put(pc, pc', r, p) /\ Put(locals, locals', r, l)
    BY <1>4, <2>2 DEF Goto, Put
  <2> QED
    BY <1>1, <1>2, <2>1, <2>2, <2>3, CleanupGoes
<1>5. CASE pc[r] = "own" /\ state[r] = {} /\ Goto(r, "conclude") /\ UNCHANGED locals
  <2>1. OnTheWay("conclude", locals[r])
    BY DEF OnTheWay, Building, Recycling
  <2>2. Holding("conclude", lab[r], state[r], files[r], locals[r])
    BY <1>1, <1>5 DEF Known, Holding, Building, Cleaning
  <2>3. Put(pc, pc', r, "conclude") /\ Put(locals, locals', r, locals[r])
    BY <1>5 DEF Goto, Put
  <2>4. /\ pc[r] \notin {"idle", "apply"} \cup Telling \cup Ended
        /\ "conclude" \in Places \ ({"idle", "apply"} \cup Telling) /\ locals[r] \in LocalsType
    BY <1>1 DEF Telling, Ended, Places, Known
  <2> QED
    BY <1>2, <2>1, <2>2, <2>3, <2>4, JobMoves
<1> QED
  BY <1>3, <1>4, <1>5 DEF Own, PlanDestroy

LEMMA AbsenceSane ==
  ASSUME TypeOK, RunInv, NEW r \in Runs, ReconcileDestroy(r) \/ VerifyAbsent(r)
  PROVE  TypeOK' /\ RunInv'
<1>1. Known(r) /\ pc[r] \in {"uncertain", "absent"} /\ pc[r] \in Cleaning
  BY RunKnown DEF ReconcileDestroy, VerifyAbsent, Cleaning
<1>2. /\ ReadinessTypeOK' /\ faults' \in 0..MaxFaults
      /\ UNCHANGED <<lab, state, files, evidence, receipt, recovery>>
  <2>1. ReadinessTypeOK'
    BY ReadinessTypes DEF ReconcileDestroy, VerifyAbsent, cmlVars, TypeOK
  <2> QED
    BY <2>1, SoundOrFaulty DEF ReconcileDestroy, VerifyAbsent, cmlVars, recordVars
<1>3. CASE \E kind \in {"error", "ambiguous"} : CleanupFails(r, kind)
  <2>1. Put(files, files', r, files[r]) /\ files[r] \in SUBSET {"directory", "inputs", "state"}
    BY <1>1, <1>2 DEF Put, Known
  <2> QED
    BY <1>1, <1>2, <1>3, <2>1, CleanupFailsSane
<1>4. ASSUME NEW p \in {"absent", "retire"}, NEW x \in {"destroy", "absence"},
             p = "absent" => x = "destroy", p = "retire" => x = "absence" /\ pc[r] = "absent",
             Goto(r, p), Passed(r, x)
      PROVE  TypeOK' /\ RunInv'
  <2>1. PICK H : H = locals[r].phases \cup {x}
    OBVIOUS
  <2>2. PICK l : l = [locals[r] EXCEPT !.phases = H]
    OBVIOUS
  <2>3. Put(pc, pc', r, p) /\ Put(locals, locals', r, l)
    BY <1>4, <2>1, <2>2 DEF Goto, Passed, Put
  <2>4. H \in SUBSET Phases /\ locals[r].phases \subseteq H
    BY <1>1, <2>1 DEF Known, LocalsType, Phases
  <2>5. "destroy" \in H /\ (p = "retire" => "absence" \in H)
    BY <1>1, <1>4, <2>1 DEF Known, Holding
  <2> QED
    BY <1>1, <1>2, <2>2, <2>3, <2>4, <2>5, CleanupGoes
<1> QED
  BY <1>3, <1>4 DEF ReconcileDestroy, VerifyAbsent

\* Deleting a resource leaves less in CML and in the state.
LEMMA Deletes ==
  ASSUME TypeOK, NEW r \in Runs, NEW deleted, NEW fails, DeleteResource(r, deleted, fails)
  PROVE  /\ deleted \/ fails
         /\ \E L \in SUBSET lab[r] : Put(lab, lab', r, L)
         /\ \E S \in SUBSET state[r] : Put(state, state', r, S)
<1> DEFINE k == Highest(state[r])
<1>1. deleted \/ fails
  BY DEF DeleteResource
<1>2. lab' \in {lab, Without(r, k)}
  BY DEF DeleteResource
<1>3. state' \in {state, [state EXCEPT ![r] = state[r] \ {k}]}
  BY DEF DeleteResource
<1>4. Without(r, k) = [lab EXCEPT ![r] = IF k = 0 THEN {} ELSE lab[r] \ {k}]
  BY DEF Without
<1> HIDE DEF k
<1>5. (IF k = 0 THEN {} ELSE lab[r] \ {k}) \in SUBSET lab[r] /\ state[r] \ {k} \in SUBSET state[r]
  OBVIOUS
<1>6. \E L \in SUBSET lab[r] : Put(lab, lab', r, L)
  <2>1. CASE lab' = lab
    BY <2>1 DEF Put
  <2>2. CASE lab' = Without(r, k)
    BY <1>4, <1>5, <2>2 DEF Put
  <2> QED
    BY <1>2, <2>1, <2>2
<1>7. \E S \in SUBSET state[r] : Put(state, state', r, S)
  <2>1. CASE state' = state
    BY <2>1 DEF Put
  <2>2. CASE state' = [state EXCEPT ![r] = state[r] \ {k}]
    BY <1>5, <2>2 DEF Put
  <2> QED
    BY <1>3, <2>1, <2>2
<1> QED
  BY <1>1, <1>6, <1>7

LEMMA DestroySane ==
  ASSUME TypeOK, RunInv, NEW r \in Runs, Destroy(r)
  PROVE  TypeOK' /\ RunInv'
<1>1. Known(r) /\ pc[r] = "destroy"
  BY RunKnown DEF Destroy
<1>2. ReadinessTypeOK' /\ faults' \in 0..MaxFaults
  BY ReadinessTypes, SoundOrFaulty DEF Destroy, DeleteResource, TypeOK
<1>3. PICK L \in SUBSET lab[r], S \in SUBSET state[r] :
        Put(lab, lab', r, L) /\ Put(state, state', r, S)
  BY Deletes DEF Destroy
<1>4. /\ L \in SUBSET Graph /\ S \in SUBSET Graph
      /\ Put(files, files', r, files[r]) /\ Put(evidence, evidence', r, evidence[r])
      /\ Put(receipt, receipt', r, receipt[r]) /\ Put(recovery, recovery', r, recovery[r])
  BY <1>1, <1>3 DEF Known, Destroy, Put, recordVars
<1>5. PICK H, l : /\ H = locals[r].phases \cup {"destroy"}
                  /\ l = [locals[r] EXCEPT !.phases = H]
  OBVIOUS
<1>6. \/ Put(pc, pc', r, "absent") /\ Put(locals, locals', r, l)
      \/ Put(pc, pc', r, "destroy") /\ Put(locals, locals', r, locals[r])
      \/ Put(pc, pc', r, "uncertain") /\ Put(locals, locals', r, locals[r])
  <2>1. \/ Goto(r, "absent") /\ Passed(r, "destroy")
        \/ UNCHANGED jobVars
        \/ Goto(r, "uncertain") /\ UNCHANGED locals
    BY DEF Destroy, DeleteResource
  <2> QED
    BY <1>1, <1>5, <2>1 DEF Goto, Passed, Put, jobVars
<1>7. /\ H \in SUBSET Phases /\ l \in LocalsType /\ l.phases = H /\ l.primary = locals[r].primary
      /\ l.recycled = locals[r].recycled /\ l.ready = locals[r].ready
      /\ l.collected = locals[r].collected /\ l.trusted = locals[r].trusted
  BY <1>1, <1>5 DEF Known, LocalsType, Phases
<1>8. ASSUME NEW p \in {"absent", "destroy", "uncertain"}, NEW m \in {l, locals[r]},
             p = "absent" => m = l, Put(pc, pc', r, p), Put(locals, locals', r, m)
      PROVE  TypeOK' /\ RunInv'
  <2>1. OnTheWay(p, m)
    BY DEF OnTheWay, Building, Recycling
  <2>2. Holding(p, L, S, files[r], m)
    BY <1>1, <1>5, <1>7, <1>8 DEF Known, Holding, Building, Cleaning, Worked
  <2>3. Recorded(p, L, files[r], m, evidence[r], receipt[r], recovery[r])
    BY <1>1 DEF Known, Recorded, Telling, Ended
  <2>4. p \in Places /\ m \in LocalsType
    BY <1>1, <1>7 DEF Places, Known
  <2> QED
    BY <1>1, <1>2, <1>3, <1>4, <1>8, <2>1, <2>2, <2>3, <2>4, RunMoves DEF Known
<1> QED
  BY <1>6, <1>8

LEMMA RetireSane ==
  ASSUME TypeOK, RunInv, NEW r \in Runs, RetireState(r)
  PROVE  TypeOK' /\ RunInv'
<1>1. Known(r) /\ pc[r] = "retire" /\ pc[r] \in Cleaning
  BY RunKnown DEF RetireState, Cleaning
<1>2. /\ ReadinessTypeOK' /\ faults' \in 0..MaxFaults
      /\ UNCHANGED <<lab, state, evidence, receipt, recovery>>
  <2>1. ReadinessTypeOK'
    BY ReadinessTypes DEF RetireState, cmlVars, TypeOK
  <2> QED
    BY <2>1, SoundOrFaulty DEF RetireState, cmlVars, recordVars
<1>3. CASE CleanupFails(r, "error")
  <2>1. PICK F \in SUBSET {"directory", "inputs", "state"} : Put(files, files', r, F)
    <3>1. files[r] \in SUBSET {"directory", "inputs", "state"}
      BY <1>1 DEF Known
    <3>2. CASE UNCHANGED files
      BY <3>1, <3>2 DEF Put
    <3>3. CASE files' = [files EXCEPT ![r] = {}]
      BY <3>3 DEF Put
    <3>4. CASE \E left \in SUBSET files[r] : files' = [files EXCEPT ![r] = left]
      BY <3>1, <3>4 DEF Put
    <3> QED
      BY <3>2, <3>3, <3>4 DEF RetireState
  <2> QED
    BY <1>1, <1>2, <1>3, <2>1, CleanupFailsSane
<1>4. CASE /\ Absent(r) /\ files' = [files EXCEPT ![r] = {}]
           /\ Goto(r, "conclude") /\ Passed(r, "retirement")
  <2>1. PICK H : H = locals[r].phases \cup {"retirement"}
    OBVIOUS
  <2>2. PICK l : l = [locals[r] EXCEPT !.phases = H]
    OBVIOUS
  <2>3. /\ Put(pc, pc', r, "conclude") /\ Put(locals, locals', r, l) /\ Put(files, files', r, {})
        /\ Put(lab, lab', r, lab[r]) /\ Put(state, state', r, state[r])
        /\ Put(evidence, evidence', r, evidence[r]) /\ Put(receipt, receipt', r, receipt[r])
        /\ Put(recovery, recovery', r, recovery[r])
    BY <1>2, <1>4, <2>1, <2>2 DEF Goto, Passed, Put
  <2>4. /\ H \in SUBSET Phases /\ l \in LocalsType /\ l.phases = H
        /\ l.primary = locals[r].primary
        /\ l.recycled = locals[r].recycled /\ l.ready = locals[r].ready
        /\ l.collected = locals[r].collected /\ l.trusted = locals[r].trusted
    BY <1>1, <2>1, <2>2 DEF Known, LocalsType, Phases
  <2>5. lab[r] = {} /\ {"destroy", "absence", "retirement"} \subseteq H
    BY <1>1, <1>4, <2>1 DEF Absent, Known, Holding
  <2>6. l.primary = "none" => Worked(l) /\ l.phases = Phases
    BY <1>1, <2>1, <2>4, <2>5 DEF Known, Holding, Worked, Phases
  <2>7. OnTheWay("conclude", l)
    BY DEF OnTheWay, Building, Recycling
  <2>8. Holding("conclude", lab[r], state[r], {}, l)
    BY <2>5, <2>6 DEF Holding, Building, Cleaning
  <2>9. Recorded("conclude", lab[r], {}, l, evidence[r], receipt[r], recovery[r])
    BY <1>1 DEF Known, Recorded, Telling, Ended
  <2>10. "conclude" \in Places /\ {} \in SUBSET {"directory", "inputs", "state"}
    BY DEF Places
  <2> QED
    BY <1>1, <1>2, <2>3, <2>4, <2>7, <2>8, <2>9, <2>10, RunMoves DEF Known
<1> QED
  BY <1>3, <1>4 DEF RetireState

LEMMA NoLocalsType == NoLocals \in LocalsType
  BY DEF NoLocals, LocalsType, ErrorKinds

LEMMA ConcludeSane ==
  ASSUME TypeOK, RunInv, NEW r \in Runs, Conclude(r)
  PROVE  TypeOK' /\ RunInv'
<1>1. Known(r) /\ pc[r] = "conclude"
  BY RunKnown DEF Conclude
<1>2. ReadinessTypeOK' /\ faults' \in 0..MaxFaults
  BY ReadinessTypes, SoundOrFaulty DEF Conclude, cmlVars, TypeOK
<1>3. PICK o : o = Outcome(locals[r])
  OBVIOUS
<1>4. /\ o \in Outcomes
      /\ o = "SUCCEEDED" => locals[r].primary = "none" /\ locals[r].cleanup = "none"
      /\ o = "FAILED" => locals[r].primary # "ambiguous" /\ locals[r].cleanup = "none"
  BY <1>1, <1>3 DEF Outcome, Outcomes, Known, LocalsType, ErrorKinds
<1>5. \/ /\ Put(evidence, evidence', r, o)
         /\ \/ /\ o = "SUCCEEDED" /\ Put(pc, pc', r, "annotate")
               /\ Put(locals, locals', r, locals[r])
            \/ o # "SUCCEEDED" /\ Put(pc, pc', r, "done") /\ Put(locals, locals', r, NoLocals)
      \/ /\ Put(evidence, evidence', r, evidence[r])
         /\ Put(pc, pc', r, "raised") /\ Put(locals, locals', r, NoLocals)
  <2>1. DOMAIN evidence = Runs
    BY DEF TypeOK
  <2>2. CASE EvidenceValid(locals[r])
    <3>1. evidence' = [evidence EXCEPT ![r] = o] /\ evidence'[r] = o
      BY <1>3, <2>1, <2>2 DEF Conclude
    <3> QED
      BY <2>2, <3>1 DEF Conclude, Goto, Exits, Put
  <2>3. CASE ~EvidenceValid(locals[r])
    BY <2>3 DEF Conclude, Goto, Exits, Put
  <2> QED
    BY <2>2, <2>3
<1>6. /\ Put(lab, lab', r, lab[r]) /\ Put(state, state', r, state[r])
      /\ Put(files, files', r, files[r]) /\ Put(receipt, receipt', r, receipt[r])
      /\ Put(recovery, recovery', r, recovery[r])
  BY DEF Conclude, cmlVars, Put
<1>7. ASSUME NEW e \in {o, evidence[r]}, NEW p \in {"annotate", "done", "raised"},
             NEW l \in {locals[r], NoLocals},
             p = "annotate" => o = "SUCCEEDED" /\ e = o /\ l = locals[r],
             p = "done" => e = o, p = "raised" => e = evidence[r], 
             Put(evidence, evidence', r, e), Put(pc, pc', r, p), Put(locals, locals', r, l)
      PROVE  TypeOK' /\ RunInv'
  <2>1. OnTheWay(p, l)
    BY DEF OnTheWay, Building, Recycling
  <2>2. Holding(p, lab[r], state[r], files[r], l)
    BY DEF Holding, Building, Cleaning
  <2>3. Recorded(p, lab[r], files[r], l, e, receipt[r], recovery[r])
    BY <1>1, <1>4, <1>7 DEF Known, Holding, Recorded, Telling, Ended
  <2>4. p \in Places /\ l \in LocalsType /\ e \in Outcomes \cup {"none", "reserved"}
    BY <1>1, <1>4, NoLocalsType DEF Places, Ended, Known
  <2> QED
    BY <1>1, <1>2, <1>6, <1>7, <2>1, <2>2, <2>3, <2>4, RunMoves DEF Known
<1> QED
  BY <1>5, <1>7

LEMMA PublishSane ==
  ASSUME TypeOK, RunInv, NEW r \in Runs, Publish(r)
  PROVE  TypeOK' /\ RunInv'
<1>1. Known(r) /\ pc[r] \in Telling
  BY RunKnown DEF Publish, Telling
<1>2. ReadinessTypeOK' /\ faults' \in 0..MaxFaults
  <2>1. ReadinessTypeOK'
    BY ReadinessTypes DEF Publish, cmlVars, TypeOK
  <2> QED
    BY <2>1, SoundOrFaulty DEF Publish
<1>3. /\ Put(lab, lab', r, lab[r]) /\ Put(state, state', r, state[r])
      /\ Put(files, files', r, files[r]) /\ Put(evidence, evidence', r, evidence[r])
      /\ Put(recovery, recovery', r, recovery[r])
  BY DEF Publish, cmlVars, Put
<1>4. PICK p \in {"upload", "receipt", "done"}, c \in {receipt[r], "uploaded", "published"},
           l \in {locals[r], NoLocals} :
         /\ Put(pc, pc', r, p) /\ Put(receipt, receipt', r, c) /\ Put(locals, locals', r, l)
         /\ p # "done" => l = locals[r]
  BY DEF Publish, Goto, Exits, Put
<1>5. OnTheWay(p, l)
  BY DEF OnTheWay, Building, Recycling
<1>6. Holding(p, lab[r], state[r], files[r], l)
  BY DEF Holding, Building, Cleaning
<1>7. Recorded(p, lab[r], files[r], l, evidence[r], c, recovery[r])
  BY <1>1, <1>4 DEF Known, Recorded, Telling, Ended
<1>8. p \in Places /\ l \in LocalsType /\ c \in {"none", "uploaded", "published"}
  BY <1>1, NoLocalsType DEF Places, Ended, Known
<1> QED
  BY <1>1, <1>2, <1>3, <1>4, <1>5, <1>6, <1>7, <1>8, RunMoves DEF Known

LEMMA CrashSane ==
  ASSUME TypeOK, RunInv, NEW r \in Runs, Crash(r)
  PROVE  TypeOK' /\ RunInv'
<1>1. Known(r) /\ pc[r] \notin Ended \cup {"idle"}
  BY RunKnown DEF Crash, Live
<1>2. ReadinessTypeOK' /\ faults' \in 0..MaxFaults
  BY ReadinessTypes, SoundOrFaulty DEF Crash, TypeOK
<1>3. /\ Put(pc, pc', r, "crashed") /\ Put(locals, locals', r, NoLocals)
      /\ Put(state, state', r, state[r])
      /\ Put(files, files', r, files[r]) /\ Put(evidence, evidence', r, evidence[r])
      /\ Put(receipt, receipt', r, receipt[r]) /\ Put(recovery, recovery', r, recovery[r])
  BY DEF Crash, Exits, Goto, recordVars, Put
<1>4. PICK L \in SUBSET Graph :
        Put(lab, lab', r, L) /\ (L # lab[r] => pc[r] \in {"apply", "destroy"})
  <2>1. CASE UNCHANGED lab
    BY <1>1, <2>1 DEF Known, Put
  <2>2. ASSUME pc[r] = "apply",
               lab' = [lab EXCEPT ![r] = @ \cup {Lowest(Graph \ state[r])}]
        PROVE  \E L \in SUBSET Graph : Put(lab, lab', r, L)
    <3>1. Graph \ state[r] \in SUBSET Nat /\ Graph \ state[r] # {}
      BY <1>1, <2>2, RunAssumption DEF Known, Holding, Graph
    <3>2. PICK L : L = lab[r] \cup {Lowest(Graph \ state[r])}
      OBVIOUS
    <3>3. L \in SUBSET Graph
      BY <1>1, <3>1, <3>2, LowestIn DEF Known
    <3> QED
      BY <2>2, <3>2, <3>3 DEF Put
  <2>3. ASSUME pc[r] = "destroy", lab' = Without(r, Highest(state[r]))
        PROVE  \E L \in SUBSET Graph : Put(lab, lab', r, L)
    <3>1. PICK k : k = Highest(state[r])
      OBVIOUS
    <3>2. PICK L : L = IF k = 0 THEN {} ELSE lab[r] \ {k}
      OBVIOUS
    <3>3. L \in SUBSET Graph
      BY <1>1, <3>2 DEF Known
    <3> QED
      BY <2>3, <3>1, <3>2, <3>3 DEF Put, Without
  <2> QED
    BY <2>1, <2>2, <2>3 DEF Crash
<1>5. OnTheWay("crashed", NoLocals)
  BY DEF OnTheWay, Building, Recycling
<1>6. Holding("crashed", L, state[r], files[r], NoLocals)
  BY DEF Holding, Building, Cleaning
<1>7. Recorded("crashed", L, files[r], NoLocals, evidence[r], receipt[r], recovery[r])
  BY <1>1, <1>4 DEF Known, Recorded, Telling, Ended
<1>8. "crashed" \in Places
  BY DEF Places, Ended
<1> QED
  BY <1>1, <1>2, <1>3, <1>4, <1>5, <1>6, <1>7, <1>8, NoLocalsType, RunMoves DEF Known

\* A recovery has only runs that have ended, and deletes or unlinks.
LEMMA RecoverSane ==
  ASSUME TypeOK, RunInv, NEW r \in Runs, Recover(r)
  PROVE  TypeOK' /\ RunInv'
<1>1. Known(r) /\ pc[r] \in Ended
  BY RunKnown
  DEF Recover, RecoverPlan, RecoverDestroy, RecoverProve, RecoverUnlink, Known, Recorded
<1>2. ReadinessTypeOK' /\ faults' \in 0..MaxFaults
  BY ReadinessTypes, SoundOrFaulty
  DEF Recover, RecoverPlan, RecoverDestroy, RecoverProve, RecoverUnlink, DeleteResource,
      cmlVars, TypeOK
<1>3. /\ Put(pc, pc', r, pc[r]) /\ Put(locals, locals', r, locals[r])
      /\ Put(evidence, evidence', r, evidence[r]) /\ Put(receipt, receipt', r, receipt[r])
  BY DEF Recover, jobVars, recordVars, Put
<1>4. PICK L \in SUBSET lab[r], S \in SUBSET state[r] :
        Put(lab, lab', r, L) /\ Put(state, state', r, S)
  <2>1. CASE RecoverDestroy(r)
    BY <2>1, Deletes DEF RecoverDestroy
  <2>2. CASE UNCHANGED <<lab, state>>
    BY <2>2 DEF Put
  <2> QED
    BY <2>1, <2>2 DEF Recover, RecoverPlan, RecoverProve, RecoverUnlink, cmlVars
<1>5. PICK F \in SUBSET files[r] : Put(files, files', r, F)
  <2>1. CASE UNCHANGED files
    BY <2>1 DEF Put
  <2>2. ASSUME NEW x, files' = [files EXCEPT ![r] = @ \ {x}]
        PROVE  \E F \in SUBSET files[r] : Put(files, files', r, F)
    BY <2>2 DEF Put
  <2> QED
    BY <2>1, <2>2 DEF Recover, RecoverPlan, RecoverDestroy, RecoverProve, RecoverUnlink
<1>6. PICK v \in {"off", "destroy", "prove", "unlink"} :
        Put(recovery, recovery', r, v) /\ (v = "unlink" => lab[r] = {})
  <2>1. CASE RecoverPlan(r) \/ RecoverProve(r) \/ RecoverUnlink(r)
    BY <1>1, <2>1
    DEF RecoverPlan, RecoverProve, RecoverUnlink, At, Put, Absent, Known, Recorded
  <2>2. CASE RecoverDestroy(r)
    <3>1. \/ At(r, IF state'[r] = {} THEN "prove" ELSE "destroy")
          \/ At(r, "off")
      BY <2>2, Deletes DEF RecoverDestroy
    <3> QED
      BY <3>1 DEF At, Put
  <2> QED
    BY <2>1, <2>2 DEF Recover
<1>7. OnTheWay(pc[r], locals[r])
  BY <1>1 DEF Known
<1>8. Holding(pc[r], L, S, F, locals[r])
  BY <1>1 DEF Holding, Building, Cleaning, Ended
<1>9. Recorded(pc[r], L, F, locals[r], evidence[r], receipt[r], v)
  BY <1>1, <1>6 DEF Known, Recorded, Telling, Ended
<1>10. /\ L \in SUBSET Graph /\ S \in SUBSET Graph
       /\ F \in SUBSET {"directory", "inputs", "state"}
  BY <1>1 DEF Known
<1> QED
  BY <1>1, <1>2, <1>3, <1>4, <1>5, <1>6, <1>7, <1>8, <1>9, <1>10, RunMoves DEF Known

LEMMA RunStarts ==
  ASSUME Init
  PROVE  TypeOK /\ RunInv
<1>1. TypeOK
  BY FreshTypes, NoLocalsType, RunAssumption
  DEF Init, ReadinessInit, ReadinessTypeOK, TypeOK, Places
<1>2. /\ OnTheWay("idle", NoLocals) /\ Holding("idle", {}, {}, {}, NoLocals)
      /\ Recorded("idle", {}, {}, NoLocals, "none", "none", "off")
  BY DEF NoLocals, OnTheWay, Holding, Recorded, Building, Recycling, Cleaning, Telling
<1> QED
  BY <1>1, <1>2 DEF Init, RunInv

LEMMA RunSteps ==
  ASSUME TypeOK, RunInv, [Next]_vars
  PROVE  TypeOK' /\ RunInv'
<1>1. CASE UNCHANGED vars
  BY <1>1 DEF vars, labVars, TypeOK, ReadinessTypeOK, RunInv
<1>2. CASE Laboratory
  <2>1. ReadinessTypeOK'
    BY <1>2, ReadinessTypes DEF Laboratory, TypeOK
  <2> QED
    BY <1>2, <2>1 DEF Laboratory, jobVars, recordVars, TypeOK, RunInv
<1>3. ASSUME NEW r \in Runs, Job(r)
      PROVE  TypeOK' /\ RunInv'
  <2>1. CASE Begin(r) \/ Admit(r) \/ PrepareCreate(r) \/ CreateResource(r)
    BY <2>1, BeginSane, PrepareSane, CreateSane
  <2>2. CASE \/ ClassifyCreate(r) \/ Adopt(r) \/ StartLab(r) \/ CheckLabStart(r) \/ Recycle(r)
             \/ WaitReadiness(r) \/ EstablishTrust(r) \/ Collect(r)
    BY <2>2, CreatedSane, StartSane, RecycleSane, ReadSane, CollectSane
  <2>3. CASE \/ Own(r) \/ PlanDestroy(r) \/ Destroy(r) \/ ReconcileDestroy(r)
             \/ VerifyAbsent(r) \/ RetireState(r) \/ Conclude(r) \/ Publish(r)
    BY <2>3, OwnSane, DestroySane, AbsenceSane, RetireSane, ConcludeSane, PublishSane
  <2> QED
    BY <1>3, <2>1, <2>2, <2>3 DEF Job
<1> QED
  BY <1>1, <1>2, <1>3, CrashSane, RecoverSane DEF Next

LEMMA Account == Spec => [](TypeOK /\ RunInv)
<1>1. Init => TypeOK /\ RunInv
  BY RunStarts
<1>2. TypeOK /\ RunInv /\ [Next]_vars => (TypeOK /\ RunInv)'
  BY RunSteps
<1> QED
  BY <1>1, <1>2, PTL DEF Spec

\* The facts of the lifecycle, of Terraform and of CML keep their types through
\* every step of a job, of a crash and of a recovery.
THEOREM TypeCorrect == Spec => []TypeOK
  BY Account, PTL

(***************************************************************************)
(* The evidence of a run (ProfiledStagingLifecycle.run, ProfiledStaging-   *)
(* Evidence) tells the truth about CML and about itself: SUCCEEDED and     *)
(* FAILED are written only after absence was proved, or nothing had been   *)
(* created; SUCCEEDED has every phase, device and recycle behind it, and a *)
(* receipt is published of nothing else.                                    *)
(***************************************************************************)
THEOREM RunOutcomes == Spec => []OutcomeTruth
<1>1. TypeOK /\ RunInv => OutcomeTruth
  <2>1. ASSUME TypeOK, RunInv, NEW r \in Runs
        PROVE  /\ evidence[r] \in {"SUCCEEDED", "FAILED"} => lab[r] = {}
               /\ evidence[r] = "SUCCEEDED" => files[r] = {}
               /\ evidence[r] = "SUCCEEDED" /\ Live(r) => EvidenceSucceeded(r)
               /\ receipt[r] # "none" => evidence[r] = "SUCCEEDED"
    BY <2>1, RunKnown DEF Known, Recorded, Live, Ended, Worked, EvidenceSucceeded
  <2> QED
    BY <2>1 DEF OutcomeTruth
<1> QED
  BY <1>1, Account, PTL

(***************************************************************************)
(* No step takes a file of a run directory away while CML holds anything   *)
(* of the run: retire_state proves absence once more before it unlinks,    *)
(* and the recovery unlinks only after a proof that nothing undoes, since  *)
(* nothing creates for a run that has ended.                                *)
(***************************************************************************)
THEOREM Retirements == Spec => RetireOnlyWhenGone
<1>1. ASSUME TypeOK, RunInv, [Next]_vars
      PROVE  [\A r \in Runs : ~(files[r] \subseteq files'[r]) => lab[r] = {}]_vars
  <2>1. SUFFICES ASSUME NEW r \in Runs, ~(files[r] \subseteq files'[r])
                 PROVE  lab[r] = {}
    OBVIOUS
  <2>2. DOMAIN files = Runs /\ files' # files
    BY <1>1, <2>1 DEF TypeOK
  <2>3. PICK q \in Runs : Job(q) \/ Crash(q) \/ Recover(q)
    BY <1>1, <2>2 DEF Next, Laboratory, vars
  <2>4. Known(q)
    BY <1>1, RunKnown
  <2>5. PICK F : files' = [files EXCEPT ![q] = F] /\ (files[q] \subseteq F \/ lab[q] = {})
    <3>1. CASE Begin(q) \/ PrepareCreate(q) \/ CreateResource(q)
      BY <2>2, <2>4, <3>1 DEF Begin, PrepareCreate, CreateResource, Known, Holding
    <3>2. CASE RetireState(q) \/ RecoverUnlink(q)
      <4>1. lab[q] = {}
        BY <2>2, <2>4, <3>2 DEF RetireState, RecoverUnlink, Absent, Known, Recorded
      <4>2. \E F : files' = [files EXCEPT ![q] = F]
        BY <2>2, <3>2 DEF RetireState, RecoverUnlink
      <4> QED
        BY <4>1, <4>2
    <3> QED
      BY <2>2, <2>3, <3>1, <3>2
      DEF Job, Admit, ClassifyCreate, Adopt, StartLab, CheckLabStart, Recycle, AwaitFirstBoot,
          StopSubject, ReconcileStop, AwaitStop, StartSubject, ReconcileStart, AwaitBoot, Request,
          Reconcile, WaitReadiness, EstablishTrust, Collect, Own, PlanDestroy, Destroy,
          ReconcileDestroy, VerifyAbsent, Conclude, Publish, Crash, Recover, RecoverPlan,
          RecoverDestroy, RecoverProve
  <2>6. CASE q = r
    BY <2>1, <2>2, <2>5, <2>6
  <2>7. CASE q # r
    BY <2>1, <2>2, <2>5, <2>7
  <2> QED
    BY <2>6, <2>7
<1> QED
  BY <1>1, Account, PTL DEF Spec, RetireOnlyWhenGone

-----------------------------------------------------------------------------
(* One job at a time, and the laboratories. *)

\* The whole of the job's own steps but the ones that touch CML or begin a run.
Quiet(r) ==
    \/ Adopt(r) \/ ClassifyCreate(r) \/ StartLab(r) \/ CheckLabStart(r) \/ Recycle(r)
    \/ WaitReadiness(r) \/ EstablishTrust(r) \/ Collect(r) \/ Own(r) \/ PlanDestroy(r)
    \/ ReconcileDestroy(r) \/ VerifyAbsent(r) \/ RetireState(r) \/ Conclude(r) \/ Publish(r)

LEMMA QuietStep ==
  ASSUME TypeOK, NEW r \in Runs, Quiet(r)
  PROVE  /\ UNCHANGED lab /\ pc[r] \notin Ended \cup {"idle", "inputs", "apply"}
         /\ Goto(r, pc'[r]) /\ pc'[r] \notin {"idle", "inputs", "apply"}
<1>0. DOMAIN pc = Runs
  BY DEF TypeOK
<1>1. /\ UNCHANGED lab /\ pc[r] \notin Ended \cup {"idle", "inputs", "apply"}
  BY DEF Quiet, Adopt, ClassifyCreate, StartLab, CheckLabStart, Recycle, AwaitFirstBoot,
         StopSubject, ReconcileStop, AwaitStop, StartSubject, ReconcileStart, AwaitBoot, Request,
         Reconcile, WaitReadiness, EstablishTrust, Collect, Own, PlanDestroy, ReconcileDestroy,
         VerifyAbsent, RetireState, Conclude, Publish, cmlVars, Ended
<1> SUFFICES Goto(r, pc'[r]) /\ pc'[r] \notin {"idle", "inputs", "apply"}
  BY <1>1
<1>2. CASE \/ Adopt(r) \/ ClassifyCreate(r) \/ StartLab(r) \/ CheckLabStart(r)
  BY <1>0, <1>2
  DEF Adopt, Call, ClassifyCreate, StartLab, CheckLabStart, LabStarted, NextSubject, Fails, Goto
<1>3. CASE Recycle(r)
  BY <1>0, <1>3 DEF Recycle, AwaitFirstBoot, StopSubject, ReconcileStop, AwaitStop, StartSubject,
              ReconcileStart, AwaitBoot, Request, Reconcile, NextSubject, Fails, Goto
<1>4. CASE WaitReadiness(r)
  BY <1>0, <1>4 DEF WaitReadiness, Goto
<1>5. CASE EstablishTrust(r) \/ Collect(r) \/ Own(r) \/ PlanDestroy(r)
  BY <1>0, <1>5 DEF EstablishTrust, Collect, Own, PlanDestroy, Fails, CleanupFails, Goto
<1>6. CASE ReconcileDestroy(r) \/ VerifyAbsent(r) \/ RetireState(r)
  BY <1>0, <1>6 DEF ReconcileDestroy, VerifyAbsent, RetireState, CleanupFails, Goto
<1>7. CASE Conclude(r) \/ Publish(r)
  BY <1>0, <1>7 DEF Conclude, Publish, Exits, Goto, Ended
<1> QED
  BY <1>2, <1>3, <1>4, <1>5, <1>6, <1>7 DEF Quiet

\* A step of run r takes it to p and leaves CML with L of it. It begins in order,
\* is over when it has ended, prepares without another laboratory in CML, and
\* creates while it applies.
Steps(r, p, L) ==
    /\ Put(pc, pc', r, p) /\ Put(lab, lab', r, L)
    /\ pc[r] = "idle" => \A q \in Runs : q < r => pc[q] \in Ended
    /\ pc[r] \in Ended => p = pc[r]
    /\ p \in {"inputs", "apply"} =>
           pc[r] \in {"inputs", "apply"} \/ \A q \in Runs : lab[q] = {}
    /\ L \subseteq lab[r] \/ pc[r] = "apply"

LEMMA RunStep ==
  ASSUME TypeOK, RunInv, NEW r \in Runs, Job(r) \/ Crash(r) \/ Recover(r)
  PROVE  \E p, L : Steps(r, p, L)
<1>1. CASE Quiet(r)
  <2>1. PICK p : p = pc'[r] /\ Goto(r, p) /\ p \notin {"idle", "inputs", "apply"}
    BY <1>1, QuietStep
  <2>2. Steps(r, p, lab[r])
    BY <1>1, <2>1, QuietStep DEF Steps, Put, Goto
  <2> QED
    BY <2>2
<1>2. CASE Begin(r)
  <2>1. PICK p \in {"admit", "refused"} : Goto(r, p)
    BY <1>2 DEF Begin
  <2>2. Steps(r, p, lab[r])
    BY <1>2, <2>1 DEF Begin, cmlVars, Steps, Put, Goto, Ended
  <2> QED
    BY <2>2
<1>3. CASE Admit(r) \/ PrepareCreate(r)
  <2>1. PICK p \in {"inputs", "apply", "own"} :
          /\ Goto(r, p) /\ pc[r] \in {"admit", "inputs"}
          /\ p # "own" => pc[r] = "inputs" \/ \A q \in Runs : lab[q] = {}
    BY <1>3 DEF Admit, PrepareCreate, Collision, Call, Fails
  <2>2. Steps(r, p, lab[r])
    BY <1>3, <2>1 DEF Admit, PrepareCreate, cmlVars, Steps, Put, Goto, Ended
  <2> QED
    BY <2>2
<1>4. CASE CreateResource(r)
  <2>1. pc[r] = "apply"
    BY <1>4 DEF CreateResource
  <2>2. PICK p : Put(pc, pc', r, p)
    BY <1>4 DEF CreateResource, Goto, jobVars, Put
  <2>3. PICK L : Put(lab, lab', r, L)
    BY <1>4 DEF CreateResource, Put
  <2>4. Steps(r, p, L)
    BY <2>1, <2>2, <2>3 DEF Steps, Ended
  <2> QED
    BY <2>4
<1>5. CASE Destroy(r)
  <2>1. pc[r] = "destroy"
    BY <1>5 DEF Destroy
  <2>2. PICK p \in {"absent", "destroy", "uncertain"} : Put(pc, pc', r, p)
    BY <1>5, <2>1 DEF Destroy, DeleteResource, Goto, jobVars, Put
  <2>3. PICK L \in SUBSET lab[r] : Put(lab, lab', r, L)
    BY <1>5, Deletes DEF Destroy
  <2>4. Steps(r, p, L)
    BY <2>1, <2>2, <2>3 DEF Steps, Ended
  <2> QED
    BY <2>4
<1>6. CASE Crash(r)
  <2>1. Put(pc, pc', r, "crashed") /\ pc[r] \notin Ended \cup {"idle"}
    BY <1>6 DEF Crash, Exits, Goto, Put, Live
  <2>2. PICK L : Put(lab, lab', r, L) /\ (L \subseteq lab[r] \/ pc[r] = "apply")
    <3>1. CASE UNCHANGED lab
      BY <3>1 DEF Put
    <3>2. ASSUME pc[r] = "apply", NEW x, lab' = [lab EXCEPT ![r] = x]
          PROVE  \E L : Put(lab, lab', r, L) /\ (L \subseteq lab[r] \/ pc[r] = "apply")
      BY <3>2 DEF Put
    <3>3. ASSUME lab' = Without(r, Highest(state[r]))
          PROVE  \E L : Put(lab, lab', r, L) /\ (L \subseteq lab[r] \/ pc[r] = "apply")
      <4>1. PICK k : k = Highest(state[r])
        OBVIOUS
      <4>2. PICK L : L = IF k = 0 THEN {} ELSE lab[r] \ {k}
        OBVIOUS
      <4>3. Put(lab, lab', r, L) /\ L \subseteq lab[r]
        BY <3>3, <4>1, <4>2 DEF Put, Without
      <4> QED
        BY <4>3
    <3> QED
      BY <1>6, <3>1, <3>2, <3>3 DEF Crash
  <2>3. Steps(r, "crashed", L)
    BY <2>1, <2>2 DEF Steps, Ended
  <2> QED
    BY <2>3
<1>7. CASE Recover(r)
  <2>1. pc[r] \in Ended
    BY <1>7, RunKnown
    DEF Recover, RecoverPlan, RecoverDestroy, RecoverProve, RecoverUnlink, Known, Recorded
  <2>2. PICK L \in SUBSET lab[r] : Put(lab, lab', r, L)
    <3>1. CASE RecoverDestroy(r)
      BY <3>1, Deletes DEF RecoverDestroy
    <3>2. CASE UNCHANGED lab
      BY <3>2 DEF Put
    <3> QED
      BY <1>7, <3>1, <3>2 DEF Recover, RecoverPlan, RecoverProve, RecoverUnlink, cmlVars
  <2>3. Steps(r, pc[r], L)
    BY <1>7, <2>1, <2>2 DEF Recover, jobVars, Steps, Put, Ended
  <2> QED
    BY <2>3
<1> QED
  BY <1>1, <1>2, <1>3, <1>4, <1>5, <1>6, <1>7 DEF Job, Quiet

LEMMA LabSteps ==
  ASSUME TypeOK, RunInv, LabInv, [Next]_vars
  PROVE  LabInv'
<1>1. CASE UNCHANGED <<pc, lab>>
  BY <1>1 DEF LabInv, SingleLab
<1>2. ASSUME NEW r \in Runs, NEW p, NEW L, Steps(r, p, L)
      PROVE  LabInv'
  <2>1. \A q \in Runs : q \in Nat
    BY RunAssumption
  <2>2. /\ DOMAIN pc = Runs /\ DOMAIN lab = Runs
    BY DEF TypeOK
  <2>3. /\ pc'[r] = p /\ \A q \in Runs \ {r} : pc'[q] = pc[q]
        /\ lab'[r] = L /\ \A q \in Runs \ {r} : lab'[q] = lab[q]
    BY <1>2, <2>2 DEF Steps, Put
  <2>4. \A q, s \in Runs : q < s /\ pc'[s] # "idle" => pc'[q] \in Ended
    <3>1. SUFFICES ASSUME NEW q \in Runs, NEW s \in Runs, q < s, pc'[s] # "idle"
                   PROVE  pc'[q] \in Ended
      OBVIOUS
    <3>2. pc[q] \in Ended
      <4>1. CASE s = r
        BY <1>2, <3>1, <4>1 DEF Steps, LabInv
      <4>2. CASE s # r
        BY <2>3, <3>1, <4>2 DEF LabInv
      <4> QED
        BY <4>1, <4>2
    <3> QED
      BY <1>2, <2>3, <3>2 DEF Steps
  <2>5. CASE L \subseteq lab[r]
    <3>1. \A q \in Runs : lab'[q] \subseteq lab[q]
      BY <2>3, <2>5
    <3>2. \A q, s \in Runs : q # s /\ pc'[s] \in {"inputs", "apply"} => lab'[q] = {}
      BY <1>2, <2>3, <3>1 DEF Steps, LabInv
    <3> QED
      BY <2>4, <3>1, <3>2 DEF LabInv, SingleLab
  <2>6. CASE pc[r] = "apply"
    <3>1. \A q \in Runs \ {r} : lab'[q] = {} /\ pc[q] \notin {"inputs", "apply"}
      <4>1. SUFFICES ASSUME NEW q \in Runs, q # r
                     PROVE  lab'[q] = {} /\ pc[q] \notin {"inputs", "apply"}
        OBVIOUS
      <4>2. q < r \/ r < q
        BY <2>1, <4>1
      <4> QED
        BY <2>3, <2>6, <4>1, <4>2 DEF LabInv, Ended
    <3> QED
      BY <2>3, <2>4, <3>1 DEF LabInv, SingleLab
  <2> QED
    BY <1>2, <2>5, <2>6 DEF Steps
<1> QED
  BY <1>1, <1>2, RunStep DEF Next, Laboratory, jobVars, vars

LEMMA Laboratories == Spec => []LabInv
<1>1. Init => LabInv
  BY DEF Init, LabInv, SingleLab
<1>2. TypeOK /\ RunInv /\ LabInv /\ [Next]_vars => LabInv'
  BY LabSteps
<1> QED
  BY <1>1, <1>2, Account, PTL DEF Spec

(***************************************************************************)
(* Whatever was left behind by a crash, a lost response of Terraform or a  *)
(* cleanup that failed, no run creates a laboratory beside one that CML    *)
(* has: admit_no_staging_collision holds from the observation to the last  *)
(* resource of the apply, because the concurrency group starts no other    *)
(* job meanwhile and a recovery only deletes.                               *)
(***************************************************************************)
THEOREM OneLaboratory == Spec => []SingleLab
<1>1. LabInv => SingleLab
  BY DEF LabInv
<1> QED
  BY <1>1, Laboratories, PTL

-----------------------------------------------------------------------------
(* The nodes and the wait. *)

Touching == NodePlaces \cup {"apply", "adopt", "startlab"}

\* While a job stands somewhere in its run, no other does.
LEMMA Alone ==
  ASSUME LabInv, NEW r \in Runs, pc[r] \notin Ended \cup {"idle"}
  PROVE  \A q \in Runs \ {r} : pc[q] \in Ended \cup {"idle"} /\ pc[q] \notin Touching
<1>1. SUFFICES ASSUME NEW q \in Runs, q # r
               PROVE  pc[q] \in Ended \cup {"idle"}
  BY DEF Touching, NodePlaces, Ended
<1>2. q < r \/ r < q
  BY <1>1, RunAssumption
<1> QED
  BY <1>1, <1>2 DEF LabInv

\* The job that stands in its run moves, and the nodes with it.
LEMMA NodesMove ==
  ASSUME TypeOK, LabInv, NEW r \in Runs, pc[r] \notin Ended \cup {"idle"},
         NEW p, Put(pc, pc', r, p), Waiting', NodesOf(r)'
  PROVE  NodeInv'
<1>1. ASSUME NEW q \in Runs, q # r
      PROVE  NodesOf(q)'
  <2>1. pc'[q] \notin Touching
    BY <1>1, Alone DEF Put, TypeOK
  <2> QED
    BY <2>1 DEF NodesOf, Touching, NodePlaces
<1> QED
  BY <1>1 DEF NodeInv

\* A step that leaves the nodes and the wait, and ends outside of them.
LEMMA NodesKeep ==
  ASSUME TypeOK, NodeInv, NEW r \in Runs, UNCHANGED <<labVars, watch>>,
         NEW p, Put(pc, pc', r, p), pc[r] # "ready", p \notin Touching,
         \A q \in Runs \ {r} : locals'[q] = locals[q] /\ state'[q] = state[q]
  PROVE  NodeInv'
<1>1. pc'[r] = p /\ \A q \in Runs \ {r} : pc'[q] = pc[q]
  BY DEF TypeOK, Put
<1>2. NodesOf(r)'
  BY <1>1 DEF NodesOf, Touching, NodePlaces
<1>3. ASSUME NEW q \in Runs, q # r
      PROVE  NodesOf(q)'
  BY <1>1, <1>3
  DEF NodeInv, NodesOf, Fresh, Node, Twice, Once, BeingRecycled, Subject, Watched, labVars
<1>4. Waiting'
  BY <1>1 DEF NodeInv, Waiting, InTime
<1> QED
  BY <1>2, <1>3, <1>4 DEF NodeInv

\* Nothing is known of the nodes of a run that has left them.
LEMMA NodesForgotten ==
  ASSUME TypeOK, LabInv, NEW r \in Runs, pc[r] \notin Ended \cup {"idle"}, NewLab,
         NEW p, Put(pc, pc', r, p), p \notin Touching
  PROVE  NodeInv'
<1>1. pc'[r] = p
  BY DEF TypeOK, Put
<1>2. Waiting'
  BY DEF Waiting, InTime, NewLab, NewWatch, NormalTimeout
<1>3. NodesOf(r)'
  BY <1>1 DEF NodesOf, Touching, NodePlaces
<1> QED
  BY <1>2, <1>3, NodesMove

LEMMA NodesStart ==
  ASSUME Init
  PROVE  NodeInv
  BY DEF Init, ReadinessInit, NodeInv, NodesOf, Waiting, InTime, NewWatch, NormalTimeout, NodePlaces

\* What a node does of its own.
LEMMA NodeMoves ==
  ASSUME ReadinessTypeOK, LabStep, NEW d \in Members
  PROVE  \/ power'[d] = power[d] /\ boots'[d] = boots[d] /\ bootedAt'[d] = bootedAt[d]
         \/ /\ power[d] = "STARTED" /\ power'[d] = "BOOTED" /\ boots'[d] = boots[d] + 1
            /\ bootedAt'[d] = watch.clock
         \/ power[d] = "STOPPING" /\ power'[d] = "STOPPED" /\ boots'[d] = boots[d]
  BY DEF LabStep, Boots, Opens, Stops, ReadinessTypeOK

LEMMA NodeStep ==
  ASSUME ReadinessTypeOK, LabStep, NEW d \in Members, NEW p, NEW l, NEW s, Node(p, l, s, d)
  PROVE  Node(p, l, s, d)'
<1>1. Twice(d) => Twice(d)'
  BY NodeMoves DEF Twice
<1>2. Once(d) => Once(d)'
  BY NodeMoves DEF Once
<1>3. BeingRecycled(p, d) => BeingRecycled(p, d)'
  BY <1>1, <1>2, NodeMoves DEF BeingRecycled, Twice
<1> QED
  BY <1>1, <1>2, <1>3 DEF Node

LEMMA LaboratoryNodes ==
  ASSUME TypeOK, RunInv, LabInv, NodeInv, Laboratory
  PROVE  NodeInv'
<1>1. PICK r \in Runs : pc[r] \in NodePlaces
  BY DEF Laboratory
<1>2. /\ ReadinessTypeOK /\ LabStep /\ UNCHANGED <<pc, locals, state, watch>>
      /\ pc[r] \notin Ended \cup {"idle"}
  BY <1>1 DEF Laboratory, TypeOK, jobVars, LabStep, Boots, Opens, Stops, NodePlaces, Ended
<1>3. Waiting'
  BY <1>2 DEF NodeInv, Waiting, InTime
<1>4. \A d \in Members : Node(pc[r], locals[r], Subject(r), d)'
  <2>1. PICK p, l, s : p = pc[r] /\ l = locals[r] /\ s = Subject(r)
    OBVIOUS
  <2>2. \A d \in Members : Node(p, l, s, d)
    BY <1>1, <2>1 DEF NodeInv, NodesOf
  <2>3. \A d \in Members : Node(p, l, s, d)'
    BY <1>2, <2>2, NodeStep
  <2>4. p = pc'[r] /\ l = locals'[r] /\ s = Subject(r)'
    BY <1>2, <2>1 DEF Subject
  <2> QED
    BY <2>3, <2>4
<1>5. pc[r] # "ready" => watch' = NewWatch /\ bootedAt' = Zero
  <2>1. SUFFICES ASSUME pc[r] # "ready"
                 PROVE  watch' = NewWatch /\ bootedAt' = Zero
    OBVIOUS
  <2>2. watch = NewWatch /\ bootedAt = Zero
    BY <1>1, <2>1 DEF NodeInv, NodesOf
  <2>3. watch.clock = 0 /\ bootedAt' \in [Members -> Nat]
    BY <1>2, <2>2, ReadinessTypes DEF NewWatch, ReadinessTypeOK
  <2>4. \A d \in Members : bootedAt'[d] = 0
    <3>1. \A d \in Members : bootedAt[d] = 0
      BY <2>2 DEF Zero
    <3> QED
      BY <1>2, <2>3, <3>1 DEF LabStep, Boots, Opens, Stops, ReadinessTypeOK
  <2> QED
    BY <1>2, <2>2, <2>3, <2>4 DEF Zero
<1>6. pc[r] = "ready" => Watched'
  <2>1. SUFFICES ASSUME pc[r] = "ready"
                 PROVE  Watched'
    OBVIOUS
  <2>2. Watched /\ watch \in WatchType
    BY <1>2, <2>1 DEF NodeInv, NodesOf, ReadinessTypeOK
  <2>3. ASSUME ~watch.blind, NEW d \in Members
        PROVE  /\ watch.first[d] # Never =>
                      power'[d] = "BOOTED" /\ watch.first[d] <= bootedAt'[d] + Slowest
               /\ d \in watch.remaining /\ power'[d] = "BOOTED" /\ watch.first[d] = Never =>
                      bootedAt'[d] = watch.clock
    BY <1>2, <2>2, <2>3, NodeMoves DEF Watched
  <2> QED
    BY <1>2, <2>2, <2>3 DEF Watched
<1>7. NodesOf(r)'
  BY <1>1, <1>2, <1>4, <1>5, <1>6 DEF NodesOf, NodePlaces
<1> QED
  BY <1>2, <1>3, <1>7, NodesMove DEF Put

\* A job that fails has nothing more to do with the nodes.
LEMMA FailsKeeps ==
  ASSUME TypeOK, NodeInv, NEW r \in Runs, UNCHANGED <<labVars, watch, state>>,
         pc[r] # "ready", NEW kind, Fails(r, kind)
  PROVE  NodeInv'
<1>1. Put(pc, pc', r, "own") /\ "own" \notin Touching
  BY DEF Fails, Goto, Put, Touching, NodePlaces
<1>2. \A q \in Runs \ {r} : locals'[q] = locals[q] /\ state'[q] = state[q]
  BY DEF Fails, TypeOK
<1> QED
  BY <1>1, <1>2, NodesKeep

\* The steps that look at no node.
Elsewhere(r) ==
    \/ Begin(r) \/ Admit(r) \/ ClassifyCreate(r) \/ EstablishTrust(r) \/ Collect(r)
    \/ PlanDestroy(r) \/ Destroy(r) \/ ReconcileDestroy(r) \/ VerifyAbsent(r) \/ RetireState(r)
    \/ Conclude(r) \/ Publish(r) \/ Recover(r)

LEMMA ElsewhereKeeps ==
  ASSUME TypeOK, RunInv, NodeInv, NEW r \in Runs, Elsewhere(r)
  PROVE  NodeInv'
<1>1. DOMAIN pc = Runs /\ DOMAIN locals = Runs /\ DOMAIN state = Runs
  BY DEF TypeOK
<1>2. UNCHANGED <<labVars, watch>> /\ pc[r] # "ready"
  <2>1. CASE Recover(r)
    <3>1. pc[r] \in Ended
      BY <2>1, RunKnown
      DEF Recover, RecoverPlan, RecoverDestroy, RecoverProve, RecoverUnlink, Known, Recorded
    <3> QED
      BY <2>1, <3>1
      DEF Recover, RecoverPlan, RecoverDestroy, RecoverProve, RecoverUnlink, cmlVars, Ended
  <2>2. CASE ~Recover(r)
    BY <2>2 DEF Elsewhere, Begin, Admit, ClassifyCreate, EstablishTrust, Collect, PlanDestroy,
                Destroy, ReconcileDestroy, VerifyAbsent, RetireState, Conclude, Publish, cmlVars
  <2> QED
    BY <2>1, <2>2
<1>3. \A q \in Runs \ {r} : locals'[q] = locals[q] /\ state'[q] = state[q]
  <2>1. \A q \in Runs \ {r} : state'[q] = state[q]
    <3>1. CASE Destroy(r) \/ RecoverDestroy(r)
      BY <1>1, <3>1, Deletes DEF Destroy, RecoverDestroy, Put
    <3>2. CASE UNCHANGED state
      BY <3>2
    <3> QED
      BY <3>1, <3>2
      DEF Elsewhere, Begin, Admit, ClassifyCreate, EstablishTrust, Collect, PlanDestroy,
          ReconcileDestroy, VerifyAbsent, RetireState, Conclude, Publish, Recover, RecoverPlan,
          RecoverProve, RecoverUnlink, cmlVars
  <2>2. CASE Destroy(r)
    <3>1. UNCHANGED locals \/ Passed(r, "destroy")
      BY <2>2, Deletes DEF Destroy, jobVars
    <3> QED
      BY <1>1, <2>1, <3>1 DEF Passed
  <2>3. \A q \in Runs \ {r} : ~Destroy(r) => locals'[q] = locals[q]
    BY <1>1
    DEF Elsewhere, Begin, Admit, Call, Fails, ClassifyCreate, EstablishTrust, ReadyContext,
        Collect, PlanDestroy, CleanupFails, ReconcileDestroy, Passed, VerifyAbsent, RetireState,
        Conclude, Exits, Publish, Recover, jobVars
  <2> QED
    BY <2>1, <2>2, <2>3
<1>4. \E p : Put(pc, pc', r, p) /\ p \notin Touching
  <2>1. CASE Recover(r)
    <3>1. pc[r] \notin Touching
      BY <2>1, RunKnown
      DEF Recover, RecoverPlan, RecoverDestroy, RecoverProve, RecoverUnlink, Known, Recorded,
          Ended, Touching, NodePlaces
    <3> QED
      BY <2>1, <3>1 DEF Recover, jobVars, Put
  <2>2. CASE Destroy(r)
    <3>1. PICK p \in {"absent", "destroy", "uncertain"} : Put(pc, pc', r, p)
      BY <2>2 DEF Destroy, DeleteResource, Goto, jobVars, Put
    <3> QED
      BY <3>1 DEF Touching, NodePlaces
  <2>3. CASE ~Recover(r) /\ ~Destroy(r)
    <3>1. Goto(r, pc'[r]) /\ pc'[r] \notin Touching
      <4>1. CASE Begin(r) \/ Admit(r) \/ ClassifyCreate(r)
        BY <1>1, <4>1 DEF Begin, Admit, Call, Fails, ClassifyCreate, Goto, Touching, NodePlaces
      <4>2. CASE EstablishTrust(r) \/ Collect(r) \/ PlanDestroy(r)
        BY <1>1, <4>2
        DEF EstablishTrust, Collect, PlanDestroy, CleanupFails, Fails, Goto, Touching, NodePlaces
      <4>3. CASE ReconcileDestroy(r) \/ VerifyAbsent(r) \/ RetireState(r)
        BY <1>1, <4>3
        DEF ReconcileDestroy, VerifyAbsent, RetireState, CleanupFails, Goto, Touching, NodePlaces
      <4>4. CASE Conclude(r) \/ Publish(r)
        BY <1>1, <4>4 DEF Conclude, Publish, Exits, Goto, Touching, NodePlaces
      <4> QED
        BY <2>3, <4>1, <4>2, <4>3, <4>4 DEF Elsewhere
    <3> QED
      BY <3>1 DEF Goto, Put
  <2> QED
    BY <2>1, <2>2, <2>3
<1> QED
  BY <1>2, <1>3, <1>4, NodesKeep

LEMMA CreateNodes ==
  ASSUME TypeOK, RunInv, LabInv, NodeInv, NEW r \in Runs,
         PrepareCreate(r) \/ CreateResource(r) \/ Adopt(r)
  PROVE  NodeInv'
<1>1. Known(r) /\ pc[r] \in {"inputs", "apply", "adopt"}
  BY RunKnown DEF PrepareCreate, CreateResource, Adopt
<1>2. pc[r] # "ready" /\ pc[r] \notin Ended \cup {"idle"}
  BY <1>1 DEF Ended
<1>3. CASE \E kind : Fails(r, kind) /\ UNCHANGED <<labVars, watch, state>>
  BY <1>2, <1>3, FailsKeeps
<1>4. ASSUME NEW p \in {"apply", "adopt", "startlab"}, Put(pc, pc', r, p),
             \/ p = "apply" /\ state'[r] = {} /\ UNCHANGED <<labVars, watch>>
             \/ Fresh'
      PROVE  NodeInv'
  <2>1. pc'[r] = p
    BY <1>4 DEF TypeOK, Put
  <2>2. NodesOf(r)'
    BY <1>4, <2>1 DEF NodesOf, NodePlaces
  <2>3. Waiting'
    <3>1. CASE Fresh'
      BY <3>1 DEF Fresh, Waiting, InTime, NewWatch, NormalTimeout
    <3>2. CASE UNCHANGED <<labVars, watch>>
      BY <1>2, <1>4, <3>2 DEF NodeInv, Waiting, InTime, TypeOK, Put
    <3> QED
      BY <1>4, <3>1, <3>2
  <2> QED
    BY <1>2, <1>4, <2>2, <2>3, NodesMove
<1>5. CASE PrepareCreate(r)
  <2>1. state[r] = {}
    BY <1>1, <1>5 DEF PrepareCreate, Known, Holding
  <2> QED
    BY <1>3, <1>4, <1>5, <2>1 DEF PrepareCreate, cmlVars, labVars, Goto, Put
<1>6. CASE Adopt(r)
  <2>1. Fresh
    BY <1>6 DEF Adopt, NodeInv, NodesOf
  <2> QED
    BY <1>3, <1>4, <1>6, <2>1 DEF Adopt, Call, cmlVars, labVars, Fresh, Goto, Put
<1>7. CASE CreateResource(r)
  <2>1. CASE Goto(r, "createfailed") /\ UNCHANGED <<state, locals, labVars, watch>>
    <3>1. Put(pc, pc', r, "createfailed") /\ "createfailed" \notin Touching
      BY <2>1 DEF Goto, Put, Touching, NodePlaces
    <3> QED
      BY <1>2, <2>1, <3>1, NodesKeep
  <2>2. CASE ~(Goto(r, "createfailed") /\ UNCHANGED <<state, locals, labVars, watch>>)
    <3>1. PICK k : k = Lowest(Graph \ state[r])
      OBVIOUS
    <3>2. /\ IF k = Last THEN Goto(r, "adopt") ELSE UNCHANGED pc
          /\ IF k = 0 THEN NewLab ELSE UNCHANGED <<labVars, watch>>
      BY <1>7, <2>2, <3>1 DEF CreateResource, jobVars
    <3>3. PICK p \in {"apply", "adopt"} : Put(pc, pc', r, p)
      BY <1>7, <3>2 DEF CreateResource, Goto, Put
    <3>4. CASE k = 0
      BY <1>4, <3>2, <3>3, <3>4 DEF NewLab, Fresh
    <3>5. CASE k # 0
      <4>1. 0 \in Graph /\ Graph \subseteq Nat /\ state[r] \subseteq Graph /\ Last \notin state[r]
        BY <1>1, <1>7, RunAssumption DEF Graph, CreateResource, Known, Holding
      <4>2. k \in Graph /\ \A y \in Graph \ state[r] : k <= y
        <5>1. Graph \ state[r] \in SUBSET Nat /\ Graph \ state[r] # {}
          BY <4>1, RunAssumption DEF Graph
        <5> QED
          BY <3>1, <5>1, LowestIn
      <4>3. 0 \in state[r]
        BY <3>5, <4>1, <4>2 DEF Graph
      <4>4. Fresh
        BY <1>7, <4>3 DEF CreateResource, NodeInv, NodesOf
      <4> QED
        BY <1>4, <3>2, <3>3, <3>5, <4>4 DEF Fresh, labVars
    <3> QED
      BY <3>4, <3>5
  <2> QED
    BY <2>1, <2>2
<1> QED
  BY <1>5, <1>6, <1>7

\* The wait has not begun.
LEMMA NodesGo ==
  ASSUME TypeOK, LabInv, NEW r \in Runs, pc[r] \notin Ended \cup {"idle"},
         NEW p \in NodePlaces, Put(pc, pc', r, p), watch' = NewWatch, bootedAt' = Zero,
         NEW l, NEW s, l = locals'[r], s = Subject(r)', \A d \in Members : Node(p, l, s, d)'
  PROVE  NodeInv'
<1>1. pc'[r] = p /\ p \notin {"adopt", "startlab", "apply"}
  BY DEF TypeOK, Put, NodePlaces
<1>2. Watched'
  BY DEF Watched, NewWatch, Zero, NormalTimeout, MaximumTimeout, Never
<1>3. Waiting'
  BY DEF Waiting, InTime, NewWatch, NormalTimeout
<1>4. NodesOf(r)'
  BY <1>1, <1>2 DEF NodesOf
<1> QED
  BY <1>3, <1>4, NodesMove

LEMMA FailsNodes ==
  ASSUME TypeOK, LabInv, NEW r \in Runs, pc[r] \notin Ended \cup {"idle"},
         NEW kind, Fails(r, kind), watch' = NewWatch
  PROVE  NodeInv'
<1>1. Put(pc, pc', r, "own") /\ "own" \notin Touching
  BY DEF Fails, Goto, Put, Touching, NodePlaces
<1>2. pc'[r] = "own"
  BY <1>1 DEF Put, TypeOK
<1>3. NodesOf(r)' /\ Waiting'
  BY <1>1, <1>2 DEF NodesOf, Touching, NodePlaces, Waiting, InTime, NewWatch, NormalTimeout
<1> QED
  BY <1>1, <1>3, NodesMove

LEMMA StartNodes ==
  ASSUME TypeOK, RunInv, LabInv, NodeInv, NEW r \in Runs, StartLab(r) \/ CheckLabStart(r)
  PROVE  NodeInv'
<1>1. Known(r) /\ pc[r] \in {"startlab", "labcheck"} /\ pc[r] \notin Ended \cup {"idle"}
  BY RunKnown DEF StartLab, CheckLabStart, Ended
<1>2. watch' = NewWatch /\ bootedAt' = Zero /\ \A d \in Members : Once(d)'
  <2>1. CASE StartLab(r)
    <3>1. Fresh
      BY <2>1 DEF StartLab, NodeInv, NodesOf
    <3> QED
      BY <2>1, <3>1 DEF StartLab, Fresh, Once, NewPower, Zero, PoweredOn
  <2>2. CASE CheckLabStart(r)
    <3>1. pc[r] = "labcheck" /\ locals[r].recycled = {}
      BY <1>1, <2>2 DEF CheckLabStart, Known, OnTheWay
    <3> QED
      BY <2>2, <3>1
      DEF CheckLabStart, NodeInv, NodesOf, NodePlaces, Node, Once, Recycling, cmlVars, labVars
  <2> QED
    BY <2>1, <2>2
<1>3. CASE LabStarted(r) \/ (Goto(r, "labcheck") /\ UNCHANGED locals)
  <2>1. PICK p \in {"labcheck", "firstboot", "ready"} : Put(pc, pc', r, p)
    BY <1>3 DEF LabStarted, NextSubject, Goto, Put
  <2>2. PICK l, s : l = locals'[r] /\ s = Subject(r)'
    OBVIOUS
  <2>3. l.recycled = {}
    <3>1. locals[r].recycled = {} /\ locals[r] \in LocalsType
      BY <1>1 DEF Known, OnTheWay
    <3>2. DOMAIN locals = Runs
      BY DEF TypeOK
    <3>3. PICK x : x = locals[r].phases \cup {"start"}
      OBVIOUS
    <3>4. l \in {locals[r], [locals[r] EXCEPT !.phases = x]}
      BY <1>3, <2>2, <3>2, <3>3 DEF LabStarted, Passed
    <3> QED
      BY <3>1, <3>4 DEF LocalsType
  <2>4. \A d \in Members : Node(p, l, s, d)'
    BY <1>2, <2>1, <2>3 DEF Node, BeingRecycled, Recycling
  <2>5. p \in NodePlaces
    BY <2>1 DEF NodePlaces
  <2> QED
    BY <1>1, <1>2, <2>1, <2>2, <2>4, <2>5, NodesGo
<1>4. CASE \E kind : Fails(r, kind)
  BY <1>1, <1>2, <1>4, FailsNodes
<1> QED
  BY <1>3, <1>4 DEF StartLab, CheckLabStart

\* The node being recycled moves as its job does.
LEMMA SubjectMoves ==
  ASSUME TypeOK, RunInv, LabInv, NodeInv, NEW r \in Runs, pc[r] \in Recycling,
         NEW p \in Recycling, Goto(r, p), UNCHANGED <<locals, boots, bootedAt, watch>>,
         \A d \in Members : d # Subject(r) => power'[d] = power[d],
         BeingRecycled(p, Subject(r))'
  PROVE  NodeInv'
<1>1. PICK l, s : l = locals[r] /\ s = Subject(r)
  OBVIOUS
<1>2. /\ l = locals'[r] /\ s = Subject(r)' /\ s \in Members \ l.recycled
      /\ pc[r] \in NodePlaces \ {"ready"} /\ pc[r] \notin Ended \cup {"idle"} /\ p \in NodePlaces
      /\ Put(pc, pc', r, p)
  <2>1. s \in Members \ l.recycled
    BY <1>1, RunKnown, SubjectIs DEF Known, OnTheWay
  <2> QED
    BY <1>1, <2>1 DEF Subject, NodePlaces, Recycling, Ended, Goto, Put
<1>3. \A d \in Members : Node(pc[r], l, s, d)
  BY <1>1, <1>2 DEF NodeInv, NodesOf
<1>4. \A d \in Members : Node(p, l, s, d)'
  <2>1. ASSUME NEW d \in Members, d # s
        PROVE  Node(p, l, s, d)'
    BY <1>1, <1>3, <2>1 DEF Node, Twice, Once
  <2>2. Node(p, l, s, s)'
    BY <1>1, <1>2 DEF Node
  <2> QED
    BY <2>1, <2>2
<1>5. watch' = NewWatch /\ bootedAt' = Zero
  BY <1>2 DEF NodeInv, NodesOf
<1> QED
  BY <1>2, <1>4, <1>5, NodesGo

LEMMA RecycleNodes ==
  ASSUME TypeOK, RunInv, LabInv, NodeInv, NEW r \in Runs, Recycle(r)
  PROVE  NodeInv'
<1>1. Known(r) /\ pc[r] \in Recycling
  BY RunKnown DEF Recycle, AwaitFirstBoot, StopSubject, ReconcileStop, AwaitStop, StartSubject,
                  ReconcileStart, AwaitBoot, Request, Reconcile, Recycling
<1>2. PICK s : s = Subject(r)
  OBVIOUS
<1>3. s \in Recycled \ locals[r].recycled /\ s \in Members
  BY <1>1, <1>2, SubjectIs DEF Known, OnTheWay
<1>4. /\ pc[r] \in NodePlaces \ {"ready"} /\ pc[r] \notin Ended \cup {"idle"}
      /\ UNCHANGED <<boots, bootedAt, watch, state>>
  BY <1>1
  DEF Recycling, NodePlaces, Ended, Recycle, AwaitFirstBoot, StopSubject, ReconcileStop, AwaitStop,
      StartSubject, ReconcileStart, AwaitBoot, Request, Reconcile, cmlVars, labVars
<1>5. BeingRecycled(pc[r], s) /\ watch = NewWatch /\ bootedAt = Zero
  BY <1>1, <1>2, <1>3, <1>4 DEF NodeInv, NodesOf, Node
<1>6. power \in [Members -> PowerStates]
  BY DEF TypeOK, ReadinessTypeOK
<1>7. CASE \E kind : Fails(r, kind)
  BY <1>4, <1>5, <1>7, FailsNodes
<1>8. ASSUME NEW p \in Recycling, Goto(r, p), UNCHANGED locals,
             \A d \in Members : d # s => power'[d] = power[d], BeingRecycled(p, s)'
      PROVE  NodeInv'
  <2>1. s = Subject(r)'
    BY <1>2, <1>8 DEF Subject
  <2>2. BeingRecycled(p, Subject(r))' /\ \A d \in Members : d # Subject(r) => power'[d] = power[d]
    BY <1>2, <1>8, <2>1
  <2> QED
    BY <1>1, <1>4, <1>8, <2>2, SubjectMoves
<1>9. CASE ~ \E kind : Fails(r, kind)
  <2>1. CASE AwaitFirstBoot(r)
    <3>1. Goto(r, "stop") /\ UNCHANGED <<locals, power>> /\ Seen(s) = "BOOTED"
      BY <1>2, <1>9, <2>1 DEF AwaitFirstBoot, cmlVars, labVars
    <3>2. Once(s)
      BY <1>5, <2>1 DEF AwaitFirstBoot, BeingRecycled
    <3>3. BeingRecycled("stop", s)'
      BY <1>4, <3>1, <3>2 DEF Seen, Once, BeingRecycled
    <3> QED
      BY <1>8, <3>1, <3>3 DEF Recycling
  <2>2. CASE StopSubject(r)
    <3>1. PICK p \in {"awaitstop", "stopcheck"} :
            /\ Goto(r, p) /\ UNCHANGED locals
            /\ power' \in {power, PoweredOff(s)} /\ (p = "awaitstop" => power' = PoweredOff(s))
      BY <1>2, <1>9, <2>2 DEF StopSubject, Request
    <3>2. power[s] = "BOOTED" /\ boots[s] = 1
      BY <1>5, <2>2 DEF StopSubject, Request, BeingRecycled
    <3>3. /\ \A d \in Members : d # s => power'[d] = power[d]
          /\ power'[s] \in {"BOOTED", "STOPPING"}
      BY <1>3, <1>6, <3>1, <3>2 DEF PoweredOff
    <3>4. BeingRecycled(p, s)'
      BY <1>4, <3>1, <3>2, <3>3 DEF BeingRecycled
    <3>5. p \in Recycling
      BY <3>1 DEF Recycling
    <3> QED
      BY <1>8, <3>1, <3>3, <3>4, <3>5
  <2>3. CASE ReconcileStop(r)
    <3>1. Goto(r, "awaitstop") /\ UNCHANGED <<locals, power>>
      BY <1>9, <2>3 DEF ReconcileStop, Reconcile, cmlVars, labVars
    <3>2. BeingRecycled("awaitstop", s)'
      BY <1>4, <1>5, <2>3, <3>1 DEF ReconcileStop, Reconcile, BeingRecycled
    <3> QED
      BY <1>8, <3>1, <3>2 DEF Recycling
  <2>4. CASE AwaitStop(r)
    <3>1. Goto(r, "restart") /\ UNCHANGED <<locals, power>> /\ Seen(s) = "STOPPED"
      BY <1>2, <1>9, <2>4 DEF AwaitStop, Stopped, cmlVars, labVars
    <3>2. BeingRecycled("restart", s)'
      BY <1>4, <1>5, <2>4, <3>1 DEF AwaitStop, BeingRecycled, Seen
    <3> QED
      BY <1>8, <3>1, <3>2 DEF Recycling
  <2>5. CASE StartSubject(r)
    <3>1. PICK p \in {"awaitboot", "startcheck"} :
            /\ Goto(r, p) /\ UNCHANGED locals
            /\ power' \in {power, PoweredOn({s})} /\ (p = "awaitboot" => power' = PoweredOn({s}))
      BY <1>2, <1>9, <2>5 DEF StartSubject, Request
    <3>2. power[s] = "STOPPED" /\ boots[s] = 1
      BY <1>5, <2>5 DEF StartSubject, Request, BeingRecycled
    <3>3. /\ \A d \in Members : d # s => power'[d] = power[d]
          /\ power'[s] \in {"STOPPED", "STARTED"} /\ (p = "awaitboot" => power'[s] = "STARTED")
      BY <1>3, <1>6, <3>1, <3>2 DEF PoweredOn
    <3>4. BeingRecycled(p, s)'
      BY <1>4, <3>1, <3>2, <3>3 DEF BeingRecycled
    <3>5. p \in Recycling
      BY <3>1 DEF Recycling
    <3> QED
      BY <1>8, <3>1, <3>3, <3>4, <3>5
  <2>6. CASE ReconcileStart(r)
    <3>1. /\ Goto(r, "awaitboot") /\ UNCHANGED <<locals, power>>
          /\ Seen(s) \in {"STARTED", "BOOTED"}
      BY <1>2, <1>9, <2>6 DEF ReconcileStart, Reconcile, cmlVars, labVars
    <3>2. BeingRecycled("awaitboot", s)'
      BY <1>4, <1>5, <2>6, <3>1 DEF ReconcileStart, Reconcile, BeingRecycled, Seen, Twice
    <3> QED
      BY <1>8, <3>1, <3>2 DEF Recycling
  <2>7. CASE AwaitBoot(r)
    <3>1. PICK N, l : N = locals[r].recycled \cup {s} /\ l = [locals[r] EXCEPT !.recycled = N]
      OBVIOUS
    <3>2. /\ locals' = [locals EXCEPT ![r].recycled = N] /\ Seen(s) = "BOOTED"
          /\ UNCHANGED power /\ NextSubject(r, N)
      BY <1>2, <1>9, <2>7, <3>1 DEF AwaitBoot, cmlVars, labVars
    <3>3. PICK p \in {"ready", "firstboot"} : Put(pc, pc', r, p)
      BY <3>2 DEF NextSubject, Goto, Put
    <3>4. l = locals'[r] /\ l.recycled = N
      BY <1>1, <3>1, <3>2 DEF TypeOK, Known, LocalsType
    <3>5. Twice(s)
      BY <1>5, <2>7, <3>2 DEF AwaitBoot, BeingRecycled, Seen, Twice
    <3>6. \A d \in Members : IF d \in N THEN Twice(d) ELSE Once(d)
      <4>1. \A d \in Members : Node(pc[r], locals[r], Subject(r), d)
        BY <1>4 DEF NodeInv, NodesOf
      <4> QED
        BY <1>2, <3>1, <3>5, <4>1 DEF Node
    <3>7. \A d \in Members : IF d \in N THEN Twice(d)' ELSE Once(d)'
      BY <1>4, <3>2, <3>6 DEF Twice, Once
    <3>8. PICK t : t = Subject(r)'
      OBVIOUS
    <3>9. \A d \in Members : Node(p, l, t, d)'
      BY <3>3, <3>4, <3>7 DEF Node, BeingRecycled
    <3>10. p \in NodePlaces /\ watch' = NewWatch /\ bootedAt' = Zero
      BY <1>4, <1>5, <3>3 DEF NodePlaces
    <3> QED
      BY <1>4, <3>3, <3>4, <3>8, <3>9, <3>10, NodesGo
  <2> QED
    BY <2>1, <2>2, <2>3, <2>4, <2>5, <2>6, <2>7 DEF Recycle
<1> QED
  BY <1>7, <1>9

\* A round that goes on keeps count of what it has seen.
LEMMA RoundWatches ==
  ASSUME ReadinessTypeOK, Watched, watch.clock <= watch.deadline,
         \A d \in Members : power[d] \in {"DEFINED_ON_CORE", "STARTED", "BOOTED"},
         NEW lost \in SUBSET watch.remaining, NEW delay \in Delays, Round(lost, delay)
  PROVE  InTime' /\ (watch'.result = "waiting" => Watched')
<1>1. PICK w : w = Looked(lost, delay)
  OBVIOUS
<1>2. /\ w \in WatchType /\ delay \in 0..Slowest /\ Slowest \in Nat
      /\ watch.clock \in Nat
      /\ w.clock = watch.clock + delay /\ w.deadline = watch.deadline
      /\ w.remaining = watch.remaining /\ w.seen = SeenNow(lost)
      /\ w.first = FirstBooted(Late(delay), SeenNow(lost))
      /\ (w.blind <=> watch.blind \/ lost # {})
  BY <1>1, LookedIs, ReadinessAssumption DEF ReadinessTypeOK, WatchType
<1>3. /\ watch' \in WatchType /\ UNCHANGED labVars
      /\ watch'.first = w.first /\ watch'.blind = w.blind /\ watch'.seen = w.seen
      /\ watch'.remaining \subseteq watch.remaining
      /\ GivesUp(w) => watch'.result = GivenUp(w) /\ watch'.remaining = w.remaining
                       /\ watch'.result \in {"TIMED_OUT", "REJECTED"}
                       /\ watch'.clock = w.clock /\ watch'.deadline = w.deadline
      /\ ~GivesUp(w) =>
            /\ watch'.deadline = Deadline(w)
            /\ watch'.result = IF w.remaining \ open = {} THEN "READY" ELSE "waiting"
            /\ watch'.clock = IF w.remaining \ open = {} THEN w.clock
                              ELSE NextRound(w.clock, Deadline(w))
  BY <1>1, RoundIs
<1>4. /\ w.clock \in Nat /\ w.deadline \in {NormalTimeout, MaximumTimeout} /\ Tick \in Nat
      /\ NormalTimeout = 180 /\ MaximumTimeout = 300 /\ PostBootGrace = 60 /\ Never = -1
      /\ w.first \in [Members -> Nat \cup {Never}] /\ bootedAt \in [Members -> Nat]
      /\ watch.first \in [Members -> Nat \cup {Never}]
      /\ w.remaining \subseteq Members
  BY <1>2, ReadinessAssumption
  DEF WatchType, ReadinessTypeOK, NormalTimeout, MaximumTimeout, PostBootGrace, Never
<1>5. Late(delay).clock = w.clock /\ Late(delay).first = watch.first
  BY <1>2 DEF Late, ReadinessTypeOK, WatchType
<1>6. CASE GivesUp(w)
  <2>1. w.clock >= NormalTimeout
    BY <1>4, <1>6 DEF GivesUp, Deadline
  <2>2. w.clock \in NormalTimeout..(MaximumTimeout + Slowest)
    BY <1>2, <1>4, <2>1
  <2>3. ASSUME GivenUp(w) = "REJECTED"
        PROVE  w.clock > NormalTimeout /\ \E d \in w.remaining : w.first[d] = w.clock
    <3>1. PICK d \in w.remaining : w.first[d] > TimedOutAt(w)
      BY <2>3 DEF GivenUp
    <3>2. w.first[d] \in {w.clock, watch.first[d]} /\ d \in Members
      BY <1>2, <1>4, <1>5 DEF FirstBooted
    <3>3. watch.first[d] <= watch.clock /\ watch.first[d] \in Int
      BY <1>4, <3>2 DEF Watched
    <3>4. TimedOutAt(w) \in {w.clock, w.deadline, MaximumTimeout}
      BY DEF TimedOutAt, Deadline
    <3>5. watch.first[d] <= TimedOutAt(w) /\ TimedOutAt(w) >= NormalTimeout
      <4>1. watch.first[d] <= w.clock /\ watch.first[d] <= w.deadline
        BY <1>2, <1>4, <3>3
      <4> QED
        BY <1>4, <2>1, <3>3, <3>4, <4>1
    <3> QED
      BY <1>4, <3>1, <3>2, <3>3, <3>4, <3>5
  <2> QED
    BY <1>3, <1>6, <2>2, <2>3 DEF InTime
<1>7. CASE ~GivesUp(w) /\ w.remaining \ open = {}
  <2>1. watch'.result = "READY" /\ watch'.clock = w.clock /\ watch'.deadline = Deadline(w)
    BY <1>3, <1>7
  <2>2. w.clock < Deadline(w)
    BY <1>4, <1>7 DEF GivesUp, Deadline
  <2> QED
    BY <2>1, <2>2 DEF InTime
<1>8. CASE ~GivesUp(w) /\ w.remaining \ open # {}
  <2>1. /\ watch'.result = "waiting" /\ watch'.deadline = Deadline(w)
        /\ watch'.clock = NextRound(w.clock, Deadline(w))
    BY <1>3, <1>8
  <2>2. /\ w.clock < Deadline(w) /\ w.clock >= watch.clock
        /\ Deadline(w) \in {NormalTimeout, MaximumTimeout}
        /\ Deadline(w) = w.deadline \/ w.clock >= w.deadline
    BY <1>2, <1>4, <1>8 DEF Deadline, GivesUp
  <2>3. /\ watch'.clock \in Nat /\ watch'.clock <= watch'.deadline /\ w.clock <= watch'.clock
        /\ watch'.clock - Tick <= w.clock
    BY <1>4, <2>1, <2>2 DEF NextRound
  <2>4. /\ watch'.clock > NormalTimeout => watch'.deadline = MaximumTimeout
        /\ watch'.deadline = MaximumTimeout => watch'.clock >= NormalTimeout
    BY <1>2, <1>4, <2>1, <2>2, <2>3 DEF Watched
  <2>5. \A d \in Members : watch'.seen[d] = "BOOTED" => watch'.first[d] # Never
    BY <1>2, <1>3, <1>4, <1>5 DEF FirstBooted
  <2>6. \A d \in Members : watch'.first[d] <= watch'.clock
    <3>1. ASSUME NEW d \in Members
          PROVE  w.first[d] <= w.clock
      <4>1. w.first[d] \in {w.clock, watch.first[d]} /\ watch.first[d] <= watch.clock
        BY <1>2, <1>4, <1>5 DEF FirstBooted, Watched
      <4> QED
        BY <1>2, <1>4, <4>1
    <3>2. watch'.first = w.first /\ w.first \in [Members -> Nat \cup {-1}]
      BY <1>3, <1>4
    <3> QED
      BY <1>4, <2>3, <3>1, <3>2
  <2>7. ASSUME ~watch'.blind, NEW d \in Members
        PROVE  /\ w.first[d] # Never => power[d] = "BOOTED" /\ w.first[d] <= bootedAt[d] + Slowest
               /\ d \in watch.remaining /\ power[d] = "BOOTED" => w.first[d] # Never
               /\ d \in watch.remaining /\ w.first[d] # Never /\ watch'.clock > NormalTimeout =>
                      watch'.clock - Tick < w.first[d] + PostBootGrace
    <3>1. ~watch.blind /\ lost = {}
      BY <1>2, <1>3, <2>7
    <3>2. w.seen[d] = IF d \in watch.remaining THEN Seen(d) ELSE watch.seen[d]
      BY <1>2, <3>1 DEF SeenNow
    <3>3. w.first[d] = IF w.seen[d] = "BOOTED" /\ watch.first[d] = Never
                       THEN w.clock ELSE watch.first[d]
      BY <1>2, <1>5 DEF FirstBooted
    <3>4. Seen(d) = "BOOTED" <=> power[d] = "BOOTED"
      BY DEF Seen
    <3>5. w.first[d] # Never => power[d] = "BOOTED" /\ w.first[d] <= bootedAt[d] + Slowest
      <4>1. CASE w.seen[d] = "BOOTED" /\ watch.first[d] = Never
        <5>1. d \in watch.remaining
          BY <3>2, <4>1 DEF Watched
        <5>2. power[d] = "BOOTED" /\ bootedAt[d] = watch.clock
          BY <3>1, <3>2, <3>4, <4>1, <5>1 DEF Watched
        <5> QED
          BY <1>2, <1>4, <3>3, <4>1, <5>2
      <4>2. CASE ~(w.seen[d] = "BOOTED" /\ watch.first[d] = Never)
        BY <3>1, <3>3, <4>2 DEF Watched
      <4> QED
        BY <4>1, <4>2
    <3>6. d \in watch.remaining /\ power[d] = "BOOTED" => w.first[d] # Never
      BY <1>2, <1>4, <3>2, <3>3, <3>4
    <3>7. ASSUME d \in watch.remaining, w.first[d] # Never, watch'.clock > NormalTimeout
          PROVE  w.clock < w.first[d] + PostBootGrace
      <4>1. w.seen[d] = "BOOTED"
        BY <3>2, <3>4, <3>5, <3>7
      <4>2. w.clock >= NormalTimeout
        BY <1>2, <1>4, <2>1, <2>2, <2>3, <3>7 DEF Watched
      <4>3. ~GraceExpired(w)
        BY <1>8, <4>2 DEF GivesUp
      <4>4. ~(w.clock >= w.first[d] + PostBootGrace)
        BY <1>2, <3>7, <4>1, <4>3 DEF GraceExpired
      <4>5. w.first[d] \in Int
        BY <1>4
      <4> QED
        BY <1>4, <4>4, <4>5
    <3>8. w.first[d] \in Int /\ watch'.clock - Tick \in Int
      BY <1>4, <2>3
    <3>9. ASSUME d \in watch.remaining, w.first[d] # Never, watch'.clock > NormalTimeout
          PROVE  watch'.clock - Tick < w.first[d] + PostBootGrace
      BY <1>4, <2>3, <3>7, <3>8, <3>9
    <3> QED
      BY <3>5, <3>6, <3>9
  <2>8. UNCHANGED <<power, bootedAt>>
    BY <1>3 DEF labVars
  <2>9. Watched'
    BY <1>3, <2>1, <2>4, <2>5, <2>7, <2>8, <2>6 DEF Watched
  <2> QED
    BY <2>1, <2>3, <2>9 DEF InTime
<1> QED
  BY <1>6, <1>7, <1>8

LEMMA WaitNodes ==
  ASSUME TypeOK, RunInv, LabInv, NodeInv, NEW r \in Runs, WaitReadiness(r)
  PROVE  NodeInv'
<1>1. Known(r) /\ pc[r] = "ready" /\ pc[r] \in NodePlaces /\ pc[r] \notin Ended \cup {"idle"}
  BY RunKnown DEF WaitReadiness, NodePlaces, Ended
<1>2. PICK lost \in SUBSET watch.remaining, delay \in Delays : Round(lost, delay)
  BY DEF WaitReadiness
<1>3. ReadinessTypeOK /\ Watched /\ watch.clock <= watch.deadline
  BY <1>1 DEF TypeOK, NodeInv, NodesOf, Waiting, InTime, Watched
<1>4. \A d \in Members : Twice(d) \/ Once(d)
  BY <1>1 DEF NodeInv, NodesOf, Node, Recycling
<1>5. \A d \in Members : power[d] \in {"DEFINED_ON_CORE", "STARTED", "BOOTED"}
  BY <1>4 DEF Twice, Once
<1>6. InTime' /\ (watch'.result = "waiting" => Watched')
  BY <1>2, <1>3, <1>5, RoundWatches
<1>7. UNCHANGED labVars /\ watch'.result \in {"waiting", "READY", "TIMED_OUT", "REJECTED"}
  <2>1. PICK w : w = Looked(lost, delay)
    OBVIOUS
  <2> QED
    BY <1>2, <1>3, <2>1, RoundIs DEF WatchType
<1>8. PICK p : /\ Put(pc, pc', r, p)
               /\ p = CASE watch'.result = "waiting" -> "ready"
                        [] watch'.result = "READY" -> "trust"
                        [] OTHER -> "own"
  BY DEF WaitReadiness, Goto, Put
<1>9. pc'[r] = p /\ (watch'.result = "waiting" <=> p = "ready") /\ p \in {"own", "trust", "ready"}
  BY <1>7, <1>8 DEF TypeOK, Put
<1>10. Waiting'
  BY <1>6, <1>9 DEF Waiting
<1> DEFINE l == locals'[r]
           recycledAs(d) == Node("ready", locals[r], Subject(r), d)
<1>11. \A d \in Members : recycledAs(d)'
  <2>2. l.recycled = locals[r].recycled
    <3>1. PICK x, y : locals' = [locals EXCEPT ![r].ready = x, ![r].primary = y]
      BY DEF WaitReadiness
    <3>2. l = [locals[r] EXCEPT !.ready = x, !.primary = y]
      BY <3>1 DEF TypeOK
    <3> QED
      BY <1>1, <3>2 DEF Known, LocalsType
  <2>3. \A d \in Members : IF d \in l.recycled THEN Twice(d) ELSE Once(d)
    BY <1>1, <2>2 DEF NodeInv, NodesOf, Node, Recycling
  <2>4. \A d \in Members : IF d \in l.recycled THEN Twice(d)' ELSE Once(d)'
    BY <1>7, <2>3 DEF Twice, Once, labVars
  <2> QED
    BY <2>4 DEF Node, Recycling
<1>12. NodesOf(r)'
  BY <1>6, <1>9, <1>11 DEF NodesOf, NodePlaces
<1> QED
  BY <1>1, <1>8, <1>10, <1>12, NodesMove

LEMMA ForgottenNodes ==
  ASSUME TypeOK, RunInv, LabInv, NodeInv, NEW r \in Runs, Own(r) \/ Crash(r)
  PROVE  NodeInv'
<1>1. pc[r] \notin Ended \cup {"idle"} /\ NewLab /\ DOMAIN pc = Runs
  BY DEF Own, Crash, Live, Ended, TypeOK
<1>2. Goto(r, pc'[r]) /\ pc'[r] \notin Touching
  BY <1>1 DEF Own, CleanupFails, Crash, Exits, Goto, Touching, NodePlaces
<1>3. PICK p : Put(pc, pc', r, p) /\ p \notin Touching
  BY <1>2 DEF Goto, Put
<1> QED
  BY <1>1, <1>3, NodesForgotten

LEMMA NodeSteps ==
  ASSUME TypeOK, RunInv, LabInv, NodeInv, [Next]_vars
  PROVE  NodeInv'
<1>1. CASE UNCHANGED vars
  <2>1. Waiting'
    BY <1>1 DEF vars, NodeInv, Waiting, InTime
  <2>2. Watched => Watched'
    BY <1>1 DEF vars, labVars, Watched
  <2>3. Fresh => Fresh'
    BY <1>1 DEF vars, labVars, Fresh
  <2>4. ASSUME NEW r \in Runs
        PROVE  NodesOf(r)'
    <3>1. /\ pc' = pc /\ state' = state /\ locals' = locals /\ watch' = watch
          /\ bootedAt' = bootedAt /\ power' = power /\ boots' = boots
      BY <1>1 DEF vars, labVars
    <3>2. Subject(r)' = Subject(r)
      BY <3>1 DEF Subject
    <3>3. \A d \in Members : Node(pc[r], locals[r], Subject(r), d) =>
              Node(pc[r], locals[r], Subject(r), d)'
      BY <3>1, <3>2 DEF Node, Twice, Once, BeingRecycled
    <3> QED
      BY <2>2, <2>3, <3>1, <3>3 DEF NodeInv, NodesOf
  <2> QED
    BY <2>1, <2>4 DEF NodeInv
<1>2. CASE Laboratory
  BY <1>2, LaboratoryNodes
<1>3. ASSUME NEW r \in Runs, Job(r) \/ Crash(r) \/ Recover(r)
      PROVE  NodeInv'
  <2>1. CASE Elsewhere(r)
    BY <2>1, ElsewhereKeeps
  <2>2. CASE PrepareCreate(r) \/ CreateResource(r) \/ Adopt(r) \/ StartLab(r) \/ CheckLabStart(r)
    BY <2>2, CreateNodes, StartNodes
  <2>3. CASE Recycle(r) \/ WaitReadiness(r) \/ Own(r) \/ Crash(r)
    BY <2>3, RecycleNodes, WaitNodes, ForgottenNodes
  <2> QED
    BY <1>3, <2>1, <2>2, <2>3 DEF Job, Elsewhere
<1> QED
  BY <1>1, <1>2, <1>3 DEF Next

LEMMA Nodes == Spec => []NodeInv
<1>1. Init => NodeInv
  BY NodesStart
<1>2. TypeOK /\ RunInv /\ LabInv /\ NodeInv /\ [Next]_vars => NodeInv'
  BY NodeSteps
<1> QED
  BY <1>1, <1>2, Account, Laboratories, PTL DEF Spec

(***************************************************************************)
(* A device that the lifecycle counts as recycled has booted a second      *)
(* time: recycle goes from one place to the next only on a state that the  *)
(* node has taken by itself, and _put_state_once never asks twice, so each *)
(* place bounds what the node may have done.                                *)
(***************************************************************************)
THEOREM Recycles == Spec => []RecycledTwice
<1>1. TypeOK /\ NodeInv => RecycledTwice
  BY DEF TypeOK, LocalsType, NodeInv, NodesOf, Node, Twice, RecycledTwice
<1> QED
  BY <1>1, Account, Nodes, PTL

(***************************************************************************)
(* The window of _wait_readiness, for every set of devices, every pace of  *)
(* the rounds and every pattern of slow and lost observations: the         *)
(* extension is granted once, at the normal deadline or later, and crossed *)
(* by no more than the observation under way; and while none failed, what  *)
(* the wait takes for a node's first boot is at most one observation after *)
(* the boot, so that the grace ends no later than that.                     *)
(***************************************************************************)
THEOREM Window == Spec => []ReadinessWindow
<1>1. ASSUME TypeOK, NodeInv
      PROVE  ReadinessWindow
  <2>1. /\ watch \in WatchType /\ Tick \in Nat \ {0} /\ bootedAt \in [Members -> Nat]
        /\ NormalTimeout = 180 /\ MaximumTimeout = 300 /\ PostBootGrace = 60 /\ Never = -1
    BY <1>1, ReadinessAssumption
    DEF TypeOK, ReadinessTypeOK, NormalTimeout, MaximumTimeout, PostBootGrace, Never
  <2>2. /\ watch.clock \in Nat /\ watch.deadline \in {180, 300} /\ Slowest \in Nat
        /\ watch.remaining \subseteq Members /\ watch.first \in [Members -> Nat \cup {-1}]
    BY <1>1, <2>1, ReadinessAssumption DEF WatchType
  <2>3. InTime
    BY <1>1 DEF NodeInv, Waiting
  <2>4. ASSUME watch.result = "waiting", watch.clock > NormalTimeout, ~watch.blind,
               NEW d \in watch.remaining, power[d] = "BOOTED"
        PROVE  watch.clock - Tick < bootedAt[d] + Slowest + PostBootGrace
    <3>1. Watched
      BY <1>1, <2>1, <2>4 DEF NodeInv, Waiting, NodesOf, NewWatch
    <3>2. d \in Members /\ bootedAt[d] \in Nat /\ watch.first[d] \in Nat \cup {-1}
      BY <2>1, <2>2
    <3>3. CASE watch.first[d] = Never
      BY <2>1, <2>2, <2>4, <3>1, <3>2, <3>3 DEF Watched
    <3>4. CASE watch.first[d] # Never
      BY <2>1, <2>2, <2>4, <3>1, <3>2, <3>4 DEF Watched
    <3> QED
      BY <3>3, <3>4
  <2>5. /\ watch.result = "READY" => watch.clock < MaximumTimeout
        /\ watch.result = "waiting" => watch.clock <= MaximumTimeout
    BY <2>1, <2>2, <2>3 DEF InTime
  <2> QED
    BY <2>3, <2>4, <2>5 DEF InTime, ReadinessWindow
<1> QED
  BY <1>1, Account, Nodes, PTL
=============================================================================
