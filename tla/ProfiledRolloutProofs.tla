----------------------- MODULE ProfiledRolloutProofs -----------------------
(***************************************************************************)
(* Theorems about ProfiledRollout, for every set of jobs, every selection *)
(* and every population of devices. First the reservations: a lock is     *)
(* held by one job at a time, and a job that is past its reservation      *)
(* holds all it selected. No order of acquisition is needed for that; the *)
(* order only matters for who is refused (AdmissionInv, below).           *)
(*                                                                         *)
(* Then the accounts a job keeps, for every population, order and outcome: *)
(* what its locals list, what its children did, what the store has of     *)
(* them and what the parent record says.                                  *)
(*                                                                         *)
(* RecordInv ties them together at every place a job can stand. A job     *)
(* that stops may stop before a member (StoppedBefore), at one whose      *)
(* evidence is complete, partial or missing (StoppedAt), or after all     *)
(* (Complete); ParentReady is their union, and whatever is ParentReady    *)
(* makes a parent record that the validator and the store accept.         *)
(*                                                                         *)
(* The lemmas named ..State are about the values of one job before and    *)
(* after a step; those named ..Inv carry them over to the actions.        *)
(***************************************************************************)
EXTENDS ProfiledRollout, SequenceTheorems, FiniteSetTheorems, TLAPS

-----------------------------------------------------------------------------
(* Reservations. *)

Places ==
    {"plan", "authorize", "reserve", "release", "preflight", "pre", "child",
     "write", "written", "post", "persist", "publish", "final", "finalstore",
     "parent", "done"}

LockInv ==
    /\ pc \in [Jobs -> Places]
    /\ held \in [Jobs -> SUBSET Devices]
    /\ \A j, k \in Jobs : j # k => held[j] \cap held[k] = {}
    /\ \A j \in Jobs : Working(j) => held[j] = Selected[j]

LEMMA InitLockInv == Init => LockInv
  BY DEF Init, LockInv, Places, Working

\* A job that only moves on keeps its locks; it moves among the working places
\* or stays before its reservation.
LEMMA GotoKeepsLocks ==
  ASSUME LockInv, NEW j \in Jobs, NEW at \in Places, Goto(j, at),
         UNCHANGED held,
         at \in {"authorize", "reserve", "release", "done"} \/ Working(j)
  PROVE  LockInv'
<1>1. pc' = [pc EXCEPT ![j] = at] /\ held' = held
  BY DEF Goto
<1>2. pc' \in [Jobs -> Places]
  BY <1>1 DEF LockInv
<1>3. ASSUME NEW k \in Jobs, Working(k)'
      PROVE  held'[k] = Selected[k]
  <2>1. CASE k = j
    BY <1>1, <1>3, <2>1 DEF LockInv, Working
  <2>2. CASE k # j
    BY <1>1, <1>3, <2>2 DEF LockInv, Working
  <2> QED
    BY <2>1, <2>2
<1> QED
  BY <1>1, <1>2, <1>3 DEF LockInv

\* Finish gives up everything.
LEMMA FinishReleases ==
  ASSUME LockInv, NEW j \in Jobs, Goto(j, "done"),
         held' = [held EXCEPT ![j] = {}]
  PROVE  LockInv'
<1>1. pc' = [pc EXCEPT ![j] = "done"]
  BY DEF Goto
<1>2. pc' \in [Jobs -> Places] /\ held' \in [Jobs -> SUBSET Devices]
  BY <1>1 DEF LockInv, Places
<1>3. \A k \in Jobs : held'[k] \subseteq held[k]
  BY DEF LockInv
<1>4. ASSUME NEW k \in Jobs, Working(k)'
      PROVE  held'[k] = Selected[k]
  <2>1. k # j
    BY <1>1, <1>4 DEF LockInv, Working
  <2> QED
    BY <1>1, <1>4, <2>1 DEF LockInv, Working
<1> QED
  BY <1>2, <1>3, <1>4 DEF LockInv

\* One more lock, which nobody else holds.
LEMMA ReserveLockInv ==
  ASSUME LockInv, NEW j \in Jobs, Reserve(j)
  PROVE  LockInv'
<1>1. PICK d \in NextLocks(j) :
        \/ /\ LockFree(j, d)
           /\ held' = [held EXCEPT ![j] = @ \cup {d}]
           /\ Goto(j, IF held'[j] # Selected[j] THEN "reserve"
                      ELSE IF j \in Rollouts THEN "preflight" ELSE "pre")
        \/ Goto(j, "release") /\ UNCHANGED held
  BY DEF Reserve
<1>2. CASE Goto(j, "release") /\ UNCHANGED held
  BY <1>2, GotoKeepsLocks DEF Places
<1>3. CASE /\ LockFree(j, d)
           /\ held' = [held EXCEPT ![j] = @ \cup {d}]
           /\ Goto(j, IF held'[j] # Selected[j] THEN "reserve"
                      ELSE IF j \in Rollouts THEN "preflight" ELSE "pre")
  <2>1. d \in Devices
    BY RolloutAssumption DEF NextLocks
  <2>2. pc' \in [Jobs -> Places] /\ held' \in [Jobs -> SUBSET Devices]
    BY <1>3, <2>1 DEF LockInv, Goto, Places
  <2>3. \A k \in Jobs \ {j} : held'[k] = held[k] /\ pc'[k] = pc[k] /\ d \notin held[k]
    BY <1>3 DEF LockInv, Goto, LockFree
  <2>4. held'[j] = held[j] \cup {d}
    BY <1>3 DEF LockInv
  <2>5. \A k, l \in Jobs : k # l => held'[k] \cap held'[l] = {}
    BY <2>3, <2>4 DEF LockInv
  <2>6. ASSUME NEW k \in Jobs, Working(k)'
        PROVE  held'[k] = Selected[k]
    <3>1. CASE k = j
      BY <1>3, <2>6, <3>1 DEF LockInv, Working, Goto
    <3>2. CASE k # j
      BY <2>3, <2>6, <3>2 DEF LockInv, Working
    <3> QED
      BY <3>1, <3>2
  <2> QED
    BY <2>2, <2>5, <2>6 DEF LockInv
<1> QED
  BY <1>1, <1>2, <1>3

\* The places between a job's reservation and its end.
Steps == {"pre", "child", "write", "written", "post", "persist", "publish",
          "final", "finalstore", "parent"}

\* A working job that reads, writes, waits or stores.
LEMMA WorkingKeepsLocks ==
  ASSUME LockInv, NEW j \in Jobs, Working(j), UNCHANGED held,
         UNCHANGED pc \/ \E at \in Steps : Goto(j, at)
  PROVE  LockInv'
<1>1. CASE UNCHANGED pc
  BY <1>1 DEF LockInv, Working
<1>2. CASE \E at \in Steps : Goto(j, at)
  BY <1>2, GotoKeepsLocks DEF Steps, Places
<1> QED
  BY <1>1, <1>2

LEMMA PopulationLockInv ==
  ASSUME LockInv, NEW j \in Jobs, Preflight(j) \/ FinalRead(j) \/ FinalStore(j)
  PROVE  LockInv'
<1>1. Working(j) /\ UNCHANGED held
  BY DEF Preflight, FinalRead, FinalStore, Working
<1>2. CASE Preflight(j)
  <2>1. UNCHANGED pc \/ Goto(j, "pre") \/ Goto(j, "parent")
    BY <1>2 DEF Preflight
  <2> QED
    BY <1>1, <2>1, WorkingKeepsLocks DEF Steps
<1>3. CASE FinalRead(j) \/ FinalStore(j)
  <2>1. UNCHANGED pc \/ Goto(j, "finalstore") \/ Goto(j, "parent")
    BY <1>3 DEF FinalRead, FinalStore
  <2> QED
    BY <1>1, <2>1, WorkingKeepsLocks DEF Steps
<1> QED
  BY <1>2, <1>3

LEMMA MemberLockInv ==
  ASSUME LockInv, NEW j \in Jobs, CapturePre(j) \/ CapturePost(j) \/ Persist(j)
  PROVE  LockInv'
<1>1. CASE CapturePre(j)
  <2>1. Working(j)
    BY <1>1 DEF CapturePre, Working
  <2>2. \/ UNCHANGED held /\ (Goto(j, "child") \/ Goto(j, "parent"))
        \/ Finish(j, "raised")
    BY <1>1 DEF CapturePre
  <2> QED
    BY <2>1, <2>2, WorkingKeepsLocks, FinishReleases DEF Finish, Steps
<1>2. CASE CapturePost(j)
  <2>1. Working(j) /\ UNCHANGED held /\ (Goto(j, "persist") \/ Goto(j, "publish"))
    BY <1>2 DEF CapturePost, Working
  <2> QED
    BY <2>1, WorkingKeepsLocks DEF Steps
<1>3. CASE Persist(j)
  <2>1. Working(j) /\ UNCHANGED held
    BY <1>3 DEF Persist, Working
  <2>2. Goto(j, "parent") \/ Goto(j, "pre") \/ Goto(j, "final")
    BY <1>3 DEF Persist
  <2> QED
    BY <2>1, <2>2, WorkingKeepsLocks DEF Steps
<1> QED
  BY <1>1, <1>2, <1>3

LEMMA ChildLockInv ==
  ASSUME LockInv, NEW j \in Jobs, Child(j)
  PROVE  LockInv'
<1>1. Working(j) /\ UNCHANGED held
  BY DEF Child, ChildRead, ChildWrite, ChildClose, ChildEscape, Working
<1>2. Goto(j, "write") \/ Goto(j, "written") \/ Goto(j, "post")
  BY DEF Child, ChildRead, ChildWrite, ChildClose, ChildEscape, EndChild
<1> QED
  BY <1>1, <1>2, WorkingKeepsLocks DEF Steps

LEMMA JobLockInv ==
  ASSUME LockInv, NEW j \in Jobs, Job(j)
  PROVE  LockInv'
<1>1. CASE Plan(j)
  <2>1. Finish(j, "compliant") \/ (Goto(j, "authorize") /\ UNCHANGED held)
    BY <1>1 DEF Plan
  <2> QED
    BY <2>1, GotoKeepsLocks, FinishReleases DEF Finish, Places
<1>2. CASE Authorize(j)
  <2>1. Finish(j, "raised") \/ (Goto(j, "reserve") /\ UNCHANGED held)
    BY <1>2 DEF Authorize
  <2> QED
    BY <2>1, GotoKeepsLocks, FinishReleases DEF Finish, Places
<1>3. CASE Publish(j) \/ Parent(j) \/ Release(j)
  <2>1. Goto(j, "done") /\ held' = [held EXCEPT ![j] = {}]
    BY <1>3 DEF Publish, Parent, Release, Finish
  <2> QED
    BY <2>1, FinishReleases
<1> QED
  BY <1>1, <1>2, <1>3, ReserveLockInv, PopulationLockInv, MemberLockInv,
     ChildLockInv DEF Job

LEMMA NextLockInv == LockInv /\ [Next]_vars => LockInv'
<1> SUFFICES ASSUME LockInv, [Next]_vars PROVE LockInv'
  OBVIOUS
<1>1. CASE UNCHANGED vars \/ OutOfBandEdit
  BY <1>1 DEF vars, OutOfBandEdit, LockInv, Working
<1>2. ASSUME NEW j \in Jobs, Crash(j)
      PROVE  LockInv'
  BY <1>2, FinishReleases DEF Crash, Finish
<1>3. ASSUME NEW j \in Jobs, Remnant(j)
      PROVE  LockInv'
  BY <1>3 DEF Remnant, LockInv, Working
<1> QED
  BY <1>1, <1>2, <1>3, JobLockInv DEF Next

\* reserve_rollout_devices: a lock has one holder, a job holds only locks of
\* its own devices, and one that has passed its reservation holds them all.
THEOREM Reservations == Spec => []LockInv
  BY InitLockInv, NextLockInv, PTL DEF Spec

\* Jobs that are past their reservation have no device in common.
THEOREM PopulationsDisjoint == Spec => []DisjointPopulations
<1>1. LockInv => DisjointPopulations
  BY DEF LockInv, DisjointPopulations
<1> QED
  BY <1>1, Reservations, PTL

-----------------------------------------------------------------------------
(* Accounts. *)

Reasons ==
    {"none", "PREFLIGHT", "PRE_CHRONOLOGY", "CHILD_NON_SUCCESS",
     "CHILD_EXECUTION_UNCERTAIN", "CHILD_EVIDENCE", "FINAL_VALIDATION"}

Kinds == {"running", "absent", "compliant", "raised", "refused", "published",
          "unpublished", "record", "rejected", "crashed"}

Ended == {"escaped", "SUCCEEDED", "RECOVERED"} \cup StopOutcomes \cup NoWriteOutcomes

Locals(S) ==
    [attempted : Seq(S), successful : Seq(S), audits : Seq(S),
     chronologies : Seq(S), reason : Reasons, member : S \cup {NoDevice},
     outcome : Ended \cup {"none"}, evidenceFailed : BOOLEAN,
     preflight : BOOLEAN, checked : SUBSET S,
     post : {"none", "SUCCESS", "FAILURE"}, final : {"none", "PASSED", "FAILED"}]

Stores ==
    [preflight : BOOLEAN,
     audit : [Devices -> Ended \cup {"absent", "unknown"}],
     chronology : [Devices -> {"absent", "none", "SUCCESS", "FAILURE"}]]

Results(S) ==
    [kind : Kinds, record : Locals(S),
     outcome : {"none", "SUCCEEDED", "FINAL_VALIDATION_FAILED",
                "EVIDENCE_FAILED", "PARTIAL", "STOPPED"}]

\* s lists the first members of the order o.
Along(s, o) == Len(s) <= Len(o) /\ \A i \in 1..Len(s) : s[i] = o[i]

\* The frozen order names every deployable device once.
Ordered(o, deployable) ==
    /\ \A i, k \in 1..Len(o) : o[i] = o[k] => i = k
    /\ \A d \in deployable : \E i \in 1..Len(o) : o[i] = d

\* Member d succeeded and all its evidence is in the store.
Finished(e, st, d) ==
    e[d] = "SUCCEEDED" /\ st.audit[d] = "SUCCEEDED" /\ st.chronology[d] = "SUCCESS"

FinishedUpTo(o, n, e, st) == \A i \in 1..n : Finished(e, st, o[i])

\* What holds of a job wherever it stands, and after it has ended.
Exposure(o, l, w, e, st) ==
    /\ Along(l.attempted, o) /\ Along(l.successful, o)
    /\ Along(l.audits, o) /\ Along(l.chronologies, o)
    /\ FinishedUpTo(o, Len(l.attempted) - 1, e, st)
    /\ \A d \in Devices : d \notin Range(l.attempted) => e[d] = "open" /\ d \notin w

Fresh(l) ==
    l.reason = "none" /\ l.member = NoDevice /\ l.outcome = "none" /\ ~l.evidenceFailed

NotStarted(l, st) ==
    /\ Len(l.attempted) = 0 /\ Len(l.successful) = 0
    /\ Len(l.audits) = 0 /\ Len(l.chronologies) = 0
    /\ ~l.preflight /\ ~st.preflight

\* Every attempted member is finished.
Settled(o, l, e, st) ==
    LET n == Len(l.attempted) IN
    /\ Len(l.successful) = n /\ Len(l.audits) = n /\ Len(l.chronologies) = n
    /\ FinishedUpTo(o, n, e, st)

\* The evidence of the last attempted member is still missing.
Behind(l) ==
    LET n == Len(l.attempted) IN
    n > 0 /\ Len(l.audits) = n - 1 /\ Len(l.chronologies) = n - 1

\* The child of the last attempted member has ended; how it is accounted for.
Judged(o, l, w, e) ==
    LET n == Len(l.attempted)
        x == e[o[n]] IN
    /\ n > 0 /\ x \in Ended
    /\ x \in NoWriteOutcomes => o[n] \notin w
    /\ Len(l.successful) = IF x = "SUCCEEDED" THEN n ELSE n - 1
    /\ l.outcome = IF x \in {"SUCCEEDED", "escaped"} THEN "none" ELSE x
    /\ l.reason = IF x = "escaped" THEN "CHILD_EXECUTION_UNCERTAIN"
                  ELSE IF l.evidenceFailed THEN "CHILD_EVIDENCE"
                  ELSE IF x = "SUCCEEDED" THEN "none" ELSE "CHILD_NON_SUCCESS"
    /\ l.member = IF l.reason = "none" THEN NoDevice ELSE o[n]

\* A rollout that stopped at a member: what of its evidence is stored.
StoppedAt(o, l, w, e, st) ==
    LET n == Len(l.attempted)
        x == e[o[n]] IN
    /\ Judged(o, l, w, e) /\ l.reason # "none"
    /\ Len(l.audits) \in {n - 1, n} /\ Len(l.chronologies) \in {n - 1, n}
    /\ Len(l.chronologies) <= Len(l.audits)
    /\ Len(l.audits) = n =>
           st.audit[o[n]] = IF x = "escaped" THEN "unknown" ELSE x
    /\ ~l.evidenceFailed =>
           Len(l.chronologies) = n /\ st.chronology[o[n]] = "SUCCESS"

\* A rollout that stopped before a member, or before the first.
StoppedBefore(o, l, e, st) ==
    LET n == Len(l.attempted) IN
    /\ Settled(o, l, e, st) /\ l.outcome = "none" /\ ~l.evidenceFailed
    /\ \/ n = 0 /\ l.reason = "PREFLIGHT" /\ l.member = NoDevice
       \/ n < Len(o) /\ l.reason = "PRE_CHRONOLOGY" /\ l.member = o[n + 1]

\* A rollout that went through its order.
Complete(o, l, e, st) ==
    /\ Settled(o, l, e, st) /\ Len(l.attempted) = Len(o)
    /\ l.outcome = "none" /\ l.member = NoDevice
    /\ \/ l.reason = "none" /\ ~l.evidenceFailed /\ l.final = "PASSED"
       \/ l.reason = "FINAL_VALIDATION" /\ ~l.evidenceFailed /\ l.final = "FAILED"
       \/ l.reason = "CHILD_EVIDENCE" /\ l.evidenceFailed

ParentReady(o, l, w, e, st) ==
    /\ Len(o) > 0
    /\ l.reason # "PREFLIGHT" => l.preflight /\ st.preflight
    /\ \/ Complete(o, l, e, st)
       \/ StoppedBefore(o, l, e, st)
       \/ StoppedAt(o, l, w, e, st)

\* Where a job stands says what its locals, children and artifacts are.
Standing(j, at, o, l, w, e, st) ==
    LET n == Len(l.attempted) IN
    /\ at \in {"plan", "authorize", "reserve", "release", "preflight"} =>
           NotStarted(l, st) /\ Fresh(l)
    /\ at \notin {"plan", "done"} => Len(o) > 0
    /\ at = "pre" => Settled(o, l, e, st) /\ Fresh(l) /\ n < Len(o)
    /\ at \in {"child", "write", "written"} =>
           /\ Behind(l) /\ Fresh(l) /\ Len(l.successful) = n - 1
           /\ e[o[n]] = "open" /\ (o[n] \in w <=> at = "written")
    /\ at \in {"post", "persist", "publish"} => Behind(l) /\ Judged(o, l, w, e)
    /\ at = "post" => ~l.evidenceFailed
    /\ at \in {"persist", "publish"} => l.post = "SUCCESS" \/ l.evidenceFailed
    /\ at \in {"final", "finalstore"} =>
           Settled(o, l, e, st) /\ Fresh(l) /\ n = Len(o)
    /\ at = "finalstore" => l.final # "none"
    /\ at = "parent" => ParentReady(o, l, w, e, st)
    /\ at \in {"preflight", "persist", "final", "finalstore", "parent"} => j \in Rollouts
    /\ j \in Rollouts /\ at \in {"pre", "child", "write", "written", "post", "persist",
                          "final", "finalstore"} => l.preflight /\ st.preflight

\* How a job ended, and its parent record.
Ending(at, o, l, w, e, st, r) ==
    /\ at # "done" => r.kind = "running"
    /\ at = "done" => r.kind # "running"
    /\ r.kind = "record" =>
           /\ r.record = l /\ ParentReady(o, l, w, e, st)
           /\ r.outcome = "SUCCEEDED" => l.reason = "none"
    /\ r.kind = "rejected" => l.preflight /\ ~st.preflight

\* All of it, of a job at one place.
JobState(j, S, deployable, at, o, l, w, e, st, r) ==
    /\ o \in Seq(S) /\ l \in Locals(S) /\ w \in SUBSET Devices
    /\ e \in [Devices -> {"open"} \cup Ended] /\ st \in Stores /\ r \in Results(S)
    /\ at \notin {"plan", "done"} \/ r.kind = "record" => Ordered(o, deployable)
    /\ Exposure(o, l, w, e, st)
    /\ Standing(j, at, o, l, w, e, st)
    /\ Ending(at, o, l, w, e, st, r)

JobInv(j) ==
    JobState(j, Selected[j], Deployable(j), pc[j], Order(j),
             locals[j], wrote[j], ended[j], store[j], result[j])

-----------------------------------------------------------------------------
\* What a list along the order has, at its end and when it grows or ends.
LEMMA AlongLast ==
  ASSUME NEW S, NEW o \in Seq(S), NEW s \in Seq(S), Along(s, o), Len(s) > 0
  PROVE  Last(s) = o[Len(s)] /\ o[Len(s)] \in S /\ Len(s) \in 1..Len(o)
  BY DEF Along, Last

LEMMA AlongAppend ==
  ASSUME NEW S, NEW o \in Seq(S), NEW s \in Seq(S), Along(s, o), Len(s) < Len(o)
  PROVE  LET t == Append(s, o[Len(s) + 1]) IN
         /\ o[Len(s) + 1] \in S /\ t \in Seq(S) /\ Len(t) = Len(s) + 1
         /\ Along(t, o)
         /\ Range(t) = Range(s) \cup {o[Len(s) + 1]}
<1> DEFINE x == o[Len(s) + 1]
           t == Append(s, x)
<1>1. x \in S
  OBVIOUS
<1>2. /\ t \in Seq(S) /\ Len(t) = Len(s) + 1
      /\ \A i \in 1..Len(s) : t[i] = s[i]
      /\ t[Len(s) + 1] = x
  BY <1>1, AppendProperties
<1> HIDE DEF t
<1>3. Along(t, o)
  BY <1>2 DEF Along
<1>4. DOMAIN t = 1..(Len(s) + 1) /\ DOMAIN s = 1..Len(s) /\ Len(s) \in Nat
  BY <1>2
<1>5. Range(t) = Range(s) \cup {x}
  BY <1>2, <1>4 DEF Range
<1> QED
  BY <1>1, <1>2, <1>3, <1>5 DEF t

LEMMA AlongPrefix ==
  ASSUME NEW S, NEW o \in Seq(S), NEW s \in Seq(S), NEW t \in Seq(S),
         Along(s, o), Along(t, o), Len(s) <= Len(t)
  PROVE  IsPrefix(s, t) /\ s = SubSeq(t, 1, Len(s))
<1>1. Len(s) \in Nat /\ Len(t) \in Nat
  OBVIOUS
<1>2. /\ SubSeq(t, 1, Len(s)) \in Seq(S) /\ Len(SubSeq(t, 1, Len(s))) = Len(s)
      /\ \A i \in 1..Len(s) : SubSeq(t, 1, Len(s))[i] = t[i]
  BY <1>1
<1>3. \A i \in 1..Len(s) : SubSeq(t, 1, Len(s))[i] = s[i]
  BY <1>1, <1>2 DEF Along
<1>4. s = SubSeq(t, 1, Len(s))
  BY <1>2, <1>3, SeqEqual
<1>5. SubSeq(s, 1, Len(s)) = s
  BY <1>1, SubSeqFull
<1> QED
  BY <1>4, <1>5 DEF IsPrefix

LEMMA AlongWhole ==
  ASSUME NEW S, NEW o \in Seq(S), NEW s \in Seq(S), Along(s, o)
  PROVE  IsPrefix(s, o)
<1>1. Along(o, o) /\ Len(s) <= Len(o)
  BY DEF Along
<1> QED
  BY <1>1, AlongPrefix

LEMMA AlongEqual ==
  ASSUME NEW S, NEW o \in Seq(S), NEW s \in Seq(S), NEW t \in Seq(S),
         Along(s, o), Along(t, o), Len(s) = Len(t)
  PROVE  s = t
<1>1. \A i \in 1..Len(s) : s[i] = t[i]
  BY DEF Along
<1> QED
  BY <1>1, SeqEqual

LEMMA AlongRange ==
  ASSUME NEW S, NEW o \in Seq(S), NEW s \in Seq(S), Along(s, o)
  PROVE  /\ \A d : d \in Range(s) <=> \E i \in 1..Len(s) : d = o[i]
         /\ Range(s) \subseteq S
         /\ Len(s) \in Nat /\ Len(o) \in Nat /\ Len(s) <= Len(o)
  BY DEF Along, Range
-----------------------------------------------------------------------------
(***************************************************************************)
(* One lemma for each way a job moves on, about the values it moves with. *)
(***************************************************************************)

\* A job that ends: only its accounts so far have to be in order.
LEMMA ExitState ==
  ASSUME NEW j, NEW S \in SUBSET Devices, NEW deployable, NEW at,
         NEW o, NEW l, NEW w, NEW e, NEW st, NEW r,
         JobState(j, S, deployable, at, o, l, w, e, st, r), at # "done",
         NEW D, NEW kind \in Kinds \ {"running", "record"},
         NEW f \in [Devices -> {"open"} \cup Ended], NEW s2 \in Stores,
         Exposure(o, l, w, f, s2),
         kind = "rejected" => l.preflight /\ ~s2.preflight
  PROVE  JobState(j, S, D, "done", o, l, w, f, s2, [r EXCEPT !.kind = kind])
<1> DEFINE q == [r EXCEPT !.kind = kind]
<1>1. r \in Results(S)
  BY DEF JobState
<1>2. q \in Results(S) /\ q.kind = kind
  BY <1>1 DEF Results, Kinds
<1> HIDE DEF q
<1>3. Standing(j, "done", o, l, w, f, s2)
  BY DEF Standing
<1>4. Ending("done", o, l, w, f, s2, q)
  BY <1>2 DEF Ending
<1>5. o \in Seq(S) /\ l \in Locals(S) /\ w \in SUBSET Devices
  BY DEF JobState
<1>6. JobState(j, S, D, "done", o, l, w, f, s2, q)
  BY <1>2, <1>3, <1>4, <1>5 DEF JobState
<1> QED
  BY <1>6 DEF q

\* A job that has not started yet goes on to its reservation or its preflight.
LEMMA IdleState ==
  ASSUME NEW j, NEW S \in SUBSET Devices, NEW deployable, NEW at,
         NEW o, NEW l, NEW w, NEW e, NEW st, NEW r,
         JobState(j, S, deployable, at, o, l, w, e, st, r), at \in {"authorize", "reserve"},
         NEW to \in {"reserve", "release", "preflight", "pre"},
         IF j \in Rollouts THEN to # "pre" ELSE to # "preflight"
  PROVE  JobState(j, S, deployable, to, o, l, w, e, st, r)
<1>1. Standing(j, to, o, l, w, e, st)
  <2>1. l \in Locals(S) /\ o \in Seq(S)
    BY DEF JobState
  <2>2. NotStarted(l, st) /\ Fresh(l) /\ Len(o) > 0
    BY DEF JobState, Standing
  <2>3. Settled(o, l, e, st) /\ Len(l.attempted) < Len(o)
    BY <2>1, <2>2 DEF Settled, NotStarted, FinishedUpTo
  <2> QED
    BY <2>2, <2>3 DEF Standing
<1>2. Ending(to, o, l, w, e, st, r)
  BY DEF JobState, Ending
<1> QED
  BY <1>1, <1>2 DEF JobState

\* The frozen cohorts: an order over whatever is deployable.
LEMMA PlannedState ==
  ASSUME NEW j, NEW S \in SUBSET Devices, NEW deployable, NEW at,
         NEW o, NEW l, NEW w, NEW e, NEW st, NEW r,
         JobState(j, S, deployable, "plan", o, l, w, e, st, r),
         NEW D, NEW p \in Seq(S), Len(p) > 0, Ordered(p, D)
  PROVE  JobState(j, S, D, "authorize", p, l, w, e, st, r)
<1>1. l \in Locals(S) /\ NotStarted(l, st) /\ Fresh(l) /\ Exposure(o, l, w, e, st)
  BY DEF JobState, Standing
<1>2. Exposure(p, l, w, e, st)
  BY <1>1 DEF Exposure, NotStarted, Along, FinishedUpTo
<1>3. Standing(j, "authorize", p, l, w, e, st)
  BY <1>1 DEF Standing
<1>4. Ending("authorize", p, l, w, e, st, r)
  BY DEF JobState, Ending
<1> QED
  BY <1>2, <1>3, <1>4 DEF JobState
\* A whole-population pass reads one more device.
LEMMA CheckedState ==
  ASSUME NEW j, NEW S \in SUBSET Devices, NEW deployable, NEW at,
         NEW o, NEW l, NEW w, NEW e, NEW st, NEW r,
         JobState(j, S, deployable, at, o, l, w, e, st, r), at \in {"preflight", "final"},
         NEW c \in SUBSET S
  PROVE  JobState(j, S, deployable, at, o, [l EXCEPT !.checked = c], w, e, st, r)
<1> DEFINE m == [l EXCEPT !.checked = c]
<1>1. l \in Locals(S)
  BY DEF JobState
<1>2. /\ m \in Locals(S)
      /\ m.attempted = l.attempted /\ m.successful = l.successful
      /\ m.audits = l.audits /\ m.chronologies = l.chronologies
      /\ m.reason = l.reason /\ m.member = l.member
      /\ m.outcome = l.outcome /\ m.evidenceFailed = l.evidenceFailed
      /\ m.preflight = l.preflight /\ m.post = l.post
      /\ m.final = l.final
  BY <1>1 DEF Locals
<1> HIDE DEF m
<1>3. Exposure(o, m, w, e, st)
  BY <1>2 DEF JobState, Exposure
<1>4. Standing(j, at, o, m, w, e, st)
  BY <1>2 DEF JobState, Standing, NotStarted, Fresh, Settled
<1>5. Ending(at, o, m, w, e, st, r)
  BY DEF JobState, Ending
<1> QED
  BY <1>2, <1>3, <1>4, <1>5 DEF JobState, m

\* The positive preflight is stored.
LEMMA PreflightStoredState ==
  ASSUME NEW j, NEW S \in SUBSET Devices, NEW deployable, NEW at,
         NEW o, NEW l, NEW w, NEW e, NEW st, NEW r,
         JobState(j, S, deployable, "preflight", o, l, w, e, st, r)
  PROVE  JobState(j, S, deployable, "pre", o,
                  [l EXCEPT !.preflight = TRUE, !.checked = {}], w, e,
                   [st EXCEPT !.preflight = TRUE], r)
<1> DEFINE m == [l EXCEPT !.preflight = TRUE, !.checked = {}]
           s2 == [st EXCEPT !.preflight = TRUE]
<1>1. l \in Locals(S) /\ st \in Stores /\ o \in Seq(S)
  BY DEF JobState
<1>2. /\ m \in Locals(S) /\ m.preflight
      /\ m.attempted = l.attempted /\ m.successful = l.successful
      /\ m.audits = l.audits /\ m.chronologies = l.chronologies
      /\ m.reason = l.reason /\ m.member = l.member
      /\ m.outcome = l.outcome /\ m.evidenceFailed = l.evidenceFailed
      /\ m.post = l.post /\ m.final = l.final
  BY <1>1 DEF Locals
<1>3. s2 \in Stores /\ s2.preflight /\ s2.audit = st.audit /\ s2.chronology = st.chronology
  BY <1>1 DEF Stores
<1> HIDE DEF m, s2
<1>4. NotStarted(l, st) /\ Fresh(l) /\ Len(o) > 0
  BY DEF JobState, Standing
<1>5. Exposure(o, m, w, e, s2)
  BY <1>2, <1>3 DEF JobState, Exposure, FinishedUpTo, Finished
<1>6. Settled(o, m, e, s2) /\ Fresh(m) /\ Len(m.attempted) < Len(o)
  BY <1>1, <1>2, <1>4 DEF Settled, NotStarted, Fresh, FinishedUpTo
<1>7. Standing(j, "pre", o, m, w, e, s2)
  BY <1>2, <1>3, <1>4, <1>6 DEF Standing
<1>8. Ending("pre", o, m, w, e, s2, r)
  BY DEF JobState, Ending
<1> QED
  BY <1>2, <1>3, <1>5, <1>7, <1>8 DEF JobState, m, s2

\* The preflight fails, or its record cannot be stored.
LEMMA PreflightFailedState ==
  ASSUME NEW j, NEW S \in SUBSET Devices, NEW deployable, NEW at,
         NEW o, NEW l, NEW w, NEW e, NEW st, NEW r,
         JobState(j, S, deployable, "preflight", o, l, w, e, st, r),
         NEW m \in Locals(S),
         m.attempted = l.attempted,
         m.successful = l.successful,
         m.audits = l.audits,
         m.chronologies = l.chronologies,
         m.outcome = l.outcome,
         m.evidenceFailed = l.evidenceFailed,
         m.post = l.post,
         m.final = l.final,
         m.reason = "PREFLIGHT", m.member = NoDevice,
         NEW s2 \in Stores, s2.audit = st.audit, s2.chronology = st.chronology
  PROVE  JobState(j, S, deployable, "parent", o, m, w, e, s2, r)
<1>1. l \in Locals(S) /\ st \in Stores /\ o \in Seq(S)
  BY DEF JobState
<1>4. NotStarted(l, st) /\ Fresh(l) /\ Len(o) > 0 /\ j \in Rollouts
  BY DEF JobState, Standing
<1>5. Exposure(o, m, w, e, s2)
  BY DEF JobState, Exposure, FinishedUpTo, Finished
<1>6. Settled(o, m, e, s2) /\ Len(m.attempted) = 0
  BY <1>1, <1>4 DEF Settled, NotStarted, FinishedUpTo
<1>7. ParentReady(o, m, w, e, s2)
  BY <1>4, <1>6 DEF ParentReady, StoppedBefore, Fresh
<1>8. Standing(j, "parent", o, m, w, e, s2)
  BY <1>4, <1>7 DEF Standing
<1>9. Ending("parent", o, m, w, e, s2, r)
  BY DEF JobState, Ending
<1> QED
  BY <1>5, <1>8, <1>9 DEF JobState

\* A member's PRE is saved: it counts as attempted from here on.
LEMMA AttemptState ==
  ASSUME NEW j, NEW S \in SUBSET Devices, NEW deployable, NEW at,
         NEW o, NEW l, NEW w, NEW e, NEW st, NEW r,
         JobState(j, S, deployable, "pre", o, l, w, e, st, r)
  PROVE  JobState(j, S, deployable, "child", o,
                  [l EXCEPT !.attempted = Append(@, o[Len(l.attempted) + 1])], w, e, st, r)
<1> DEFINE n == Len(l.attempted)
           x == o[n + 1]
           m == [l EXCEPT !.attempted = Append(@, x)]
<1>1. l \in Locals(S) /\ o \in Seq(S) /\ Len(o) \in Nat /\ w \in SUBSET Devices
  BY DEF JobState
<1>2. l.attempted \in Seq(S) /\ n \in Nat
  BY <1>1 DEF Locals
<1>3. Settled(o, l, e, st) /\ Fresh(l) /\ n < Len(o)
  BY DEF JobState, Standing
<1>4. Along(l.attempted, o)
  BY DEF JobState, Exposure
<1>5. /\ x \in S /\ Append(l.attempted, x) \in Seq(S)
      /\ Len(Append(l.attempted, x)) = n + 1
      /\ Along(Append(l.attempted, x), o)
      /\ Range(Append(l.attempted, x)) = Range(l.attempted) \cup {x}
  <2>1. o \in Seq(S) /\ l.attempted \in Seq(S) /\ Along(l.attempted, o)
        /\ Len(l.attempted) < Len(o)
    BY <1>1, <1>2, <1>3, <1>4
  <2> HIDE DEF m
  <2> QED
    BY <2>1, AlongAppend
<1>6. /\ m \in Locals(S) /\ m.attempted = Append(l.attempted, x)
      /\ m.successful = l.successful /\ m.audits = l.audits
      /\ m.chronologies = l.chronologies /\ m.reason = l.reason
      /\ m.member = l.member /\ m.outcome = l.outcome
      /\ m.evidenceFailed = l.evidenceFailed /\ m.preflight = l.preflight
      /\ m.checked = l.checked /\ m.post = l.post /\ m.final = l.final
  BY <1>1, <1>5 DEF Locals
<1>7. x \notin Range(l.attempted)
  <2>1. SUFFICES ASSUME NEW i \in 1..n, x = o[i] PROVE FALSE
    BY <1>1, <1>2, <1>4, AlongRange
  <2>2. Ordered(o, deployable)
    BY DEF JobState
  <2> QED
    BY <1>1, <1>2, <1>3, <2>1, <2>2 DEF Ordered
<1> HIDE DEF m
<1>8. Exposure(o, m, w, e, st)
  <2>1. FinishedUpTo(o, n, e, st)
    BY <1>3 DEF Settled
  <2> QED
    BY <1>2, <1>5, <1>6, <2>1 DEF JobState, Exposure
<1>9. e[x] = "open" /\ x \notin w
  BY <1>5, <1>7 DEF JobState, Exposure
<1>10. Standing(j, "child", o, m, w, e, st)
  <2>1. Behind(m) /\ Fresh(m) /\ Len(m.successful) = Len(m.attempted) - 1
    <3>1. Len(m.attempted) = n + 1 /\ n + 1 - 1 = n /\ n + 1 > 0
      BY <1>2, <1>5, <1>6
    <3>2. Len(m.successful) = n /\ Len(m.audits) = n /\ Len(m.chronologies) = n
      BY <1>3, <1>6 DEF Settled
    <3>3. Fresh(m)
      BY <1>3, <1>6 DEF Fresh
    <3> QED
      BY <3>1, <3>2, <3>3 DEF Behind
  <2>2. o[Len(m.attempted)] = x
    BY <1>5, <1>6
  <2>3. Len(o) > 0 /\ (j \in Rollouts => m.preflight /\ st.preflight)
    BY <1>6 DEF JobState, Standing
  <2> QED
    BY <1>9, <2>1, <2>2, <2>3 DEF Standing
<1>11. Ending("child", o, m, w, e, st, r)
  BY DEF JobState, Ending
<1> QED
  BY <1>6, <1>8, <1>10, <1>11 DEF JobState, m

\* No PRE, no attempt.
LEMMA NoPreState ==
  ASSUME NEW j, NEW S \in SUBSET Devices, NEW deployable, NEW at,
         NEW o, NEW l, NEW w, NEW e, NEW st, NEW r,
         JobState(j, S, deployable, "pre", o, l, w, e, st, r), j \in Rollouts
  PROVE  JobState(j, S, deployable, "parent", o,
                  Stop(l, "PRE_CHRONOLOGY", o[Len(l.attempted) + 1]), w, e, st, r)
<1> DEFINE m == Stop(l, "PRE_CHRONOLOGY", o[Len(l.attempted) + 1])
<1>1. l \in Locals(S) /\ o \in Seq(S) /\ Len(o) \in Nat
  BY DEF JobState
<1>2. Len(l.attempted) \in Nat
  BY <1>1 DEF Locals
<1>3. /\ Settled(o, l, e, st) /\ Fresh(l) /\ Len(l.attempted) < Len(o)
      /\ l.preflight /\ st.preflight
  BY DEF JobState, Standing
<1>4. o[Len(l.attempted) + 1] \in S
  BY <1>1, <1>2, <1>3
<1>5. /\ m \in Locals(S) /\ m.reason = "PRE_CHRONOLOGY"
      /\ m.member = o[Len(l.attempted) + 1]
      /\ m.attempted = l.attempted /\ m.successful = l.successful
      /\ m.audits = l.audits /\ m.chronologies = l.chronologies
      /\ m.outcome = l.outcome /\ m.evidenceFailed = l.evidenceFailed
      /\ m.preflight = l.preflight /\ m.checked = l.checked
      /\ m.post = l.post /\ m.final = l.final
  BY <1>1, <1>4 DEF Locals, Stop, Reasons
<1> HIDE DEF m
<1>6. Exposure(o, m, w, e, st)
  BY <1>5 DEF JobState, Exposure
<1>7. ParentReady(o, m, w, e, st)
  <2>1. StoppedBefore(o, m, e, st)
    BY <1>3, <1>5 DEF StoppedBefore, Settled, Fresh
  <2>2. Len(o) > 0
    BY <1>1, <1>2, <1>3
  <2> QED
    BY <1>3, <1>5, <2>1, <2>2 DEF ParentReady
<1>8. Standing(j, "parent", o, m, w, e, st)
  BY <1>7 DEF Standing, ParentReady
<1>9. Ending("parent", o, m, w, e, st, r)
  BY DEF JobState, Ending
<1> QED
  BY <1>5, <1>6, <1>8, <1>9 DEF JobState, m
\* The member being processed is the last attempted one of the order, and no
\* earlier one.
LEMMA CurrentMember ==
  ASSUME NEW S \in SUBSET Devices, NEW o \in Seq(S), NEW l \in Locals(S),
         NEW deployable, Ordered(o, deployable),
         Along(l.attempted, o), Len(l.attempted) > 0
  PROVE  LET n == Len(l.attempted) IN
         /\ Last(l.attempted) = o[n] /\ o[n] \in S /\ o[n] \in Devices
         /\ n \in 1..Len(o) /\ n \in Nat /\ Len(o) \in Nat
         /\ \A i \in 1..(n - 1) : o[i] # o[n] /\ o[i] \in Devices /\ i \in 1..Len(o)
         /\ o[n] \in Range(l.attempted)
<1>2. l.attempted \in Seq(S)
  BY DEF Locals
<1> DEFINE n == Len(l.attempted)
<1>3. Last(l.attempted) = o[n] /\ o[n] \in S /\ n \in 1..Len(o) /\ Len(o) \in Nat
  BY <1>2, AlongLast
<1>4. \A i \in 1..(n - 1) : i \in 1..Len(o) /\ i # n
  BY <1>3
<1>5. \A i \in 1..(n - 1) : o[i] # o[n] /\ o[i] \in Devices
  BY <1>3, <1>4 DEF Ordered
<1>6. o[n] \in Range(l.attempted)
  BY <1>2, <1>3, AlongRange
<1> QED
  BY <1>3, <1>4, <1>5, <1>6

\* Whatever becomes of the last attempted member, those before it stay finished.
LEMMA LastExposure ==
  ASSUME NEW S \in SUBSET Devices, NEW o \in Seq(S), NEW l \in Locals(S),
         NEW deployable, Ordered(o, deployable), Len(l.attempted) > 0,
         NEW w, NEW e, NEW st, Exposure(o, l, w, e, st),
         NEW v, v \subseteq w \cup {Last(l.attempted)},
         NEW f, \A d \in Devices : d # Last(l.attempted) => f[d] = e[d]
  PROVE  Exposure(o, l, v, f, st)
<1>1. Along(l.attempted, o)
  BY DEF Exposure
<1>2. /\ Last(l.attempted) \in Range(l.attempted)
      /\ \A i \in 1..(Len(l.attempted) - 1) :
            o[i] # Last(l.attempted) /\ o[i] \in Devices
  BY <1>1, CurrentMember
<1>3. FinishedUpTo(o, Len(l.attempted) - 1, f, st)
  BY <1>2 DEF Exposure, FinishedUpTo, Finished
<1>4. \A d \in Devices : d \notin Range(l.attempted) => f[d] = "open" /\ d \notin v
  BY <1>2 DEF Exposure
<1> QED
  BY <1>3, <1>4 DEF Exposure

\* What a child that has outlived its job still does shows in its own accounts
\* alone.
LEMMA LeftState ==
  ASSUME NEW j, NEW S, NEW deployable, NEW o, NEW l, NEW w, NEW e, NEW st, NEW r,
         JobState(j, S, deployable, "done", o, l, w, e, st, r), r.kind = "crashed",
         NEW v \in SUBSET Devices, NEW f \in [Devices -> {"open"} \cup Ended],
         Exposure(o, l, v, f, st)
  PROVE  JobState(j, S, deployable, "done", o, l, v, f, st, r)
  BY DEF JobState, Standing, Ending

\* The child has read its device and is about to write.
LEMMA ReadState ==
  ASSUME NEW j, NEW S \in SUBSET Devices, NEW deployable, NEW at,
         NEW o, NEW l, NEW w, NEW e, NEW st, NEW r,
         JobState(j, S, deployable, "child", o, l, w, e, st, r)
  PROVE  JobState(j, S, deployable, "write", o, l, w, e, st, r)
<1>1. Standing(j, "write", o, l, w, e, st)
  BY DEF JobState, Standing
<1>2. Ending("write", o, l, w, e, st, r)
  BY DEF JobState, Ending
<1> QED
  BY <1>1, <1>2 DEF JobState

\* The write has left.
LEMMA WriteState ==
  ASSUME NEW j, NEW S \in SUBSET Devices, NEW deployable, NEW at,
         NEW o, NEW l, NEW w, NEW e, NEW st, NEW r,
         JobState(j, S, deployable, "write", o, l, w, e, st, r)
  PROVE  JobState(j, S, deployable, "written", o, l, w \cup {o[Len(l.attempted)]}, e, st, r)
<1> DEFINE n == Len(l.attempted)
           c == o[n]
           v == w \cup {c}
<1>1. /\ l \in Locals(S) /\ o \in Seq(S) /\ w \in SUBSET Devices /\ st \in Stores
      /\ e \in [Devices -> {"open"} \cup Ended]
  BY DEF JobState
<1>2. n > 0 /\ Along(l.attempted, o) /\ Ordered(o, deployable)
  BY DEF JobState, Standing, Behind, Exposure
<1>3. c \in Devices /\ c \in Range(l.attempted)
  BY <1>1, <1>2, CurrentMember
<1>4. v \in SUBSET Devices
  BY <1>1, <1>3
<1>5. Exposure(o, l, v, e, st)
  BY <1>3 DEF JobState, Exposure
<1>6. Standing(j, "written", o, l, v, e, st)
  BY DEF JobState, Standing
<1>7. Ending("written", o, l, v, e, st, r)
  BY DEF JobState, Ending
<1> QED
  BY <1>4, <1>5, <1>6, <1>7 DEF JobState

\* The child ends, with an outcome or without one; only a child that has not
\* written may say so.
LEMMA EndState ==
  ASSUME NEW j, NEW S \in SUBSET Devices, NEW deployable, NEW at,
         NEW o, NEW l, NEW w, NEW e, NEW st, NEW r,
         JobState(j, S, deployable, at, o, l, w, e, st, r),
         at \in {"child", "write", "written"},
         NEW x \in Ended, x \in NoWriteOutcomes => at = "child"
  PROVE  JobState(j, S, deployable, "post", o,
                  Classified(l, x), w, [e EXCEPT ![o[Len(l.attempted)]] = x], st, r)
<1> DEFINE n == Len(l.attempted)
           c == o[n]
           m == Classified(l, x)
           f == [e EXCEPT ![c] = x]
<1>1. /\ l \in Locals(S) /\ o \in Seq(S) /\ w \in SUBSET Devices /\ st \in Stores
      /\ e \in [Devices -> {"open"} \cup Ended]
  BY DEF JobState
<1>2. /\ Behind(l) /\ Fresh(l) /\ Len(l.successful) = n - 1
      /\ c \in w <=> at = "written"
  BY DEF JobState, Standing
<1>3. /\ n > 0 /\ Len(l.audits) = n - 1 /\ Len(l.chronologies) = n - 1
      /\ l.reason = "none" /\ l.member = NoDevice /\ l.outcome = "none"
      /\ ~l.evidenceFailed
  BY <1>2 DEF Behind, Fresh
<1>3a. Along(l.attempted, o) /\ Ordered(o, deployable)
  BY DEF JobState, Exposure
<1>4. /\ Last(l.attempted) = c /\ c \in S /\ c \in Devices
      /\ n \in 1..Len(o) /\ n \in Nat /\ Len(o) \in Nat
      /\ c \in Range(l.attempted)
  BY <1>1, <1>3, <1>3a, CurrentMember
<1>5. \A i \in 1..(n - 1) : o[i] # c /\ o[i] \in Devices
  BY <1>1, <1>3, <1>3a, CurrentMember
<1>6. /\ f \in [Devices -> {"open"} \cup Ended] /\ f[c] = x
      /\ \A d \in Devices : d # c => f[d] = e[d]
  BY <1>1, <1>4
<1>7. Along(l.successful, o) /\ l.successful \in Seq(S)
  BY <1>1 DEF JobState, Exposure, Locals
<1>8. /\ Append(l.successful, c) \in Seq(S) /\ Len(Append(l.successful, c)) = n
      /\ Along(Append(l.successful, c), o)
  <2>1. Len(l.successful) + 1 = n /\ Len(l.successful) < Len(o)
    BY <1>2, <1>4, <1>7
  <2>2. o[Len(l.successful) + 1] = c
    BY <2>1
  <2>3. /\ Append(l.successful, o[Len(l.successful) + 1]) \in Seq(S)
        /\ Len(Append(l.successful, o[Len(l.successful) + 1])) = Len(l.successful) + 1
        /\ Along(Append(l.successful, o[Len(l.successful) + 1]), o)
    BY <1>1, <1>7, <2>1, AlongAppend
  <2> QED
    BY <2>1, <2>2, <2>3
<1>9. /\ m \in Locals(S) /\ Along(m.successful, o)
      /\ Len(m.successful) = IF x = "SUCCEEDED" THEN n ELSE n - 1
      /\ m.outcome = IF x \in {"SUCCEEDED", "escaped"} THEN "none" ELSE x
      /\ m.reason = IF x = "escaped" THEN "CHILD_EXECUTION_UNCERTAIN"
                    ELSE IF x = "SUCCEEDED" THEN "none" ELSE "CHILD_NON_SUCCESS"
      /\ m.member = IF x = "SUCCEEDED" THEN NoDevice ELSE c
      /\ m.attempted = l.attempted /\ m.audits = l.audits
      /\ m.chronologies = l.chronologies
      /\ m.evidenceFailed = l.evidenceFailed /\ m.preflight = l.preflight
      /\ m.checked = l.checked /\ m.post = l.post /\ m.final = l.final
  <2>1. CASE x = "SUCCEEDED"
    <3>1. m = [l EXCEPT !.successful = Append(@, c)]
      BY <1>4, <2>1 DEF Classified
    <3> HIDE DEF m, f
    <3> QED
      BY <1>1, <1>3, <1>8, <2>1, <3>1 DEF Locals
  <2>2. CASE x = "escaped"
    <3>1. m = [l EXCEPT !.reason = "CHILD_EXECUTION_UNCERTAIN", !.member = c]
      BY <1>4, <2>2 DEF Classified, Stop
    <3> HIDE DEF m, f
    <3> QED
      BY <1>1, <1>2, <1>3, <1>4, <1>7, <2>2, <3>1 DEF Locals, Reasons
  <2>3. CASE x \notin {"SUCCEEDED", "escaped"}
    <3>1. m = [[l EXCEPT !.reason = "CHILD_NON_SUCCESS", !.member = c]
                 EXCEPT !.outcome = x]
      BY <1>4, <2>3 DEF Classified, Stop
    <3> HIDE DEF m, f
    <3>2. x \in Ended \cup {"none"}
      OBVIOUS
    <3> QED
      BY <1>1, <1>2, <1>3, <1>4, <1>7, <2>3, <3>1, <3>2 DEF Locals, Reasons
  <2> QED
    BY <2>1, <2>2, <2>3
<1> HIDE DEF m, f
<1>10. x # "none" /\ x # "open"
  BY RolloutAssumption DEF Ended, NoWriteOutcomes, FailedWriteOutcomes
<1>11. Behind(m)
  BY <1>3, <1>9 DEF Behind
<1>12. Judged(o, m, w, f)
  <2>1. x \in NoWriteOutcomes => c \notin w
    BY <1>2
  <2>2. (m.reason = "none") <=> (x = "SUCCEEDED")
    BY <1>9
  <2> QED
    BY <1>3, <1>6, <1>9, <2>1, <2>2 DEF Judged
<1>13. Exposure(o, m, w, f, st)
  <2>1. Exposure(o, l, w, e, st)
    BY DEF JobState
  <2>2. FinishedUpTo(o, n - 1, f, st)
    BY <1>5, <1>6, <2>1 DEF Exposure, FinishedUpTo, Finished
  <2>3. \A d \in Devices : d \notin Range(l.attempted) => f[d] = "open" /\ d \notin w
    BY <1>4, <1>6, <2>1 DEF Exposure
  <2> QED
    BY <1>9, <2>1, <2>2, <2>3 DEF Exposure
<1>14. Standing(j, "post", o, m, w, f, st)
  <2>1. Len(o) > 0 /\ (j \in Rollouts => m.preflight /\ st.preflight)
    BY <1>9 DEF JobState, Standing
  <2> QED
    BY <1>3, <1>9, <1>11, <1>12, <2>1 DEF Standing
<1>15. Ending("post", o, m, w, f, st, r)
  BY DEF JobState, Ending
<1> QED
  BY <1>6, <1>9, <1>13, <1>14, <1>15 DEF JobState, m, f
\* An evidence failure, as a change of the locals.
LEMMA FailedFields ==
  ASSUME NEW S, NEW l \in Locals(S), Last(l.attempted) \in S
  PROVE  LET m == EvidenceFailed(l) IN
         /\ m \in Locals(S) /\ m.evidenceFailed
         /\ m.member = Last(l.attempted)
         /\ m.reason = IF l.reason = "CHILD_EXECUTION_UNCERTAIN"
                       THEN l.reason ELSE "CHILD_EVIDENCE"
         /\ m.attempted = l.attempted /\ m.successful = l.successful
         /\ m.audits = l.audits /\ m.chronologies = l.chronologies
         /\ m.outcome = l.outcome /\ m.preflight = l.preflight
         /\ m.checked = l.checked /\ m.post = l.post /\ m.final = l.final
  BY DEF Locals, EvidenceFailed, Reasons

\* It keeps the account of how the child ended.
LEMMA FailedJudged ==
  ASSUME NEW S, NEW o, NEW l \in Locals(S), NEW w, NEW e, Judged(o, l, w, e),
         Last(l.attempted) = o[Len(l.attempted)], o[Len(l.attempted)] \in S
  PROVE  Judged(o, EvidenceFailed(l), w, e)
<1> DEFINE m == EvidenceFailed(l)
           x == e[o[Len(l.attempted)]]
<1>1. /\ m.evidenceFailed /\ m.member = o[Len(l.attempted)]
      /\ m.reason = IF l.reason = "CHILD_EXECUTION_UNCERTAIN"
                    THEN l.reason ELSE "CHILD_EVIDENCE"
      /\ m.attempted = l.attempted /\ m.successful = l.successful
      /\ m.outcome = l.outcome
  BY FailedFields
<1>2. (l.reason = "CHILD_EXECUTION_UNCERTAIN") <=> (x = "escaped")
  BY DEF Judged
<1> HIDE DEF m
<1>3. m.reason = IF x = "escaped" THEN "CHILD_EXECUTION_UNCERTAIN" ELSE "CHILD_EVIDENCE"
  BY <1>1, <1>2
<1>4. m.reason # "none"
  BY <1>3
<1>5. Judged(o, m, w, e)
  BY <1>1, <1>3, <1>4 DEF Judged
<1> QED
  BY <1>5 DEF m

\* The POST observation is saved, or its absence is an evidence failure.
LEMMA PostState ==
  ASSUME NEW j, NEW S \in SUBSET Devices, NEW deployable, NEW at,
         NEW o, NEW l, NEW w, NEW e, NEW st, NEW r,
         JobState(j, S, deployable, "post", o, l, w, e, st, r),
         NEW post \in {"none", "SUCCESS", "FAILURE"}, NEW saved \in BOOLEAN,
         NEW m, m = IF post = "SUCCESS" /\ saved THEN [l EXCEPT !.post = post]
                    ELSE EvidenceFailed([l EXCEPT !.post = post])
  PROVE  JobState(j, S, deployable, IF j \in Rollouts THEN "persist" ELSE "publish", o,
                  m, w, e, st, r)
<1> DEFINE n == Len(l.attempted)
           p == [l EXCEPT !.post = post]
           to == IF j \in Rollouts THEN "persist" ELSE "publish"
<1>1. /\ l \in Locals(S) /\ o \in Seq(S) /\ Along(l.attempted, o)
      /\ Ordered(o, deployable) /\ Exposure(o, l, w, e, st)
  BY DEF JobState, Exposure
<1>2. /\ Behind(l) /\ Judged(o, l, w, e) /\ ~l.evidenceFailed /\ Len(o) > 0
      /\ j \in Rollouts => l.preflight /\ st.preflight
  BY DEF JobState, Standing
<1>3. n > 0
  BY <1>2 DEF Behind
<1>4. Last(l.attempted) = o[n] /\ o[n] \in S
  BY <1>1, <1>3, CurrentMember
<1>5. /\ p \in Locals(S) /\ p.post = post
      /\ p.attempted = l.attempted /\ p.successful = l.successful
      /\ p.audits = l.audits /\ p.chronologies = l.chronologies
      /\ p.reason = l.reason /\ p.member = l.member
      /\ p.outcome = l.outcome /\ p.evidenceFailed = l.evidenceFailed
      /\ p.preflight = l.preflight /\ p.checked = l.checked
      /\ p.final = l.final
  BY <1>1 DEF Locals
<1> HIDE DEF p
<1>6. Judged(o, p, w, e) /\ Last(p.attempted) = o[Len(p.attempted)]
  BY <1>2, <1>4, <1>5 DEF Judged
<1>7. /\ m \in Locals(S) /\ Judged(o, m, w, e)
      /\ m.post = "SUCCESS" \/ m.evidenceFailed
      /\ m.attempted = l.attempted /\ m.successful = l.successful
      /\ m.audits = l.audits /\ m.chronologies = l.chronologies
      /\ m.preflight = l.preflight
  <2>1. CASE m = p /\ post = "SUCCESS"
    BY <1>5, <1>6, <2>1
  <2>2. CASE m = EvidenceFailed(p)
    <3>1. Last(p.attempted) \in S /\ o[Len(p.attempted)] \in S
      BY <1>4, <1>5
    <3>2. Judged(o, m, w, e)
      BY <1>5, <1>6, <2>2, <3>1, FailedJudged
    <3>3. /\ m \in Locals(S) /\ m.evidenceFailed
          /\ m.attempted = p.attempted /\ m.successful = p.successful
          /\ m.audits = p.audits /\ m.chronologies = p.chronologies
          /\ m.preflight = p.preflight
      BY ONLY <1>5, <2>2, <3>1, FailedFields
    <3> QED
      BY <1>5, <3>2, <3>3
  <2> QED
    BY <2>1, <2>2 DEF p
<1>8. Exposure(o, m, w, e, st)
  BY <1>1, <1>7 DEF Exposure
<1>9. Behind(m)
  BY <1>2, <1>7 DEF Behind
<1>10. Standing(j, to, o, m, w, e, st)
  BY <1>2, <1>7, <1>9 DEF Standing
<1>11. Ending(to, o, m, w, e, st, r)
  BY DEF JobState, Ending
<1>12. to \notin {"plan", "done"}
  OBVIOUS
<1> QED
  BY <1>1, <1>7, <1>8, <1>10, <1>11, <1>12 DEF JobState

\* What a child leaves in the store: its audit, then its chronology.
StoredAs(st, d, audited, post, upTo) ==
    [st EXCEPT !.audit[d] = IF upTo = 0 THEN @ ELSE audited,
               !.chronology[d] = IF upTo < 2 THEN @ ELSE post]

StoredWell(st, s2, d, audited, post, upTo) ==
    /\ s2 \in Stores /\ s2.preflight = st.preflight
    /\ \A c \in Devices \ {d} : s2.audit[c] = st.audit[c]
                             /\ s2.chronology[c] = st.chronology[c]
    /\ upTo > 0 => s2.audit[d] = audited
    /\ upTo = 2 => s2.chronology[d] = post

\* Persist and Publish store for the current member only.
LEMMA StoredFields ==
  ASSUME NEW st \in Stores, NEW d \in Devices, NEW audited \in Ended \cup {"unknown"},
         NEW post \in {"none", "SUCCESS", "FAILURE"}, NEW upTo \in 0..2
  PROVE  StoredWell(st, StoredAs(st, d, audited, post, upTo), d, audited, post, upTo)
<1> DEFINE a == IF upTo = 0 THEN st.audit[d] ELSE audited
           c == IF upTo < 2 THEN st.chronology[d] ELSE post
           s2 == StoredAs(st, d, audited, post, upTo)
<1>1. /\ a \in Ended \cup {"absent", "unknown"}
      /\ c \in {"absent", "none", "SUCCESS", "FAILURE"}
  BY DEF Stores
<1>2. s2 = [st EXCEPT !.audit[d] = a, !.chronology[d] = c]
  BY DEF StoredAs
<1>3. (upTo > 0 => a = audited) /\ (upTo = 2 => c = post)
  OBVIOUS
<1> HIDE DEF a, c, s2
<1>4. s2 \in Stores
  BY <1>1, <1>2 DEF Stores
<1>5. /\ s2.preflight = st.preflight /\ s2.audit[d] = a /\ s2.chronology[d] = c
      /\ \A b \in Devices \ {d} : s2.audit[b] = st.audit[b]
                               /\ s2.chronology[b] = st.chronology[b]
  BY <1>1, <1>2 DEF Stores
<1> QED
  BY <1>3, <1>4, <1>5 DEF s2, StoredWell

\* What the locals refer to afterwards.
ReferencedWell(S, o, l, m, upTo) ==
    LET n == Len(l.attempted) IN
    /\ m \in Locals(S)
    /\ Along(m.audits, o) /\ Along(m.chronologies, o)
    /\ Len(m.audits) = IF upTo = 0 THEN n - 1 ELSE n
    /\ Len(m.chronologies) = IF upTo < 2 THEN n - 1 ELSE n
    /\ m.attempted = l.attempted /\ m.successful = l.successful
    /\ m.reason = l.reason /\ m.member = l.member
    /\ m.outcome = l.outcome /\ m.evidenceFailed = l.evidenceFailed
    /\ m.preflight = l.preflight /\ m.checked = l.checked
    /\ m.post = l.post /\ m.final = l.final

\* What Referenced appends.
LEMMA ReferencedFields ==
  ASSUME NEW S, NEW o \in Seq(S), NEW l \in Locals(S), NEW upTo \in 0..2,
         Along(l.attempted, o), Along(l.audits, o), Along(l.chronologies, o),
         Behind(l), Last(l.attempted) = o[Len(l.attempted)]
  PROVE  ReferencedWell(S, o, l, Referenced(l, upTo), upTo)
<1> DEFINE n == Len(l.attempted)
           m == Referenced(l, upTo)
<1>1. /\ l.attempted \in Seq(S) /\ l.audits \in Seq(S) /\ l.chronologies \in Seq(S)
      /\ n \in Nat /\ Len(o) \in Nat /\ n <= Len(o)
  BY DEF Locals, Along
<1>2. n > 0 /\ Len(l.audits) = n - 1 /\ Len(l.chronologies) = n - 1
  BY DEF Behind
<1>3. /\ Append(l.audits, o[n]) \in Seq(S) /\ Along(Append(l.audits, o[n]), o)
      /\ Len(Append(l.audits, o[n])) = n
  <2>1. Len(l.audits) < Len(o) /\ Len(l.audits) + 1 = n
    BY <1>1, <1>2
  <2> HIDE DEF n, m
  <2>2. LET t == Append(l.audits, o[Len(l.audits) + 1]) IN
        t \in Seq(S) /\ Len(t) = Len(l.audits) + 1 /\ Along(t, o)
    BY <1>1, <2>1, AlongAppend
  <2> QED
    BY <2>1, <2>2
<1>4. /\ Append(l.chronologies, o[n]) \in Seq(S)
      /\ Along(Append(l.chronologies, o[n]), o)
      /\ Len(Append(l.chronologies, o[n])) = n
  <2>1. Len(l.chronologies) < Len(o) /\ Len(l.chronologies) + 1 = n
    BY <1>1, <1>2
  <2> HIDE DEF n, m
  <2>2. LET t == Append(l.chronologies, o[Len(l.chronologies) + 1]) IN
        t \in Seq(S) /\ Len(t) = Len(l.chronologies) + 1 /\ Along(t, o)
    BY <1>1, <2>1, AlongAppend
  <2> QED
    BY <2>1, <2>2
<1>5. /\ m \in Locals(S)
      /\ m.audits = IF upTo = 0 THEN l.audits ELSE Append(l.audits, o[n])
      /\ m.chronologies = IF upTo < 2 THEN l.chronologies
                          ELSE Append(l.chronologies, o[n])
      /\ m.attempted = l.attempted /\ m.successful = l.successful
      /\ m.reason = l.reason /\ m.member = l.member
      /\ m.outcome = l.outcome /\ m.evidenceFailed = l.evidenceFailed
      /\ m.preflight = l.preflight /\ m.checked = l.checked
      /\ m.post = l.post /\ m.final = l.final
  BY <1>1, <1>3, <1>4 DEF Locals, Referenced
<1> HIDE DEF m
<1>6. /\ Along(m.audits, o) /\ Len(m.audits) = IF upTo = 0 THEN n - 1 ELSE n
  BY <1>2, <1>3, <1>5
<1>7. /\ Along(m.chronologies, o)
      /\ Len(m.chronologies) = IF upTo < 2 THEN n - 1 ELSE n
  BY <1>2, <1>4, <1>5
<1> QED
  BY <1>5, <1>6, <1>7 DEF m, ReferencedWell
\* The child audit and the chronology are stored, as far as storing goes; the
\* rollout goes on only with both, and stops with an account otherwise.
LEMMA PersistState ==
  ASSUME NEW j, NEW S \in SUBSET Devices, NEW deployable, NEW at,
         NEW o, NEW l, NEW w, NEW e, NEW st, NEW r,
         JobState(j, S, deployable, "persist", o, l, w, e, st, r),
         NEW upTo \in 0..(IF l.post = "none" THEN 1 ELSE 2),
         NEW audited, NEW s2, NEW m, NEW to,
         audited = (IF e[o[Len(l.attempted)]] = "escaped" THEN "unknown"
                    ELSE e[o[Len(l.attempted)]]),
         s2 = StoredAs(st, o[Len(l.attempted)], audited, l.post, upTo),
         m = [(IF upTo = (IF l.post = "none" THEN 1 ELSE 2) THEN Referenced(l, upTo)
               ELSE EvidenceFailed(Referenced(l, upTo))) EXCEPT !.post = "none"],
         to = IF m.reason # "none" THEN "parent"
              ELSE IF Len(m.attempted) < Len(o) THEN "pre" ELSE "final"
  PROVE  JobState(j, S, deployable, to, o, m, w, e, s2, r)
<1> DEFINE n == Len(l.attempted)
           c == o[n]
           whole == IF l.post = "none" THEN 1 ELSE 2
           p == Referenced(l, upTo)
           q == IF upTo = whole THEN p ELSE EvidenceFailed(p)
<1>1. /\ l \in Locals(S) /\ o \in Seq(S) /\ Along(l.attempted, o) /\ Len(o) \in Nat
      /\ Along(l.audits, o) /\ Along(l.chronologies, o) /\ Along(l.successful, o)
      /\ Ordered(o, deployable) /\ Exposure(o, l, w, e, st) /\ st \in Stores
      /\ w \in SUBSET Devices /\ e \in [Devices -> {"open"} \cup Ended]
      /\ r \in Results(S)
  BY DEF JobState, Exposure
<1>2. /\ Behind(l) /\ Judged(o, l, w, e) /\ Len(o) > 0
      /\ l.post = "SUCCESS" \/ l.evidenceFailed
      /\ j \in Rollouts /\ l.preflight /\ st.preflight
  BY DEF JobState, Standing
<1>3. n > 0 /\ n \in Nat
  BY <1>1, <1>2 DEF Behind, Locals
<1>4. /\ Last(l.attempted) = c /\ c \in S /\ c \in Devices
      /\ n \in 1..Len(o)
      /\ \A i \in 1..(n - 1) : o[i] # c /\ o[i] \in Devices
  BY <1>1, <1>3, CurrentMember
<1>5. /\ upTo \in 0..2 /\ upTo <= whole /\ (l.post = "SUCCESS" => whole = 2)
      /\ whole \in 1..2
  OBVIOUS
<1>6. /\ p \in Locals(S)
      /\ Along(p.audits, o) /\ Along(p.chronologies, o)
      /\ Len(p.audits) = IF upTo = 0 THEN n - 1 ELSE n
      /\ Len(p.chronologies) = IF upTo < 2 THEN n - 1 ELSE n
      /\ p.attempted = l.attempted /\ p.successful = l.successful
      /\ p.reason = l.reason /\ p.member = l.member
      /\ p.outcome = l.outcome /\ p.evidenceFailed = l.evidenceFailed
      /\ p.preflight = l.preflight /\ p.checked = l.checked
      /\ p.post = l.post /\ p.final = l.final
  <2>1. /\ l \in Locals(S) /\ o \in Seq(S) /\ upTo \in 0..2 /\ Along(l.attempted, o)
        /\ Along(l.audits, o) /\ Along(l.chronologies, o) /\ Behind(l)
        /\ Last(l.attempted) = o[Len(l.attempted)]
    BY <1>1, <1>2, <1>4, <1>5
  <2> HIDE DEF p, whole, q
  <2>2. ReferencedWell(S, o, l, Referenced(l, upTo), upTo)
    BY ONLY <2>1, ReferencedFields
  <2> QED
    BY <2>2 DEF p, ReferencedWell
<1> HIDE DEF p
<1>7. Judged(o, p, w, e) /\ Last(p.attempted) = o[Len(p.attempted)]
      /\ Last(p.attempted) \in S
  BY <1>2, <1>4, <1>6 DEF Judged
<1>8. /\ q \in Locals(S) /\ Judged(o, q, w, e)
      /\ IF upTo = whole THEN q.evidenceFailed = l.evidenceFailed ELSE q.evidenceFailed
      /\ q.attempted = p.attempted /\ q.successful = p.successful
      /\ q.audits = p.audits /\ q.chronologies = p.chronologies
      /\ q.preflight = p.preflight
  <2>1. CASE upTo = whole
    <3>1. q = p
      BY <2>1
    <3> QED
      BY <1>6, <1>7, <2>1, <3>1
  <2>2. CASE upTo # whole
    <3>1. q = EvidenceFailed(p)
      BY <2>2
    <3>2. Judged(o, q, w, e)
      BY <1>6, <1>7, <3>1, FailedJudged
    <3>3. /\ q \in Locals(S) /\ q.evidenceFailed
          /\ q.attempted = p.attempted /\ q.successful = p.successful
          /\ q.audits = p.audits /\ q.chronologies = p.chronologies
          /\ q.preflight = p.preflight
      BY ONLY <1>6, <1>7, <3>1, FailedFields
    <3> QED
      BY <2>2, <3>2, <3>3
  <2> QED
    BY <2>1, <2>2
<1>9. m = [q EXCEPT !.post = "none"]
  BY DEF p
<1> HIDE DEF q
<1>10. /\ m \in Locals(S)
       /\ m.attempted = q.attempted /\ m.successful = q.successful
       /\ m.audits = q.audits /\ m.chronologies = q.chronologies
       /\ m.reason = q.reason /\ m.member = q.member
       /\ m.outcome = q.outcome /\ m.evidenceFailed = q.evidenceFailed
       /\ m.preflight = q.preflight /\ m.checked = q.checked
       /\ m.final = q.final
  BY <1>8, <1>9 DEF Locals
<1>11. Judged(o, m, w, e)
  BY <1>8, <1>10 DEF Judged
<1>12. /\ m.attempted = l.attempted /\ m.successful = l.successful /\ m.preflight
       /\ Along(m.audits, o) /\ Along(m.chronologies, o)
       /\ Len(m.audits) = IF upTo = 0 THEN n - 1 ELSE n
       /\ Len(m.chronologies) = IF upTo < 2 THEN n - 1 ELSE n
       /\ ~m.evidenceFailed => upTo = 2 /\ l.post = "SUCCESS"
  BY <1>2, <1>5, <1>6, <1>8, <1>10
<1>13. audited \in Ended \cup {"unknown"}
  BY <1>2 DEF Judged
<1>14. /\ s2 \in Stores /\ s2.preflight
       /\ \A d \in Devices \ {c} : s2.audit[d] = st.audit[d]
                                /\ s2.chronology[d] = st.chronology[d]
       /\ upTo > 0 => s2.audit[c] = audited
       /\ upTo = 2 => s2.chronology[c] = l.post
  <2>1. l.post \in {"none", "SUCCESS", "FAILURE"}
    BY <1>1 DEF Locals
  <2> QED
    <3>1. /\ st \in Stores /\ c \in Devices /\ upTo \in 0..2
          /\ s2 = StoredAs(st, c, audited, l.post, upTo) /\ st.preflight
      BY <1>1, <1>2, <1>4, <1>5
    <3> HIDE DEF c, n
    <3> QED
      <4>1. StoredWell(st, s2, c, audited, l.post, upTo)
        BY ONLY <3>1, <1>13, <2>1, StoredFields
      <4> QED
        BY <3>1, <4>1 DEF StoredWell
<1>15. FinishedUpTo(o, n - 1, e, s2)
  BY <1>1, <1>4, <1>14 DEF Exposure, FinishedUpTo, Finished
<1>16. Exposure(o, m, w, e, s2)
  BY <1>1, <1>12, <1>15 DEF Exposure
<1>17. to = "parent" => ParentReady(o, m, w, e, s2)
  <2>1. HAVE to = "parent"
  <2>2. m.reason # "none"
    BY <2>1
  <2>3. Len(m.audits) = n => s2.audit[o[n]] = audited
    BY <1>3, <1>5, <1>12, <1>14
  <2>4. ~m.evidenceFailed => Len(m.chronologies) = n /\ s2.chronology[o[n]] = "SUCCESS"
    BY <1>12, <1>14
  <2>5. /\ Len(m.audits) \in {n - 1, n} /\ Len(m.chronologies) \in {n - 1, n}
        /\ Len(m.chronologies) <= Len(m.audits) /\ Len(m.attempted) = n
    BY <1>3, <1>5, <1>12
  <2>6. StoppedAt(o, m, w, e, s2)
    BY <1>11, <2>2, <2>3, <2>4, <2>5 DEF StoppedAt
  <2> QED
    BY <1>2, <1>12, <1>14, <2>6 DEF ParentReady
<1>18. to # "parent" =>
          Settled(o, m, e, s2) /\ Fresh(m) /\ (to = "pre" <=> Len(m.attempted) < Len(o))
  <2>1. HAVE to # "parent"
  <2>2. m.reason = "none" /\ (to = "pre" <=> Len(m.attempted) < Len(o))
    BY <2>1
  <2>3. /\ e[c] = "SUCCEEDED" /\ ~m.evidenceFailed /\ m.member = NoDevice
        /\ m.outcome = "none" /\ Len(m.successful) = n
    BY <1>11, <1>12, <2>2 DEF Judged
  <2>4. upTo = 2 /\ l.post = "SUCCESS"
    BY <1>12, <2>3
  <2>5. Finished(e, s2, c)
    BY <1>14, <2>3, <2>4 DEF Finished
  <2>6. FinishedUpTo(o, n, e, s2)
    BY <1>3, <1>15, <2>5 DEF FinishedUpTo
  <2> QED
    BY <1>12, <2>2, <2>3, <2>4, <2>6 DEF Settled, Fresh
<1>19. to \in {"parent", "pre", "final"} /\ (to = "final" => ~(Len(m.attempted) < Len(o)))
  OBVIOUS
<1>20. to = "final" => Len(m.attempted) = Len(o)
  BY <1>1, <1>3, <1>4, <1>12, <1>19
<1>21. Standing(j, to, o, m, w, e, s2)
  BY <1>2, <1>12, <1>14, <1>17, <1>18, <1>19, <1>20 DEF Standing
<1>22. Ending(to, o, m, w, e, s2, r)
  BY <1>19 DEF JobState, Ending
<1> QED
  BY <1>1, <1>10, <1>14, <1>16, <1>19, <1>21, <1>22 DEF JobState

\* A single job publishes its record and its chronology, and exits.
LEMMA PublishState ==
  ASSUME NEW j, NEW S \in SUBSET Devices, NEW deployable, NEW at,
         NEW o, NEW l, NEW w, NEW e, NEW st, NEW r,
         JobState(j, S, deployable, "publish", o, l, w, e, st, r),
         NEW upTo \in 0..2, NEW audited, NEW s2,
         audited = (IF e[o[Len(l.attempted)]] = "escaped" THEN "unknown"
                    ELSE e[o[Len(l.attempted)]]),
         s2 = StoredAs(st, o[Len(l.attempted)], audited, l.post, upTo),
         NEW kind \in {"published", "unpublished"}
  PROVE  JobState(j, S, deployable, "done", o, l, w, e, s2, [r EXCEPT !.kind = kind])
<1> DEFINE n == Len(l.attempted)
           c == o[n]
<1>1. /\ l \in Locals(S) /\ o \in Seq(S) /\ Along(l.attempted, o) /\ Len(o) \in Nat
      /\ Ordered(o, deployable) /\ Exposure(o, l, w, e, st) /\ st \in Stores
      /\ e \in [Devices -> {"open"} \cup Ended]
  BY DEF JobState, Exposure
<1>2. Behind(l) /\ Judged(o, l, w, e)
  BY DEF JobState, Standing
<1>3. n > 0 /\ l.post \in {"none", "SUCCESS", "FAILURE"}
  BY <1>1, <1>2 DEF Behind, Locals
<1>4. c \in Devices /\ \A i \in 1..(n - 1) : o[i] # c /\ o[i] \in Devices
  BY <1>1, <1>3, CurrentMember
<1>5. audited \in Ended \cup {"unknown"}
  BY <1>2 DEF Judged
<1>6. /\ s2 \in Stores
      /\ \A d \in Devices \ {c} : s2.audit[d] = st.audit[d]
                               /\ s2.chronology[d] = st.chronology[d]
  <2>1. /\ st \in Stores /\ c \in Devices /\ upTo \in 0..2
        /\ s2 = StoredAs(st, c, audited, l.post, upTo)
        /\ l.post \in {"none", "SUCCESS", "FAILURE"}
    BY <1>1, <1>3, <1>4
  <2> HIDE DEF c, n
  <2> QED
    <3>1. StoredWell(st, s2, c, audited, l.post, upTo)
      BY ONLY <2>1, <1>5, StoredFields
    <3> QED
      BY <3>1 DEF StoredWell
<1>7. Exposure(o, l, w, e, s2)
  BY <1>1, <1>4, <1>6 DEF Exposure, FinishedUpTo, Finished
<1>8. kind \in Kinds \ {"running", "record"} /\ kind # "rejected"
  BY DEF Kinds
<1> QED
  BY <1>1, <1>6, <1>7, <1>8, ExitState

\* The final pass has its verdict.
LEMMA FinalState ==
  ASSUME NEW j, NEW S \in SUBSET Devices, NEW deployable, NEW at,
         NEW o, NEW l, NEW w, NEW e, NEW st, NEW r,
         JobState(j, S, deployable, "final", o, l, w, e, st, r),
         NEW status \in {"PASSED", "FAILED"}
  PROVE  JobState(j, S, deployable, "finalstore", o,
                  [l EXCEPT !.final = status, !.checked = {}], w, e, st, r)
<1> DEFINE m == [l EXCEPT !.final = status, !.checked = {}]
<1>1. l \in Locals(S)
  BY DEF JobState
<1>2. /\ m \in Locals(S) /\ m.final = status
      /\ m.attempted = l.attempted /\ m.successful = l.successful
      /\ m.audits = l.audits /\ m.chronologies = l.chronologies
      /\ m.reason = l.reason /\ m.member = l.member
      /\ m.outcome = l.outcome /\ m.evidenceFailed = l.evidenceFailed
      /\ m.preflight = l.preflight /\ m.post = l.post
  BY <1>1 DEF Locals
<1> HIDE DEF m
<1>3. Exposure(o, m, w, e, st)
  BY <1>2 DEF JobState, Exposure
<1>4. Standing(j, "finalstore", o, m, w, e, st)
  BY <1>2 DEF JobState, Standing, Fresh, Settled
<1>5. Ending("finalstore", o, m, w, e, st, r)
  BY DEF JobState, Ending
<1> QED
  BY <1>2, <1>3, <1>4, <1>5 DEF JobState, m

\* It is stored, or that fails.
LEMMA FinalStoredState ==
  ASSUME NEW j, NEW S \in SUBSET Devices, NEW deployable, NEW at,
         NEW o, NEW l, NEW w, NEW e, NEW st, NEW r,
         JobState(j, S, deployable, "finalstore", o, l, w, e, st, r), NEW m,
         \/ m = IF l.final = "FAILED" THEN Stop(l, "FINAL_VALIDATION", NoDevice) ELSE l
         \/ m = [Stop(l, "CHILD_EVIDENCE", NoDevice)
                   EXCEPT !.final = "none", !.evidenceFailed = TRUE]
  PROVE  JobState(j, S, deployable, "parent", o, m, w, e, st, r)
<1>1. l \in Locals(S)
  BY DEF JobState
<1>2. /\ Settled(o, l, e, st) /\ Fresh(l) /\ Len(l.attempted) = Len(o)
      /\ l.final # "none" /\ j \in Rollouts /\ l.preflight /\ st.preflight /\ Len(o) > 0
  BY DEF JobState, Standing
<1>3. /\ m \in Locals(S) /\ m.attempted = l.attempted /\ m.successful = l.successful
      /\ m.audits = l.audits /\ m.chronologies = l.chronologies
      /\ m.outcome = "none" /\ m.member = NoDevice /\ m.preflight = l.preflight
      /\ \/ m.reason = "none" /\ ~m.evidenceFailed /\ m.final = "PASSED"
         \/ m.reason = "FINAL_VALIDATION" /\ ~m.evidenceFailed /\ m.final = "FAILED"
         \/ m.reason = "CHILD_EVIDENCE" /\ m.evidenceFailed
  <2>1. CASE m = Stop(l, "FINAL_VALIDATION", NoDevice) /\ l.final = "FAILED"
    BY <1>1, <1>2, <2>1 DEF Stop, Locals, Reasons, Fresh
  <2>2. CASE m = l /\ l.final # "FAILED"
    BY <1>1, <1>2, <2>2 DEF Locals, Fresh
  <2>3. CASE m = [Stop(l, "CHILD_EVIDENCE", NoDevice)
                   EXCEPT !.final = "none", !.evidenceFailed = TRUE]
    BY <1>1, <1>2, <2>3 DEF Stop, Locals, Reasons, Fresh
  <2> QED
    BY <2>1, <2>2, <2>3
<1>4. Exposure(o, m, w, e, st)
  BY <1>3 DEF JobState, Exposure
<1>5. Complete(o, m, e, st)
  BY <1>2, <1>3 DEF Complete, Settled
<1>6. ParentReady(o, m, w, e, st)
  BY <1>2, <1>3, <1>5 DEF ParentReady
<1>7. Standing(j, "parent", o, m, w, e, st)
  BY <1>2, <1>6 DEF Standing
<1>8. Ending("parent", o, m, w, e, st, r)
  BY DEF JobState, Ending
<1> QED
  BY <1>3, <1>4, <1>7, <1>8 DEF JobState

\* The parent record is published.
LEMMA RecordState ==
  ASSUME NEW j, NEW S \in SUBSET Devices, NEW deployable, NEW at,
         NEW o, NEW l, NEW w, NEW e, NEW st, NEW r,
         JobState(j, S, deployable, "parent", o, l, w, e, st, r), NEW outcome,
         outcome \in {"SUCCEEDED", "FINAL_VALIDATION_FAILED",
                     "EVIDENCE_FAILED", "PARTIAL", "STOPPED"},
         outcome = "SUCCEEDED" => l.reason = "none"
  PROVE  JobState(j, S, deployable, "done", o,
                  l, w, e, st, [kind |-> "record", record |-> l, outcome |-> outcome])
<1> DEFINE q == [kind |-> "record", record |-> l, outcome |-> outcome]
<1>1. l \in Locals(S) /\ ParentReady(o, l, w, e, st) /\ Ordered(o, deployable)
  BY DEF JobState, Standing
<1>2. q \in Results(S)
  BY <1>1 DEF Results, Kinds
<1>3. q.kind = "record" /\ q.record = l /\ q.outcome = outcome
  OBVIOUS
<1> HIDE DEF q
<1>4. Standing(j, "done", o, l, w, e, st)
  BY DEF Standing
<1>5. Ending("done", o, l, w, e, st, q)
  BY <1>1, <1>3 DEF Ending
<1>6. JobState(j, S, deployable, "done", o, l, w, e, st, q)
  BY <1>1, <1>2, <1>4, <1>5 DEF JobState
<1> QED
  BY <1>6 DEF q
-----------------------------------------------------------------------------
(***************************************************************************)
(* A parent record whose facts are in order is accepted: first by its own *)
(* validator, then by the store.                                          *)
(***************************************************************************)

OutcomeOf(o, l) ==
    IF l.reason = "none" THEN "SUCCEEDED"
    ELSE IF l.reason = "FINAL_VALIDATION" THEN "FINAL_VALIDATION_FAILED"
    ELSE IF l.evidenceFailed /\ Len(l.successful) = Len(o) THEN "EVIDENCE_FAILED"
    ELSE IF l.successful # <<>> THEN "PARTIAL" ELSE "STOPPED"

\* The outcome computed for the record, as an operator of the locals.
LEMMA OutcomeIs ==
  ASSUME NEW j, locals[j].reason \in Reasons
  PROVE  RolloutOutcome(j) = OutcomeOf(Order(j), locals[j])
  BY DEF RolloutOutcome, OutcomeOf, Reasons

\* The lists of a record are no longer than the order.
LEMMA Lengths ==
  ASSUME NEW S \in SUBSET Devices, NEW deployable, NEW o \in Seq(S), NEW l \in Locals(S),
         NEW w, NEW e, NEW st, Ordered(o, deployable), Exposure(o, l, w, e, st),
         ParentReady(o, l, w, e, st)
  PROVE  LET n == Len(l.attempted) IN
         /\ n \in Nat /\ n <= Len(o) /\ Len(o) \in Nat
         /\ Len(l.successful) \in Nat /\ Len(l.audits) \in Nat
         /\ Len(l.chronologies) \in Nat
         /\ Len(l.successful) <= n /\ Len(l.audits) <= n
         /\ Len(l.chronologies) <= Len(l.audits)
         /\ Len(l.successful) >= n - 1
<1>1. /\ Len(l.attempted) \in Nat /\ Len(l.successful) \in Nat
      /\ Len(l.audits) \in Nat /\ Len(l.chronologies) \in Nat
      /\ Len(o) \in Nat /\ Len(l.attempted) <= Len(o)
  BY DEF Locals, Exposure, Along
<1>2. CASE Complete(o, l, e, st) \/ StoppedBefore(o, l, e, st)
  BY <1>1, <1>2 DEF Complete, StoppedBefore, Settled
<1>3. CASE StoppedAt(o, l, w, e, st)
  BY <1>1, <1>3 DEF StoppedAt, Judged
<1> QED
  BY <1>2, <1>3 DEF ParentReady

AllPrefixes(o, l) ==
    /\ IsPrefix(l.attempted, o) /\ IsPrefix(l.successful, l.attempted)
    /\ IsPrefix(l.audits, l.attempted) /\ IsPrefix(l.chronologies, l.attempted)

\* The lists of a record are prefixes of the order and of each other.
LEMMA PrefixesHold ==
  ASSUME NEW S \in SUBSET Devices, NEW deployable, NEW o \in Seq(S), NEW l \in Locals(S),
         NEW w, NEW e, NEW st, Ordered(o, deployable), Exposure(o, l, w, e, st),
         ParentReady(o, l, w, e, st)
  PROVE  AllPrefixes(o, l)
<1>1. /\ l.attempted \in Seq(S) /\ l.successful \in Seq(S)
      /\ l.audits \in Seq(S) /\ l.chronologies \in Seq(S)
  BY DEF Locals
<1>2. /\ Along(l.attempted, o) /\ Along(l.successful, o)
      /\ Along(l.audits, o) /\ Along(l.chronologies, o)
  BY DEF Exposure
<1>3. /\ Len(l.successful) <= Len(l.attempted) /\ Len(l.audits) <= Len(l.attempted)
      /\ Len(l.chronologies) <= Len(l.attempted)
  BY Lengths
<1>4. IsPrefix(l.attempted, o)
  BY <1>1, <1>2, AlongWhole
<1>5. IsPrefix(l.successful, l.attempted)
  BY <1>1, <1>2, <1>3, AlongPrefix
<1>6. IsPrefix(l.audits, l.attempted)
  BY <1>1, <1>2, <1>3, AlongPrefix
<1>7. IsPrefix(l.chronologies, l.attempted)
  BY <1>1, <1>2, <1>3, AlongPrefix
<1> QED
  BY <1>4, <1>5, <1>6, <1>7 DEF AllPrefixes

\* The stop reason fits the member and the progress it is recorded with.
LEMMA ReasonAccepted ==
  ASSUME NEW S \in SUBSET Devices, NEW deployable, NEW o \in Seq(S), NEW l \in Locals(S),
         NEW w, NEW e, NEW st, Ordered(o, deployable), Exposure(o, l, w, e, st),
         ParentReady(o, l, w, e, st)
  PROVE  ReasonValid(o, l, Len(l.successful) = Len(o))
<1> DEFINE n == Len(l.attempted)
           all == Len(l.successful) = Len(o)
<1>1. /\ l.attempted \in Seq(S) /\ l.successful \in Seq(S) /\ n \in Nat
      /\ Along(l.attempted, o) /\ Along(l.successful, o)
  BY DEF Locals, Exposure
<1>2. CASE Complete(o, l, e, st)
  <2>1. all /\ l.member = NoDevice /\ n > 0 /\ l.reason # "PREFLIGHT"
        /\ l.reason \in {"none", "FINAL_VALIDATION", "CHILD_EVIDENCE"}
        /\ (l.reason = "CHILD_EVIDENCE" => l.evidenceFailed)
    BY <1>2 DEF Complete, Settled, ParentReady
  <2> QED
    BY <2>1 DEF ReasonValid
<1>3. CASE StoppedBefore(o, l, e, st)
  <2>1. l.successful = l.attempted
    BY <1>1, <1>3, AlongEqual DEF StoppedBefore, Settled
  <2> QED
    BY <1>3, <2>1 DEF StoppedBefore, ReasonValid
<1>4. CASE StoppedAt(o, l, w, e, st)
  <2>1. /\ n > 0 /\ l.member = o[n] /\ l.reason # "none"
        /\ l.attempted[n] = o[n]
    BY <1>1, <1>4 DEF StoppedAt, Judged, Along
  <2>2. CASE e[o[n]] = "SUCCEEDED"
    <3>1. l.reason = "CHILD_EVIDENCE" /\ l.evidenceFailed
      BY <1>4, <2>1, <2>2 DEF StoppedAt, Judged
    <3> QED
      BY <2>1, <3>1 DEF ReasonValid
  <2>3. CASE e[o[n]] # "SUCCEEDED"
    <3>1. /\ Len(l.successful) = n - 1
          /\ l.outcome = IF e[o[n]] = "escaped" THEN "none" ELSE e[o[n]]
          /\ l.reason = IF e[o[n]] = "escaped" THEN "CHILD_EXECUTION_UNCERTAIN"
                        ELSE IF l.evidenceFailed THEN "CHILD_EVIDENCE"
                        ELSE "CHILD_NON_SUCCESS"
          /\ e[o[n]] \in Ended
      BY <1>4, <2>3 DEF StoppedAt, Judged
    <3>2. l.successful = SubSeq(l.attempted, 1, n - 1)
      <4>1. l.successful = SubSeq(l.attempted, 1, Len(l.successful))
        <5>1. Len(l.successful) <= Len(l.attempted)
          BY <1>1, <3>1
        <5> QED
          BY ONLY <1>1, <5>1, AlongPrefix
      <4> QED
        BY <3>1, <4>1
    <3>3. e[o[n]] # "none"
      BY <3>1, RolloutAssumption DEF Ended, NoWriteOutcomes, FailedWriteOutcomes
    <3>4. CASE e[o[n]] = "escaped"
      BY <2>1, <3>1, <3>2, <3>4 DEF ReasonValid
    <3>5. CASE e[o[n]] # "escaped" /\ l.evidenceFailed
      BY <2>1, <3>1, <3>5 DEF ReasonValid
    <3>6. CASE e[o[n]] # "escaped" /\ ~l.evidenceFailed
      BY <2>1, <2>3, <3>1, <3>2, <3>3, <3>6 DEF ReasonValid
    <3> QED
      BY <3>4, <3>5, <3>6
  <2> QED
    BY <2>2, <2>3
<1> QED
  BY <1>2, <1>3, <1>4 DEF ParentReady

\* The outcome fits the progress and the stop reason.
LEMMA OutcomeAccepted ==
  ASSUME NEW S \in SUBSET Devices, NEW deployable, NEW o \in Seq(S), NEW l \in Locals(S),
         NEW w, NEW e, NEW st, Ordered(o, deployable), Exposure(o, l, w, e, st),
         ParentReady(o, l, w, e, st)
  PROVE  OutcomeValid(OutcomeOf(o, l), l, Len(l.successful) = Len(o))
<1> DEFINE n == Len(l.attempted)
           all == Len(l.successful) = Len(o)
<1>1. Len(o) > 0
  BY DEF ParentReady
<1>2. l.successful \in Seq(S)
  BY DEF Locals
<1>3. all => l.successful # <<>>
  BY <1>1
<1>4. CASE Complete(o, l, e, st)
  <2>1. all
    BY <1>4 DEF Complete, Settled
  <2>2. CASE l.reason = "none"
    BY <1>4, <2>1, <2>2 DEF Complete, OutcomeOf, OutcomeValid
  <2>3. CASE l.reason = "FINAL_VALIDATION"
    BY <1>4, <2>1, <2>3 DEF Complete, OutcomeOf, OutcomeValid
  <2>4. CASE l.reason = "CHILD_EVIDENCE" /\ l.evidenceFailed
    BY <2>1, <2>4 DEF OutcomeOf, OutcomeValid
  <2> QED
    BY <1>4, <2>2, <2>3, <2>4 DEF Complete
<1>5. CASE StoppedBefore(o, l, e, st)
  <2>1. ~all /\ ~l.evidenceFailed /\ l.reason \in {"PREFLIGHT", "PRE_CHRONOLOGY"}
    BY <1>1, <1>5 DEF StoppedBefore, Settled
  <2> QED
    BY <2>1 DEF OutcomeOf, OutcomeValid
<1>6. CASE StoppedAt(o, l, w, e, st)
  <2>1. l.reason \in {"CHILD_EVIDENCE", "CHILD_EXECUTION_UNCERTAIN", "CHILD_NON_SUCCESS"}
    BY <1>6 DEF StoppedAt, Judged
  <2>2. all => l.evidenceFailed /\ l.reason = "CHILD_EVIDENCE"
    <3>1. n \in Nat /\ n <= Len(o) /\ Len(o) \in Nat
      BY Lengths
    <3> QED
      BY <1>6, <3>1 DEF StoppedAt, Judged
  <2> QED
    BY <2>1, <2>2 DEF OutcomeOf, OutcomeValid
<1> QED
  BY <1>4, <1>5, <1>6 DEF ParentReady

\* What is ready to close passes the validator of the parent record.
LEMMA RecordCorrelated ==
  ASSUME NEW S \in SUBSET Devices, NEW deployable, NEW o \in Seq(S), NEW l \in Locals(S),
         NEW w, NEW e, NEW st, Ordered(o, deployable), Exposure(o, l, w, e, st),
         ParentReady(o, l, w, e, st)
  PROVE  Correlated(o, l, OutcomeOf(o, l))
<1> DEFINE n == Len(l.attempted)
           all == Len(l.successful) = Len(o)
           incompleteLast ==
             /\ l.evidenceFailed /\ n > 0
             /\ l.reason \in {"CHILD_EVIDENCE", "CHILD_EXECUTION_UNCERTAIN"}
             /\ l.member = l.attempted[n]
<1>1. AllPrefixes(o, l)
  BY PrefixesHold
<1>2. /\ n \in Nat /\ Len(l.chronologies) \in Nat
      /\ Len(l.chronologies) <= Len(l.audits)
  BY Lengths
<1>3. n > 0 => l.preflight
  BY DEF ParentReady, Complete, StoppedBefore, StoppedAt, Judged
<1>4. n - (IF incompleteLast THEN 1 ELSE 0) <= Len(l.chronologies)
  <2>1. CASE Complete(o, l, e, st) \/ StoppedBefore(o, l, e, st)
    <3>1. Len(l.chronologies) = n
      BY <2>1 DEF Complete, StoppedBefore, Settled
    <3> DEFINE k == IF incompleteLast THEN 1 ELSE 0
    <3>2. k \in 0..1
      OBVIOUS
    <3> HIDE DEF k
    <3>3. n - k <= Len(l.chronologies)
      BY <1>2, <3>1, <3>2
    <3> QED
      BY <3>3 DEF k
  <2>2. CASE StoppedAt(o, l, w, e, st)
    <3>1. CASE ~l.evidenceFailed
      BY <1>2, <2>2, <3>1 DEF StoppedAt
    <3>2. CASE l.evidenceFailed
      <4>1. n > 0 /\ l.member = o[n]
            /\ l.reason \in {"CHILD_EVIDENCE", "CHILD_EXECUTION_UNCERTAIN"}
            /\ Len(l.chronologies) >= n - 1
        BY <1>2, <2>2, <3>2 DEF StoppedAt, Judged
      <4>2. l.attempted[n] = o[n]
        BY <1>2, <4>1 DEF Exposure, Along
      <4> QED
        BY <1>2, <3>2, <4>1, <4>2
    <3> QED
      BY <3>1, <3>2
  <2> QED
    BY <2>1, <2>2 DEF ParentReady
<1>5. l.evidenceFailed => l.reason \in {"CHILD_EVIDENCE", "CHILD_EXECUTION_UNCERTAIN"}
  BY DEF ParentReady, Complete, StoppedBefore, StoppedAt, Judged
<1>6. ReasonValid(o, l, all) /\ OutcomeValid(OutcomeOf(o, l), l, all)
  BY ReasonAccepted, OutcomeAccepted
<1> QED
  BY <1>1, <1>2, <1>3, <1>4, <1>5, <1>6 DEF Correlated, AllPrefixes

\* What the store holds of every referenced member is what the record says.
LEMMA RecordReferences ==
  ASSUME NEW S \in SUBSET Devices, NEW deployable, NEW o \in Seq(S), NEW l \in Locals(S),
         NEW w, NEW e, NEW st, Ordered(o, deployable), Exposure(o, l, w, e, st),
         ParentReady(o, l, w, e, st),
         l.preflight => st.preflight
  PROVE  References(l, OutcomeOf(o, l), st)
<1> DEFINE n == Len(l.attempted)
<1>1. /\ n \in Nat /\ n <= Len(o) /\ Len(o) \in Nat
      /\ Len(l.successful) \in Nat /\ Len(l.audits) \in Nat
      /\ Len(l.chronologies) \in Nat
      /\ Len(l.successful) <= n /\ Len(l.audits) <= n
      /\ Len(l.chronologies) <= Len(l.audits)
      /\ Len(l.successful) >= n - 1
  BY Lengths
<1>2. /\ l.attempted \in Seq(S) /\ l.successful \in Seq(S)
      /\ l.audits \in Seq(S) /\ l.chronologies \in Seq(S)
      /\ Along(l.attempted, o) /\ Along(l.successful, o)
      /\ Along(l.audits, o) /\ Along(l.chronologies, o)
  BY DEF Locals, Exposure
<1>3. \A i \in 1..(n - 1) : Finished(e, st, o[i])
  BY DEF Exposure, FinishedUpTo
<1>4. ASSUME NEW i \in 1..n
      PROVE  o[i] \in Range(l.successful) <=> i <= Len(l.successful)
  <2>1. i \in 1..Len(o)
    BY <1>1
  <2>2. \A k \in 1..Len(l.successful) : o[k] = o[i] => k = i
    BY <1>1, <2>1 DEF Ordered
  <2>3. o[i] \in Range(l.successful) <=> \E k \in 1..Len(l.successful) : o[i] = o[k]
    BY <1>2, AlongRange
  <2> QED
    BY <1>1, <2>2, <2>3
<1>5. \A i \in 1..n : l.member = o[i] /\ n > 0 /\ StoppedAt(o, l, w, e, st) => i = n
  <2> SUFFICES ASSUME NEW i \in 1..n, l.member = o[i], StoppedAt(o, l, w, e, st)
               PROVE  i = n
    OBVIOUS
  <2>1. l.member = o[n] /\ n > 0
    BY DEF StoppedAt, Judged
  <2>2. i \in 1..Len(o) /\ n \in 1..Len(o)
    BY <1>1, <2>1
  <2> QED
    BY <2>1, <2>2 DEF Ordered
<1>6. ASSUME NEW i \in 1..Len(l.audits)
      PROVE  LET d == o[i] IN
             /\ d \in Range(l.successful) <=> st.audit[d] = "SUCCEEDED"
             /\ d = l.member /\ l.reason = "CHILD_EXECUTION_UNCERTAIN" =>
                    st.audit[d] = "unknown"
             /\ d = l.member /\ l.outcome # "none" => st.audit[d] = l.outcome
  <2>1. i \in 1..n
    BY <1>1
  <2>2. CASE Complete(o, l, e, st) \/ StoppedBefore(o, l, e, st)
    <3>1. /\ Finished(e, st, o[i]) /\ l.outcome = "none" /\ i <= Len(l.successful)
          /\ l.reason # "CHILD_EXECUTION_UNCERTAIN"
      BY <1>1, <2>1, <2>2 DEF Complete, StoppedBefore, Settled, FinishedUpTo
    <3> QED
      BY <1>4, <2>1, <3>1 DEF Finished
  <2>3. CASE StoppedAt(o, l, w, e, st) /\ i # n
    <3>1. i \in 1..(n - 1) /\ i <= Len(l.successful)
      BY <1>1, <2>1, <2>3
    <3>2. o[i] # l.member
      BY <1>1, <1>5, <2>1, <2>3
    <3> QED
      BY <1>3, <1>4, <2>1, <3>1, <3>2 DEF Finished
  <2>4. CASE StoppedAt(o, l, w, e, st) /\ i = n
    <3>1. Len(l.audits) = n
      BY <1>1, <2>4
    <3>2. st.audit[o[n]] = IF e[o[n]] = "escaped" THEN "unknown" ELSE e[o[n]]
      BY <2>4, <3>1 DEF StoppedAt
    <3>3. /\ Len(l.successful) = IF e[o[n]] = "SUCCEEDED" THEN n ELSE n - 1
          /\ l.outcome = IF e[o[n]] \in {"SUCCEEDED", "escaped"} THEN "none" ELSE e[o[n]]
          /\ l.reason = "CHILD_EXECUTION_UNCERTAIN" => e[o[n]] = "escaped"
      BY <2>4 DEF StoppedAt, Judged
    <3>4. o[n] \in Range(l.successful) <=> e[o[n]] = "SUCCEEDED"
      BY <1>1, <1>4, <2>1, <2>4, <3>3
    <3> QED
      BY <2>4, <3>2, <3>3, <3>4
  <2> QED
    BY <2>2, <2>3, <2>4 DEF ParentReady
<1>7. ASSUME NEW i \in 1..Len(l.chronologies)
      PROVE  st.chronology[o[i]] = "SUCCESS"
             \/ (l.evidenceFailed /\ o[i] = l.member /\ OutcomeOf(o, l) # "SUCCEEDED")
  <2>1. i \in 1..n
    BY <1>1
  <2>2. CASE Complete(o, l, e, st) \/ StoppedBefore(o, l, e, st)
    BY <1>1, <2>1, <2>2 DEF Complete, StoppedBefore, Settled, FinishedUpTo, Finished
  <2>3. CASE StoppedAt(o, l, w, e, st) /\ i # n
    BY <1>1, <1>3, <2>1, <2>3 DEF Finished
  <2>4. CASE StoppedAt(o, l, w, e, st) /\ i = n
    <3>1. l.member = o[n] /\ l.reason # "none"
      BY <2>4 DEF StoppedAt, Judged
    <3>2. ~l.evidenceFailed => st.chronology[o[n]] = "SUCCESS"
      BY <2>4 DEF StoppedAt
    <3> QED
      BY <2>4, <3>1, <3>2 DEF OutcomeOf
  <2> QED
    BY <2>2, <2>3, <2>4 DEF ParentReady
<1>8. \A d \in Range(l.audits) : \E i \in 1..Len(l.audits) : d = o[i]
  BY <1>2, AlongRange
<1>9. \A d \in Range(l.chronologies) : \E i \in 1..Len(l.chronologies) : d = o[i]
  BY <1>2, AlongRange
<1> QED
  BY <1>6, <1>7, <1>8, <1>9 DEF References

\* What is ready to close is accepted.
LEMMA RecordAccepted ==
  ASSUME NEW S \in SUBSET Devices, NEW deployable, NEW o \in Seq(S), NEW l \in Locals(S),
         NEW w, NEW e, NEW st, Ordered(o, deployable), Exposure(o, l, w, e, st),
         ParentReady(o, l, w, e, st),
         l.preflight => st.preflight
  PROVE  Correlated(o, l, OutcomeOf(o, l)) /\ References(l, OutcomeOf(o, l), st)
  BY RecordCorrelated, RecordReferences
-----------------------------------------------------------------------------
(***************************************************************************)
(* From one job's values to the state of the system.                      *)
(***************************************************************************)

Shape ==
    /\ DOMAIN pc = Jobs /\ DOMAIN previous = Jobs /\ DOMAIN cohorts = Jobs
    /\ DOMAIN locals = Jobs /\ DOMAIN wrote = Jobs /\ DOMAIN ended = Jobs
    /\ DOMAIN store = Jobs /\ DOMAIN result = Jobs

RecordInv == Shape /\ \A j \in Jobs : JobInv(j)

\* A step of one job leaves the accounts of the others alone.
OthersKept(j) ==
    \A k \in Jobs \ {j} :
        /\ pc'[k] = pc[k] /\ previous'[k] = previous[k] /\ cohorts'[k] = cohorts[k]
        /\ locals'[k] = locals[k] /\ wrote'[k] = wrote[k] /\ ended'[k] = ended[k]
        /\ store'[k] = store[k] /\ result'[k] = result[k]

\* A step of one job keeps the accounts of the others.
LEMMA JobMoves ==
  ASSUME RecordInv, NEW j \in Jobs, Shape', OthersKept(j), JobInv(j)'
  PROVE  RecordInv'
<1> SUFFICES ASSUME NEW k \in Jobs, k # j PROVE JobInv(k)'
  BY DEF RecordInv
<1>1. /\ pc'[k] = pc[k] /\ previous'[k] = previous[k] /\ cohorts'[k] = cohorts[k]
      /\ locals'[k] = locals[k] /\ wrote'[k] = wrote[k] /\ ended'[k] = ended[k]
      /\ store'[k] = store[k] /\ result'[k] = result[k]
  BY DEF OthersKept
<1>2. Order(k)' = Order(k) /\ Deployable(k)' = Deployable(k)
  BY <1>1 DEF Order, Deployable
<1>3. JobInv(k)
  BY DEF RecordInv
<1> QED
  BY <1>1, <1>2, <1>3 DEF JobInv

\* The order and the deployable devices change only where the job plans.
LEMMA PlanKept ==
  ASSUME UNCHANGED jobVars, NEW j
  PROVE  Order(j)' = Order(j) /\ Deployable(j)' = Deployable(j)
  BY DEF jobVars, Order, Deployable

\* What the invariant gives of a job.
LEMMA JobGiven ==
  ASSUME RecordInv, NEW j \in Jobs
  PROVE  /\ JobState(j, Selected[j], Deployable(j), pc[j], Order(j),
                     locals[j], wrote[j], ended[j], store[j], result[j])
         /\ Selected[j] \in SUBSET Devices /\ Order(j) \in Seq(Selected[j])
         /\ locals[j] \in Locals(Selected[j]) /\ store[j] \in Stores
         /\ ended[j] \in [Devices -> {"open"} \cup Ended]
         /\ Exposure(Order(j), locals[j], wrote[j], ended[j], store[j])
<1>1. Selected[j] \in SUBSET Devices
  BY RolloutAssumption
<1> QED
  BY <1>1 DEF RecordInv, JobInv, JobState

\* A job that ends.
LEMMA FinishInv ==
  ASSUME RecordInv, NEW j \in Jobs, pc[j] # "done",
         UNCHANGED <<jobVars, locals, wrote, ended, store>>,
         NEW kind \in Kinds \ {"running", "record", "rejected"}, Finish(j, kind)
  PROVE  RecordInv'
<1>1. /\ pc' = [pc EXCEPT ![j] = "done"]
      /\ result' = [result EXCEPT ![j].kind = kind]
  BY DEF Finish, Goto
<1>2. Shape' /\ OthersKept(j)
  BY <1>1 DEF RecordInv, Shape, OthersKept, jobVars
<1>3. pc'[j] = "done" /\ result'[j] = [result[j] EXCEPT !.kind = kind]
  BY <1>1 DEF RecordInv, Shape
<1>4. JobState(j, Selected[j], Deployable(j), "done", Order(j),
               locals[j], wrote[j], ended[j], store[j], [result[j] EXCEPT !.kind = kind])
  BY JobGiven, ExitState
<1>5. JobInv(j)'
  BY <1>3, <1>4, PlanKept DEF JobInv
<1> QED
  BY <1>2, <1>5, JobMoves

\* A job that moves on with new locals and a new store.
LEMMA MoveInv ==
  ASSUME RecordInv, NEW j \in Jobs, NEW at,
         (UNCHANGED pc /\ at = pc[j]) \/ pc' = [pc EXCEPT ![j] = at],
         UNCHANGED <<jobVars, wrote, ended, result>>,
         NEW l, (UNCHANGED locals /\ l = locals[j]) \/ locals' = [locals EXCEPT ![j] = l],
         NEW st, (UNCHANGED store /\ st = store[j]) \/ store' = [store EXCEPT ![j] = st],
         JobState(j, Selected[j], Deployable(j), at, Order(j), l, wrote[j],
                  ended[j], st, result[j])
  PROVE  RecordInv'
<1>1. Shape' /\ OthersKept(j)
  BY DEF RecordInv, Shape, OthersKept, jobVars
<1>2. pc'[j] = at /\ locals'[j] = l /\ store'[j] = st
  BY DEF RecordInv, Shape
<1>3. JobInv(j)'
  BY <1>2, PlanKept DEF JobInv
<1> QED
  BY <1>1, <1>3, JobMoves

-----------------------------------------------------------------------------
\* Two increasing halves of a finite set make an order over all of it.
LEMMA CohortOrder ==
  ASSUME NEW S \in SUBSET Devices, NEW D \in SUBSET S, NEW C \in SUBSET D, C # {},
         NEW first \in InOrder(C), NEW rest \in InOrder(D \ C)
  PROVE  LET o == first \o rest IN
         o \in Seq(S) /\ Len(o) > 0 /\ Ordered(o, D)
<1> DEFINE o == first \o rest
           p == Cardinality(C)
           q == Cardinality(D \ C)
<1>1. p \in Nat /\ q \in Nat /\ p # 0
  <2>1. IsFiniteSet(Devices)
    BY RolloutAssumption
  <2>2. IsFiniteSet(C) /\ IsFiniteSet(D \ C)
    BY <2>1, FS_Subset
  <2> QED
    BY <2>2, FS_CardinalityType, FS_EmptySet
<1>2. /\ first \in [1..p -> C] /\ Range(first) = C
      /\ \A m, n \in DOMAIN first : m < n => first[m] < first[n]
      /\ rest \in [1..q -> D \ C] /\ Range(rest) = D \ C
      /\ \A m, n \in DOMAIN rest : m < n => rest[m] < rest[n]
  BY DEF InOrder
<1> HIDE DEF p, q
<1>3. first \in Seq(S) /\ rest \in Seq(S) /\ Len(first) = p /\ Len(rest) = q
  BY <1>1, <1>2
<1>4. /\ o \in Seq(S) /\ Len(o) = p + q
      /\ \A i \in 1..(p + q) : o[i] = IF i <= p THEN first[i] ELSE rest[i - p]
  BY <1>3, ConcatProperties
<1> HIDE DEF o
<1>5. ASSUME NEW i \in 1..Len(o), NEW k \in 1..Len(o), i < k
      PROVE  o[i] # o[k]
  <2>1. S \subseteq Nat
    BY RolloutAssumption
  <2>2. CASE k <= p
    <3>1. i \in DOMAIN first /\ k \in DOMAIN first /\ o[i] = first[i] /\ o[k] = first[k]
      BY <1>1, <1>2, <1>4, <1>5, <2>2
    <3>2. first[i] < first[k] /\ first[i] \in Nat /\ first[k] \in Nat
      BY <1>2, <1>5, <2>1, <3>1
    <3> QED
      BY <3>1, <3>2
  <2>3. CASE i <= p /\ k > p
    <3>1. o[i] = first[i] /\ i \in 1..p /\ o[k] = rest[k - p] /\ k - p \in 1..q
      BY <1>1, <1>4, <1>5, <2>3
    <3>2. first[i] \in C /\ rest[k - p] \in D \ C
      BY <1>2, <3>1
    <3> QED
      BY <3>1, <3>2
  <2>4. CASE i > p
    <3>1. /\ i - p \in DOMAIN rest /\ k - p \in DOMAIN rest /\ i - p < k - p
          /\ o[i] = rest[i - p] /\ o[k] = rest[k - p]
      BY <1>1, <1>2, <1>4, <1>5, <2>4
    <3>2. rest[i - p] < rest[k - p] /\ rest[i - p] \in Nat /\ rest[k - p] \in Nat
      BY <1>2, <2>1, <3>1
    <3> QED
      BY <3>1, <3>2
  <2> QED
    BY <1>1, <1>4, <2>2, <2>3, <2>4
<1>6. \A i, k \in 1..Len(o) : o[i] = o[k] => i = k
  BY <1>1, <1>4, <1>5
<1>7. ASSUME NEW d \in D PROVE \E i \in 1..Len(o) : o[i] = d
  <2>1. CASE d \in C
    <3>1. PICK i \in 1..p : first[i] = d
      BY <1>2, <2>1 DEF Range
    <3> QED
      BY <1>1, <1>4, <3>1
  <2>2. CASE d \notin C
    <3>1. PICK i \in 1..q : rest[i] = d
      BY <1>2, <2>2 DEF Range
    <3>2. i + p \in 1..(p + q) /\ i + p \in 1..Len(o) /\ ~(i + p <= p)
          /\ i + p - p = i
      BY <1>1, <1>4, <3>1
    <3> DEFINE k == i + p
    <3>3. k \in 1..(p + q) /\ ~(k <= p) /\ k - p = i
      BY <1>1, <3>2
    <3> HIDE DEF k
    <3>4. o[k] = rest[i]
      BY <1>4, <3>3
    <3> QED
      BY <3>1, <3>2, <3>4 DEF k
  <2> QED
    BY <2>1, <2>2
<1>8. Len(o) > 0
  BY <1>1, <1>4
<1> QED
  BY <1>4, <1>6, <1>7, <1>8 DEF o, Ordered
-----------------------------------------------------------------------------
\* The actions, one by one.
LEMMA PlanInv ==
  ASSUME RecordInv, NEW j \in Jobs, Plan(j)
  PROVE  RecordInv'
<1> DEFINE deployable == {d \in Selected[j] : running[d] # Desired[j]}
<1>1. /\ pc[j] = "plan" /\ previous' = [previous EXCEPT ![j] = running]
      /\ UNCHANGED <<running, edits, locals, childVars, store>>
  BY DEF Plan
<1>2. Deployable(j)' = deployable
  <2>1. previous'[j] = running
    BY <1>1 DEF RecordInv, Shape
  <2> QED
    BY <2>1 DEF Deployable
<1>3. JobState(j, Selected[j], Deployable(j), "plan", Order(j),
               locals[j], wrote[j], ended[j], store[j], result[j])
  BY <1>1, JobGiven
<1>4. CASE Finish(j, "compliant") /\ UNCHANGED cohorts
  <2>1. Shape' /\ OthersKept(j)
    BY <1>1, <1>4 DEF RecordInv, Shape, OthersKept, Finish, Goto, childVars
  <2>2. /\ pc'[j] = "done" /\ result'[j] = [result[j] EXCEPT !.kind = "compliant"]
        /\ UNCHANGED <<locals, wrote, ended, store>>
    BY <1>1, <1>4 DEF RecordInv, Shape, Finish, Goto, childVars
  <2>3. "compliant" \in Kinds \ {"running", "record"}
    BY DEF Kinds
  <2>4. JobState(j, Selected[j], Deployable(j)', "done", Order(j), locals[j], wrote[j],
                 ended[j], store[j], [result[j] EXCEPT !.kind = "compliant"])
    BY <1>3, <2>3, JobGiven, ExitState
  <2>5. Order(j)' = Order(j)
    BY <1>4 DEF Order
  <2>6. JobInv(j)'
    BY <2>2, <2>4, <2>5 DEF JobInv
  <2> QED
    BY <2>1, <2>6, JobMoves
<1>5. CASE \E canaries \in SUBSET deployable :
             /\ ValidCanaries(canaries, deployable)
             /\ \E first \in InOrder(canaries), rest \in InOrder(deployable \ canaries) :
                  cohorts' = [cohorts EXCEPT ![j] = [canaries |-> first, rest |-> rest]]
             /\ Goto(j, "authorize")
             /\ UNCHANGED <<held, result>>
  <2>1. PICK canaries \in SUBSET deployable :
             /\ ValidCanaries(canaries, deployable)
             /\ \E first \in InOrder(canaries), rest \in InOrder(deployable \ canaries) :
                  cohorts' = [cohorts EXCEPT ![j] = [canaries |-> first, rest |-> rest]]
             /\ Goto(j, "authorize")
             /\ UNCHANGED <<held, result>>
    BY <1>5
  <2>2. PICK first \in InOrder(canaries), rest \in InOrder(deployable \ canaries) :
           cohorts' = [cohorts EXCEPT ![j] = [canaries |-> first, rest |-> rest]]
    BY <2>1
  <2> DEFINE o == first \o rest
  <2>3. canaries # {} /\ deployable \in SUBSET Selected[j]
    BY <2>1 DEF ValidCanaries
  <2>4. o \in Seq(Selected[j]) /\ Len(o) > 0 /\ Ordered(o, deployable)
    BY <2>3, JobGiven, CohortOrder
  <2>5. Order(j)' = o
    BY <2>2 DEF RecordInv, Shape, Order
  <2>6. JobState(j, Selected[j], deployable, "authorize", o,
                 locals[j], wrote[j], ended[j], store[j], result[j])
    BY <1>3, <2>4, JobGiven, PlannedState
  <2>7. Shape' /\ OthersKept(j) /\ pc'[j] = "authorize"
        /\ UNCHANGED <<locals, wrote, ended, store, result>>
    BY <1>1, <2>1, <2>2 DEF RecordInv, Shape, OthersKept, Goto, childVars
  <2> HIDE DEF o, deployable
  <2>8. JobInv(j)'
    BY <1>2, <2>5, <2>6, <2>7 DEF JobInv
  <2> QED
    BY <2>7, <2>8, JobMoves
<1> QED
  BY <1>4, <1>5 DEF Plan

\* Approval, reservation and release touch nothing but the place.
LEMMA ReservationInv ==
  ASSUME RecordInv, NEW j \in Jobs, Authorize(j) \/ Reserve(j) \/ Release(j)
  PROVE  RecordInv'
<1>1. UNCHANGED <<jobVars, locals, wrote, ended, store>>
  BY DEF Authorize, Reserve, Release, childVars
<1>2. pc[j] \in {"authorize", "reserve", "release"}
  BY DEF Authorize, Reserve, Release
<1>3. CASE Finish(j, "raised") \/ Finish(j, "refused")
  <2>1. {"raised", "refused"} \subseteq Kinds \ {"running", "record", "rejected"}
    BY DEF Kinds
  <2>2. pc[j] # "done"
    BY <1>2
  <2> QED
    BY <1>1, <1>3, <2>1, <2>2, FinishInv
<1>4. CASE /\ pc[j] \in {"authorize", "reserve"} /\ UNCHANGED result
           /\ \E to \in {"reserve", "release", "preflight", "pre"} :
                /\ Goto(j, to)
                /\ IF j \in Rollouts THEN to # "pre" ELSE to # "preflight"
  <2>1. PICK to \in {"reserve", "release", "preflight", "pre"} :
                /\ Goto(j, to)
                /\ IF j \in Rollouts THEN to # "pre" ELSE to # "preflight"
    BY <1>4
  <2>2. JobState(j, Selected[j], Deployable(j), to, Order(j),
                 locals[j], wrote[j], ended[j], store[j], result[j])
    BY <1>4, <2>1, JobGiven, IdleState
  <2> QED
    BY <1>1, <1>4, <2>1, <2>2, MoveInv DEF Goto
<1>5. CASE Reserve(j)
  <2>1. /\ pc[j] = "reserve" /\ UNCHANGED result
        /\ \/ Goto(j, IF held'[j] # Selected[j] THEN "reserve"
                      ELSE IF j \in Rollouts THEN "preflight" ELSE "pre")
           \/ Goto(j, "release")
    BY <1>5 DEF Reserve
  <2> QED
    BY <1>4, <2>1
<1>6. CASE Authorize(j)
  BY <1>3, <1>4, <1>6 DEF Authorize
<1>7. CASE Release(j)
  BY <1>3, <1>7 DEF Release
<1> QED
  BY <1>5, <1>6, <1>7

\* A device that a pass has not read yet is one of the selection.
LEMMA UnreadSelected ==
  ASSUME RecordInv, NEW j \in Jobs, NEW d \in Unread(j)
  PROVE  locals[j].checked \cup {d} \in SUBSET Selected[j]
<1>1. locals[j].checked \in SUBSET Selected[j]
  BY JobGiven DEF Locals
<1> QED
  BY <1>1 DEF Unread

LEMMA PreflightInv ==
  ASSUME RecordInv, NEW j \in Jobs, Preflight(j)
  PROVE  RecordInv'
<1> DEFINE l == locals[j]
<1>1. /\ pc[j] = "preflight"
      /\ UNCHANGED <<jobVars, wrote, ended, result>>
  BY DEF Preflight, childVars
<1>2. JobState(j, Selected[j], Deployable(j), "preflight", Order(j),
               locals[j], wrote[j], ended[j], store[j], result[j])
  BY <1>1, JobGiven
<1>3. ASSUME NEW d \in Unread(j), UNCHANGED <<pc, store>>,
             locals' = [locals EXCEPT ![j].checked = @ \cup {d}]
      PROVE  RecordInv'
  <2> DEFINE c == l.checked \cup {d}
             m == [l EXCEPT !.checked = c]
  <2>1. c \in SUBSET Selected[j]
    BY <1>3, UnreadSelected
  <2>2. JobState(j, Selected[j], Deployable(j), "preflight", Order(j),
                 m, wrote[j], ended[j], store[j], result[j])
    BY <1>2, <2>1, JobGiven, CheckedState
  <2>3. locals' = [locals EXCEPT ![j] = m]
    BY <1>3
  <2> HIDE DEF m, c
  <2> QED
    BY <1>1, <1>3, <2>2, <2>3, MoveInv
<1>4. ASSUME NEW stored \in BOOLEAN,
             store' = [store EXCEPT ![j].preflight = stored],
             locals' = [locals EXCEPT ![j] =
                [(IF stored THEN @ ELSE Stop(@, "PREFLIGHT", NoDevice))
                    EXCEPT !.preflight = TRUE, !.checked = {}]],
             Goto(j, IF stored THEN "pre" ELSE "parent")
      PROVE  RecordInv'
  <2>1. CASE stored
    <3> DEFINE m == [l EXCEPT !.preflight = TRUE, !.checked = {}]
               s2 == [store[j] EXCEPT !.preflight = TRUE]
    <3>1. /\ locals' = [locals EXCEPT ![j] = m] /\ store' = [store EXCEPT ![j] = s2]
          /\ pc' = [pc EXCEPT ![j] = "pre"]
      BY <1>4, <2>1 DEF Goto
    <3>2. JobState(j, Selected[j], Deployable(j), "pre", Order(j),
                   m, wrote[j], ended[j], s2, result[j])
      BY <1>2, JobGiven, PreflightStoredState
    <3> HIDE DEF m, s2
    <3> QED
      BY <1>1, <3>1, <3>2, MoveInv
  <2>2. CASE ~stored
    <3> DEFINE m == [Stop(l, "PREFLIGHT", NoDevice) EXCEPT !.preflight = TRUE, !.checked = {}]
               s2 == [store[j] EXCEPT !.preflight = FALSE]
    <3>1. /\ locals' = [locals EXCEPT ![j] = m] /\ store' = [store EXCEPT ![j] = s2]
          /\ pc' = [pc EXCEPT ![j] = "parent"]
      BY <1>4, <2>2 DEF Goto
    <3>2. /\ m \in Locals(Selected[j]) /\ m.reason = "PREFLIGHT" /\ m.member = NoDevice
          /\ m.attempted = l.attempted /\ m.successful = l.successful
          /\ m.audits = l.audits /\ m.chronologies = l.chronologies
          /\ m.outcome = l.outcome /\ m.evidenceFailed = l.evidenceFailed
          /\ m.post = l.post /\ m.final = l.final
      BY JobGiven DEF Locals, Stop, Reasons
    <3>3. s2 \in Stores /\ s2.audit = store[j].audit /\ s2.chronology = store[j].chronology
      BY JobGiven DEF Stores
    <3> HIDE DEF m, s2
    <3>4. JobState(j, Selected[j], Deployable(j), "parent", Order(j),
                   m, wrote[j], ended[j], s2, result[j])
      BY <1>2, <3>2, <3>3, JobGiven, PreflightFailedState
    <3> QED
      BY <1>1, <3>1, <3>4, MoveInv
  <2> QED
    BY <2>1, <2>2
<1>5. ASSUME locals' = [locals EXCEPT ![j] =
                [Stop(@, "PREFLIGHT", NoDevice) EXCEPT !.checked = {}]],
             Goto(j, "parent"), UNCHANGED store
      PROVE  RecordInv'
  <2> DEFINE m == [Stop(l, "PREFLIGHT", NoDevice) EXCEPT !.checked = {}]
  <2>1. locals' = [locals EXCEPT ![j] = m] /\ pc' = [pc EXCEPT ![j] = "parent"]
    BY <1>5 DEF Goto
  <2>2. /\ m \in Locals(Selected[j]) /\ m.reason = "PREFLIGHT" /\ m.member = NoDevice
        /\ m.attempted = l.attempted /\ m.successful = l.successful
        /\ m.audits = l.audits /\ m.chronologies = l.chronologies
        /\ m.outcome = l.outcome /\ m.evidenceFailed = l.evidenceFailed
        /\ m.post = l.post /\ m.final = l.final
    BY JobGiven DEF Locals, Stop, Reasons
  <2> HIDE DEF m
  <2>3. JobState(j, Selected[j], Deployable(j), "parent", Order(j),
                 m, wrote[j], ended[j], store[j], result[j])
    BY <1>2, <2>2, JobGiven, PreflightFailedState
  <2> QED
    BY <1>1, <1>5, <2>1, <2>3, MoveInv
<1> QED
  BY <1>3, <1>4, <1>5 DEF Preflight

LEMMA CapturePreInv ==
  ASSUME RecordInv, NEW j \in Jobs, CapturePre(j)
  PROVE  RecordInv'
<1> DEFINE l == locals[j]
<1>1. /\ pc[j] = "pre" /\ UNCHANGED <<jobVars, wrote, ended, store>>
  BY DEF CapturePre, childVars
<1>2. JobState(j, Selected[j], Deployable(j), "pre", Order(j),
               locals[j], wrote[j], ended[j], store[j], result[j])
  BY <1>1, JobGiven
<1>3. CASE /\ locals' = [locals EXCEPT ![j].attempted = Append(@, NextMember(j))]
           /\ Goto(j, "child") /\ UNCHANGED result
  <2> DEFINE m == [l EXCEPT !.attempted = Append(@, Order(j)[Len(l.attempted) + 1])]
  <2>1. locals' = [locals EXCEPT ![j] = m] /\ pc' = [pc EXCEPT ![j] = "child"]
    BY <1>3 DEF Goto, NextMember
  <2>2. JobState(j, Selected[j], Deployable(j), "child", Order(j),
                 m, wrote[j], ended[j], store[j], result[j])
    BY <1>2, JobGiven, AttemptState
  <2> HIDE DEF m
  <2> QED
    BY <1>1, <1>3, <2>1, <2>2, MoveInv
<1>4. CASE /\ j \in Rollouts
           /\ locals' = [locals EXCEPT ![j] = Stop(@, "PRE_CHRONOLOGY", NextMember(j))]
           /\ Goto(j, "parent") /\ UNCHANGED result
  <2> DEFINE m == Stop(l, "PRE_CHRONOLOGY", Order(j)[Len(l.attempted) + 1])
  <2>1. locals' = [locals EXCEPT ![j] = m] /\ pc' = [pc EXCEPT ![j] = "parent"]
    BY <1>4 DEF Goto, NextMember
  <2>2. JobState(j, Selected[j], Deployable(j), "parent", Order(j),
                 m, wrote[j], ended[j], store[j], result[j])
    BY <1>2, <1>4, JobGiven, NoPreState
  <2> HIDE DEF m
  <2> QED
    BY <1>1, <1>4, <2>1, <2>2, MoveInv
<1>5. CASE Finish(j, "raised") /\ UNCHANGED locals
  <2>1. "raised" \in Kinds \ {"running", "record", "rejected"} /\ pc[j] # "done"
    BY <1>1 DEF Kinds
  <2> QED
    BY <1>1, <1>5, <2>1, FinishInv
<1> QED
  BY <1>3, <1>4, <1>5 DEF CapturePre

\* Whoever is in a child call is at the last attempted member.
LEMMA AtMember ==
  ASSUME RecordInv, NEW j \in Jobs,
         pc[j] \in {"child", "write", "written", "post", "persist", "publish"}
  PROVE  /\ Current(j) = Order(j)[Len(locals[j].attempted)]
         /\ Current(j) \in Devices /\ Current(j) \in Selected[j]
<1> DEFINE l == locals[j]
<1>1. JobState(j, Selected[j], Deployable(j), pc[j], Order(j),
               l, wrote[j], ended[j], store[j], result[j])
  BY JobGiven
<1>2. Behind(l)
  BY <1>1 DEF JobState, Standing
<1>3. Len(l.attempted) > 0
  BY <1>2 DEF Behind
<1>4. Ordered(Order(j), Deployable(j)) /\ Along(l.attempted, Order(j))
  BY <1>1 DEF JobState, Exposure
<1>5. /\ Selected[j] \in SUBSET Devices /\ Order(j) \in Seq(Selected[j])
      /\ l \in Locals(Selected[j])
  BY JobGiven
<1>6. /\ Last(l.attempted) = Order(j)[Len(l.attempted)]
      /\ Order(j)[Len(l.attempted)] \in Selected[j]
  BY <1>3, <1>4, <1>5, CurrentMember
<1> QED
  BY <1>5, <1>6 DEF Current

\* A child whose call is open has not been accounted for; it was sent or not.
LEMMA OpenChild ==
  ASSUME RecordInv, NEW j \in Jobs, pc[j] \in {"child", "write", "written"}
  PROVE  /\ Current(j) \in Devices /\ ended[j][Current(j)] = "open"
         /\ Current(j) \in wrote[j] <=> pc[j] = "written"
<1>1. Standing(j, pc[j], Order(j), locals[j], wrote[j], ended[j], store[j])
  BY JobGiven DEF JobState
<1>2. Current(j) = Order(j)[Len(locals[j].attempted)] /\ Current(j) \in Devices
  BY AtMember
<1> QED
  BY <1>1, <1>2 DEF Standing

\* A child that ends.
LEMMA EndChildInv ==
  ASSUME RecordInv, NEW j \in Jobs, pc[j] \in {"child", "write", "written"},
         NEW x \in Ended, x \in NoWriteOutcomes => pc[j] = "child",
         EndChild(j, x), UNCHANGED <<jobVars, wrote, store, result>>
  PROVE  RecordInv'
<1> DEFINE l == locals[j]
           o == Order(j)
           m == Classified(l, x)
           f == [ended[j] EXCEPT ![o[Len(l.attempted)]] = x]
<1>1. Current(j) = o[Len(l.attempted)]
  BY AtMember
<1>2. /\ ended' = [ended EXCEPT ![j] = f] /\ locals' = [locals EXCEPT ![j] = m]
      /\ pc' = [pc EXCEPT ![j] = "post"]
  BY <1>1 DEF EndChild, Goto
<1>3. JobState(j, Selected[j], Deployable(j), "post", o,
               m, wrote[j], f, store[j], result[j])
  BY JobGiven, EndState
<1> HIDE DEF m, f
<1>4. Shape' /\ OthersKept(j)
  BY <1>2 DEF RecordInv, Shape, OthersKept, jobVars
<1>5. pc'[j] = "post" /\ locals'[j] = m /\ ended'[j] = f
  BY <1>2 DEF RecordInv, Shape
<1>6. JobInv(j)'
  BY <1>3, <1>5, PlanKept DEF JobInv
<1> QED
  BY <1>4, <1>6, JobMoves

LEMMA ChildInv ==
  ASSUME RecordInv, NEW j \in Jobs, Child(j)
  PROVE  RecordInv'
<1>1. {"escaped", "SUCCEEDED", "RECOVERED", "STALE_PLAN", "BLOCKED"} \cup StopOutcomes
        \subseteq Ended
  BY DEF Ended, NoWriteOutcomes
<1>2. \A x \in {"escaped", "SUCCEEDED", "RECOVERED"} \cup StopOutcomes :
          x \notin NoWriteOutcomes
  BY RolloutAssumption DEF NoWriteOutcomes, FailedWriteOutcomes
<1>3. CASE ChildRead(j)
  <2>1. pc[j] = "child" /\ UNCHANGED <<jobVars, wrote, store, result>>
    BY <1>3 DEF ChildRead
  <2>2. CASE EndChild(j, "STALE_PLAN") \/ EndChild(j, "BLOCKED")
    <3>1. "STALE_PLAN" \in Ended /\ "BLOCKED" \in Ended
      BY <1>1
    <3> QED
      BY <2>1, <2>2, <3>1, EndChildInv
  <2>3. CASE Goto(j, "write") /\ UNCHANGED <<ended, locals>>
    <3>1. JobState(j, Selected[j], Deployable(j), "write", Order(j),
                   locals[j], wrote[j], ended[j], store[j], result[j])
      BY <2>1, JobGiven, ReadState
    <3> QED
      BY <2>1, <2>3, <3>1, MoveInv DEF Goto
  <2> QED
    BY <1>3, <2>2, <2>3 DEF ChildRead
<1>4. CASE ChildWrite(j)
  <2> DEFINE c == Order(j)[Len(locals[j].attempted)]
  <2>1. /\ pc[j] = "write" /\ Goto(j, "written")
        /\ wrote' = [wrote EXCEPT ![j] = @ \cup {Current(j)}]
        /\ UNCHANGED <<jobVars, locals, ended, store, result>>
    BY <1>4 DEF ChildWrite
  <2>2. Current(j) = c
    BY <2>1, AtMember
  <2>3. JobState(j, Selected[j], Deployable(j), "written", Order(j),
                 locals[j], wrote[j] \cup {c}, ended[j], store[j], result[j])
    BY <2>1, JobGiven, WriteState
  <2> HIDE DEF c
  <2>4. Shape' /\ OthersKept(j)
    BY <2>1 DEF RecordInv, Shape, OthersKept, jobVars, Goto
  <2>5. pc'[j] = "written" /\ wrote'[j] = wrote[j] \cup {c}
    BY <2>1, <2>2 DEF RecordInv, Shape, Goto
  <2>6. JobInv(j)'
    BY <2>1, <2>3, <2>5, PlanKept DEF JobInv
  <2> QED
    BY <2>4, <2>6, JobMoves
<1>5. CASE ChildClose(j)
  <2>1. pc[j] = "written" /\ UNCHANGED <<jobVars, wrote, store, result>>
    BY <1>5 DEF ChildClose
  <2>2. PICK x \in {"SUCCEEDED", "RECOVERED"} \cup StopOutcomes : EndChild(j, x)
    BY <1>5 DEF ChildClose
  <2>3. x \in Ended /\ x \notin NoWriteOutcomes
    BY <1>1, <1>2, <2>2
  <2> QED
    BY <2>1, <2>2, <2>3, EndChildInv
<1>6. CASE ChildEscape(j)
  <2>1. pc[j] \in {"child", "write", "written"} /\ EndChild(j, "escaped")
        /\ UNCHANGED <<jobVars, wrote, store, result>>
    BY <1>6 DEF ChildEscape
  <2>2. "escaped" \in Ended /\ "escaped" \notin NoWriteOutcomes
    BY <1>1, <1>2
  <2> QED
    BY <2>1, <2>2, EndChildInv
<1> QED
  BY <1>3, <1>4, <1>5, <1>6 DEF Child

LEMMA CapturePostInv ==
  ASSUME RecordInv, NEW j \in Jobs, CapturePost(j)
  PROVE  RecordInv'
<1> DEFINE at == IF j \in Rollouts THEN "persist" ELSE "publish"
<1>1. /\ pc[j] = "post" /\ Goto(j, at)
      /\ UNCHANGED <<jobVars, wrote, ended, store, result>>
  BY DEF CapturePost, childVars
<1>2. PICK post \in {"none", "SUCCESS", "FAILURE"}, saved \in BOOLEAN :
        locals' = [locals EXCEPT ![j] =
            IF post = "SUCCESS" /\ saved THEN [locals[j] EXCEPT !.post = post]
            ELSE EvidenceFailed([locals[j] EXCEPT !.post = post])]
  BY DEF CapturePost
<1> DEFINE m == IF post = "SUCCESS" /\ saved THEN [locals[j] EXCEPT !.post = post]
                ELSE EvidenceFailed([locals[j] EXCEPT !.post = post])
<1>3. JobState(j, Selected[j], Deployable(j), at, Order(j),
               m, wrote[j], ended[j], store[j], result[j])
  BY <1>1, JobGiven, PostState
<1>4. locals' = [locals EXCEPT ![j] = m]
  BY <1>2
<1> HIDE DEF m, at
<1> QED
  BY <1>1, <1>3, <1>4, MoveInv DEF Goto

LEMMA StoredIs ==
  ASSUME NEW j \in Jobs, DOMAIN store = Jobs, NEW upTo, Stored(j, upTo)
  PROVE  store' = [store EXCEPT ![j] = StoredAs(store[j], Current(j), Audited(j),
                                                locals[j].post, upTo)]
  BY DEF Stored, StoredAs

LEMMA PersistInv ==
  ASSUME RecordInv, NEW j \in Jobs, Persist(j)
  PROVE  RecordInv'
<1> DEFINE l == locals[j]
           o == Order(j)
           whole == IF l.post = "none" THEN 1 ELSE 2
           audited == IF ended[j][o[Len(l.attempted)]] = "escaped" THEN "unknown"
                      ELSE ended[j][o[Len(l.attempted)]]
<1>1. /\ pc[j] = "persist" /\ UNCHANGED <<jobVars, wrote, ended, result>>
  BY DEF Persist, childVars
<1>2. PICK upTo \in 0..whole :
        LET after == [(IF upTo = whole THEN Referenced(l, upTo)
                       ELSE EvidenceFailed(Referenced(l, upTo))) EXCEPT !.post = "none"]
        IN  /\ Stored(j, upTo)
            /\ locals' = [locals EXCEPT ![j] = after]
            /\ Goto(j, IF after.reason # "none" THEN "parent"
                       ELSE IF Len(after.attempted) < Len(o) THEN "pre"
                       ELSE "final")
  BY DEF Persist
<1> DEFINE m == [(IF upTo = whole THEN Referenced(l, upTo)
                  ELSE EvidenceFailed(Referenced(l, upTo))) EXCEPT !.post = "none"]
           to == IF m.reason # "none" THEN "parent"
                 ELSE IF Len(m.attempted) < Len(o) THEN "pre" ELSE "final"
           s2 == StoredAs(store[j], o[Len(l.attempted)], audited, l.post, upTo)
<1>3. Stored(j, upTo) /\ locals' = [locals EXCEPT ![j] = m] /\ Goto(j, to)
  BY <1>2
<1>4. Current(j) = o[Len(l.attempted)] /\ Audited(j) = audited
  BY <1>1, AtMember DEF Audited
<1>5. store' = [store EXCEPT ![j] = s2]
  BY <1>3, <1>4, StoredIs DEF RecordInv, Shape
<1>6. JobState(j, Selected[j], Deployable(j), "persist", o,
               l, wrote[j], ended[j], store[j], result[j])
  BY <1>1, JobGiven
<1>7. JobState(j, Selected[j], Deployable(j), to, o, m, wrote[j], ended[j], s2, result[j])
  <2>1. /\ upTo \in 0..(IF l.post = "none" THEN 1 ELSE 2)
        /\ audited = (IF ended[j][o[Len(l.attempted)]] = "escaped" THEN "unknown"
                      ELSE ended[j][o[Len(l.attempted)]])
        /\ s2 = StoredAs(store[j], o[Len(l.attempted)], audited, l.post, upTo)
    OBVIOUS
  <2>2. m = [(IF upTo = (IF l.post = "none" THEN 1 ELSE 2) THEN Referenced(l, upTo)
              ELSE EvidenceFailed(Referenced(l, upTo))) EXCEPT !.post = "none"]
    OBVIOUS
  <2> HIDE DEF m, s2, audited
  <2>3. to = IF m.reason # "none" THEN "parent"
             ELSE IF Len(m.attempted) < Len(o) THEN "pre" ELSE "final"
    OBVIOUS
  <2>4. Selected[j] \in SUBSET Devices
    BY JobGiven
  <2> HIDE DEF to, whole
  <2> QED
    BY ONLY <1>6, <2>1, <2>2, <2>3, <2>4, PersistState
<1> HIDE DEF m, to, s2, audited, whole
<1> QED
  BY <1>1, <1>3, <1>5, <1>7, MoveInv DEF Goto

LEMMA PublishInv ==
  ASSUME RecordInv, NEW j \in Jobs, Publish(j)
  PROVE  RecordInv'
<1> DEFINE l == locals[j]
           o == Order(j)
           audited == IF ended[j][o[Len(l.attempted)]] = "escaped" THEN "unknown"
                      ELSE ended[j][o[Len(l.attempted)]]
<1>1. /\ pc[j] = "publish" /\ UNCHANGED <<jobVars, locals, wrote, ended>>
  BY DEF Publish, childVars
<1>2. PICK upTo \in 0..2 :
        Stored(j, upTo) /\ \E kind \in {"published", "unpublished"} : Finish(j, kind)
  BY DEF Publish
<1>3. PICK kind \in {"published", "unpublished"} : Finish(j, kind)
  BY <1>2
<1> DEFINE s2 == StoredAs(store[j], o[Len(l.attempted)], audited, l.post, upTo)
           q == [result[j] EXCEPT !.kind = kind]
<1>4. Current(j) = o[Len(l.attempted)] /\ Audited(j) = audited
  BY <1>1, AtMember DEF Audited
<1>5. store' = [store EXCEPT ![j] = s2]
  BY <1>2, <1>4, StoredIs DEF RecordInv, Shape
<1>6. JobState(j, Selected[j], Deployable(j), "publish", o,
               l, wrote[j], ended[j], store[j], result[j])
  BY <1>1, JobGiven
<1>7. JobState(j, Selected[j], Deployable(j), "done", o, l, wrote[j], ended[j], s2, q)
  BY <1>6, JobGiven, PublishState
<1>8. pc' = [pc EXCEPT ![j] = "done"] /\ result' = [result EXCEPT ![j] = q]
  BY <1>3 DEF Finish, Goto
<1> HIDE DEF s2, q, audited
<1>9. Shape' /\ OthersKept(j)
  BY <1>1, <1>5, <1>8 DEF RecordInv, Shape, OthersKept, jobVars
<1>10. pc'[j] = "done" /\ result'[j] = q /\ store'[j] = s2
  BY <1>5, <1>8 DEF RecordInv, Shape
<1>11. JobInv(j)'
  BY <1>1, <1>7, <1>10, PlanKept DEF JobInv
<1> QED
  BY <1>9, <1>11, JobMoves

LEMMA FinalInv ==
  ASSUME RecordInv, NEW j \in Jobs, FinalRead(j) \/ FinalStore(j)
  PROVE  RecordInv'
<1> DEFINE l == locals[j]
<1>1. UNCHANGED <<jobVars, wrote, ended, store, result>>
  BY DEF FinalRead, FinalStore, childVars
<1>2. CASE FinalRead(j)
  <2>1. /\ pc[j] = "final"
        /\ JobState(j, Selected[j], Deployable(j), "final", Order(j),
                    l, wrote[j], ended[j], store[j], result[j])
    BY <1>2, JobGiven DEF FinalRead
  <2>2. ASSUME NEW d \in Unread(j), UNCHANGED pc,
               locals' = [locals EXCEPT ![j].checked = @ \cup {d}]
        PROVE  RecordInv'
    <3> DEFINE c == l.checked \cup {d}
               m == [l EXCEPT !.checked = c]
    <3>1. c \in SUBSET Selected[j]
      BY <2>2, UnreadSelected
    <3>2. JobState(j, Selected[j], Deployable(j), "final", Order(j),
                   m, wrote[j], ended[j], store[j], result[j])
      BY <2>1, <3>1, JobGiven, CheckedState
    <3>3. locals' = [locals EXCEPT ![j] = m]
      BY <2>2
    <3> HIDE DEF m, c
    <3> QED
      BY <1>1, <2>1, <2>2, <3>2, <3>3, MoveInv
  <2>3. ASSUME NEW status \in {"PASSED", "FAILED"}, Goto(j, "finalstore"),
               locals' = [locals EXCEPT ![j].final = status, ![j].checked = {}]
        PROVE  RecordInv'
    <3> DEFINE m == [l EXCEPT !.final = status, !.checked = {}]
    <3>1. locals' = [locals EXCEPT ![j] = m]
      BY <2>3
    <3>2. JobState(j, Selected[j], Deployable(j), "finalstore", Order(j),
                   m, wrote[j], ended[j], store[j], result[j])
      BY <2>1, JobGiven, FinalState
    <3> HIDE DEF m
    <3> QED
      BY <1>1, <2>3, <3>1, <3>2, MoveInv DEF Goto
  <2> QED
    BY <1>2, <2>2, <2>3 DEF FinalRead
<1>3. CASE FinalStore(j)
  <2>1. /\ pc[j] = "finalstore" /\ Goto(j, "parent")
        /\ JobState(j, Selected[j], Deployable(j), "finalstore", Order(j),
                    l, wrote[j], ended[j], store[j], result[j])
    BY <1>3, JobGiven DEF FinalStore
  <2>2. PICK m :
          /\ \/ m = IF l.final = "FAILED" THEN Stop(l, "FINAL_VALIDATION", NoDevice) ELSE l
             \/ m = [Stop(l, "CHILD_EVIDENCE", NoDevice)
                       EXCEPT !.final = "none", !.evidenceFailed = TRUE]
          /\ locals' = [locals EXCEPT ![j] = m]
    BY <1>3 DEF FinalStore
  <2>3. JobState(j, Selected[j], Deployable(j), "parent", Order(j),
                 m, wrote[j], ended[j], store[j], result[j])
    BY <2>1, <2>2, JobGiven, FinalStoredState
  <2> QED
    BY <1>1, <2>1, <2>2, <2>3, MoveInv DEF Goto
<1> QED
  BY <1>2, <1>3

\* The parent record is accepted unless the preflight could not be stored.
LEMMA ParentInv ==
  ASSUME RecordInv, NEW j \in Jobs, Parent(j)
  PROVE  RecordInv'
<1> DEFINE l == locals[j]
           o == Order(j)
<1>1. pc[j] = "parent" /\ UNCHANGED <<jobVars, locals, wrote, ended, store>>
  BY DEF Parent, childVars
<1>2. JobState(j, Selected[j], Deployable(j), "parent", o,
               l, wrote[j], ended[j], store[j], result[j])
  BY <1>1, JobGiven
<1>3. /\ ParentReady(o, l, wrote[j], ended[j], store[j]) /\ Ordered(o, Deployable(j))
      /\ l.reason \in Reasons
  BY <1>2 DEF JobState, Standing, Locals
<1>4. RolloutOutcome(j) = OutcomeOf(o, l)
  BY <1>3, OutcomeIs
<1>5. (l.preflight => store[j].preflight) =>
         Correlated(o, l, OutcomeOf(o, l)) /\ References(l, OutcomeOf(o, l), store[j])
  BY <1>3, JobGiven, RecordAccepted
<1>6. CASE Finish(j, "raised")
  <2>1. "raised" \in Kinds \ {"running", "record", "rejected"} /\ pc[j] # "done"
    BY <1>1 DEF Kinds
  <2> QED
    BY <1>1, <1>6, <2>1, FinishInv
<1>7. CASE /\ Goto(j, "done")
           /\ result' = [result EXCEPT ![j] =
                [kind |-> "record", record |-> l, outcome |-> RolloutOutcome(j)]]
  <2> DEFINE q == [kind |-> "record", record |-> l, outcome |-> RolloutOutcome(j)]
  <2>1. /\ RolloutOutcome(j) \in {"SUCCEEDED", "FINAL_VALIDATION_FAILED",
                                 "EVIDENCE_FAILED", "PARTIAL", "STOPPED"}
        /\ RolloutOutcome(j) = "SUCCEEDED" => l.reason = "none"
    BY <1>4 DEF OutcomeOf
  <2>2. JobState(j, Selected[j], Deployable(j), "done", o,
                 l, wrote[j], ended[j], store[j], q)
    BY <1>2, <2>1, JobGiven, RecordState
  <2>3. pc' = [pc EXCEPT ![j] = "done"] /\ result' = [result EXCEPT ![j] = q]
    BY <1>7 DEF Goto
  <2> HIDE DEF q
  <2>4. Shape' /\ OthersKept(j)
    BY <1>1, <2>3 DEF RecordInv, Shape, OthersKept, jobVars
  <2>5. pc'[j] = "done" /\ result'[j] = q
    BY <2>3 DEF RecordInv, Shape
  <2>6. JobInv(j)'
    BY <1>1, <2>2, <2>5, PlanKept DEF JobInv
  <2> QED
    BY <2>4, <2>6, JobMoves
<1>8. CASE /\ Finish(j, "rejected") /\ l.preflight /\ ~store[j].preflight
  <2> DEFINE q == [result[j] EXCEPT !.kind = "rejected"]
  <2>1. "rejected" \in Kinds \ {"running", "record"}
    BY DEF Kinds
  <2>2. JobState(j, Selected[j], Deployable(j), "done", o,
                 l, wrote[j], ended[j], store[j], q)
    BY <1>2, <1>8, <2>1, JobGiven, ExitState
  <2>3. pc' = [pc EXCEPT ![j] = "done"] /\ result' = [result EXCEPT ![j] = q]
    BY <1>8 DEF Finish, Goto
  <2> HIDE DEF q
  <2>4. Shape' /\ OthersKept(j)
    BY <1>1, <2>3 DEF RecordInv, Shape, OthersKept, jobVars
  <2>5. pc'[j] = "done" /\ result'[j] = q
    BY <2>3 DEF RecordInv, Shape
  <2>6. JobInv(j)'
    BY <1>1, <2>2, <2>5, PlanKept DEF JobInv
  <2> QED
    BY <2>4, <2>6, JobMoves
<1>9. \/ Finish(j, "raised")
      \/ /\ Goto(j, "done")
         /\ result' = [result EXCEPT ![j] =
                [kind |-> "record", record |-> l, outcome |-> RolloutOutcome(j)]]
      \/ /\ Finish(j, "rejected")
         /\ ~(Correlated(o, l, RolloutOutcome(j))
                /\ References(l, RolloutOutcome(j), store[j]))
  BY DEF Parent
<1>10. CASE /\ Finish(j, "rejected")
            /\ ~(Correlated(o, l, RolloutOutcome(j))
                   /\ References(l, RolloutOutcome(j), store[j]))
  <2>1. ~(l.preflight => store[j].preflight)
    BY <1>4, <1>5, <1>10
  <2> QED
    BY <1>8, <1>10, <2>1
<1> QED
  BY <1>6, <1>7, <1>9, <1>10

\* A crash ends a child call without an outcome.
LEMMA CrashInv ==
  ASSUME RecordInv, NEW j \in Jobs, Crash(j)
  PROVE  RecordInv'
<1> DEFINE l == locals[j]
           o == Order(j)
           q == [result[j] EXCEPT !.kind = "crashed"]
<1>1. /\ pc[j] \notin {"plan", "done"} /\ Finish(j, "crashed")
      /\ UNCHANGED <<jobVars, locals, wrote, store>>
  BY DEF Crash
<1>2. "crashed" \in Kinds \ {"running", "record", "rejected"}
  BY DEF Kinds
<1>3. CASE UNCHANGED ended
  BY <1>1, <1>2, <1>3, FinishInv
<1>4. CASE /\ pc[j] \in {"child", "write", "written"}
           /\ ended' = [ended EXCEPT ![j][Current(j)] = "escaped"]
  <2> DEFINE f == [ended[j] EXCEPT ![Current(j)] = "escaped"]
  <2>2. JobState(j, Selected[j], Deployable(j), pc[j], o,
                 l, wrote[j], ended[j], store[j], result[j])
    BY JobGiven
  <2>3. f \in [Devices -> {"open"} \cup Ended]
    BY JobGiven DEF Ended
  <2>4. Behind(l) /\ Ordered(o, Deployable(j))
    BY <1>4, <2>2 DEF JobState, Standing
  <2>5. Len(l.attempted) > 0
    BY <2>4 DEF Behind
  <2>6. \A d \in Devices : d # Last(l.attempted) => f[d] = ended[j][d]
    BY JobGiven DEF Current
  <2> HIDE DEF f
  <2>8. Exposure(o, l, wrote[j], f, store[j])
    BY <2>4, <2>5, <2>6, JobGiven, LastExposure
  <2>9. JobState(j, Selected[j], Deployable(j), "done", o, l, wrote[j], f, store[j], q)
    BY <1>1, <1>2, <2>2, <2>3, <2>8, JobGiven, ExitState
  <2>10. /\ pc' = [pc EXCEPT ![j] = "done"] /\ result' = [result EXCEPT ![j] = q]
         /\ ended' = [ended EXCEPT ![j] = f]
    BY <1>1, <1>4 DEF Finish, Goto, f
  <2> HIDE DEF q
  <2>11. Shape' /\ OthersKept(j)
    BY <1>1, <2>10 DEF RecordInv, Shape, OthersKept, jobVars
  <2>12. pc'[j] = "done" /\ result'[j] = q /\ ended'[j] = f
    BY <2>10 DEF RecordInv, Shape
  <2>13. JobInv(j)'
    BY <1>1, <2>9, <2>12, PlanKept DEF JobInv
  <2> QED
    BY <2>11, <2>13, JobMoves
<1> QED
  BY <1>3, <1>4 DEF Crash
-----------------------------------------------------------------------------
\* Before any job has started there is nothing to account for.
LEMMA InitRecordInv == Init => RecordInv
<1> SUFFICES ASSUME Init PROVE RecordInv
  OBVIOUS
<1>1. Shape
  BY DEF Init, Shape
<1>2. ASSUME NEW j \in Jobs PROVE JobInv(j)
  <2>1. /\ locals[j] = NoLocals /\ wrote[j] = {} /\ store[j] = NoStore
        /\ ended[j] = [d \in Devices |-> "open"]
    BY DEF Init
  <2>2. Order(j) = <<>> /\ Order(j) \in Seq(Selected[j]) /\ Len(Order(j)) = 0
    <3>1. Order(j) = <<>> \o <<>>
      BY DEF Init, Order
    <3>2. <<>> \in Seq(Selected[j])
      OBVIOUS
    <3> QED
      BY <3>1, <3>2, ConcatEmptySeq
  <2>3. /\ \/ pc[j] = "plan" /\ result[j].kind = "running"
           \/ pc[j] = "done" /\ result[j].kind = "absent"
        /\ result[j] \in Results(Selected[j])
    <3>1. NoLocals \in Locals(Selected[j])
      BY DEF NoLocals, Locals, Reasons
    <3>2. NoResult \in Results(Selected[j])
      BY <3>1 DEF NoResult, Results, Kinds
    <3>3. PICK kind \in {"running", "absent"} : result[j] = [NoResult EXCEPT !.kind = kind]
                /\ pc[j] = IF kind = "running" THEN "plan" ELSE "done"
      BY DEF Init
    <3>4. result[j] \in Results(Selected[j]) /\ result[j].kind = kind
      BY <3>2, <3>3 DEF Results, Kinds
    <3>5. \/ pc[j] = "plan" /\ result[j].kind = "running"
          \/ pc[j] = "done" /\ result[j].kind = "absent"
      BY ONLY <3>3, <3>4
    <3> QED
      BY <3>4, <3>5
  <2>4. /\ locals[j] \in Locals(Selected[j]) /\ store[j] \in Stores
        /\ ended[j] \in [Devices -> {"open"} \cup Ended]
    BY <2>1 DEF NoLocals, Locals, Reasons, NoStore, Stores
  <2>5. NotStarted(locals[j], store[j]) /\ Fresh(locals[j])
    BY <2>1 DEF NotStarted, Fresh, NoLocals, NoStore
  <2>6. Exposure(Order(j), locals[j], wrote[j], ended[j], store[j])
    BY <2>1, <2>2 DEF Exposure, NoLocals, Along, FinishedUpTo
  <2>7. Standing(j, pc[j], Order(j), locals[j], wrote[j], ended[j], store[j])
    BY <2>3, <2>5 DEF Standing
  <2>8. Ending(pc[j], Order(j), locals[j], wrote[j], ended[j], store[j], result[j])
    BY <2>3 DEF Ending
  <2> QED
    BY <2>1, <2>2, <2>3, <2>4, <2>6, <2>7, <2>8 DEF JobInv, JobState
<1> QED
  BY <1>1, <1>2 DEF RecordInv

LEMMA JobRecordInv ==
  ASSUME RecordInv, NEW j \in Jobs, Job(j)
  PROVE  RecordInv'
  BY PlanInv, ReservationInv, PreflightInv, CapturePreInv, ChildInv, CapturePostInv,
     PersistInv, PublishInv, FinalInv, ParentInv DEF Job

LEMMA StutterRecordInv ==
  ASSUME RecordInv,
         UNCHANGED <<pc, jobVars, locals, wrote, ended, store, result>>
  PROVE  RecordInv'
<1>1. Shape'
  BY DEF RecordInv, Shape, jobVars
<1>2. ASSUME NEW j \in Jobs PROVE JobInv(j)'
  BY PlanKept DEF RecordInv, JobInv
<1> QED
  BY <1>1, <1>2 DEF RecordInv

-----------------------------------------------------------------------------
(***************************************************************************)
(* What child calls leave behind. A remnant that may still write belongs   *)
(* to a job that has crashed with the call open; one that has written      *)
(* belongs to a job that goes on to no other member.                       *)
(***************************************************************************)
Late == {"post", "persist", "publish", "parent", "done"}

RemnantOf(j) ==
    /\ remnant[j] \in {"none", "child", "write", "written", "gone"}
    /\ remnant[j] # "none" =>
           Ordered(Order(j), Deployable(j)) /\ Len(locals[j].attempted) > 0
    /\ remnant[j] \in {"child", "write"} =>
           /\ pc[j] = "done" /\ result[j].kind = "crashed"
           /\ ended[j][Current(j)] = "open" /\ Current(j) \notin wrote[j]
    /\ remnant[j] \in {"written", "gone"} =>
           /\ Current(j) \in wrote[j] /\ ended[j][Current(j)] # "SUCCEEDED"
           /\ pc[j] \in Late
           /\ ended[j][Current(j)] = "open" =>
                  pc[j] = "done" /\ result[j].kind = "crashed"

RemnantsInv == DOMAIN remnant = Jobs /\ \A j \in Jobs : RemnantOf(j)

RemnantsKept(j) ==
    DOMAIN remnant' = Jobs /\ \A k \in Jobs \ {j} : remnant'[k] = remnant[k]

\* Where a step of a job leaves something behind.
LEMMA JobLeaves ==
  ASSUME NEW j \in Jobs, Job(j) \/ Crash(j)
  PROVE  \/ UNCHANGED remnant
         \/ ChildClose(j) /\ Leaves(j, "written")
              /\ \E x \in StopOutcomes \ {"RECOVERED"} : EndChild(j, x)
         \/ ChildEscape(j) /\ pc[j] = "written" /\ Leaves(j, "written")
         \/ Crash(j) /\ Outlives(j) /\ Leaves(j, pc[j]) /\ UNCHANGED ended
<1>1. CASE Plan(j) \/ Authorize(j) \/ Reserve(j) \/ Release(j) \/ Preflight(j)
  BY <1>1 DEF Plan, Authorize, Reserve, Release, Preflight, childVars
<1>2. CASE CapturePre(j) \/ ChildRead(j) \/ ChildWrite(j) \/ CapturePost(j)
  BY <1>2 DEF CapturePre, ChildRead, ChildWrite, CapturePost, childVars
<1>3. CASE Persist(j) \/ Publish(j) \/ FinalRead(j) \/ FinalStore(j) \/ Parent(j)
  BY <1>3 DEF Persist, Publish, FinalRead, FinalStore, Parent, childVars
<1>4. CASE ChildClose(j)
  BY <1>4 DEF ChildClose
<1>5. CASE ChildEscape(j)
  BY <1>5 DEF ChildEscape
<1>6. CASE Crash(j)
  BY <1>6 DEF Crash
<1> QED
  BY <1>1, <1>2, <1>3, <1>4, <1>5, <1>6 DEF Job, Child

\* A job, or what its child has left behind, changes nothing of the others.
LEMMA JobKeepsOthers ==
  ASSUME RecordInv, RemnantsInv, NEW j \in Jobs, Job(j) \/ Crash(j) \/ Remnant(j)
  PROVE  OthersKept(j) /\ RemnantsKept(j) /\ edits' = edits
<1> USE DEF RecordInv, Shape, OthersKept, jobVars, childVars, Goto
<1>1. CASE Plan(j) \/ Authorize(j) \/ Reserve(j) \/ Release(j)
  BY <1>1 DEF Plan, Authorize, Reserve, Release, Finish, RemnantsInv, RemnantsKept
<1>2. CASE Preflight(j) \/ CapturePre(j)
  BY <1>2 DEF Preflight, CapturePre, Finish, RemnantsInv, RemnantsKept
<1>3. CASE Child(j)
  <2>1. RemnantsKept(j)
    BY <1>3, JobLeaves DEF Job, Leaves, RemnantsInv, RemnantsKept
  <2> QED
    BY <1>3, <2>1 DEF Child, ChildRead, ChildWrite, ChildClose, ChildEscape, EndChild
<1>4. CASE CapturePost(j) \/ Persist(j) \/ Publish(j)
  BY <1>4 DEF CapturePost, Persist, Publish, Stored, Finish, RemnantsInv, RemnantsKept
<1>5. CASE FinalRead(j) \/ FinalStore(j) \/ Parent(j)
  BY <1>5 DEF FinalRead, FinalStore, Parent, Finish, RemnantsInv, RemnantsKept
<1>6. CASE Crash(j)
  <2>1. RemnantsKept(j)
    BY <1>6, JobLeaves DEF Leaves, RemnantsInv, RemnantsKept
  <2> QED
    BY <1>6, <2>1 DEF Crash, Finish
<1>7. CASE Remnant(j)
  BY <1>7 DEF Remnant, RemnantRead, RemnantWrite, RemnantRestores, Leaves,
              RemnantsInv, RemnantsKept
<1> QED
  BY <1>1, <1>2, <1>3, <1>4, <1>5, <1>6, <1>7 DEF Job

\* A job that has left something behind attempts no other member: it accounts
\* for the last one and stops.
LEMMA NoMoreMembers ==
  ASSUME RecordInv, RemnantsInv, NEW j \in Jobs, remnant[j] # "none", Job(j) \/ Crash(j)
  PROVE  /\ remnant[j] \in {"written", "gone"} /\ pc[j] \in Late \ {"done"}
         /\ pc'[j] \in Late /\ UNCHANGED <<jobVars, wrote, ended, remnant>>
         /\ locals'[j].attempted = locals[j].attempted
<1> DEFINE l == locals[j]
<1>1. pc[j] # "done"
  <2>1. CASE Plan(j) \/ Authorize(j) \/ Reserve(j) \/ Release(j) \/ Preflight(j)
    BY <2>1 DEF Plan, Authorize, Reserve, Release, Preflight
  <2>2. CASE CapturePre(j) \/ Child(j) \/ CapturePost(j)
    BY <2>2 DEF CapturePre, Child, ChildRead, ChildWrite, ChildClose, ChildEscape,
                CapturePost
  <2>3. CASE Persist(j) \/ Publish(j) \/ FinalRead(j) \/ FinalStore(j) \/ Parent(j)
             \/ Crash(j)
    BY <2>3 DEF Persist, Publish, FinalRead, FinalStore, Parent, Crash
  <2> QED
    BY <2>1, <2>2, <2>3 DEF Job
<1>2. remnant[j] \in {"written", "gone"} /\ pc[j] \in Late \ {"done"}
      /\ ended[j][Current(j)] # "SUCCEEDED"
  BY <1>1 DEF RemnantsInv, RemnantOf
<1>3. DOMAIN pc = Jobs /\ DOMAIN locals = Jobs /\ l \in Locals(Selected[j])
  BY JobGiven DEF RecordInv, Shape
<1>4. CASE CapturePost(j)
  <2>1. /\ pc'[j] \in {"persist", "publish"}
        /\ UNCHANGED <<jobVars, wrote, ended, remnant>>
    BY <1>3, <1>4 DEF CapturePost, childVars, Goto
  <2>2. PICK post \in {"none", "SUCCESS", "FAILURE"} :
          \/ locals' = [locals EXCEPT ![j] = [l EXCEPT !.post = post]]
          \/ locals' = [locals EXCEPT ![j] = EvidenceFailed([l EXCEPT !.post = post])]
    BY <1>4 DEF CapturePost
  <2>3. locals'[j].attempted = l.attempted
    BY <1>3, <2>2 DEF Locals, EvidenceFailed
  <2> QED
    BY <1>2, <2>1, <2>3 DEF Late
<1>5. CASE Persist(j)
  <2>1. pc[j] = "persist" /\ UNCHANGED <<jobVars, wrote, ended, remnant>>
    BY <1>5 DEF Persist, childVars
  <2>2. l.reason # "none"
    <3>1. Judged(Order(j), l, wrote[j], ended[j])
      BY <2>1, JobGiven DEF JobState, Standing
    <3>2. Current(j) = Order(j)[Len(l.attempted)]
      BY <2>1, AtMember
    <3> QED
      BY <1>2, <3>1, <3>2 DEF Judged
  <2> DEFINE whole == IF l.post = "none" THEN 1 ELSE 2
             After(upTo) == [(IF upTo = whole THEN Referenced(l, upTo)
                              ELSE EvidenceFailed(Referenced(l, upTo))) EXCEPT !.post = "none"]
  <2>3. PICK upTo \in 0..whole :
          /\ locals' = [locals EXCEPT ![j] = After(upTo)]
          /\ Goto(j, IF After(upTo).reason # "none" THEN "parent"
                     ELSE IF Len(After(upTo).attempted) < Len(Order(j)) THEN "pre"
                     ELSE "final")
    BY <1>5 DEF Persist
  <2>4. After(upTo).attempted = l.attempted /\ After(upTo).reason # "none"
    <3>1. DOMAIN Referenced(l, upTo) = DOMAIN l
          /\ Referenced(l, upTo).attempted = l.attempted
          /\ Referenced(l, upTo).reason = l.reason
      BY <1>3 DEF Locals, Referenced
    <3>2. {"attempted", "reason", "post"} \subseteq DOMAIN l
      BY <1>3 DEF Locals
    <3> QED
      BY <2>2, <3>1, <3>2 DEF EvidenceFailed
  <2> HIDE DEF After
  <2>5. pc'[j] = "parent" /\ locals'[j].attempted = l.attempted
    BY <1>3, <2>3, <2>4 DEF Goto
  <2> QED
    BY <1>2, <2>1, <2>5 DEF Late
<1>6. CASE Publish(j) \/ Parent(j) \/ Crash(j)
  <2>1. pc'[j] = "done"
    BY <1>3, <1>6 DEF Publish, Parent, Crash, Finish, Goto
  <2>2. UNCHANGED <<jobVars, wrote, ended, remnant, locals>>
    BY <1>2, <1>6 DEF Publish, Parent, Crash, Outlives, childVars, Late
  <2> QED
    BY <1>2, <2>1, <2>2 DEF Late
<1>7. ~Plan(j) /\ ~Authorize(j) /\ ~Reserve(j) /\ ~Release(j) /\ ~Preflight(j)
      /\ ~CapturePre(j)
  BY <1>2 DEF Plan, Authorize, Reserve, Release, Preflight, CapturePre, Late
<1>8. ~Child(j) /\ ~FinalRead(j) /\ ~FinalStore(j)
  BY <1>2 DEF Child, ChildRead, ChildWrite, ChildClose, ChildEscape, FinalRead,
              FinalStore, Late
<1> QED
  BY <1>4, <1>5, <1>6, <1>7, <1>8 DEF Job

\* What a job leaves behind at one of its steps.
LEMMA JobRemnantOf ==
  ASSUME RecordInv, RemnantsInv, NEW j \in Jobs, Job(j) \/ Crash(j)
  PROVE  RemnantOf(j)'
<1>1. DOMAIN pc = Jobs /\ DOMAIN locals = Jobs /\ DOMAIN ended = Jobs
      /\ DOMAIN remnant = Jobs /\ DOMAIN result = Jobs
  BY DEF RecordInv, Shape, RemnantsInv
<1>2. CASE remnant[j] # "none"
  <2>1. /\ remnant'[j] = remnant[j] /\ remnant[j] \in {"written", "gone"}
        /\ pc[j] # "done" /\ pc'[j] \in Late
        /\ wrote' = wrote /\ ended' = ended /\ UNCHANGED jobVars
        /\ locals'[j].attempted = locals[j].attempted
    BY <1>2, NoMoreMembers
  <2>2. Current(j)' = Current(j)
    BY <2>1 DEF Current
  <2> QED
    BY <2>1, <2>2, PlanKept DEF RemnantsInv, RemnantOf
<1>3. CASE remnant'[j] = "none"
  BY <1>3 DEF RemnantOf
<1>4. ASSUME remnant[j] = "none", remnant'[j] # "none"
      PROVE  /\ pc[j] \in {"child", "write", "written"} /\ UNCHANGED <<jobVars, wrote>>
             /\ locals'[j].attempted = locals[j].attempted
             /\ \/ /\ pc[j] = "written" /\ remnant'[j] = "written" /\ pc'[j] = "post"
                   /\ ended'[j][Current(j)] \notin {"open", "SUCCEEDED"}
                \/ /\ remnant'[j] = pc[j] /\ ended' = ended
                   /\ pc'[j] = "done" /\ result'[j].kind = "crashed"
  <2>1. CASE Crash(j) /\ Outlives(j) /\ Leaves(j, pc[j]) /\ UNCHANGED ended
    <3>1. result[j] \in Results(Selected[j])
      BY JobGiven DEF JobState
    <3>2. result'[j].kind = "crashed" /\ pc'[j] = "done" /\ remnant'[j] = pc[j]
      BY <1>1, <2>1, <3>1 DEF Crash, Finish, Goto, Leaves, Results
    <3> QED
      BY <2>1, <3>2 DEF Crash, Outlives
  <2>2. ASSUME pc[j] = "written", Leaves(j, "written"), UNCHANGED <<jobVars, wrote>>,
               NEW x, EndChild(j, x), x \notin {"open", "SUCCEEDED"}
        PROVE  /\ locals'[j].attempted = locals[j].attempted
               /\ remnant'[j] = "written" /\ pc'[j] = "post"
               /\ ended'[j][Current(j)] \notin {"open", "SUCCEEDED"}
    <3>1. ended[j] \in [Devices -> {"open"} \cup Ended] /\ Current(j) \in Devices
          /\ locals[j] \in Locals(Selected[j])
      BY <2>2, JobGiven, AtMember
    <3>2. Classified(locals[j], x).attempted = locals[j].attempted
      BY <3>1 DEF Classified, Stop, Locals
    <3> QED
      BY <1>1, <2>2, <3>1, <3>2 DEF EndChild, Leaves, Goto
  <2>3. CASE ChildClose(j) /\ Leaves(j, "written")
             /\ \E x \in StopOutcomes \ {"RECOVERED"} : EndChild(j, x)
    <3>1. PICK x \in StopOutcomes \ {"RECOVERED"} : EndChild(j, x)
      BY <2>3
    <3>2. x \notin {"open", "SUCCEEDED"}
      BY RolloutAssumption DEF FailedWriteOutcomes
    <3>3. pc[j] = "written" /\ UNCHANGED <<jobVars, wrote>>
      BY <2>3 DEF ChildClose
    <3> QED
      BY <2>2, <2>3, <3>1, <3>2, <3>3
  <2>4. CASE ChildEscape(j) /\ pc[j] = "written" /\ Leaves(j, "written")
    <3>1. EndChild(j, "escaped") /\ UNCHANGED <<jobVars, wrote>>
      BY <2>4 DEF ChildEscape
    <3> QED
      BY <2>2, <2>4, <3>1
  <2> QED
    BY <1>4, <2>1, <2>3, <2>4, JobLeaves
<1>5. CASE remnant[j] = "none" /\ remnant'[j] # "none"
  <2>1. Current(j)' = Current(j)
    BY <1>4, <1>5 DEF Current
  <2>2. /\ ended[j][Current(j)] = "open"
        /\ Current(j) \in wrote[j] <=> pc[j] = "written"
    BY <1>4, <1>5, OpenChild
  <2>3. Ordered(Order(j), Deployable(j)) /\ Len(locals[j].attempted) > 0
    BY <1>4, <1>5, JobGiven DEF JobState, Standing, Behind
  <2> QED
    BY <1>4, <1>5, <2>1, <2>2, <2>3, PlanKept DEF RemnantOf, Late
<1> QED
  BY <1>2, <1>3, <1>5

\* What is left behind goes on, in the accounts of its own job.
LEMMA RemnantRecordInv ==
  ASSUME RecordInv, RemnantsInv, NEW j \in Jobs, Remnant(j)
  PROVE  RecordInv' /\ RemnantOf(j)'
<1> DEFINE c == Current(j)
           l == locals[j]
<1>1. UNCHANGED <<pc, jobVars, locals, store, result>> /\ remnant[j] # "none"
  BY DEF Remnant, RemnantRead, RemnantWrite, RemnantRestores
<1>2. Ordered(Order(j), Deployable(j)) /\ Len(l.attempted) > 0
  BY <1>1 DEF RemnantsInv, RemnantOf
<1>3. c \in Devices
  BY <1>2, JobGiven, CurrentMember DEF Current, Exposure
<1>4. /\ DOMAIN wrote = Jobs /\ DOMAIN ended = Jobs /\ DOMAIN remnant = Jobs
      /\ wrote[j] \in SUBSET Devices /\ ended[j] \in [Devices -> {"open"} \cup Ended]
  BY JobGiven DEF RecordInv, Shape, RemnantsInv, JobState
<1>5. c' = c /\ Order(j)' = Order(j) /\ Deployable(j)' = Deployable(j)
  BY <1>1, PlanKept DEF Current
<1>6. Shape' /\ OthersKept(j)
  BY <1>1, JobKeepsOthers
  DEF Remnant, RemnantRead, RemnantWrite, RemnantRestores, RecordInv, Shape, jobVars
<1>7. ASSUME NEW v \in SUBSET Devices, NEW f \in [Devices -> {"open"} \cup Ended],
             wrote'[j] = v, ended'[j] = f, v \subseteq wrote[j] \cup {c},
             \A d \in Devices : d # c => f[d] = ended[j][d],
             pc[j] = "done" /\ result[j].kind = "crashed"
      PROVE  JobInv(j)'
  <2>1. Exposure(Order(j), l, v, f, store[j])
    BY <1>2, <1>7, JobGiven, LastExposure DEF Current
  <2>2. JobState(j, Selected[j], Deployable(j), "done", Order(j), l, v, f,
                 store[j], result[j])
    BY <1>7, <2>1, JobGiven, LeftState
  <2> QED
    BY <1>1, <1>5, <1>7, <2>2 DEF JobInv
<1>8. CASE RemnantRead(j)
  BY <1>1, <1>4, <1>5, <1>8, StutterRecordInv
  DEF RemnantRead, RemnantsInv, RemnantOf, Leaves
<1>9. CASE RemnantWrite(j)
  <2>1. /\ remnant[j] = "write" /\ remnant'[j] = "written" /\ ended' = ended
        /\ wrote'[j] = wrote[j] \cup {c}
    BY <1>4, <1>9 DEF RemnantWrite, Leaves
  <2>2. /\ pc[j] = "done" /\ result[j].kind = "crashed" /\ ended[j][c] = "open"
    BY <2>1 DEF RemnantsInv, RemnantOf
  <2>3. JobInv(j)'
    BY <1>3, <1>4, <1>7, <2>1, <2>2
  <2>4. RemnantOf(j)'
    BY <1>1, <1>2, <1>5, <2>1, <2>2 DEF RemnantOf, Late
  <2> QED
    BY <1>6, <2>3, <2>4, JobMoves
<1>10. CASE RemnantRestores(j)
  <2> DEFINE f == [ended[j] EXCEPT ![c] = IF @ = "open" THEN "escaped" ELSE @]
  <2>1. /\ remnant[j] = "written" /\ remnant'[j] = "gone" /\ wrote' = wrote
        /\ ended'[j] = f
    BY <1>4, <1>10 DEF RemnantRestores, Leaves
  <2>2. /\ f \in [Devices -> {"open"} \cup Ended]
        /\ \A d \in Devices : d # c => f[d] = ended[j][d]
        /\ f[c] \notin {"open", "SUCCEEDED"} /\ c \in wrote[j] /\ pc[j] \in Late
        /\ \/ pc[j] = "done" /\ result[j].kind = "crashed"
           \/ f = ended[j]
    BY <1>3, <1>4, <2>1 DEF RemnantsInv, RemnantOf, Ended
  <2> HIDE DEF f
  <2>3. JobInv(j)'
    <3>1. CASE pc[j] = "done" /\ result[j].kind = "crashed"
      BY <1>4, <1>7, <2>1, <2>2, <3>1
    <3>2. CASE f = ended[j]
      BY <1>1, <1>5, <2>1, <3>2 DEF JobInv, RecordInv
    <3> QED
      BY <2>2, <3>1, <3>2
  <2>4. RemnantOf(j)'
    BY <1>1, <1>2, <1>5, <2>1, <2>2 DEF RemnantOf
  <2> QED
    BY <1>6, <2>3, <2>4, JobMoves
<1> QED
  BY <1>8, <1>9, <1>10 DEF Remnant

LEMMA NextRecordInv ==
  RecordInv /\ RemnantsInv /\ [Next]_vars => RecordInv' /\ RemnantsInv'
<1> SUFFICES ASSUME RecordInv, RemnantsInv, [Next]_vars PROVE RecordInv' /\ RemnantsInv'
  OBVIOUS
<1>1. CASE UNCHANGED vars \/ OutOfBandEdit
  <2>1. UNCHANGED <<pc, jobVars, locals, childVars, store, result>>
    BY <1>1 DEF vars, OutOfBandEdit
  <2>2. RemnantsInv'
    BY <2>1, PlanKept DEF RemnantsInv, RemnantOf, Current, childVars
  <2> QED
    BY <2>1, <2>2, StutterRecordInv DEF childVars
<1>2. ASSUME NEW j \in Jobs, Job(j) \/ Crash(j) \/ Remnant(j)
      PROVE  RecordInv' /\ RemnantsInv'
  <2>1. RecordInv' /\ RemnantOf(j)'
    BY <1>2, JobRecordInv, CrashInv, JobRemnantOf, RemnantRecordInv
  <2>2. OthersKept(j) /\ RemnantsKept(j)
    BY <1>2, JobKeepsOthers
  <2>3. ASSUME NEW k \in Jobs \ {j} PROVE RemnantOf(k)'
    <3>1. /\ pc'[k] = pc[k] /\ previous'[k] = previous[k] /\ cohorts'[k] = cohorts[k]
          /\ locals'[k] = locals[k] /\ wrote'[k] = wrote[k] /\ ended'[k] = ended[k]
          /\ result'[k] = result[k] /\ remnant'[k] = remnant[k]
      BY <2>2 DEF OthersKept, RemnantsKept
    <3>2. /\ Current(k)' = Current(k) /\ Order(k)' = Order(k)
          /\ Deployable(k)' = Deployable(k)
      BY <3>1 DEF Current, Order, Deployable
    <3>3. RemnantOf(k)
      BY DEF RemnantsInv
    <3> QED
      BY <3>1, <3>2, <3>3 DEF RemnantOf
  <2> QED
    BY <2>1, <2>2, <2>3 DEF RemnantsInv, RemnantsKept
<1> QED
  BY <1>1, <1>2 DEF Next

\* The accounts of every job are in order at all times, and so is what its
\* children have left behind.
THEOREM Accounts == Spec => [](RecordInv /\ RemnantsInv)
<1>1. Init => RemnantsInv
  BY DEF Init, RemnantsInv, RemnantOf
<1> QED
  BY <1>1, InitRecordInv, NextRecordInv, PTL DEF Spec

\* A device is exposed only when every member before it has succeeded, with its
\* child audit and its chronology in the store (_reserved, the loop over order).
THEOREM Exposures == Spec => []EvidenceBeforeExposure
<1>1. RecordInv => EvidenceBeforeExposure
  <2> SUFFICES ASSUME RecordInv, NEW j \in Rollouts,
                      NEW n \in 2..Len(locals[j].attempted), NEW m \in 1..(n - 1)
               PROVE  Finished(ended[j], store[j], Order(j)[m])
    BY DEF EvidenceBeforeExposure, Finished
  <2>1. j \in Jobs
    BY DEF Jobs
  <2>2. FinishedUpTo(Order(j), Len(locals[j].attempted) - 1, ended[j], store[j])
    BY <2>1, JobGiven DEF Exposure
  <2>3. Len(locals[j].attempted) \in Nat
    BY <2>1, JobGiven DEF Locals
  <2> QED
    BY <2>2, <2>3 DEF FinishedUpTo
<1> QED
  BY <1>1, Accounts, PTL

\* The parent record a rollout accumulates is accepted by its validator and by
\* the store, except after a positive preflight that could not be stored.
THEOREM Acceptance == Spec => []ParentAccepted
<1>1. RecordInv => ParentAccepted
  <2> SUFFICES ASSUME RecordInv, NEW j \in Jobs, result[j].kind = "rejected"
               PROVE  locals[j].preflight /\ ~store[j].preflight
    BY DEF ParentAccepted
  <2> QED
    BY JobGiven DEF JobState, Ending
<1> QED
  BY <1>1, Accounts, PTL

\* Which devices were written, which are unknown and which succeeded: the
\* parent record says so truthfully.
THEOREM Truth == Spec => []ParentTruth
<1>1. ASSUME RecordInv, NEW j \in Jobs, result[j].kind = "record"
      PROVE  LET r == result[j].record IN
             /\ wrote[j] \subseteq Range(r.attempted)
             /\ \A d \in wrote[j] : d \in Range(r.audits) =>
                     store[j].audit[d] \notin NoWriteOutcomes
             /\ \A d \in Deployable(j) : ended[j][d] = "escaped" =>
                     r.reason = "CHILD_EXECUTION_UNCERTAIN" /\ r.member = d
             /\ result[j].outcome = "SUCCEEDED" => \A d \in Deployable(j) :
                     Finished(ended[j], store[j], d)
  <2> DEFINE l == locals[j]
             o == Order(j)
             n == Len(l.attempted)
  <2>1. JobState(j, Selected[j], Deployable(j), pc[j], o,
                 l, wrote[j], ended[j], store[j], result[j])
    BY <1>1, JobGiven
  <2>2. /\ result[j].record = l /\ ParentReady(o, l, wrote[j], ended[j], store[j])
        /\ result[j].outcome = "SUCCEEDED" => l.reason = "none"
        /\ Ordered(o, Deployable(j)) /\ wrote[j] \in SUBSET Devices
    BY <1>1, <2>1 DEF JobState, Ending
  <2>3. Exposure(o, l, wrote[j], ended[j], store[j])
    BY <1>1, JobGiven
  <2>4. /\ o \in Seq(Selected[j]) /\ l \in Locals(Selected[j])
        /\ Selected[j] \in SUBSET Devices
    BY <1>1, JobGiven
  <2>5. /\ l.attempted \in Seq(Selected[j]) /\ l.audits \in Seq(Selected[j])
        /\ Along(l.attempted, o) /\ Along(l.audits, o)
    BY <2>3, <2>4 DEF Locals, Exposure
  <2>6. n \in Nat /\ n <= Len(o) /\ Len(o) \in Nat /\ Len(l.audits) <= n
    BY <2>2, <2>3, <2>4, Lengths
  <2>7. wrote[j] \subseteq Range(l.attempted)
    BY <2>2, <2>3 DEF Exposure
  <2>8. \A i \in 1..(n - 1) : Finished(ended[j], store[j], o[i])
    BY <2>3 DEF Exposure, FinishedUpTo
  <2>9. ASSUME NEW d \in wrote[j], d \in Range(l.audits)
        PROVE  store[j].audit[d] \notin NoWriteOutcomes
    <3>1. PICK i \in 1..Len(l.audits) : d = o[i]
      BY <2>4, <2>5, <2>9, AlongRange
    <3>2. CASE i \in 1..(n - 1)
      BY <2>8, <3>1, <3>2 DEF Finished, NoWriteOutcomes
    <3>3. CASE i = n /\ StoppedAt(o, l, wrote[j], ended[j], store[j])
      <4>1. Len(l.audits) = n
        BY <2>5, <2>6, <3>1, <3>3
      <4>2. store[j].audit[o[n]] = IF ended[j][o[n]] = "escaped" THEN "unknown"
                                   ELSE ended[j][o[n]]
        BY <3>3, <4>1 DEF StoppedAt
      <4>3. ended[j][o[n]] \notin NoWriteOutcomes
        BY <2>9, <3>1, <3>3 DEF StoppedAt, Judged
      <4> QED
        BY <3>1, <3>3, <4>2, <4>3 DEF NoWriteOutcomes
    <3>4. CASE i = n /\ (Complete(o, l, ended[j], store[j])
                          \/ StoppedBefore(o, l, ended[j], store[j]))
      <4>1. FinishedUpTo(o, n, ended[j], store[j]) /\ n \in 1..n
        BY <2>6, <3>1, <3>4 DEF Complete, StoppedBefore, Settled
      <4> QED
        BY <3>1, <3>4, <4>1 DEF FinishedUpTo, Finished, NoWriteOutcomes
    <3>5. i \in 1..(n - 1) \/ i = n
      BY <2>5, <2>6, <3>1
    <3> QED
      BY <2>2, <3>2, <3>3, <3>4, <3>5 DEF ParentReady
  <2>10. ASSUME NEW d \in Deployable(j), ended[j][d] = "escaped"
         PROVE  l.reason = "CHILD_EXECUTION_UNCERTAIN" /\ l.member = d
    <3>1. d \in Devices
      BY <2>4 DEF Deployable
    <3>2. d \in Range(l.attempted)
      BY <2>3, <2>10, <3>1 DEF Exposure
    <3>3. PICK i \in 1..n : d = o[i]
      BY <2>4, <2>5, <3>2, AlongRange
    <3>4. i = n
      BY <2>6, <2>8, <2>10, <3>3 DEF Finished
    <3>5. ~Settled(o, l, ended[j], store[j])
      BY <2>10, <3>3, <3>4 DEF Settled, FinishedUpTo, Finished
    <3>6. StoppedAt(o, l, wrote[j], ended[j], store[j])
      BY <2>2, <3>5 DEF ParentReady, Complete, StoppedBefore
    <3> QED
      BY <2>10, <3>3, <3>4, <3>6 DEF StoppedAt, Judged
  <2>11. ASSUME result[j].outcome = "SUCCEEDED", NEW d \in Deployable(j)
         PROVE  Finished(ended[j], store[j], d)
    <3>1. l.reason = "none"
      BY <2>2, <2>11
    <3>2. Complete(o, l, ended[j], store[j])
      BY <2>2, <3>1 DEF ParentReady, StoppedBefore, StoppedAt
    <3>3. FinishedUpTo(o, Len(o), ended[j], store[j])
      BY <3>2 DEF Complete, Settled
    <3>4. PICK i \in 1..Len(o) : o[i] = d
      BY <2>2 DEF Ordered
    <3> QED
      BY <3>3, <3>4 DEF FinishedUpTo
  <2> QED
    BY <2>2, <2>7, <2>9, <2>10, <2>11
<1>2. RecordInv => ParentTruth
  BY <1>1 DEF ParentTruth, Finished
<1> QED
  BY <1>2, Accounts, PTL

-----------------------------------------------------------------------------
(***************************************************************************)
(* On top of the accounts: types, who is admitted when reservations        *)
(* overlap, what a write may replace, and that every child is the abstract *)
(* transaction of ChildTransaction.                                        *)
(***************************************************************************)

\* The rest of the state: what runs on the devices, what the plans froze.
BaseInv ==
    /\ running \in [Devices -> Descriptions]
    /\ edits \in 0..MaxEdits
    /\ previous \in [Jobs -> [Devices -> Descriptions]]

LEMMA InitBaseInv == Init => BaseInv
  BY RolloutAssumption DEF Init, BaseInv

LEMMA NextBaseInv == BaseInv /\ [Next]_vars => BaseInv'
<1> SUFFICES ASSUME BaseInv, [Next]_vars PROVE BaseInv'
  OBVIOUS
<1> USE RolloutAssumption DEF BaseInv
<1>1. CASE UNCHANGED vars
  BY <1>1 DEF vars, jobVars
<1>2. CASE OutOfBandEdit
  BY <1>2 DEF OutOfBandEdit, jobVars
<1>3. ASSUME NEW j \in Jobs, Job(j) \/ Crash(j) \/ Remnant(j) PROVE BaseInv'
  <2>1. CASE Plan(j)
    BY <2>1 DEF Plan
  <2>2. CASE ChildWrite(j) \/ (Remnant(j) /\ RemnantWrite(j))
    <3>1. running' \in {running, [running EXCEPT ![Current(j)] = Desired[j]]}
      BY <2>2 DEF ChildWrite, RemnantWrite, Written
    <3>2. running' \in [Devices -> Descriptions]
      BY <3>1
    <3> QED
      BY <1>3, <2>2, <3>2 DEF ChildWrite, Remnant, jobVars
  <2>3. CASE ChildClose(j) \/ (Remnant(j) /\ RemnantRestores(j))
    <3>1. running' \in {running, [running EXCEPT ![Current(j)] = previous[j][Current(j)]]}
      BY <2>3 DEF ChildClose, RemnantRestores, Restored
    <3>2. running' \in [Devices -> Descriptions]
      BY <3>1
    <3> QED
      BY <1>3, <2>3, <3>2 DEF ChildClose, Remnant, jobVars
  <2>4. CASE Authorize(j) \/ Reserve(j) \/ Release(j) \/ Preflight(j) \/ CapturePre(j)
    BY <2>4 DEF Authorize, Reserve, Release, Preflight, CapturePre, jobVars
  <2>5. CASE ChildRead(j) \/ ChildEscape(j) \/ CapturePost(j) \/ Persist(j) \/ Publish(j)
    BY <2>5 DEF ChildRead, ChildEscape, CapturePost, Persist, Publish, jobVars
  <2>6. CASE FinalRead(j) \/ FinalStore(j) \/ Parent(j) \/ Crash(j)
    BY <2>6 DEF FinalRead, FinalStore, Parent, Crash, jobVars
  <2>7. CASE Remnant(j) /\ RemnantRead(j)
    BY <2>7 DEF Remnant, RemnantRead, jobVars
  <2> QED
    BY <1>3, <2>1, <2>2, <2>3, <2>4, <2>5, <2>6, <2>7 DEF Job, Child, Remnant
<1> QED
  BY <1>1, <1>2, <1>3 DEF Next

\* What runs on the devices and what the plans froze are descriptions; the edits
\* made beside the jobs stay within their bound (plan_profiled_rollout).
THEOREM Base == Spec => []BaseInv
  BY InitBaseInv, NextBaseInv, PTL DEF Spec

-----------------------------------------------------------------------------
\* What a step does to the locks and to the way the job ends.
Ends(j) ==
    /\ pc[j] # "done" /\ pc'[j] = "done" /\ held'[j] = {}
    /\ result'[j].kind \notin {"absent", "running"}
    /\ result'[j].kind = "refused" => pc[j] = "release"

Advances(j) ==
    /\ held'[j] = held[j] /\ result'[j] = result[j]
    /\ \/ pc[j] = "plan" /\ pc'[j] = "authorize"
       \/ pc[j] = "authorize" /\ pc'[j] = "reserve"
       \/ Working(j) /\ Working(j)'

Takes(j) ==
    /\ pc[j] = "reserve" /\ result'[j] = result[j]
    /\ \E d \in NextLocks(j) : held'[j] = held[j] \cup {d}
    /\ pc'[j] = "reserve" \/ Working(j)'

GivesUp(j) ==
    /\ pc[j] = "reserve" /\ pc'[j] = "release"
    /\ held'[j] = held[j] /\ result'[j] = result[j]
    /\ \E d \in NextLocks(j) : ~LockFree(j, d)

\* The other jobs notice nothing.
OthersHold(j) ==
    \A k \in Jobs : k # j =>
        pc'[k] = pc[k] /\ held'[k] = held[k] /\ result'[k] = result[k]

LockMove(j) == OthersHold(j) /\ (Ends(j) \/ Advances(j) \/ Takes(j) \/ GivesUp(j))

LEMMA FinishMove ==
  ASSUME RecordInv, LockInv, NEW j \in Jobs, pc[j] # "done",
         NEW kind \in Kinds \ {"absent", "running"}, Finish(j, kind),
         kind = "refused" => pc[j] = "release"
  PROVE  LockMove(j)
<1>1. /\ pc' = [pc EXCEPT ![j] = "done"] /\ held' = [held EXCEPT ![j] = {}]
      /\ result' = [result EXCEPT ![j].kind = kind]
  BY DEF Finish, Goto
<1>2. DOMAIN pc = Jobs /\ DOMAIN held = Jobs /\ DOMAIN result = Jobs
  BY DEF RecordInv, Shape, LockInv
<1>3. OthersHold(j)
  BY <1>1, <1>2 DEF OthersHold
<1>4. result[j] \in Results(Selected[j])
  BY JobGiven DEF JobState
<1>5. result'[j].kind = kind
  BY <1>1, <1>2, <1>4 DEF Results
<1>6. Ends(j)
  BY <1>1, <1>2, <1>5 DEF Ends
<1> QED
  BY <1>3, <1>6 DEF LockMove

LEMMA WorkMove ==
  ASSUME RecordInv, LockInv, NEW j \in Jobs, Working(j), UNCHANGED <<held, result>>,
         UNCHANGED pc \/ \E at \in Steps : Goto(j, at)
  PROVE  LockMove(j)
<1>1. DOMAIN pc = Jobs
  BY DEF LockInv
<1>2. OthersHold(j)
  BY <1>1 DEF OthersHold, Goto
<1>3. Working(j)'
  BY <1>1 DEF Working, Goto, Steps
<1> QED
  BY <1>2, <1>3 DEF LockMove, Advances

LEMMA JobMove ==
  ASSUME RecordInv, LockInv, NEW j \in Jobs, Job(j) \/ Crash(j)
  PROVE  LockMove(j)
<1>1. DOMAIN pc = Jobs /\ DOMAIN held = Jobs /\ DOMAIN result = Jobs
  BY DEF RecordInv, Shape, LockInv
<1>2. CASE Plan(j) \/ Authorize(j)
  <2>1. pc[j] \in {"plan", "authorize"}
    BY <1>2 DEF Plan, Authorize
  <2>2. CASE Finish(j, "compliant") \/ Finish(j, "raised")
    BY <2>1, <2>2, FinishMove DEF Kinds
  <2>3. CASE /\ UNCHANGED <<held, result>>
             /\ \/ pc[j] = "plan" /\ Goto(j, "authorize")
                \/ pc[j] = "authorize" /\ Goto(j, "reserve")
    BY <1>1, <2>3 DEF LockMove, OthersHold, Advances, Goto
  <2> QED
    BY <1>2, <2>2, <2>3 DEF Plan, Authorize
<1>3. CASE Reserve(j)
  <2>1. PICK d \in NextLocks(j) :
          \/ /\ LockFree(j, d)
             /\ held' = [held EXCEPT ![j] = @ \cup {d}]
             /\ Goto(j, IF held'[j] # Selected[j] THEN "reserve"
                        ELSE IF j \in Rollouts THEN "preflight" ELSE "pre")
             /\ UNCHANGED result
          \/ ~LockFree(j, d) /\ Goto(j, "release") /\ UNCHANGED <<held, result>>
    BY <1>3 DEF Reserve
  <2>2. pc[j] = "reserve"
    BY <1>3 DEF Reserve
  <2>3. CASE ~LockFree(j, d) /\ Goto(j, "release") /\ UNCHANGED <<held, result>>
    BY <1>1, <2>2, <2>3 DEF LockMove, OthersHold, GivesUp, Goto
  <2>4. CASE /\ held' = [held EXCEPT ![j] = @ \cup {d}]
             /\ Goto(j, IF held'[j] # Selected[j] THEN "reserve"
                        ELSE IF j \in Rollouts THEN "preflight" ELSE "pre")
             /\ UNCHANGED result
    <3>1. pc'[j] = "reserve" \/ Working(j)'
      BY <1>1, <2>4 DEF Goto, Working
    <3> QED
      BY <1>1, <2>2, <2>4, <3>1 DEF LockMove, OthersHold, Takes, Goto
  <2> QED
    BY <2>1, <2>3, <2>4
<1>4. CASE Release(j)
  BY <1>4, FinishMove DEF Release, Kinds
<1>5. CASE Preflight(j) \/ FinalRead(j) \/ FinalStore(j)
  <2>1. Working(j) /\ UNCHANGED <<held, result>>
    BY <1>5 DEF Preflight, FinalRead, FinalStore, Working
  <2>2. UNCHANGED pc \/ Goto(j, "pre") \/ Goto(j, "parent") \/ Goto(j, "finalstore")
    BY <1>5 DEF Preflight, FinalRead, FinalStore
  <2> QED
    BY <2>1, <2>2, WorkMove DEF Steps
<1>6. CASE CapturePre(j)
  <2>1. Working(j) /\ pc[j] # "done"
    BY <1>6 DEF CapturePre, Working
  <2>2. \/ UNCHANGED <<held, result>> /\ (Goto(j, "child") \/ Goto(j, "parent"))
        \/ Finish(j, "raised")
    BY <1>6 DEF CapturePre
  <2> QED
    BY <2>1, <2>2, WorkMove, FinishMove DEF Steps, Kinds
<1>7. CASE Child(j) \/ CapturePost(j)
  <2>1. Working(j) /\ UNCHANGED <<held, result>>
    BY <1>7 DEF Child, ChildRead, ChildWrite, ChildClose, ChildEscape, CapturePost, Working
  <2>2. \/ Goto(j, "write") \/ Goto(j, "written") \/ Goto(j, "post")
        \/ Goto(j, "persist") \/ Goto(j, "publish")
    BY <1>7 DEF Child, ChildRead, ChildWrite, ChildClose, ChildEscape, EndChild, CapturePost
  <2> QED
    BY <2>1, <2>2, WorkMove DEF Steps
<1>8. CASE Persist(j)
  <2>1. Working(j) /\ UNCHANGED <<held, result>>
    BY <1>8 DEF Persist, Working
  <2>2. Goto(j, "parent") \/ Goto(j, "pre") \/ Goto(j, "final")
    BY <1>8 DEF Persist
  <2> QED
    BY <2>1, <2>2, WorkMove DEF Steps
<1>9. CASE Publish(j)
  <2>1. pc[j] # "done" /\ (Finish(j, "published") \/ Finish(j, "unpublished"))
    BY <1>9 DEF Publish
  <2> QED
    BY <2>1, FinishMove DEF Kinds
<1>10. CASE Parent(j)
  <2>1. pc[j] = "parent"
    BY <1>10 DEF Parent
  <2>2. CASE Finish(j, "raised") \/ Finish(j, "rejected")
    BY <2>1, <2>2, FinishMove DEF Kinds
  <2>3. CASE /\ Goto(j, "done") /\ held' = [held EXCEPT ![j] = {}]
             /\ result' = [result EXCEPT ![j] = [kind |-> "record",
                    record |-> locals[j], outcome |-> RolloutOutcome(j)]]
    <3>1. result'[j].kind = "record"
      BY <1>1, <2>3
    <3> QED
      BY <1>1, <2>1, <2>3, <3>1 DEF LockMove, OthersHold, Ends, Goto
  <2> QED
    BY <1>10, <2>2, <2>3 DEF Parent
<1>11. CASE Crash(j)
  BY <1>11, FinishMove DEF Crash, Kinds
<1> QED
  BY <1>2, <1>3, <1>4, <1>5, <1>6, <1>7, <1>8, <1>9, <1>10, <1>11 DEF Job

-----------------------------------------------------------------------------
(***************************************************************************)
(* Admission. Locks are taken upwards and one that is refused gives all    *)
(* of its locks up, so whoever holds the highest contested lock is not     *)
(* refused by those that are giving up theirs: somebody survives.          *)
(***************************************************************************)
Upward(j) ==
    /\ held[j] \subseteq Selected[j]
    /\ pc[j] \in {"plan", "authorize", "done"} => held[j] = {}
    /\ pc[j] \in {"reserve", "release"} =>
           \A d \in held[j], e \in Selected[j] \ held[j] : d < e

\* Jobs that wait only for their descriptors to be closed hold less than e.
AboveReleasing(e) == \A k \in Jobs : pc[k] = "release" => \A d \in held[k] : d < e

Survivor(u) ==
    /\ result[u].kind \notin {"absent", "refused"}
    /\ \/ pc[u] = "done" \/ Working(u)
       \/ pc[u] = "reserve" /\ \E e \in held[u] : AboveReleasing(e)

AdmissionInv ==
    /\ \A j \in Jobs : Upward(j)
    /\ \E j \in Jobs : result[j].kind # "absent"
    /\ (\E j \in Jobs : result[j].kind = "refused" \/ pc[j] = "release") =>
           \E u \in Jobs : Survivor(u)

LEMMA InitAdmission == Init => AdmissionInv
<1> SUFFICES ASSUME Init PROVE AdmissionInv
  OBVIOUS
<1>1. PICK requested \in Requests :
        /\ pc = [j \in Jobs |-> IF j \in requested THEN "plan" ELSE "done"]
        /\ result = [j \in Jobs |-> [NoResult EXCEPT !.kind =
                        IF j \in requested THEN "running" ELSE "absent"]]
  BY DEF Init
<1>2. \A j \in Jobs : result[j].kind = IF j \in requested THEN "running" ELSE "absent"
  BY <1>1 DEF NoResult
<1>3. PICK r \in requested : r \in Jobs
  BY RolloutAssumption
<1>4. \A j \in Jobs : Upward(j)
  BY <1>1 DEF Init, Upward
<1>5. \A j \in Jobs : result[j].kind # "refused" /\ pc[j] # "release"
  BY <1>1, <1>2
<1>6. r \in Jobs /\ result[r].kind # "absent"
  BY <1>2, <1>3
<1> QED
  BY <1>4, <1>5, <1>6 DEF AdmissionInv

\* The step of a job keeps the order of its locks.
LEMMA MoveUpward ==
  ASSUME RecordInv, LockInv, NEW j \in Jobs, LockMove(j),
         \A k \in Jobs : Upward(k)
  PROVE  \A k \in Jobs : Upward(k)'
<1>1. ASSUME NEW k \in Jobs, k # j PROVE Upward(k)'
  BY <1>1 DEF LockMove, OthersHold, Upward
<1>2. Upward(j)'
  <2>1. Selected[j] \subseteq Devices /\ Devices \subseteq Nat
    BY RolloutAssumption
  <2>2. CASE Ends(j)
    BY <2>2 DEF Ends, Upward
  <2>3. CASE Advances(j)
    BY <2>3 DEF Advances, Upward, Working
  <2>4. CASE GivesUp(j)
    BY <2>4 DEF GivesUp, Upward
  <2>5. CASE Takes(j)
    <3>1. PICK d \in NextLocks(j) : held'[j] = held[j] \cup {d}
      BY <2>5 DEF Takes
    <3>2. /\ d \in Selected[j] \ held[j]
          /\ \A e \in Selected[j] \ held[j] : d <= e
      BY <3>1 DEF NextLocks
    <3>3. \A x \in held'[j], e \in Selected[j] \ held'[j] : x < e
      <4> TAKE x \in held'[j], e \in Selected[j] \ held'[j]
      <4>1. e \in Selected[j] \ held[j] /\ e # d /\ d \in Nat /\ e \in Nat
        BY <2>1, <3>1, <3>2
      <4>2. CASE x \in held[j]
        BY <2>5, <4>1, <4>2 DEF Takes, Upward
      <4>3. CASE x = d
        BY <3>2, <4>1, <4>3
      <4> QED
        BY <3>1, <4>2, <4>3
    <3>4. pc'[j] \notin {"plan", "authorize", "done"}
      BY <2>5 DEF Takes, Working
    <3> QED
      BY <3>1, <3>2, <3>3, <3>4 DEF Upward
  <2> QED
    BY <2>2, <2>3, <2>4, <2>5 DEF LockMove
<1> QED
  BY <1>1, <1>2

\* A survivor other than the job that moves remains one, unless the job begins
\* to release a lock above it.
LEMMA SurvivorStays ==
  ASSUME NEW j \in Jobs, LockMove(j), NEW u \in Jobs, u # j, Survivor(u),
         \/ pc'[j] # "release"
         \/ pc[u] # "reserve"
         \/ \E e \in held[u] : AboveReleasing(e) /\ \A d \in held'[j] : d < e
  PROVE  Survivor(u)'
<1>1. OthersHold(j)
  BY DEF LockMove
<1>2. pc'[u] = pc[u] /\ held'[u] = held[u] /\ result'[u] = result[u]
  BY <1>1 DEF OthersHold
<1>3. CASE pc[u] = "done" \/ Working(u)
  BY <1>2, <1>3 DEF Survivor, Working
<1>4. CASE pc[u] = "reserve"
  <2>1. PICK e \in held[u] :
             AboveReleasing(e) /\ (pc'[j] = "release" => \A d \in held'[j] : d < e)
    BY <1>4 DEF Survivor, Working
  <2>2. AboveReleasing(e)'
    BY <1>1, <2>1 DEF OthersHold, AboveReleasing
  <2> QED
    BY <1>2, <1>4, <2>2 DEF Survivor
<1> QED
  BY <1>3, <1>4 DEF Survivor

\* Whoever holds the lock that refuses a job, or whoever was above, survives.
LEMMA RefusalHasSurvivor ==
  ASSUME RecordInv, LockInv, AdmissionInv, NEW j \in Jobs, OthersHold(j), GivesUp(j)
  PROVE  \E u \in Jobs : Survivor(u)'
<1>1. PICK d \in NextLocks(j) : ~LockFree(j, d)
  BY DEF GivesUp
<1>2. PICK k \in Jobs \ {j} : d \in held[k]
  BY <1>1 DEF LockFree
<1>3. Selected[j] \subseteq Devices /\ Devices \subseteq Nat
  BY RolloutAssumption
<1>4. d \in Nat /\ \A x \in held[j] : x < d
  BY <1>1, <1>3 DEF NextLocks, GivesUp, AdmissionInv, Upward
<1>5. LockMove(j) /\ held'[j] = held[j] /\ pc[j] = "reserve" /\ pc'[j] = "release"
  BY DEF LockMove, GivesUp
<1>6. pc'[k] = pc[k] /\ held'[k] = held[k] /\ result'[k] = result[k]
  BY DEF OthersHold
<1>7. pc[k] \in Places \ {"plan", "authorize", "done"} /\ result[k].kind = "running"
  <2>1. pc[k] \notin {"plan", "authorize", "done"}
    BY <1>2 DEF AdmissionInv, Upward
  <2>2. result[k].kind = "running"
    BY <2>1, JobGiven DEF JobState, Ending
  <2> QED
    BY <2>1, <2>2 DEF LockInv
<1>8. CASE Working(k) \/ (pc[k] = "reserve" /\ AboveReleasing(d))
  <2>1. CASE Working(k)
    BY <1>6, <1>7, <2>1 DEF Survivor, Working
  <2>2. CASE pc[k] = "reserve" /\ AboveReleasing(d)
    <3>1. AboveReleasing(d)'
      BY <1>4, <1>5, <2>2 DEF OthersHold, AboveReleasing
    <3> QED
      BY <1>2, <1>6, <1>7, <2>2, <3>1 DEF Survivor
  <2> QED
    BY <1>8, <2>1, <2>2
<1>9. CASE pc[k] = "release" \/ ~AboveReleasing(d)
  <2>0. PICK m \in Jobs : pc[m] = "release" /\ \E x \in held[m] : ~(x < d)
    BY <1>2, <1>4, <1>9 DEF AboveReleasing
  <2>1. PICK x \in held[m] : pc[m] = "release" /\ ~(x < d)
    BY <2>0
  <2>2. x \in Nat
    BY <1>3, RolloutAssumption DEF LockInv
  <2>3. PICK u \in Jobs : Survivor(u)
    BY <2>1 DEF AdmissionInv
  <2>4. CASE pc[u] # "reserve"
    BY <1>5, <2>3, <2>4, SurvivorStays
  <2>5. CASE pc[u] = "reserve"
    <3>1. PICK e \in held[u] : AboveReleasing(e)
      BY <2>3, <2>5 DEF Survivor, Working
    <3>2. e \in Nat
      BY <1>3, RolloutAssumption DEF LockInv
    <3>3. x < e
      BY <2>1, <3>1 DEF AboveReleasing
    <3>4. \A y \in held[j] : y < e
      <4> TAKE y \in held[j]
      <4>1. y \in Nat /\ y < d
        BY <1>3, <1>4, RolloutAssumption DEF LockInv
      <4> QED
        BY <1>4, <2>1, <2>2, <3>2, <3>3, <4>1
    <3>5. u # j
      BY <3>1, <3>2, <3>4
    <3> QED
      BY <1>5, <2>3, <3>1, <3>4, <3>5, SurvivorStays
  <2> QED
    BY <2>4, <2>5
<1> QED
  BY <1>7, <1>8, <1>9 DEF Places, Working

LEMMA MoveAdmission ==
  ASSUME RecordInv, LockInv, AdmissionInv, NEW j \in Jobs, LockMove(j)
  PROVE  AdmissionInv'
<1>1. \A k \in Jobs : Upward(k)'
  BY MoveUpward DEF AdmissionInv
<1>2. \E k \in Jobs : result'[k].kind # "absent"
  <2>1. PICK k \in Jobs : result[k].kind # "absent"
    BY DEF AdmissionInv
  <2>2. CASE k # j
    BY <2>1, <2>2 DEF LockMove, OthersHold
  <2>3. CASE k = j
    BY <2>1, <2>3 DEF LockMove, Ends, Advances, Takes, GivesUp
  <2> QED
    BY <2>2, <2>3
<1>3. ASSUME \E k \in Jobs : result'[k].kind = "refused" \/ pc'[k] = "release"
      PROVE  \E u \in Jobs : Survivor(u)'
  <2>1. CASE GivesUp(j)
    BY <2>1, RefusalHasSurvivor DEF LockMove
  <2>2. CASE Ends(j) /\ result'[j].kind # "refused"
    BY <2>2 DEF Ends, Survivor
  <2>3. CASE ~GivesUp(j) /\ (Ends(j) => result'[j].kind = "refused")
    <3>1. pc'[j] # "release"
      BY <2>3 DEF LockMove, Ends, Advances, Takes, Working
    <3>2. \E k \in Jobs : result[k].kind = "refused" \/ pc[k] = "release"
      BY <1>3, <2>3, <3>1 DEF LockMove, OthersHold, Ends, Advances, Takes
    <3>3. PICK u \in Jobs : Survivor(u)
      BY <3>2 DEF AdmissionInv
    <3>4. CASE u # j
      BY <3>1, <3>3, <3>4, SurvivorStays
    <3>5. CASE u = j
      <4>1. CASE Ends(j)
        BY <2>3, <3>3, <3>5, <4>1 DEF Ends, Survivor, Working
      <4>2. CASE Advances(j)
        BY <3>3, <3>5, <4>2 DEF Advances, Survivor, Working
      <4>3. CASE Takes(j)
        <5>1. PICK e \in held[j] : AboveReleasing(e)
          BY <3>3, <3>5, <4>3 DEF Takes, Survivor, Working
        <5>2. AboveReleasing(e)'
          BY <3>1, <5>1 DEF LockMove, OthersHold, AboveReleasing
        <5>3. e \in held'[j] /\ result'[j] = result[j]
          BY <4>3, <5>1 DEF Takes
        <5> QED
          BY <3>3, <3>5, <4>3, <5>2, <5>3 DEF Takes, Survivor
      <4> QED
        BY <2>3, <4>1, <4>2, <4>3 DEF LockMove
    <3> QED
      BY <3>4, <3>5
  <2> QED
    BY <2>1, <2>2, <2>3
<1> QED
  BY <1>1, <1>2, <1>3 DEF AdmissionInv

LEMMA NextAdmission ==
  RecordInv /\ LockInv /\ AdmissionInv /\ [Next]_vars => AdmissionInv'
<1> SUFFICES ASSUME RecordInv, LockInv, AdmissionInv, [Next]_vars PROVE AdmissionInv'
  OBVIOUS
<1>1. CASE UNCHANGED <<pc, held, result>>
  <2>1. \A u \in Jobs : Survivor(u) => Survivor(u)'
    BY <1>1 DEF Survivor, AboveReleasing, Working
  <2>2. \A k \in Jobs : Upward(k)'
    BY <1>1 DEF AdmissionInv, Upward
  <2> QED
    BY <1>1, <2>1, <2>2 DEF AdmissionInv
<1> QED
  BY <1>1, JobMove, MoveAdmission DEF Next, OutOfBandEdit, Remnant, vars

\* At all times locks are held in order, and a refusal leaves a survivor.
THEOREM Admissions == Spec => []AdmissionInv
  BY InitAdmission, NextAdmission, Accounts, Reservations, PTL DEF Spec

\* A refusal is always somebody else's admission (reserve_rollout_devices takes
\* the locks in the order of their sorted names and gives all of them up).
THEOREM Admission == Spec => []NeverAllRefused
<1>1. AdmissionInv => NeverAllRefused
  BY DEF AdmissionInv, NeverAllRefused, Survivor
<1> QED
  BY <1>1, Admissions, PTL

\* Every variable has its type; members and stop facts name selected devices.
THEOREM TypeCorrect == Spec => []TypeOK
<1>1. BaseInv /\ LockInv /\ AdmissionInv /\ RecordInv /\ RemnantsInv => TypeOK
  <2> SUFFICES ASSUME BaseInv, LockInv, AdmissionInv, RecordInv, RemnantsInv PROVE TypeOK
    OBVIOUS
  <2>1. ASSUME NEW j \in Jobs
        PROVE  /\ held[j] \subseteq Selected[j] /\ wrote[j] \subseteq Selected[j]
               /\ Range(Order(j)) \subseteq Selected[j]
               /\ Range(locals[j].attempted) \subseteq Selected[j]
               /\ locals[j].member \in Selected[j] \cup {NoDevice}
               /\ locals[j].checked \subseteq Selected[j]
               /\ \A d \in Devices :
                    ended[j][d] \in {"open", "escaped", "SUCCEEDED", "RECOVERED"}
                                        \cup StopOutcomes \cup NoWriteOutcomes
    <3>1. held[j] \subseteq Selected[j]
      BY DEF AdmissionInv, Upward
    <3>2. /\ Selected[j] \in SUBSET Devices /\ Order(j) \in Seq(Selected[j])
          /\ locals[j] \in Locals(Selected[j]) /\ wrote[j] \in SUBSET Devices
          /\ ended[j] \in [Devices -> {"open"} \cup Ended]
          /\ Exposure(Order(j), locals[j], wrote[j], ended[j], store[j])
      BY JobGiven DEF JobState
    <3>3. locals[j].attempted \in Seq(Selected[j])
      BY <3>2 DEF Locals
    <3>4. /\ Range(Order(j)) \subseteq Selected[j]
          /\ Range(locals[j].attempted) \subseteq Selected[j]
      BY <3>2, <3>3 DEF Range
    <3>5. wrote[j] \subseteq Range(locals[j].attempted)
      BY <3>2 DEF Exposure
    <3>6. /\ locals[j].member \in Selected[j] \cup {NoDevice}
          /\ locals[j].checked \subseteq Selected[j]
      BY <3>2 DEF Locals
    <3> QED
      BY <3>1, <3>2, <3>4, <3>5, <3>6 DEF Ended
  <2>2. \A j \in Jobs : remnant[j] \in {"none", "child", "write", "written", "gone"}
    BY DEF RemnantsInv, RemnantOf
  <2> QED
    BY <2>1, <2>2 DEF TypeOK, BaseInv, LockInv, Places
<1> QED
  BY <1>1, Base, Reservations, Admissions, Accounts, PTL

-----------------------------------------------------------------------------
(***************************************************************************)
(* What a write replaces, while nobody edits beside the jobs. Between the  *)
(* child's read and its write the reservation keeps the other jobs away,   *)
(* as long as the reservation and the child both last; it does not keep    *)
(* anybody away from a child that has outlived its job, nor such a child   *)
(* away from the device. Excused names the two cases, and Unedited says    *)
(* that there is no third one.                                             *)
(***************************************************************************)
Excused(j) ==
    \E k \in Jobs \ {j} :
        /\ Current(j) \in wrote[k]
        /\ remnant[j] # "none" \/ (remnant[k] # "none" /\ Current(j) = Current(k))

Unedited(j) ==
    edits = 0 /\ (pc[j] = "write" \/ remnant[j] = "write") =>
        running[Current(j)] = previous[j][Current(j)] \/ Excused(j)

UneditedInv == \A j \in Jobs : Unedited(j)

\* Only the device that its child works on may run something else after a step
\* of a job: under the job's reservation, once its write has left for it.
LEMMA RunningChange ==
  ASSUME BaseInv, RecordInv, NEW j \in Jobs, Job(j) \/ Crash(j)
  PROVE  \/ running' = running
         \/ /\ Working(j) /\ Current(j) \in Selected[j] /\ Current(j) \in wrote'[j]
            /\ \A d \in Devices \ {Current(j)} : running'[d] = running[d]
<1>1. CASE ChildWrite(j) \/ ChildClose(j)
  <2>1. pc[j] \in {"write", "written"}
    BY <1>1 DEF ChildWrite, ChildClose
  <2>2. \E x : running' \in {running, [running EXCEPT ![Current(j)] = x]}
    <3>1. CASE ChildWrite(j)
      BY <3>1 DEF ChildWrite, Written
    <3>2. CASE ChildClose(j)
      <4>1. running' \in {running, [running EXCEPT ![Current(j)] = previous[j][Current(j)]]}
        BY <3>2 DEF ChildClose, Restored
      <4> QED
        BY <4>1
    <3> QED
      BY <1>1, <3>1, <3>2
  <2>3. Current(j) \in wrote'[j]
    BY <1>1, OpenChild DEF ChildWrite, ChildClose, RecordInv, Shape
  <2> QED
    BY <2>1, <2>2, <2>3, AtMember DEF Working, BaseInv
<1>2. CASE Plan(j) \/ Authorize(j) \/ Reserve(j) \/ Release(j) \/ Preflight(j)
  BY <1>2 DEF Plan, Authorize, Reserve, Release, Preflight
<1>3. CASE CapturePre(j) \/ ChildRead(j) \/ ChildEscape(j) \/ CapturePost(j) \/ Persist(j)
  BY <1>3 DEF CapturePre, ChildRead, ChildEscape, CapturePost, Persist
<1>4. CASE Publish(j) \/ FinalRead(j) \/ FinalStore(j) \/ Parent(j) \/ Crash(j)
  BY <1>4 DEF Publish, FinalRead, FinalStore, Parent, Crash
<1> QED
  BY <1>1, <1>2, <1>3, <1>4 DEF Job, Child

\* A remnant only touches the device it was left on, which it has then written.
LEMMA RemnantChange ==
  ASSUME BaseInv, RecordInv, RemnantsInv, NEW j \in Jobs, Remnant(j)
  PROVE  /\ remnant[j] # "none" /\ remnant'[j] # "none" /\ remnant'[j] # remnant[j]
         /\ remnant'[j] = "write" =>
                UNCHANGED running /\ running[Current(j)] = previous[j][Current(j)]
         /\ \/ running' = running
            \/ /\ Current(j) \in wrote'[j]
               /\ \A d \in Devices \ {Current(j)} : running'[d] = running[d]
<1> USE DEF RecordInv, Shape, RemnantsInv, Leaves
<1>1. CASE RemnantRead(j)
  BY <1>1 DEF RemnantRead
<1>2. CASE RemnantWrite(j)
  <2>1. running' \in {running, [running EXCEPT ![Current(j)] = Desired[j]]}
    BY <1>2 DEF RemnantWrite, Written
  <2> QED
    BY <1>2, <2>1 DEF RemnantWrite, BaseInv
<1>3. CASE RemnantRestores(j)
  <2>1. Current(j) \in wrote[j] /\ wrote' = wrote
    BY <1>3 DEF RemnantRestores, RemnantOf
  <2>2. running' = [running EXCEPT ![Current(j)] = previous[j][Current(j)]]
    BY <1>3 DEF RemnantRestores, Restored
  <2> QED
    BY <1>3, <2>1, <2>2 DEF RemnantRestores, BaseInv
<1> QED
  BY <1>1, <1>2, <1>3 DEF Remnant

\* The forward write of a job, or of the child it has left behind, is the only
\* step that exposes a device.
LEMMA WroteChange ==
  ASSUME NEW j \in Jobs, Job(j) \/ Crash(j) \/ Remnant(j)
  PROVE  \/ UNCHANGED wrote
         \/ /\ pc[j] = "write" \/ remnant[j] = "write"
            /\ wrote' = [wrote EXCEPT ![j] = @ \cup {Current(j)}]
<1>1. CASE Plan(j) \/ Authorize(j) \/ Reserve(j) \/ Release(j) \/ Preflight(j)
  BY <1>1 DEF Plan, Authorize, Reserve, Release, Preflight, childVars
<1>2. CASE CapturePre(j) \/ Child(j) \/ CapturePost(j)
  BY <1>2 DEF CapturePre, Child, ChildRead, ChildWrite, ChildClose, ChildEscape,
              CapturePost, childVars
<1>3. CASE Persist(j) \/ Publish(j) \/ FinalRead(j) \/ FinalStore(j)
           \/ Parent(j) \/ Crash(j)
  BY <1>3 DEF Persist, Publish, FinalRead, FinalStore, Parent, Crash, childVars
<1>4. CASE Remnant(j)
  BY <1>4 DEF Remnant, RemnantRead, RemnantWrite, RemnantRestores
<1> QED
  BY <1>1, <1>2, <1>3, <1>4 DEF Job

\* What a job has written, and what it has left behind, stays so.
LEMMA Lasting ==
  ASSUME RecordInv, RemnantsInv, NEW k \in Jobs, Job(k) \/ Crash(k) \/ Remnant(k),
         NEW j \in Jobs
  PROVE  /\ wrote[j] \subseteq wrote'[j]
         /\ remnant[j] # "none" => remnant'[j] # "none" /\ Current(j)' = Current(j)
<1>1. wrote[j] \subseteq wrote'[j]
  BY WroteChange DEF RecordInv, Shape
<1>2. ASSUME remnant[j] # "none"
      PROVE  remnant'[j] # "none" /\ locals'[j].attempted = locals[j].attempted
  <2>1. CASE j # k
    BY <1>2, <2>1, JobKeepsOthers DEF RemnantsKept, OthersKept
  <2>2. CASE j = k /\ (Job(k) \/ Crash(k))
    BY <1>2, <2>2, NoMoreMembers
  <2>3. CASE j = k /\ Remnant(k)
    BY <2>3 DEF Remnant, RemnantRead, RemnantWrite, RemnantRestores, Leaves, RemnantsInv
  <2> QED
    BY <2>1, <2>2, <2>3
<1> QED
  BY <1>1, <1>2 DEF Current

\* A job that gets to its write has just read what was approved.
LEMMA WriteChecked ==
  ASSUME RecordInv, NEW j \in Jobs, Job(j) \/ Crash(j), pc'[j] = "write"
  PROVE  /\ running[Current(j)] = previous[j][Current(j)]
         /\ UNCHANGED <<running, previous, locals>>
<1> USE DEF RecordInv, Shape, Goto
<1>1. CASE ChildRead(j)
  BY <1>1 DEF ChildRead, EndChild, jobVars
<1>2. ~ChildWrite(j) /\ ~ChildClose(j) /\ ~ChildEscape(j) /\ ~CapturePost(j)
  BY DEF ChildWrite, ChildClose, ChildEscape, EndChild, CapturePost
<1>3. ~Plan(j) /\ ~Authorize(j) /\ ~Reserve(j) /\ ~Release(j)
  BY DEF Plan, Authorize, Reserve, Release, Finish
<1>4. ~Preflight(j) /\ ~CapturePre(j) /\ ~Persist(j) /\ ~Publish(j)
  BY DEF Preflight, CapturePre, Persist, Publish, Finish
<1>5. ~FinalRead(j) /\ ~FinalStore(j) /\ ~Parent(j) /\ ~Crash(j)
  BY DEF FinalRead, FinalStore, Parent, Crash, Finish
<1> QED
  BY <1>1, <1>2, <1>3, <1>4, <1>5 DEF Job, Child

\* A child that outlives its job before its write has just been left behind by
\* a job that was about to write.
LEMMA LeftWriting ==
  ASSUME RecordInv, RemnantsInv, NEW j \in Jobs, Job(j) \/ Crash(j),
         remnant'[j] = "write"
  PROVE  pc[j] = "write" /\ UNCHANGED <<running, previous, locals, wrote>>
<1>1. remnant[j] = "none"
  BY NoMoreMembers
<1>2. ~Leaves(j, "written")
  BY DEF Leaves, RemnantsInv
<1>3. Crash(j) /\ Leaves(j, pc[j])
  BY <1>1, <1>2, JobLeaves
<1> QED
  BY <1>3 DEF Crash, Leaves, RemnantsInv, jobVars

\* What one job's step does to the write that this job is about to make.
LEMMA OwnUnedited ==
  ASSUME BaseInv, RecordInv, RemnantsInv, UneditedInv, NEW j \in Jobs,
         Job(j) \/ Crash(j) \/ Remnant(j)
  PROVE  Unedited(j)'
<1>1. edits' = edits
  BY JobKeepsOthers
<1>2. CASE (Job(j) \/ Crash(j)) /\ pc'[j] = "write"
  BY <1>2, WriteChecked DEF Unedited, Current
<1>3. CASE (Job(j) \/ Crash(j)) /\ remnant'[j] = "write"
  <2>1. pc[j] = "write" /\ UNCHANGED <<running, previous, locals, wrote>>
    BY <1>3, LeftWriting
  <2>2. Excused(j) => Excused(j)'
    BY <1>3, <2>1 DEF Excused, Current
  <2>3. Current(j)' = Current(j)
    BY <2>1 DEF Current
  <2> QED
    BY <1>1, <2>1, <2>2, <2>3 DEF UneditedInv, Unedited
<1>4. CASE Remnant(j)
  <2>1. remnant'[j] = "write" =>
          UNCHANGED running /\ running[Current(j)] = previous[j][Current(j)]
    BY <1>4, RemnantChange
  <2>2. pc'[j] = pc[j] /\ locals' = locals /\ previous' = previous
    BY <1>4 DEF Remnant, jobVars
  <2>3. pc[j] # "write"
    BY <1>4 DEF Remnant, RemnantRead, RemnantWrite, RemnantRestores, RemnantsInv,
                RemnantOf, Late
  <2> QED
    BY <2>1, <2>2, <2>3 DEF Unedited, Current
<1> QED
  BY <1>2, <1>3, <1>4 DEF Unedited

\* And to the write that another one is about to make.
LEMMA OtherUnedited ==
  ASSUME BaseInv, LockInv, RecordInv, RemnantsInv, UneditedInv,
         NEW k \in Jobs, Job(k) \/ Crash(k) \/ Remnant(k), NEW j \in Jobs, j # k
  PROVE  Unedited(j)'
<1> DEFINE d == Current(j)
<1>1. /\ edits' = edits /\ pc'[j] = pc[j] /\ locals'[j] = locals[j]
      /\ previous'[j] = previous[j] /\ remnant'[j] = remnant[j]
  BY JobKeepsOthers DEF OthersKept, RemnantsKept
<1>2. d' = d
  BY <1>1 DEF Current
<1>3. SUFFICES ASSUME pc[j] = "write" \/ remnant[j] = "write",
                      running[d] = previous[j][d] \/ Excused(j)
               PROVE  running'[d] = previous[j][d] \/ Excused(j)'
  BY <1>1, <1>2 DEF UneditedInv, Unedited
<1>4. d \in Devices
  <2>1. CASE pc[j] = "write"
    BY <2>1, AtMember
  <2>2. CASE remnant[j] = "write"
    <3>1. Ordered(Order(j), Deployable(j)) /\ Len(locals[j].attempted) > 0
      BY <2>2 DEF RemnantsInv, RemnantOf
    <3> QED
      BY <3>1, JobGiven, CurrentMember DEF Current, Exposure
  <2> QED
    BY <1>3, <2>1, <2>2
<1>5. CASE Excused(j)
  <2>1. PICK m \in Jobs \ {j} :
          d \in wrote[m] /\ (remnant[j] # "none" \/ (remnant[m] # "none" /\ d = Current(m)))
    BY <1>5 DEF Excused
  <2>2. d \in wrote'[m] /\ (remnant[m] # "none" =>
                               remnant'[m] # "none" /\ Current(m)' = Current(m))
    BY <2>1, Lasting
  <2> QED
    BY <1>1, <1>2, <2>1, <2>2 DEF Excused
<1>6. CASE running'[d] = running[d]
  BY <1>3, <1>5, <1>6
<1>7. CASE running'[d] # running[d] /\ (Job(k) \/ Crash(k))
  <2>1. Working(k) /\ d = Current(k) /\ d \in Selected[k] /\ d \in wrote'[k]
    BY <1>4, <1>7, RunningChange
  <2>2. CASE pc[j] = "write"
    <3>1. Working(j) /\ d \in Selected[j]
      BY <2>2, AtMember DEF Working
    <3>2. held[j] \cap held[k] = {} /\ held[j] = Selected[j] /\ held[k] = Selected[k]
      BY <2>1, <3>1 DEF LockInv
    <3> QED
      BY <2>1, <3>1, <3>2
  <2>3. CASE remnant[j] = "write"
    BY <1>1, <1>2, <2>1, <2>3 DEF Excused
  <2> QED
    BY <1>3, <2>2, <2>3
<1>8. CASE running'[d] # running[d] /\ Remnant(k)
  <2>1. d = Current(k) /\ d \in wrote'[k] /\ remnant'[k] # "none" /\ remnant[k] # "none"
    BY <1>4, <1>8, RemnantChange
  <2>2. Current(k)' = Current(k)
    BY <2>1, Lasting
  <2> QED
    BY <1>2, <2>1, <2>2 DEF Excused
<1> QED
  BY <1>6, <1>7, <1>8

LEMMA NextUnedited ==
  BaseInv /\ LockInv /\ RecordInv /\ RemnantsInv /\ UneditedInv /\ [Next]_vars
    => UneditedInv'
<1> SUFFICES ASSUME BaseInv, LockInv, RecordInv, RemnantsInv, UneditedInv, [Next]_vars
             PROVE  UneditedInv'
  OBVIOUS
<1>1. CASE UNCHANGED vars
  BY <1>1 DEF vars, jobVars, childVars, UneditedInv, Unedited, Excused, Current
<1>2. CASE OutOfBandEdit
  <2>1. edits' # 0
    BY <1>2, RolloutAssumption DEF OutOfBandEdit, BaseInv
  <2> QED
    BY <2>1 DEF UneditedInv, Unedited
<1>3. ASSUME NEW k \in Jobs, Job(k) \/ Crash(k) \/ Remnant(k), NEW j \in Jobs
      PROVE  Unedited(j)'
  BY <1>3, OwnUnedited, OtherUnedited
<1> QED
  BY <1>1, <1>2, <1>3 DEF Next, UneditedInv

\* So every write that is made over something else is excused.
LEMMA WroteStep ==
  ASSUME RecordInv, UneditedInv, [Next]_vars, edits = 0,
         NEW j \in Jobs, NEW d \in wrote'[j] \ wrote[j]
  PROVE  \/ running[d] = previous[j][d]
         \/ \E k \in Jobs \ {j} :
              /\ d \in wrote[k]
              /\ \/ remnant[j] # "none"
                 \/ remnant[k] # "none" /\ d = Current(k)
<1>1. PICK k \in Jobs : (pc[k] = "write" \/ remnant[k] = "write")
                         /\ wrote' = [wrote EXCEPT ![k] = @ \cup {Current(k)}]
  BY WroteChange DEF Next, OutOfBandEdit, vars, childVars
<1>2. j = k /\ d = Current(k)
  BY <1>1 DEF RecordInv, Shape
<1> QED
  BY <1>1, <1>2 DEF UneditedInv, Unedited, Excused

\* The child's own read, under the job's reservation: a plan is not written
\* over a description it was not approved against, unless a child that has
\* outlived its job writes here after somebody else, or wrote here itself
\* (execute_profiled_transaction under reserve_rollout_devices; command, which
\* gives the child neither the locks nor the life of its job).
THEOREM Approved == Spec => NoBlindOverwrite
<1>1. Init => UneditedInv
  BY DEF Init, UneditedInv, Unedited
<1>2. Spec => []UneditedInv
  BY <1>1, NextUnedited, Base, Reservations, Accounts, PTL DEF Spec
<1>3. RecordInv /\ UneditedInv /\ [Next]_vars =>
        [edits = 0 => \A j \in Jobs : \A d \in wrote'[j] \ wrote[j] :
            \/ running[d] = previous[j][d]
            \/ \E k \in Jobs \ {j} :
                 /\ d \in wrote[k]
                 /\ \/ remnant[j] # "none"
                    \/ remnant[k] # "none" /\ d = Current(k)]_vars
  BY WroteStep
<1> QED
  BY <1>2, <1>3, Accounts, PTL DEF Spec, NoBlindOverwrite

-----------------------------------------------------------------------------
(***************************************************************************)
(* Each child call, as its caller sequences it, is the transaction that    *)
(* ChildTransaction promises.                                              *)
(***************************************************************************)
LEMMA InitChildren ==
  Init => \A j \in Jobs, d \in Devices : ChildOf(j, d)!ChildInit
  BY DEF Init, ChildOf!ChildInit

\* What a step shows of the child of j on d depends on these two alone.
LEMMA SameChild ==
  ASSUME NEW j, NEW d, ended'[j][d] = ended[j][d], d \in wrote'[j] <=> d \in wrote[j]
  PROVE  UNCHANGED ChildOf(j, d)!childVars
  BY DEF ChildOf!childVars

\* A child that closes with an outcome which suits what was sent.
LEMMA ClosedChild ==
  ASSUME RecordInv, NEW j \in Jobs, pc[j] \in {"child", "write", "written"},
         NEW outcome, ended' = [ended EXCEPT ![j][Current(j)] = outcome],
         UNCHANGED wrote,
         \/ outcome = "escaped"
         \/ pc[j] = "child" /\ outcome \in NoWriteOutcomes
         \/ pc[j] = "written" /\ outcome \in {"SUCCEEDED", "RECOVERED"} \cup StopOutcomes,
         NEW d \in Devices
  PROVE  [ChildOf(j, d)!ChildNext]_(ChildOf(j, d)!childVars)
<1>1. /\ Current(j) \in Devices /\ ended[j][Current(j)] = "open"
      /\ Current(j) \in wrote[j] <=> pc[j] = "written"
  BY OpenChild
<1>2. ended[j] \in [Devices -> {"open"} \cup Ended] /\ DOMAIN ended = Jobs
  BY JobGiven DEF RecordInv, Shape
<1>3. CASE d # Current(j)
  BY <1>1, <1>2, <1>3, SameChild
<1>4. CASE d = Current(j)
  <2>1. ended'[j][d] = outcome /\ ended[j][d] = "open" /\ wrote'[j] = wrote[j]
    BY <1>1, <1>2, <1>4
  <2>2. CASE outcome = "escaped"
    BY <2>1, <2>2 DEF ChildOf!ChildNext, ChildOf!Escape
  <2>3. CASE pc[j] = "child" /\ outcome \in NoWriteOutcomes
    BY <1>1, <1>4, <2>1, <2>3
    DEF ChildOf!ChildNext, ChildOf!Close, ChildOf!NoWriteOutcomes, NoWriteOutcomes
  <2>4. CASE pc[j] = "written" /\ outcome \in {"SUCCEEDED", "RECOVERED"} \cup StopOutcomes
    <3>1. outcome \in ChildOf(j, d)!WriteOutcomes
      BY <2>4, RolloutAssumption DEF ChildOf!WriteOutcomes, FailedWriteOutcomes
    <3>2. outcome \notin {"open", "escaped"}
      BY <3>1 DEF ChildOf!WriteOutcomes
    <3> QED
      BY <1>1, <1>4, <2>1, <2>4, <3>1, <3>2 DEF ChildOf!ChildNext, ChildOf!Close
  <2> QED
    BY <2>2, <2>3, <2>4
<1> QED
  BY <1>3, <1>4

LEMMA JobChildren ==
  ASSUME RecordInv, RemnantsInv, NEW k \in Jobs, Job(k) \/ Crash(k) \/ Remnant(k),
         NEW d \in Devices
  PROVE  [ChildOf(k, d)!ChildNext]_(ChildOf(k, d)!childVars)
<1>1. CASE UNCHANGED <<wrote, ended>>
  BY <1>1, SameChild
<1>2. CASE ChildRead(k)
  <2>1. CASE EndChild(k, "STALE_PLAN") \/ EndChild(k, "BLOCKED")
    BY <1>2, <2>1, ClosedChild DEF ChildRead, EndChild, NoWriteOutcomes
  <2> QED
    BY <1>1, <1>2, <2>1 DEF ChildRead
<1>3. CASE ChildWrite(k)
  <2>1. /\ pc[k] = "write" /\ wrote' = [wrote EXCEPT ![k] = @ \cup {Current(k)}]
        /\ ended' = ended /\ DOMAIN wrote = Jobs
    BY <1>3 DEF ChildWrite, RecordInv, Shape
  <2>2. CASE d # Current(k)
    BY <2>1, <2>2, SameChild
  <2>3. CASE d = Current(k)
    <3>1. ended[k][d] = "open" /\ d \notin wrote[k] /\ d \in wrote'[k]
      BY <2>1, <2>3, OpenChild
    <3> QED
      BY <2>1, <3>1 DEF ChildOf!ChildNext, ChildOf!Send
  <2> QED
    BY <2>2, <2>3
<1>4. CASE ChildClose(k)
  <2>1. PICK outcome \in {"SUCCEEDED", "RECOVERED"} \cup StopOutcomes : EndChild(k, outcome)
    BY <1>4 DEF ChildClose
  <2> QED
    BY <1>4, <2>1, ClosedChild DEF ChildClose, EndChild
<1>5. CASE ChildEscape(k) \/ (Crash(k) /\ pc[k] \in {"child", "write", "written"})
  BY <1>1, <1>5, ClosedChild DEF ChildEscape, EndChild, Crash
<1>6. CASE Plan(k) \/ Authorize(k) \/ Reserve(k) \/ Release(k) \/ Preflight(k)
  BY <1>1, <1>6 DEF Plan, Authorize, Reserve, Release, Preflight, childVars
<1>7. CASE CapturePre(k) \/ CapturePost(k) \/ Persist(k) \/ Publish(k)
  BY <1>1, <1>7 DEF CapturePre, CapturePost, Persist, Publish, childVars
<1>8. CASE FinalRead(k) \/ FinalStore(k) \/ Parent(k)
           \/ (Crash(k) /\ pc[k] \notin {"child", "write", "written"})
  BY <1>1, <1>8 DEF FinalRead, FinalStore, Parent, Crash, childVars
<1>9. CASE RemnantRead(k)
  BY <1>1, <1>9 DEF RemnantRead
<1>10. CASE RemnantWrite(k) \/ RemnantRestores(k)
  <2>1. /\ DOMAIN wrote = Jobs /\ DOMAIN ended = Jobs /\ RemnantOf(k)
        /\ ended[k] \in [Devices -> {"open"} \cup Ended]
    BY JobGiven DEF RecordInv, Shape, RemnantsInv
  <2>2. CASE d # Current(k)
    BY <1>10, <2>1, <2>2, SameChild DEF RemnantWrite, RemnantRestores
  <2>3. CASE d = Current(k) /\ RemnantWrite(k)
    <3>1. ended'[k][d] = "open" /\ ended[k][d] = "open" /\ d \notin wrote[k] /\ d \in wrote'[k]
      BY <2>1, <2>3 DEF RemnantWrite, RemnantOf
    <3> QED
      BY <3>1 DEF ChildOf!ChildNext, ChildOf!Send
  <2>4. CASE d = Current(k) /\ RemnantRestores(k)
    <3>1. /\ wrote' = wrote
          /\ \/ ended[k][d] = "open" /\ ended'[k][d] = "escaped"
             \/ ended'[k][d] = ended[k][d]
      BY <2>1, <2>4 DEF RemnantRestores
    <3>2. CASE ended[k][d] = "open" /\ ended'[k][d] = "escaped"
      BY <3>1, <3>2 DEF ChildOf!ChildNext, ChildOf!Escape
    <3> QED
      BY <3>1, <3>2, SameChild
  <2> QED
    BY <1>10, <2>2, <2>3, <2>4
<1> QED
  BY <1>2, <1>3, <1>4, <1>5, <1>6, <1>7, <1>8, <1>9, <1>10 DEF Job, Child, Remnant

LEMMA NextChildren ==
  ASSUME RecordInv, RemnantsInv, [Next]_vars, NEW j \in Jobs, NEW d \in Devices
  PROVE  [ChildOf(j, d)!ChildNext]_(ChildOf(j, d)!childVars)
<1>1. CASE UNCHANGED vars \/ OutOfBandEdit
  BY <1>1, SameChild DEF vars, childVars, OutOfBandEdit
<1>2. ASSUME NEW k \in Jobs, Job(k) \/ Crash(k) \/ Remnant(k)
      PROVE  [ChildOf(j, d)!ChildNext]_(ChildOf(j, d)!childVars)
  <2>1. CASE j = k
    BY <1>2, <2>1, JobChildren
  <2>2. CASE j # k
    <3>1. ended'[j] = ended[j] /\ wrote'[j] = wrote[j]
      BY <1>2, <2>2, JobKeepsOthers DEF OthersKept
    <3> QED
      BY <3>1, SameChild
  <2> QED
    BY <2>1, <2>2
<1> QED
  BY <1>1, <1>2 DEF Next

\* A rollout or a single-target job sequences children as the transaction
\* promises them: each is sent at most once, and closes once or escapes.
THEOREM Children == Spec => ImplementsChildren
<1>1. RecordInv /\ RemnantsInv /\ [Next]_vars =>
        [\A j \in Jobs, d \in Devices :
            [ChildOf(j, d)!ChildNext]_(ChildOf(j, d)!childVars)]_vars
  BY NextChildren
<1> QED
  BY <1>1, InitChildren, Accounts, PTL DEF Spec, ImplementsChildren
=============================================================================
