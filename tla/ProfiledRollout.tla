--------------------------- MODULE ProfiledRollout ---------------------------
(***************************************************************************)
(* Protected delivery jobs over a population of devices. A rollout job    *)
(* runs execute_rollout: it reserves every selected device, proves the    *)
(* frozen baseline of all of them, then sequences the existing child      *)
(* transaction over canaries and waves, with chronology and durable       *)
(* evidence around each, and closes with one parent record. A             *)
(* single-target job (_single_deploy) takes the same reservation for its  *)
(* one device.                                                             *)
(*                                                                         *)
(* A child is what ChildTransaction promises; ProfiledExecution says how. *)
(* Jobs plan before the human pause, without any reservation, so two of   *)
(* them may hold plans frozen against the same baseline.                  *)
(*                                                                         *)
(* The locks are a job's, not its child's. What a child leaves behind, a  *)
(* subprocess whose job was killed or a rollback the device has yet to    *)
(* make, goes on without them: that is what remnant keeps.                *)
(***************************************************************************)
EXTENDS Integers, FiniteSets, Sequences, SequencesExt

CONSTANTS
    Rollouts, Singles,   \* jobs of either kind
    Requests,            \* sets of jobs that are requested together
    Devices,             \* stable device identities, ordered as lock names are
    Descriptions,
    Selected,            \* job -> the devices its intent selects
    Desired,             \* job -> the description it wants on them
    Family,              \* device -> adapter and recovery family
    StopOutcomes,        \* write outcomes other than SUCCEEDED to consider
    NoDevice,
    MaxEdits             \* bound on out-of-band edits

Jobs == Rollouts \cup Singles

\* FinalOutcome values of a child whose forward write was not a success.
FailedWriteOutcomes ==
    {"EXECUTION_FAILED", "AMBIGUOUS", "POST_VALIDATION_FAILED", "RECOVERED",
     "RECOVERY_FAILED", "RECOVERY_AMBIGUOUS", "AUTO_ROLLBACK_PENDING",
     "CONFIRMATION_FAILED", "CONFIRMATION_AMBIGUOUS"}

ASSUME RolloutAssumption ==
    /\ Rollouts \cap Singles = {}
    /\ Devices \subseteq Nat /\ IsFiniteSet(Devices)
    /\ Selected \in [Jobs -> (SUBSET Devices) \ {{}}]
    /\ \A j \in Singles : Cardinality(Selected[j]) = 1
    /\ Desired \in [Jobs -> Descriptions]
    /\ DOMAIN Family = Devices
    /\ NoDevice \notin Devices
    /\ Requests \subseteq (SUBSET Jobs) \ {{}}
    /\ StopOutcomes \subseteq FailedWriteOutcomes
    /\ MaxEdits \in Nat

VARIABLES
    running,    \* device -> its active description
    edits,      \* out-of-band edits so far
    pc,         \* job -> where it stands
    previous,   \* job -> the frozen plan's current_description per device
    cohorts,    \* job -> the frozen canaries and waves
    held,       \* job -> the device locks it holds
    locals,     \* job -> the locals of _reserved or _single_deploy
    wrote,      \* job -> devices its forward write has left for
    ended,      \* job -> device -> how its child call ended
    remnant,    \* job -> what its last child call has left behind
    store,      \* job -> its durable rollout artifacts
    result      \* job -> how it ended, and its parent record

jobVars == <<previous, cohorts>>
childVars == <<wrote, ended, remnant>>
vars == <<running, edits, pc, jobVars, held, locals, childVars, store, result>>

NoWriteOutcomes == {"BLOCKED", "STALE_PLAN"}
Order(j) == cohorts[j].canaries \o cohorts[j].rest
Deployable(j) == {d \in Selected[j] : previous[j][d] # Desired[j]}

\* The member being processed, and the next one.
Current(j) == Last(locals[j].attempted)
NextMember(j) == Order(j)[Len(locals[j].attempted) + 1]

NoLocals ==
    [attempted |-> <<>>, successful |-> <<>>, audits |-> <<>>,
     chronologies |-> <<>>, reason |-> "none", member |-> NoDevice,
     outcome |-> "none", evidenceFailed |-> FALSE, preflight |-> FALSE,
     checked |-> {}, post |-> "none", final |-> "none"]

NoStore == [preflight |-> FALSE, audit |-> [d \in Devices |-> "absent"],
            chronology |-> [d \in Devices |-> "absent"]]

NoResult == [kind |-> "running", record |-> NoLocals, outcome |-> "none"]

Init ==
    /\ running \in [Devices -> Descriptions]
    /\ edits = 0
    /\ previous = [j \in Jobs |-> running]
    /\ cohorts = [j \in Jobs |-> [canaries |-> <<>>, rest |-> <<>>]]
    /\ held = [j \in Jobs |-> {}]
    /\ locals = [j \in Jobs |-> NoLocals]
    /\ wrote = [j \in Jobs |-> {}]
    /\ ended = [j \in Jobs |-> [d \in Devices |-> "open"]]
    /\ remnant = [j \in Jobs |-> "none"]
    /\ store = [j \in Jobs |-> NoStore]
    /\ \E requested \in Requests :
        /\ pc = [j \in Jobs |-> IF j \in requested THEN "plan" ELSE "done"]
        /\ result = [j \in Jobs |-> [NoResult EXCEPT !.kind =
                        IF j \in requested THEN "running" ELSE "absent"]]

-----------------------------------------------------------------------------
Goto(j, at) == pc' = [pc EXCEPT ![j] = at]

\* Mutant: descriptors are closed only where the reservation succeeded.
FinishKeeping(j, kind) ==
    /\ Goto(j, "done")
    /\ held' = [held EXCEPT ![j] = IF kind = "refused" THEN @ ELSE {}]
    /\ result' = [result EXCEPT ![j].kind = kind]

\* The job returns or raises: its descriptors close and its locks with them.
Finish(j, kind) ==
    /\ Goto(j, "done")
    /\ held' = [held EXCEPT ![j] = {}]
    /\ result' = [result EXCEPT ![j].kind = kind]

\* Canaries, given or chosen, cover every deployable family and leave a wave
\* when there is a device to leave.
ValidCanaries(canaries, deployable) ==
    /\ canaries # {} /\ canaries \subseteq deployable
    /\ {Family[d] : d \in canaries} = {Family[d] : d \in deployable}
    /\ Cardinality(deployable) > Cardinality({Family[d] : d \in deployable})
           => canaries # deployable

\* The members of S in the order of their identities: there is one such order.
InOrder(S) ==
    {s \in [1..Cardinality(S) -> S] :
        Range(s) = S /\ \A m, n \in DOMAIN s : m < n => s[m] < s[n]}

\* Observe D0 and freeze plan and cohorts. Nothing deployable: compliance only.
Plan(j) ==
    /\ pc[j] = "plan"
    /\ previous' = [previous EXCEPT ![j] = running]
    /\ LET deployable == {d \in Selected[j] : running[d] # Desired[j]} IN
       \/ /\ deployable = {}
          /\ Finish(j, "compliant")
          /\ UNCHANGED cohorts
       \/ \E canaries \in SUBSET deployable :
            /\ ValidCanaries(canaries, deployable)
            /\ \E first \in InOrder(canaries), rest \in InOrder(deployable \ canaries) :
                 cohorts' = [cohorts EXCEPT ![j] = [canaries |-> first, rest |-> rest]]
            /\ Goto(j, "authorize")
            /\ UNCHANGED <<held, result>>
    /\ UNCHANGED <<running, edits, locals, childVars, store>>

\* Approval reconstructed and the destination ready, or no provider is built.
Authorize(j) ==
    /\ pc[j] = "authorize"
    /\ \/ Goto(j, "reserve") /\ UNCHANGED <<held, result>>
       \/ Finish(j, "raised")
    /\ UNCHANGED <<running, edits, jobVars, locals, childVars, store>>

\* Mutant: in whatever order the plan lists them.
NextLocksUnsorted(j) == Selected[j] \ held[j]

\* Mutant: the whole managed population instead of the selection.
NextLocksPopulation(j) == Devices \ held[j]

\* The locks are taken one by one, in the order of their sorted names.
NextLocks(j) ==
    {d \in Selected[j] \ held[j] : \A e \in Selected[j] \ held[j] : d <= e}

\* Mutant: the lock file exists and is ours, which is not the lock.
LockFileValid(j, d) == d \in Selected[j]

LockFree(j, d) == \A k \in Jobs \ {j} : d \notin held[k]

\* reserve_rollout_devices: nonblocking, all or none, held until Finish. A job
\* that is refused still holds what it has until its descriptors are closed.
Reserve(j) ==
    /\ pc[j] = "reserve"
    /\ \E d \in NextLocks(j) :
        \/ /\ LockFree(j, d)
           /\ held' = [held EXCEPT ![j] = @ \cup {d}]
           /\ Goto(j, IF held'[j] # Selected[j] THEN "reserve"
                      ELSE IF j \in Rollouts THEN "preflight" ELSE "pre")
           /\ UNCHANGED result
        \/ ~LockFree(j, d) /\ Goto(j, "release") /\ UNCHANGED <<held, result>>
    /\ UNCHANGED <<running, edits, jobVars, locals, childVars, store>>

Release(j) ==
    /\ pc[j] = "release"
    /\ Finish(j, "refused")
    /\ UNCHANGED <<running, edits, jobVars, locals, childVars, store>>

\* The first of the population that a whole-population pass has not read yet.
Unread(j) == {d \in Selected[j] \ locals[j].checked :
                 \A e \in Selected[j] \ locals[j].checked : d <= e}

Stop(l, reason, member) == [l EXCEPT !.reason = reason, !.member = member]

\* preflight_profiled_rollout: every member is read before any child starts.
Preflight(j) ==
    /\ pc[j] = "preflight"
    /\ \/ \E d \in Unread(j) :
            /\ running[d] = previous[j][d]
            /\ locals' = [locals EXCEPT ![j].checked = @ \cup {d}]
            /\ UNCHANGED <<pc, store>>
       \/ \* the positive preflight and its put_model, which may fail
          /\ Unread(j) = {}
          /\ \E stored \in BOOLEAN :
               /\ store' = [store EXCEPT ![j].preflight = stored]
               /\ locals' = [locals EXCEPT ![j] =
                    [(IF stored THEN @ ELSE Stop(@, "PREFLIGHT", NoDevice))
                        EXCEPT !.preflight = TRUE, !.checked = {}]]
               /\ Goto(j, IF stored THEN "pre" ELSE "parent")
       \/ \* a changed basis, or a provider that fails
          /\ locals' = [locals EXCEPT ![j] =
                    [Stop(@, "PREFLIGHT", NoDevice) EXCEPT !.checked = {}]]
          /\ Goto(j, "parent")
          /\ UNCHANGED store
    /\ UNCHANGED <<running, edits, jobVars, held, childVars, result>>

-----------------------------------------------------------------------------
\* One target-bound PRE observation, validated and saved, before a child starts.
CapturePre(j) ==
    /\ pc[j] = "pre"
    /\ \/ /\ locals' = [locals EXCEPT ![j].attempted = Append(@, NextMember(j))]
          /\ Goto(j, "child")
          /\ UNCHANGED <<held, result>>
       \/ /\ j \in Rollouts
          /\ locals' = [locals EXCEPT ![j] =
                            Stop(@, "PRE_CHRONOLOGY", NextMember(j))]
          /\ Goto(j, "parent")
          /\ UNCHANGED <<held, result>>
       \/ j \in Singles /\ Finish(j, "raised") /\ UNCHANGED locals
    /\ UNCHANGED <<running, edits, jobVars, childVars, store>>

\* Mutant: the device runs a known description again, so the rollout goes on.
ClassifiedRecovered(l, outcome) ==
    CASE outcome \in {"SUCCEEDED", "RECOVERED"} ->
            [l EXCEPT !.successful = Append(@, Last(l.attempted))]
      [] outcome = "escaped" ->
            Stop(l, "CHILD_EXECUTION_UNCERTAIN", Last(l.attempted))
      [] OTHER ->
            [Stop(l, "CHILD_NON_SUCCESS", Last(l.attempted))
                EXCEPT !.outcome = outcome]

\* What the caller makes of a child that ended. Only SUCCEEDED advances.
Classified(l, outcome) ==
    CASE outcome = "SUCCEEDED" ->
            [l EXCEPT !.successful = Append(@, Last(l.attempted))]
      [] outcome = "escaped" ->
            Stop(l, "CHILD_EXECUTION_UNCERTAIN", Last(l.attempted))
      [] OTHER ->
            [Stop(l, "CHILD_NON_SUCCESS", Last(l.attempted))
                EXCEPT !.outcome = outcome]

EndChild(j, outcome) ==
    /\ ended' = [ended EXCEPT ![j][Current(j)] = outcome]
    /\ locals' = [locals EXCEPT ![j] = Classified(@, outcome)]
    /\ Goto(j, "post")

Leaves(j, what) == remnant' = [remnant EXCEPT ![j] = what]

\* Mutant: the population preflight has read it already.
ChildTrusting(j) ==
    /\ pc[j] = "child"
    /\ Goto(j, "write")
    /\ UNCHANGED <<running, edits, jobVars, held, locals, childVars, store, result>>

\* The child's own fresh read: a changed baseline is stale, whoever changed it.
ChildRead(j) ==
    /\ pc[j] = "child"
    /\ \/ running[Current(j)] = previous[j][Current(j)]
          /\ Goto(j, "write") /\ UNCHANGED <<ended, locals>>
       \/ running[Current(j)] # previous[j][Current(j)] /\ EndChild(j, "STALE_PLAN")
       \/ EndChild(j, "BLOCKED")
    /\ UNCHANGED <<running, edits, jobVars, held, wrote, remnant, store, result>>

\* What the device may run after a forward write, and after it was restored.
Written(j) == {running, [running EXCEPT ![Current(j)] = Desired[j]]}
Restored(j) == [running EXCEPT ![Current(j)] = previous[j][Current(j)]]

\* Its one forward write, which the device takes or not.
ChildWrite(j) ==
    /\ pc[j] = "write"
    /\ Goto(j, "written")
    /\ wrote' = [wrote EXCEPT ![j] = @ \cup {Current(j)}]
    /\ running' \in Written(j)
    /\ UNCHANGED <<edits, jobVars, held, locals, ended, remnant, store, result>>

\* SUCCEEDED needs an independent read of the desired description. After any
\* other outcome the device may have been restored, by inverse or by rollback,
\* or its timer may yet do so.
ChildClose(j) ==
    /\ pc[j] = "written"
    /\ \/ /\ running[Current(j)] = Desired[j] /\ EndChild(j, "SUCCEEDED")
          /\ UNCHANGED <<running, remnant>>
       \/ /\ \E outcome \in StopOutcomes \ {"RECOVERED"} : EndChild(j, outcome)
          /\ \/ running' \in {running, Restored(j)} /\ UNCHANGED remnant
             \/ Leaves(j, "written") /\ UNCHANGED running
       \/ /\ "RECOVERED" \in StopOutcomes /\ EndChild(j, "RECOVERED")
          /\ running' = Restored(j) /\ UNCHANGED remnant
    /\ UNCHANGED <<edits, jobVars, held, wrote, store, result>>

\* Mutant: the try block around the child call also covers the POST.
ChildEscapeWide(j) ==
    /\ pc[j] \in {"child", "write", "written", "post"}
    /\ EndChild(j, "escaped")
    /\ UNCHANGED <<running, edits, jobVars, held, wrote, remnant, store, result>>

\* An exception escapes, or a single job finds no report it can verify.
ChildEscape(j) ==
    /\ pc[j] \in {"child", "write", "written"}
    /\ EndChild(j, "escaped")
    /\ UNCHANGED remnant \/ (pc[j] = "written" /\ Leaves(j, "written"))
    /\ UNCHANGED <<running, edits, jobVars, held, wrote, store, result>>

\* Mutant: every evidence failure is reported as one.
EvidenceFailedFlat(l) ==
    [l EXCEPT !.evidenceFailed = TRUE, !.member = Last(l.attempted),
              !.reason = "CHILD_EVIDENCE"]

\* Evidence failure: uncertainty about the write is not overwritten by it.
EvidenceFailed(l) ==
    [l EXCEPT !.evidenceFailed = TRUE, !.member = Last(l.attempted),
              !.reason = IF @ = "CHILD_EXECUTION_UNCERTAIN" THEN @
                         ELSE "CHILD_EVIDENCE"]

\* One POST observation, whatever became of the child, saved or not.
CapturePost(j) ==
    /\ pc[j] = "post"
    /\ \E post \in {"none", "SUCCESS", "FAILURE"}, saved \in BOOLEAN :
        LET l == [locals[j] EXCEPT !.post = post] IN
        /\ post = "none" => ~saved
        /\ locals' = [locals EXCEPT ![j] =
                IF post = "SUCCESS" /\ saved THEN l ELSE EvidenceFailed(l)]
    /\ Goto(j, IF j \in Rollouts THEN "persist" ELSE "publish")
    /\ UNCHANGED <<running, edits, jobVars, held, childVars, store, result>>

\* What the child audit says of the final outcome: null when the call escaped.
Audited(j) == LET end == ended[j][Current(j)] IN
              IF end = "escaped" THEN "unknown" ELSE end

Stored(j, upTo) ==
    LET d == Current(j) IN
    store' = [store EXCEPT
        ![j].audit[d] = IF upTo = 0 THEN @ ELSE Audited(j),
        ![j].chronology[d] = IF upTo < 2 THEN @ ELSE locals[j].post]

Referenced(l, upTo) ==
    [l EXCEPT !.audits = IF upTo = 0 THEN @ ELSE Append(@, Last(l.attempted)),
              !.chronologies = IF upTo < 2 THEN @ ELSE Append(@, Last(l.attempted))]

\* Mutant: the next member starts while this one's evidence is still missing.
PersistLater(j) ==
    /\ pc[j] = "persist"
    /\ UNCHANGED store
    /\ locals' = [locals EXCEPT ![j].post = "none"]
    /\ Goto(j, IF locals[j].reason # "none" THEN "parent"
               ELSE IF Len(locals[j].attempted) < Len(Order(j)) THEN "pre"
               ELSE "final")
    /\ UNCHANGED <<running, edits, jobVars, held, childVars, result>>

\* Execution bytes and child audit, then the chronology when there is a POST.
\* Any of it may fail, and what was stored until then stays.
Persist(j) ==
    /\ pc[j] = "persist"
    /\ LET whole == IF locals[j].post = "none" THEN 1 ELSE 2 IN
       \E upTo \in 0..whole :
         LET l == Referenced(locals[j], upTo)
             after == [(IF upTo = whole THEN l ELSE EvidenceFailed(l))
                            EXCEPT !.post = "none"]
         IN  /\ Stored(j, upTo)
             /\ locals' = [locals EXCEPT ![j] = after]
             /\ Goto(j, IF after.reason # "none" THEN "parent"
                        ELSE IF Len(after.attempted) < Len(Order(j)) THEN "pre"
                        ELSE "final")
    /\ UNCHANGED <<running, edits, jobVars, held, childVars, result>>

\* A single job publishes its execution record, then its chronology, and exits
\* zero only with both, a successful POST and a successful command.
Publish(j) ==
    /\ pc[j] = "publish"
    /\ \E upTo \in 0..(IF ended[j][Current(j)] = "escaped" THEN 0
                       ELSE IF locals[j].post = "none" THEN 1 ELSE 2) :
         /\ Stored(j, upTo)
         /\ Finish(j, IF /\ upTo = 2 /\ ~locals[j].evidenceFailed
                         /\ ended[j][Current(j)] \in {"SUCCEEDED", "RECOVERED"}
                      THEN "published" ELSE "unpublished")
    /\ UNCHANGED <<running, edits, jobVars, locals, childVars>>

-----------------------------------------------------------------------------
\* validate_rollout_final_state: D1 read afresh on every selected device.
FinalRead(j) ==
    /\ pc[j] = "final"
    /\ \/ \E d \in Unread(j) :
            /\ running[d] = Desired[j]
            /\ locals' = [locals EXCEPT ![j].checked = @ \cup {d}]
            /\ UNCHANGED pc
       \/ /\ \E status \in {"PASSED", "FAILED"} :
               /\ status = "PASSED" => Unread(j) = {}
               /\ locals' = [locals EXCEPT ![j].final = status,
                                           ![j].checked = {}]
          /\ Goto(j, "finalstore")
    /\ UNCHANGED <<running, edits, jobVars, held, childVars, store, result>>

FinalStore(j) ==
    /\ pc[j] = "finalstore"
    /\ locals' = [locals EXCEPT ![j] =
            IF @.final = "FAILED" THEN Stop(@, "FINAL_VALIDATION", NoDevice)
            ELSE @]
       \/ locals' = [locals EXCEPT ![j] =
            [Stop(@, "CHILD_EVIDENCE", NoDevice)
                EXCEPT !.final = "none", !.evidenceFailed = TRUE]]
    /\ Goto(j, "parent")
    /\ UNCHANGED <<running, edits, jobVars, held, childVars, store, result>>

RolloutOutcome(j) ==
    LET l == locals[j] IN
    CASE l.reason = "none" -> "SUCCEEDED"
      [] l.reason = "FINAL_VALIDATION" -> "FINAL_VALIDATION_FAILED"
      [] l.reason \notin {"none", "FINAL_VALIDATION"} ->
            IF l.evidenceFailed /\ Len(l.successful) = Len(Order(j))
            THEN "EVIDENCE_FAILED"
            ELSE IF l.successful # <<>> THEN "PARTIAL" ELSE "STOPPED"

-----------------------------------------------------------------------------
(***************************************************************************)
(* What the parent record's own validator (correlated) and the store's    *)
(* _verify_references accept. Facts both sides compute alike are left out.*)
(***************************************************************************)
ReasonValid(order, l, all) ==
    LET n == Len(l.attempted)
        last == n > 0 /\ l.member = l.attempted[n]
        butLast == n > 0 /\ l.successful = SubSeq(l.attempted, 1, n - 1) IN
    CASE l.reason = "PREFLIGHT" -> n = 0 /\ l.member = NoDevice
      [] l.reason = "PRE_CHRONOLOGY" ->
            n < Len(order) /\ l.member = order[n + 1] /\ l.successful = l.attempted
      [] l.reason = "CHILD_NON_SUCCESS" ->
            last /\ butLast /\ l.outcome \notin {"none", "SUCCEEDED"}
      [] l.reason = "CHILD_EXECUTION_UNCERTAIN" ->
            last /\ butLast /\ l.outcome = "none"
      [] l.reason = "CHILD_EVIDENCE" ->
            l.evidenceFailed /\ n > 0 /\ (last \/ (l.member = NoDevice /\ all))
      [] OTHER -> all /\ l.member = NoDevice

OutcomeValid(outcome, l, all) ==
    CASE outcome = "SUCCEEDED" -> all /\ l.final = "PASSED" /\ l.reason = "none"
      [] outcome = "FINAL_VALIDATION_FAILED" ->
            all /\ l.final = "FAILED" /\ l.reason = "FINAL_VALIDATION"
      [] outcome = "EVIDENCE_FAILED" ->
            all /\ l.evidenceFailed /\ l.reason = "CHILD_EVIDENCE"
      [] outcome = "PARTIAL" ->
            l.successful # <<>> /\ ~all /\ l.reason # "none"
      [] outcome = "STOPPED" -> l.successful = <<>> /\ l.reason # "none"

Correlated(order, l, outcome) ==
    LET n == Len(l.attempted)
        all == Len(l.successful) = Len(order)
        incompleteLast ==
            /\ l.evidenceFailed /\ n > 0
            /\ l.reason \in {"CHILD_EVIDENCE", "CHILD_EXECUTION_UNCERTAIN"}
            /\ l.member = l.attempted[n] IN
    /\ IsPrefix(l.attempted, order) /\ IsPrefix(l.successful, l.attempted)
    /\ IsPrefix(l.audits, l.attempted) /\ IsPrefix(l.chronologies, l.attempted)
    /\ n > 0 => l.preflight
    /\ n - (IF incompleteLast THEN 1 ELSE 0) <= Len(l.chronologies)
    /\ Len(l.chronologies) <= Len(l.audits)
    /\ ReasonValid(order, l, all)
    /\ l.evidenceFailed =>
           l.reason \in {"CHILD_EVIDENCE", "CHILD_EXECUTION_UNCERTAIN"}
    /\ OutcomeValid(outcome, l, all)

References(l, outcome, stored) ==
    /\ l.preflight => stored.preflight
    /\ \A d \in Range(l.audits) :
        /\ d \in Range(l.successful) <=> stored.audit[d] = "SUCCEEDED"
        /\ d = l.member /\ l.reason = "CHILD_EXECUTION_UNCERTAIN" =>
               stored.audit[d] = "unknown"
        /\ d = l.member /\ l.outcome # "none" => stored.audit[d] = l.outcome
    /\ \A d \in Range(l.chronologies) :
        stored.chronology[d] = "SUCCESS"
            \/ (l.evidenceFailed /\ d = l.member /\ outcome # "SUCCEEDED")

\* The parent record: built, checked against the store, published, read back.
Parent(j) ==
    /\ pc[j] = "parent"
    /\ LET outcome == RolloutOutcome(j) IN
       IF /\ Correlated(Order(j), locals[j], outcome)
          /\ References(locals[j], outcome, store[j])
       THEN \/ Finish(j, "raised")     \* the publication itself fails
            \/ /\ Goto(j, "done")
               /\ held' = [held EXCEPT ![j] = {}]
               /\ result' = [result EXCEPT ![j] =
                    [kind |-> "record", record |-> locals[j], outcome |-> outcome]]
       ELSE Finish(j, "rejected")
    /\ UNCHANGED <<running, edits, jobVars, locals, childVars, store>>

-----------------------------------------------------------------------------
\* The child of a single job is a process of its own, and nothing ends it with
\* the job. A rollout's child is part of the job: a request it has under way
\* and a rollback the device is to make are what is left of it.
Outlives(j) ==
    pc[j] \in IF j \in Singles THEN {"child", "write", "written"} ELSE {"write", "written"}

\* The job's process ends at any point, and with it its locks. A child call ends
\* with it or goes on without it.
Crash(j) ==
    /\ pc[j] \notin {"plan", "done"}
    /\ Finish(j, "crashed")
    /\ \/ /\ ended' = IF pc[j] \in {"child", "write", "written"}
                      THEN [ended EXCEPT ![j][Current(j)] = "escaped"] ELSE ended
          /\ UNCHANGED remnant
       \/ Outlives(j) /\ Leaves(j, pc[j]) /\ UNCHANGED ended
    /\ UNCHANGED <<running, edits, jobVars, locals, wrote, store>>

\* What is left of a child reads and writes as the child would have, and its
\* device may be restored last. It owes nothing: it may stop where it stands.
RemnantRead(j) ==
    /\ remnant[j] = "child"
    /\ running[Current(j)] = previous[j][Current(j)]
    /\ Leaves(j, "write")
    /\ UNCHANGED <<running, wrote, ended>>

RemnantWrite(j) ==
    /\ remnant[j] = "write"
    /\ Leaves(j, "written")
    /\ wrote' = [wrote EXCEPT ![j] = @ \cup {Current(j)}]
    /\ running' \in Written(j)
    /\ UNCHANGED ended

\* Nobody reads the report of a child that has outlived its job.
RemnantRestores(j) ==
    /\ remnant[j] = "written"
    /\ running' = Restored(j)
    /\ Leaves(j, "gone")
    /\ ended' = [ended EXCEPT ![j][Current(j)] = IF @ = "open" THEN "escaped" ELSE @]
    /\ UNCHANGED wrote

Remnant(j) ==
    /\ RemnantRead(j) \/ RemnantWrite(j) \/ RemnantRestores(j)
    /\ UNCHANGED <<edits, pc, jobVars, held, locals, store, result>>

OutOfBandEdit ==
    /\ edits < MaxEdits
    /\ edits' = edits + 1
    /\ \E d \in Devices, other \in Descriptions :
          running' = [running EXCEPT ![d] = other]
    /\ UNCHANGED <<pc, jobVars, held, locals, childVars, store, result>>

Child(j) == ChildRead(j) \/ ChildWrite(j) \/ ChildClose(j) \/ ChildEscape(j)

Job(j) == Plan(j) \/ Authorize(j) \/ Reserve(j) \/ Release(j)
            \/ Preflight(j) \/ CapturePre(j)
            \/ Child(j) \/ CapturePost(j) \/ Persist(j) \/ Publish(j)
            \/ FinalRead(j) \/ FinalStore(j) \/ Parent(j)

Next == OutOfBandEdit \/ \E j \in Jobs : Job(j) \/ Crash(j) \/ Remnant(j)

Spec == Init /\ [][Next]_vars

\* Where a job runs a command, or Ansible, without a time-out.
Commands == {"plan", "authorize", "preflight", "pre", "child", "write", "written",
             "post", "publish", "final"}

\* Nothing waits for a lock, and nothing but such a command keeps a job.
FairSpec == Spec /\ \A j \in Jobs : WF_vars(pc[j] \notin Commands /\ Job(j))

-----------------------------------------------------------------------------
\* Every variable has its type; members and stop facts name selected devices.
TypeOK ==
    /\ running \in [Devices -> Descriptions]
    /\ edits \in 0..MaxEdits
    /\ pc \in [Jobs -> {"plan", "authorize", "reserve", "release", "preflight",
                 "pre", "child", "write", "written", "post", "persist", "publish",
                 "final", "finalstore", "parent", "done"}]
    /\ previous \in [Jobs -> [Devices -> Descriptions]]
    /\ \A j \in Jobs :
        /\ held[j] \subseteq Selected[j] /\ wrote[j] \subseteq Selected[j]
        /\ Range(Order(j)) \subseteq Selected[j]
        /\ Range(locals[j].attempted) \subseteq Selected[j]
        /\ locals[j].member \in Selected[j] \cup {NoDevice}
        /\ locals[j].checked \subseteq Selected[j]
        /\ remnant[j] \in {"none", "child", "write", "written", "gone"}
        /\ \A d \in Devices :
            ended[j][d] \in {"open", "escaped", "SUCCEEDED", "RECOVERED"}
                                \cup StopOutcomes \cup NoWriteOutcomes

Working(j) == pc[j] \in {"preflight", "pre", "child", "write", "written", "post",
                         "persist", "publish", "final", "finalstore", "parent"}

\* From the first fresh read of its population to the end of its evidence a job
\* has reserved all of it, compliant members included: two jobs that are past
\* their reservation at the same time have no device in common.
DisjointPopulations ==
    \A j, k \in Jobs : Working(j) /\ Working(k) /\ j # k =>
        Selected[j] \cap Selected[k] = {}

\* A refusal is always somebody else's admission: overlapping jobs that take
\* their locks one by one and give all of them up never all refuse each other.
NeverAllRefused == \E j \in Jobs : result[j].kind \notin {"absent", "refused"}

\* A frozen plan is never written over a description it was not approved
\* against, even when another job planned and delivered after it was frozen,
\* save where the locks do not reach: a child that has outlived its job writes
\* after another job has, or the child that another job has left behind is at
\* work on the device.
NoBlindOverwrite ==
    [][edits = 0 => \A j \in Jobs : \A d \in wrote'[j] \ wrote[j] :
            \/ running[d] = previous[j][d]
            \/ \E k \in Jobs \ {j} :
                 /\ d \in wrote[k]
                 /\ \/ remnant[j] # "none"
                    \/ remnant[k] # "none" /\ d = Current(k)]_vars

\* "A different pre-write current description invalidates approval", and the
\* reservation is retained "through the protected device activity"
\* (docs/architecture/profiled-rollout-execution-admission.md): the property
\* without its exception, which a child that outlives its job breaks.
NeverBlind ==
    [][edits = 0 => \A j \in Jobs : \A d \in wrote'[j] \ wrote[j] :
            running[d] = previous[j][d]]_vars

\* A device is exposed only when everything the cohorts put before it has
\* succeeded and has its child audit and its chronology in the store.
EvidenceBeforeExposure ==
    \A j \in Rollouts : \A n \in 2..Len(locals[j].attempted) : \A m \in 1..(n - 1) :
        LET d == Order(j)[m] IN
        /\ ended[j][d] = "SUCCEEDED"
        /\ store[j].audit[d] = "SUCCEEDED" /\ store[j].chronology[d] = "SUCCESS"

\* The accumulated facts of a rollout always make a parent record that its
\* validator and the store accept, whatever failed in whatever order, except
\* when the preflight was positive and could not be stored.
ParentAccepted ==
    \A j \in Jobs : result[j].kind = "rejected" =>
        locals[j].preflight /\ ~store[j].preflight

\* The parent record tells the truth about the devices: untouched members were
\* never written, only the last attempted one may be unknown, and SUCCEEDED
\* means that every deployable member succeeded with all its evidence stored.
ParentTruth ==
    \A j \in Jobs : result[j].kind = "record" =>
        LET r == result[j].record IN
        /\ wrote[j] \subseteq Range(r.attempted)
        /\ \A d \in wrote[j] : d \in Range(r.audits) =>
                store[j].audit[d] \notin NoWriteOutcomes
        /\ \A d \in Deployable(j) : ended[j][d] = "escaped" =>
                r.reason = "CHILD_EXECUTION_UNCERTAIN" /\ r.member = d
        /\ result[j].outcome = "SUCCEEDED" => \A d \in Deployable(j) :
                /\ ended[j][d] = "SUCCEEDED" /\ store[j].audit[d] = "SUCCEEDED"
                /\ store[j].chronology[d] = "SUCCESS"

\* Whatever fails, crashes or is refused, a job ends with no device reserved,
\* unless it stays for ever in a command that never returns: no reservation, no
\* record and no refusal keeps it or its locks.
OnlyCommandsReserve ==
    \A j \in Jobs : \/ <>[](pc[j] = "done" /\ held[j] = {})
                    \/ <>[](pc[j] \in Commands)

\* Each child call, as its caller sequences it, is the transaction that
\* ProfiledExecution implements: one write at most, then one ending.
ChildOf(j, d) == INSTANCE ChildTransaction WITH
    phase <- IF ended[j][d] \in {"open", "escaped"} THEN ended[j][d] ELSE "closed",
    wrote <- d \in wrote[j],
    outcome <- IF ended[j][d] \in {"open", "escaped"} THEN "none" ELSE ended[j][d]

ImplementsChildren ==
    /\ \A j \in Jobs, d \in Devices : ChildOf(j, d)!ChildInit
    /\ [][\A j \in Jobs, d \in Devices :
            [ChildOf(j, d)!ChildNext]_(ChildOf(j, d)!childVars)]_vars
=============================================================================
