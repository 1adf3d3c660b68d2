-------------------------- MODULE AuditStoreProofs --------------------------
(***************************************************************************)
(* Theorems about AuditStore, for every number of jobs, every population  *)
(* of files and every number of faults.                                    *)
(*                                                                         *)
(* ReceiptDurable is not inductive: a failing publisher withdraws its own *)
(* entry, and only Linked says that this is never another's envelope;     *)
(* only Progress says that the file at hand is one of the job's files.    *)
(* Flushing a directory makes its entries certain and not their content;  *)
(* Whole says that the content is there already. VisibleRecordReadable    *)
(* needs Reached: what a publisher has behind it is readable, and stays so *)
(* until the first fault.                                                  *)
(***************************************************************************)
EXTENDS AuditStore, SequenceTheorems, TLAPS

Places ==
    {"prepare", "look", "verify", "write", "flush", "link", "sync",
     "readback", "receipt", "failed", "dead"}

Types ==
    /\ entry \in [Names -> Contents]
    /\ disk \in [Names -> SUBSET Contents]
    /\ pc \in [Jobs -> Places]
    /\ next \in [Jobs -> Nat]
    /\ flushed \in [Jobs -> BOOLEAN]
    /\ faults \in 0..MaxFaults

\* Where a job stands among its files.
At(j, at, i) ==
    /\ i \in 1..Len(Files(j))
    /\ at \in {"prepare", "look"} => i < Len(Files(j))
    /\ at = "prepare" => i = 1
    /\ at = "verify" => i = Len(Inputs[j]) + 1

Progress == \A j \in Jobs : At(j, pc[j], next[j])

\* An entry that is not flushed yet still shows its publisher's content.
Linked == \A j \in Jobs : pc[j] = "sync" => entry[File(j)] = j

\* A flushed envelope stays.
Durable ==
    \A j \in Jobs :
        /\ pc[j] \in {"readback", "receipt"}
        /\ Dir[Envelope[j]] \notin Fresh
        => entry[Envelope[j]] = j /\ disk[Envelope[j]] = {j}

IInv == Types /\ Progress /\ Linked /\ Durable

\* Nothing is linked before its content is flushed, so nothing can be torn.
Whole ==
    /\ \A n \in Names : Torn \notin disk[n] /\ entry[n] # Torn
    /\ \A j \in Jobs : pc[j] = "link" => flushed[j]

-----------------------------------------------------------------------------
\* The envelope follows the artifacts and the original bytes.
LEMMA PartsFacts ==
  ASSUME NEW S, NEW a \in Seq(S), NEW b \in Seq(S), NEW e \in S
  PROVE  LET q == Append(a \o b, e) IN
         /\ q \in Seq(S)
         /\ Len(q) = Len(a) + Len(b) + 1
         /\ q[Len(q)] = e
<1> DEFINE ab == a \o b
<1>1. ab \in Seq(S) /\ Len(ab) = Len(a) + Len(b)
  BY ConcatProperties
<1> HIDE DEF ab
<1>2. /\ Append(ab, e) \in Seq(S)
      /\ Len(Append(ab, e)) = Len(ab) + 1
      /\ Append(ab, e)[Len(ab) + 1] = e
  BY <1>1, AppendProperties
<1> QED
  BY <1>1, <1>2 DEF ab

LEMMA FilesFacts ==
  ASSUME NEW j \in Jobs
  PROVE  /\ Files(j) \in Seq(Names)
         /\ Files(j)[Len(Files(j))] = Envelope[j]
  BY PartsFacts, AuditStoreAssumption DEF Files

LEMMA FilesLength ==
  ASSUME NEW j \in Jobs
  PROVE  /\ Len(Files(j)) \in Nat
         /\ Len(Inputs[j]) \in Nat /\ Len(Inputs[j]) > 0
         /\ Len(Bytes[j]) \in Nat
         /\ Len(Files(j)) = Len(Inputs[j]) + Len(Bytes[j]) + 1
         /\ Bytes[j] # <<>> => Len(Bytes[j]) # 0
<1>1. Inputs[j] \in Seq(Names) /\ Inputs[j] # <<>> /\ Bytes[j] \in Seq(Names)
      /\ Envelope[j] \in Names
  BY AuditStoreAssumption
<1>2. Len(Inputs[j]) \in Nat /\ Len(Inputs[j]) > 0 /\ Len(Bytes[j]) \in Nat
      /\ (Bytes[j] # <<>> => Len(Bytes[j]) # 0)
  BY <1>1
<1>3. Files(j) \in Seq(Names)
      /\ Len(Files(j)) = Len(Inputs[j]) + Len(Bytes[j]) + 1
  BY <1>1, PartsFacts DEF Files
<1>4. Len(Files(j)) \in Nat
  BY <1>3, LenProperties
<1> QED
  BY <1>2, <1>3, <1>4

LEMMA FileIsName ==
  ASSUME IInv, NEW j \in Jobs
  PROVE  File(j) \in Names
<1>1. next[j] \in 1..Len(Files(j)) /\ Files(j) \in Seq(Names)
  BY FilesFacts DEF IInv, Progress, At
<1> QED
  BY <1>1 DEF File

LEMMA NotAJob == Absent \notin Jobs
  BY AuditStoreAssumption

LEMMA InitIInv == Init => IInv
<1> SUFFICES ASSUME Init PROVE IInv
  OBVIOUS
<1>1. Types
  BY AuditStoreAssumption DEF Init, Types, Places, Contents
<1>2. Progress
  <2> SUFFICES ASSUME NEW j \in Jobs
               PROVE  At(j, pc[j], next[j])
    BY DEF Progress
  <2>1. pc[j] = "prepare" /\ next[j] = 1
    BY DEF Init
  <2>2. /\ Len(Inputs[j]) \in Nat /\ Len(Inputs[j]) > 0
        /\ Len(Bytes[j]) \in Nat /\ Len(Files(j)) \in Nat
        /\ Len(Files(j)) = Len(Inputs[j]) + Len(Bytes[j]) + 1
    BY FilesLength
  <2>3. \A a, b \in Nat : \A c : a > 0 /\ c = a + b + 1 => 1 < c /\ 1 \in 1..c
    OBVIOUS
  <2>4. 1 < Len(Files(j)) /\ 1 \in 1..Len(Files(j))
    BY <2>2, <2>3
  <2> QED
    BY <2>1, <2>4 DEF At
<1> QED
  BY <1>1, <1>2 DEF Init, IInv, Linked, Durable

-----------------------------------------------------------------------------
\* What a step of job j has to show that leaves the files as they are.
LEMMA QuietStep ==
  ASSUME IInv, NEW j \in Jobs, NEW at \in Places, NEW i \in Nat,
         pc' = [pc EXCEPT ![j] = at], next' = [next EXCEPT ![j] = i],
         UNCHANGED <<entry, disk, faults>>, flushed' \in [Jobs -> BOOLEAN],
         At(j, at, i), at \notin {"sync", "readback"},
         at = "receipt" => pc[j] = "readback"
  PROVE  IInv'
<1>1. Types'
  BY DEF IInv, Types
<1>2. \A k \in Jobs : /\ pc'[k] = IF k = j THEN at ELSE pc[k]
                      /\ next'[k] = IF k = j THEN i ELSE next[k]
  BY DEF IInv, Types
<1>3. Progress'
  BY <1>2 DEF IInv, Progress, At, Files
<1>4. Linked'
  BY <1>2 DEF IInv, Linked, File, Files
<1>5. Durable'
  BY <1>2 DEF IInv, Durable
<1> QED
  BY <1>1, <1>3, <1>4, <1>5 DEF IInv

\* The same where the job stays at its file.
LEMMA QuietGoto ==
  ASSUME IInv, NEW j \in Jobs, NEW at \in Places, Goto(j, at), UNCHANGED next,
         UNCHANGED <<entry, disk, faults>>, flushed' \in [Jobs -> BOOLEAN],
         at \notin {"prepare", "look", "verify", "sync", "readback"},
         at = "receipt" => pc[j] = "readback"
  PROVE  IInv'
<1>1. next' = [next EXCEPT ![j] = next[j]] /\ next[j] \in Nat
  BY DEF IInv, Types
<1>2. At(j, at, next[j])
  BY DEF IInv, Progress, At
<1> QED
  BY <1>1, <1>2, QuietStep DEF Goto

\* A job that goes on from a file that is not its envelope.
LEMMA AdvanceFacts ==
  ASSUME IInv, NEW j \in Jobs, next[j] < Len(Files(j)), Advance(j)
  PROVE  \E at \in {"verify", "write", "look"} :
            /\ pc' = [pc EXCEPT ![j] = at]
            /\ next' = [next EXCEPT ![j] = next[j] + 1]
            /\ next[j] + 1 \in Nat
            /\ At(j, at, next[j] + 1)
<1>1. next[j] \in 1..Len(Files(j)) /\ next[j] \in Nat
  BY DEF IInv, Types, Progress, At
<1>2. CASE next[j] = Len(Inputs[j])
  <2>1. At(j, "verify", next[j] + 1)
    BY <1>1, <1>2, FilesLength DEF At
  <2> QED
    BY <1>1, <1>2, <2>1 DEF Advance, Goto
<1>3. CASE next[j] # Len(Inputs[j]) /\ next[j] + 1 = Len(Files(j))
  <2>1. At(j, "write", next[j] + 1)
    BY <1>1, <1>3, FilesLength DEF At
  <2>2. pc' = [pc EXCEPT ![j] = "write"]
    BY <1>3 DEF Advance, Goto
  <2> QED
    BY <1>1, <2>1, <2>2 DEF Advance
<1>4. CASE next[j] # Len(Inputs[j]) /\ next[j] + 1 # Len(Files(j))
  <2>1. At(j, "look", next[j] + 1)
    BY <1>1, <1>4, FilesLength DEF At
  <2> QED
    BY <1>1, <1>4, <2>1 DEF Advance, Goto
<1> QED
  BY <1>2, <1>3, <1>4

LEMMA QuietAdvance ==
  ASSUME IInv, NEW j \in Jobs, next[j] < Len(Files(j)), Advance(j),
         UNCHANGED <<entry, disk, flushed, faults>>
  PROVE  IInv'
<1>1. PICK at \in {"verify", "write", "look"} :
            /\ pc' = [pc EXCEPT ![j] = at]
            /\ next' = [next EXCEPT ![j] = next[j] + 1]
            /\ next[j] + 1 \in Nat
            /\ At(j, at, next[j] + 1)
  BY AdvanceFacts
<1>2. at \in Places /\ flushed' \in [Jobs -> BOOLEAN]
  BY DEF Places, IInv, Types
<1> QED
  BY <1>1, <1>2, QuietStep

LEMMA ReuseIInv ==
  ASSUME IInv, NEW j \in Jobs, next[j] < Len(Files(j)), Reuse(j),
         UNCHANGED <<entry, disk, flushed, faults>>
  PROVE  IInv'
<1>1. CASE Advance(j)
  BY <1>1, QuietAdvance
<1>2. CASE Fail(j)
  BY <1>2, QuietGoto DEF Fail, Places, IInv, Types
<1> QED
  BY <1>1, <1>2 DEF Reuse

-----------------------------------------------------------------------------
LEMMA PrepareIInv ==
  ASSUME IInv, NEW j \in Jobs, Prepare(j)
  PROVE  IInv'
<1>1. UNCHANGED <<entry, disk, next, flushed, faults>>
      /\ flushed' \in [Jobs -> BOOLEAN]
  BY DEF Prepare, IInv, Types
<1>2. next' = [next EXCEPT ![j] = next[j]] /\ next[j] \in Nat
  BY <1>1 DEF IInv, Types
<1>3. At(j, "look", next[j]) /\ At(j, "failed", next[j])
  BY DEF IInv, Progress, At, Prepare
<1>4. \E at \in {"look", "failed"} : pc' = [pc EXCEPT ![j] = at]
  BY DEF Prepare, Goto
<1> QED
  BY <1>1, <1>2, <1>3, <1>4, QuietStep DEF Places

LEMMA LookIInv ==
  ASSUME IInv, NEW j \in Jobs, Look(j)
  PROVE  IInv'
<1>1. UNCHANGED <<entry, disk, flushed, faults>> /\ flushed' \in [Jobs -> BOOLEAN]
  BY DEF Look, IInv, Types
<1>2. next[j] < Len(Files(j))
  BY DEF Look, IInv, Progress, At
<1>3. CASE Goto(j, "write") /\ UNCHANGED next
  BY <1>1, <1>3, QuietGoto DEF Places
<1>4. CASE Reuse(j)
  BY <1>1, <1>2, <1>4, ReuseIInv
<1> QED
  BY <1>3, <1>4 DEF Look

LEMMA VerifyIInv ==
  ASSUME IInv, NEW j \in Jobs, Verify(j)
  PROVE  IInv'
<1>1. UNCHANGED <<entry, disk, next, flushed, faults>>
      /\ flushed' \in [Jobs -> BOOLEAN]
  BY DEF Verify, IInv, Types
<1>2. next' = [next EXCEPT ![j] = next[j]] /\ next[j] \in Nat
  BY <1>1 DEF IInv, Types
<1>3. CASE Goto(j, "failed") \/ Goto(j, "write")
  BY <1>1, <1>3, QuietGoto DEF Places
<1>4. CASE Goto(j, "look") /\ Bytes[j] # <<>>
  <2>1. next[j] = Len(Inputs[j]) + 1 /\ next[j] \in 1..Len(Files(j))
    BY DEF Verify, IInv, Progress, At
  <2>2. \A a, b, c, i \in Nat :
            b # 0 /\ c = a + b + 1 /\ i = a + 1 => i < c
    OBVIOUS
  <2>3. next[j] < Len(Files(j))
    BY <1>2, <1>4, <2>1, <2>2, FilesLength
  <2>4. At(j, "look", next[j])
    BY <2>1, <2>3 DEF At
  <2> QED
    BY <1>1, <1>2, <1>4, <2>4, QuietStep DEF Places, Goto
<1>5. \/ Goto(j, "failed") \/ Goto(j, "write")
      \/ Goto(j, "look") /\ Bytes[j] # <<>>
  BY DEF Verify
<1> QED
  BY <1>3, <1>4, <1>5

LEMMA WriteFlushIInv ==
  ASSUME IInv, NEW j \in Jobs, Write(j) \/ Flush(j)
  PROVE  IInv'
<1>1. UNCHANGED <<entry, disk, next, faults>>
  BY DEF Write, Flush
<1>2. flushed' \in [Jobs -> BOOLEAN]
  BY DEF Write, Flush, IInv, Types
<1>3. Goto(j, "flush") \/ Goto(j, "link") \/ Goto(j, "failed")
  BY DEF Write, Flush
<1> QED
  BY <1>1, <1>2, <1>3, QuietGoto DEF Places

LEMMA LinkIInv ==
  ASSUME IInv, NEW j \in Jobs, Link(j)
  PROVE  IInv'
<1>1. UNCHANGED <<flushed, faults>> /\ flushed' \in [Jobs -> BOOLEAN]
  BY DEF Link, IInv, Types
<1>2. CASE entry[File(j)] # Absent
  <2>1. UNCHANGED <<entry, disk>>
    BY <1>2 DEF Link
  <2>2. CASE AtEnvelope(j)
    BY <1>1, <1>2, <2>1, <2>2, QuietGoto DEF Link, Fail, Places
  <2>3. CASE ~AtEnvelope(j)
    <3>1. next[j] < Len(Files(j))
      BY <2>3, FilesLength DEF AtEnvelope, IInv, Progress, At
    <3> QED
      BY <1>1, <1>2, <2>1, <2>3, <3>1, ReuseIInv DEF Link
  <2> QED
    BY <2>2, <2>3
<1>3. CASE entry[File(j)] = Absent
  <2> DEFINE n == File(j)
  <2>1. /\ n \in Names /\ entry[n] = Absent
        /\ entry' = [entry EXCEPT ![n] = j]
        /\ disk' = [disk EXCEPT ![n] =
                @ \cup (IF flushed[j] THEN {j} ELSE {j, Torn})]
        /\ pc' = [pc EXCEPT ![j] = "sync"] /\ next' = next
    BY <1>3, FileIsName DEF Link, Goto
  <2> HIDE DEF n
  <2>2. Types'
    BY <1>1, <2>1 DEF IInv, Types, Contents, Places
  <2>3. Progress'
    BY <2>1 DEF IInv, Types, Progress, At, Files
  <2>4. ASSUME NEW k \in Jobs, pc'[k] = "sync"
        PROVE  entry'[File(k)'] = k
    <3>1. File(k)' = File(k) /\ File(k) \in Names
      BY <2>1, FileIsName DEF File, Files
    <3>2. CASE k = j
      BY <2>1, <3>1, <3>2 DEF IInv, Types, n
    <3>3. CASE k # j
      <4>1. entry[File(k)] = k
        BY <2>1, <2>4, <3>3 DEF IInv, Types, Linked
      <4> QED
        BY <2>1, <3>1, <4>1, NotAJob DEF IInv, Types
    <3> QED
      BY <3>2, <3>3
  <2>5. Durable'
    BY <2>1, NotAJob DEF IInv, Types, Durable
  <2> QED
    BY <2>2, <2>3, <2>4, <2>5 DEF IInv, Linked
<1> QED
  BY <1>2, <1>3

LEMMA SettleType ==
  ASSUME IInv, NEW d, entry' \in [Names -> Contents]
  PROVE  Settle(d) \in [Names -> SUBSET Contents]
  BY DEF IInv, Types, Settle

LEMMA SettleWhole ==
  ASSUME Whole, NEW d
  PROVE  Settle(d) = [n \in Names |-> IF Dir[n] = d THEN {entry'[n]} ELSE disk[n]]
<1>1. \A n \in Names : disk[n] \cap {Torn} = {}
  BY DEF Whole
<1> QED
  BY <1>1 DEF Settle

LEMMA SyncDirectoryIInv ==
  ASSUME IInv, Whole, NEW j \in Jobs, SyncDirectory(j)
  PROVE  IInv'
<1>1. /\ pc[j] = "sync" /\ entry' = entry /\ disk' = Settle(Dir[File(j)])
      /\ UNCHANGED <<flushed, faults>> /\ entry[File(j)] = j
      /\ File(j) \in Names
  BY FileIsName DEF SyncDirectory, IInv, Linked
<1>2. disk' \in [Names -> SUBSET Contents]
  BY <1>1, SettleType DEF IInv, Types
<1>3. \A n \in Names : disk'[n] = IF Dir[n] = Dir[File(j)] THEN {entry[n]}
                                                         ELSE disk[n]
  BY <1>1, SettleWhole
<1>5. \E at \in {"readback", "verify", "write", "look"} : \E i \in Nat :
          /\ pc' = [pc EXCEPT ![j] = at] /\ next' = [next EXCEPT ![j] = i]
          /\ At(j, at, i)
          /\ at = "readback" => File(j) = Envelope[j]
  <2>1. CASE AtEnvelope(j)
    <3>1. pc' = [pc EXCEPT ![j] = "readback"] /\ next' = next
      BY <2>1 DEF SyncDirectory, Goto
    <3>2. next' = [next EXCEPT ![j] = next[j]] /\ next[j] \in Nat
      BY <3>1 DEF IInv, Types
    <3>3. At(j, "readback", next[j])
      BY DEF IInv, Progress, At
    <3>4. File(j) = Envelope[j]
      BY <2>1, FilesFacts DEF AtEnvelope, File
    <3> QED
      BY <3>1, <3>2, <3>3, <3>4
  <2>2. CASE ~AtEnvelope(j)
    <3>1. next[j] < Len(Files(j))
      BY <2>2, FilesLength DEF AtEnvelope, IInv, Progress, At
    <3>2. Advance(j)
      BY <2>2 DEF SyncDirectory
    <3> QED
      BY <3>1, <3>2, AdvanceFacts
  <2> QED
    BY <2>1, <2>2
<1>6. PICK at \in {"readback", "verify", "write", "look"}, i \in Nat :
          /\ pc' = [pc EXCEPT ![j] = at] /\ next' = [next EXCEPT ![j] = i]
          /\ At(j, at, i)
          /\ at = "readback" => File(j) = Envelope[j]
  BY <1>5
<1>7. Types'
  BY <1>1, <1>2, <1>6 DEF IInv, Types, Places
<1>8. \A k \in Jobs : /\ pc'[k] = IF k = j THEN at ELSE pc[k]
                      /\ next'[k] = IF k = j THEN i ELSE next[k]
  BY <1>6 DEF IInv, Types
<1>9. Progress'
  <2>1. ASSUME NEW k \in Jobs
        PROVE  At(k, pc'[k], next'[k])
    <3>1. At(k, pc[k], next[k])
      BY DEF IInv, Progress
    <3> QED
      BY <1>6, <1>8, <3>1
  <2> QED
    BY <2>1 DEF Progress, At, Files
<1>10. Linked'
  BY <1>1, <1>8 DEF IInv, Linked, File, Files
<1>11. ASSUME NEW k \in Jobs, pc'[k] \in {"readback", "receipt"},
              Dir[Envelope[k]] \notin Fresh
       PROVE  entry'[Envelope[k]] = k /\ disk'[Envelope[k]] = {k}
  <2>1. Envelope[k] \in Names
    BY AuditStoreAssumption
  <2>2. CASE k = j
    <3>1. File(j) = Envelope[j]
      BY <1>6, <1>8, <1>11, <2>2
    <3> QED
      BY <1>1, <1>3, <2>1, <2>2, <3>1
  <2>3. CASE k # j
    <3>1. entry[Envelope[k]] = k /\ disk[Envelope[k]] = {k}
      BY <1>8, <1>11, <2>3 DEF IInv, Durable
    <3> QED
      BY <1>1, <1>3, <2>1, <3>1
  <2> QED
    BY <2>2, <2>3
<1> QED
  BY <1>7, <1>9, <1>10, <1>11 DEF IInv, Durable

LEMMA SyncFailsIInv ==
  ASSUME IInv, Whole, NEW j \in Jobs, SyncFails(j)
  PROVE  IInv'
<1> DEFINE n == File(j)
<1>1. /\ pc[j] = "sync" /\ pc' = [pc EXCEPT ![j] = "failed"] /\ next' = next
      /\ flushed' = flushed /\ faults < MaxFaults /\ faults' = faults + 1
      /\ n \in Names /\ entry[n] = j
  BY FileIsName DEF SyncFails, Fail, Goto, IInv, Linked
<1>2. \A k \in Jobs : /\ pc'[k] = IF k = j THEN "failed" ELSE pc[k]
                      /\ next'[k] = next[k]
  BY <1>1 DEF IInv, Types
<1>3. /\ entry' \in [Names -> Contents]
      /\ \A m \in Names : m # n => entry'[m] = entry[m]
  <2>1. entry' = entry \/ entry' = [entry EXCEPT ![n] = Absent]
    BY DEF SyncFails
  <2> QED
    BY <2>1 DEF IInv, Types, Contents
<1>4. /\ disk' \in [Names -> SUBSET Contents]
      /\ \A m \in Names : m # n => disk'[m] \in {disk[m], {entry'[m]}}
  <2>1. \/ disk' = disk
        \/ disk' = [disk EXCEPT ![n] = @ \cup {Absent}]
        \/ disk' = Settle(Dir[n])
    BY DEF SyncFails
  <2>2. CASE disk' = Settle(Dir[n])
    <3>1. disk' \in [Names -> SUBSET Contents]
      BY <1>3, <2>2, SettleType
    <3> QED
      BY <2>2, <3>1, SettleWhole
  <2>3. CASE disk' = disk \/ disk' = [disk EXCEPT ![n] = @ \cup {Absent}]
    BY <2>3 DEF IInv, Types, Contents
  <2> QED
    BY <2>1, <2>2, <2>3
<1> HIDE DEF n
<1>5. Types'
  <2>1. MaxFaults \in Nat /\ faults \in 0..MaxFaults
    BY AuditStoreAssumption DEF IInv, Types
  <2>2. faults' \in 0..MaxFaults
    BY <1>1, <2>1
  <2> QED
    BY <1>1, <1>3, <1>4, <2>2 DEF IInv, Types, Places
<1>6. Progress'
  BY <1>2 DEF IInv, Progress, At, Files
<1>7. ASSUME NEW k \in Jobs, pc'[k] = "sync"
      PROVE  entry'[File(k)'] = k
  <2>1. File(k)' = File(k) /\ File(k) \in Names
    BY <1>1, FileIsName DEF File, Files
  <2>2. k # j /\ pc[k] = "sync"
    BY <1>2, <1>7
  <2>3. entry[File(k)] = k
    BY <2>2 DEF IInv, Linked
  <2> QED
    BY <1>1, <1>3, <2>1, <2>2, <2>3
<1>8. ASSUME NEW k \in Jobs, pc'[k] \in {"readback", "receipt"},
             Dir[Envelope[k]] \notin Fresh
      PROVE  entry'[Envelope[k]] = k /\ disk'[Envelope[k]] = {k}
  <2>1. /\ k # j /\ Envelope[k] \in Names
        /\ entry[Envelope[k]] = k /\ disk[Envelope[k]] = {k}
    BY <1>2, <1>8, AuditStoreAssumption DEF IInv, Durable
  <2> QED
    BY <1>1, <1>3, <1>4, <2>1
<1> QED
  BY <1>5, <1>6, <1>7, <1>8 DEF IInv, Linked, Durable

LEMMA ReadBackIInv ==
  ASSUME IInv, NEW j \in Jobs, ReadBack(j)
  PROVE  IInv'
<1>1. pc[j] = "readback" /\ UNCHANGED <<entry, disk, next, flushed, faults>>
      /\ flushed' \in [Jobs -> BOOLEAN]
  BY DEF ReadBack, IInv, Types
<1>2. Goto(j, "receipt") \/ Goto(j, "failed")
  BY DEF ReadBack
<1> QED
  BY <1>1, <1>2, QuietGoto DEF Places

LEMMA CrashIInv ==
  ASSUME IInv, NEW j \in Jobs, Crash(j)
  PROVE  IInv'
<1>1. UNCHANGED <<entry, disk, next, flushed, faults>>
      /\ flushed' \in [Jobs -> BOOLEAN] /\ Goto(j, "dead")
  BY DEF Crash, IInv, Types
<1> QED
  BY <1>1, QuietGoto DEF Places

LEMMA PowerLossIInv ==
  ASSUME IInv, PowerLoss
  PROVE  IInv'
<1>1. PICK gone \in SUBSET Fresh : \E left \in [Names -> Contents] :
         /\ \A n \in Names : left[n] \in IF Dir[n] \in gone THEN {Absent}
                                                            ELSE disk[n]
         /\ entry' = left
  BY DEF PowerLoss
<1>2. /\ entry' \in [Names -> Contents]
      /\ \A n \in Names : Dir[n] \notin gone => entry'[n] \in disk[n]
  BY <1>1
<1>3. /\ disk' = [n \in Names |-> {entry'[n]}]
      /\ pc' = [j \in Jobs |-> IF pc[j] \in Stopped THEN pc[j] ELSE "dead"]
      /\ UNCHANGED <<next, flushed>>
      /\ faults < MaxFaults /\ faults' = faults + 1
  BY DEF PowerLoss
<1>4. Types'
  <2>1. MaxFaults \in Nat /\ faults \in 0..MaxFaults
    BY AuditStoreAssumption DEF IInv, Types
  <2>2. faults' \in 0..MaxFaults
    BY <1>3, <2>1
  <2>3. disk' \in [Names -> SUBSET Contents]
    BY <1>2, <1>3
  <2>4. pc' \in [Jobs -> Places]
    BY <1>3 DEF IInv, Types, Places, Stopped
  <2> QED
    BY <1>2, <1>3, <2>2, <2>3, <2>4 DEF IInv, Types
<1>5. Progress'
  BY <1>3 DEF IInv, Progress, At, Files, Stopped
<1>6. Linked'
  BY <1>3 DEF Linked, Stopped
<1>7. ASSUME NEW k \in Jobs, pc'[k] \in {"readback", "receipt"},
             Dir[Envelope[k]] \notin Fresh
      PROVE  entry'[Envelope[k]] = k /\ disk'[Envelope[k]] = {k}
  <2>1. pc[k] = "receipt"
    BY <1>3, <1>7 DEF Stopped
  <2>2. Envelope[k] \in Names /\ disk[Envelope[k]] = {k}
    BY <1>7, <2>1, AuditStoreAssumption DEF IInv, Durable
  <2> QED
    BY <1>2, <1>3, <1>7, <2>2
<1> QED
  BY <1>4, <1>5, <1>6, <1>7 DEF IInv, Durable

LEMMA NextWhole == Types /\ Whole /\ [Next]_vars => Whole'
<1> SUFFICES ASSUME Types, Whole, [Next]_vars
             PROVE  Whole'
  OBVIOUS
<1>1. ASSUME NEW j \in Jobs,
             Prepare(j) \/ Look(j) \/ Verify(j) \/ Write(j) \/ ReadBack(j) \/ Crash(j)
      PROVE  Whole'
  <2>1. UNCHANGED <<entry, disk>>
    BY <1>1 DEF Prepare, Look, Reuse, Verify, Write, ReadBack, Crash
  <2>2. \E at \in Places \ {"link"} : pc' = [pc EXCEPT ![j] = at]
    BY <1>1 DEF Prepare, Look, Reuse, Advance, Fail, Verify, Write, ReadBack,
                Crash, Goto, Places
  <2>3. \A k \in Jobs \ {j} : flushed'[k] = flushed[k]
    BY <1>1 DEF Prepare, Look, Verify, Write, ReadBack, Crash, Types
  <2> QED
    BY <2>1, <2>2, <2>3 DEF Types, Whole
<1>2. ASSUME NEW j \in Jobs, Flush(j)
      PROVE  Whole'
  BY <1>2 DEF Flush, Goto, Types, Whole
<1>3. ASSUME NEW j \in Jobs, Link(j)
      PROVE  Whole'
  <2>1. /\ pc[j] = "link" /\ flushed[j] /\ flushed' = flushed
        /\ j # Torn
    BY <1>3, AuditStoreAssumption DEF Link, Whole
  <2>2. \E at \in Places \ {"link"} : pc' = [pc EXCEPT ![j] = at]
    BY <1>3 DEF Link, Reuse, Advance, Fail, Goto, Places
  <2>3. \A n \in Names : Torn \notin disk'[n] /\ entry'[n] # Torn
    BY <1>3, <2>1 DEF Link, Types, Whole
  <2> QED
    BY <2>1, <2>2, <2>3 DEF Types, Whole
<1>4. ASSUME NEW j \in Jobs, SyncDirectory(j) \/ SyncFails(j)
      PROVE  Whole'
  <2>1. flushed' = flushed
    BY <1>4 DEF SyncDirectory, SyncFails
  <2>2. \E at \in Places \ {"link"} : pc' = [pc EXCEPT ![j] = at]
    BY <1>4 DEF SyncDirectory, SyncFails, Advance, Fail, Goto, Places
  <2>3. \A n \in Names : entry'[n] # Torn
    <3>1. entry' = entry \/ entry' = [entry EXCEPT ![File(j)] = Absent]
      BY <1>4 DEF SyncDirectory, SyncFails
    <3> QED
      BY <3>1, AuditStoreAssumption DEF Types, Whole
  <2>4. \A n \in Names : Torn \notin disk'[n]
    <3>1. \/ disk' = disk \/ disk' = [disk EXCEPT ![File(j)] = @ \cup {Absent}]
          \/ disk' = Settle(Dir[File(j)])
      BY <1>4 DEF SyncDirectory, SyncFails
    <3>2. Absent # Torn
      BY AuditStoreAssumption
    <3> QED
      BY <2>3, <3>1, <3>2, SettleWhole DEF Types, Whole
  <2> QED
    BY <2>1, <2>2, <2>3, <2>4 DEF Types, Whole
<1>5. CASE PowerLoss
  <2>1. PICK gone \in SUBSET Fresh, left \in [Names -> Contents] :
           /\ \A n \in Names : left[n] \in IF Dir[n] \in gone THEN {Absent}
                                                              ELSE disk[n]
           /\ entry' = left
    BY <1>5 DEF PowerLoss
  <2>2. Absent # Torn
    BY AuditStoreAssumption
  <2>3. \A n \in Names : entry'[n] # Torn
    BY <2>1, <2>2 DEF Whole
  <2> QED
    BY <1>5, <2>3 DEF PowerLoss, Stopped, Whole
<1>6. CASE UNCHANGED vars
  BY <1>6 DEF vars, Whole
<1> QED
  BY <1>1, <1>2, <1>3, <1>4, <1>5, <1>6 DEF Next, Publisher

LEMMA NextIInv == IInv /\ Whole /\ [Next]_vars => IInv'
<1> SUFFICES ASSUME IInv, Whole, [Next]_vars
             PROVE  IInv'
  OBVIOUS
<1>1. ASSUME NEW j \in Jobs, Publisher(j)
      PROVE  IInv'
  BY <1>1, PrepareIInv, LookIInv, VerifyIInv, WriteFlushIInv, LinkIInv,
     SyncDirectoryIInv, SyncFailsIInv, ReadBackIInv DEF Publisher
<1>2. CASE UNCHANGED vars
  <2>1. Types' /\ Progress'
    BY <1>2 DEF vars, IInv, Types, Progress, At, Files
  <2>2. Linked' /\ Durable'
    BY <1>2 DEF vars, IInv, Linked, Durable, File, Files
  <2> QED
    BY <2>1, <2>2 DEF IInv
<1> QED
  BY <1>1, <1>2, CrashIInv, PowerLossIInv DEF Next

-----------------------------------------------------------------------------
\* Types, the place of every publisher among its files, the ownership of an
\* entry that is not flushed yet, whole content, and the permanence of a flushed envelope hold
\* whenever publishers run.
THEOREM Publications == Spec => [](IInv /\ Whole)
<1>1. Init => Whole
  BY AuditStoreAssumption DEF Init, Whole
<1>2. IInv => Types
  BY DEF IInv
<1> QED
  BY <1>1, <1>2, InitIInv, NextIInv, NextWhole, PTL DEF Spec

\* The store's variables keep their types, and a publisher is always at one of
\* its files.
THEOREM StoreTypeCorrect == Spec => []TypeOK
<1>1. IInv => TypeOK
  <2> SUFFICES ASSUME IInv
               PROVE  TypeOK
    OBVIOUS
  <2>1. \A j \in Jobs : next[j] \in DOMAIN Files(j)
    BY FilesFacts DEF IInv, Progress, At
  <2> QED
    BY <2>1 DEF IInv, Types, TypeOK, Places, Stopped
<1> QED
  BY <1>1, Publications, PTL

\* publish_durable: an envelope with a receipt survives every later failure,
\* crash and power loss, as its publisher wrote it.
THEOREM ReceiptsSurvive == Spec => []ReceiptDurable
<1>1. IInv => ReceiptDurable
  BY DEF IInv, Durable, ReceiptDurable
<1> QED
  BY <1>1, Publications, PTL

\* persist_profiled_record: however many publishers race for one record ID, at
\* most one of them ever holds its receipt.
THEOREM OneReceipt == Spec => []OnePublisher
<1>1. IInv => OnePublisher
  BY DEF IInv, Durable, OnePublisher
<1> QED
  BY <1>1, Publications, PTL

-----------------------------------------------------------------------------
(***************************************************************************)
(* What a reader of a visible envelope finds. Nothing that readers see is *)
(* withdrawn before the first fault, so what a publisher has behind it is *)
(* readable (Reached); and nothing comes after an envelope.                *)
(***************************************************************************)
Reached ==
    faults = 0 =>
        \A j \in Jobs : \A i \in 1..(next[j] - 1) : Readable(Files(j)[i])

LEMMA LastIsNew ==
  ASSUME NEW S, NEW a \in Seq(S), NEW b \in Seq(S), NEW e \in S,
         \A i \in DOMAIN a : a[i] # e, \A i \in DOMAIN b : b[i] # e
  PROVE  \A n \in 1..Len(Append(a \o b, e)) :
             Append(a \o b, e)[n] = e => n = Len(Append(a \o b, e))
<1> DEFINE ab == a \o b
<1>1. /\ Len(a) \in Nat /\ DOMAIN a = 1..Len(a)
      /\ Len(b) \in Nat /\ DOMAIN b = 1..Len(b)
  BY LenProperties
<1>2. /\ ab \in Seq(S) /\ Len(ab) = Len(a) + Len(b)
      /\ \A i \in 1..Len(a) + Len(b) : ab[i] = IF i <= Len(a) THEN a[i] ELSE b[i - Len(a)]
  BY ConcatProperties
<1> HIDE DEF ab
<1>3. \A i \in 1..Len(ab) : ab[i] # e
  <2> SUFFICES ASSUME NEW i \in 1..Len(ab) PROVE ab[i] # e
    OBVIOUS
  <2>1. CASE i <= Len(a)
    <3>1. i \in 1..Len(a) /\ i \in 1..Len(a) + Len(b)
      BY <1>1, <1>2, <2>1
    <3>2. ab[i] = a[i]
      BY <1>2, <2>1, <3>1
    <3> QED
      BY <1>1, <3>1, <3>2
  <2>2. CASE ~(i <= Len(a))
    <3>1. i - Len(a) \in 1..Len(b)
      BY <1>1, <1>2, <2>2
    <3> QED
      BY <1>1, <1>2, <2>2, <3>1
  <2> QED
    BY <2>1, <2>2
<1>4. /\ Len(Append(ab, e)) = Len(ab) + 1
      /\ \A i \in 1..Len(ab) : Append(ab, e)[i] = ab[i]
  BY <1>2, AppendProperties
<1>5. \A n \in 1..Len(Append(ab, e)) : Append(ab, e)[n] = e => n = Len(Append(ab, e))
  BY <1>1, <1>2, <1>3, <1>4
<1> QED
  BY <1>5 DEF ab

LEMMA EnvelopeLast ==
  ASSUME NEW j \in Jobs, NEW i \in 1..Len(Files(j)), Files(j)[i] = Envelope[j]
  PROVE  i = Len(Files(j))
<1> DEFINE a == Inputs[j]
           b == Bytes[j]
           e == Envelope[j]
<1>1. /\ a \in Seq(Names) /\ b \in Seq(Names) /\ e \in Names
      /\ \A n \in DOMAIN a : a[n] # e
      /\ \A n \in DOMAIN b : b[n] # e
  BY AuditStoreAssumption
<1>2. Files(j) = Append(a \o b, e)
  BY DEF Files
<1>3. Files(j)[i] = e
  OBVIOUS
<1> HIDE DEF a, b, e
<1>4. \A n \in 1..Len(Append(a \o b, e)) :
          Append(a \o b, e)[n] = e => n = Len(Append(a \o b, e))
  BY <1>1, LastIsNew, Zenon
<1> QED
  BY <1>2, <1>3, <1>4

\* What a step without a fault does to the entries, and to a publisher's place.
LEMMA VisibleStep ==
  ASSUME IInv, [Next]_vars, faults' = 0
  PROVE  /\ faults = 0
         /\ \/ entry' = entry
            \/ \E j \in Jobs : /\ entry[File(j)] = Absent
                               /\ entry' = [entry EXCEPT ![File(j)] = j]
                               /\ next' = next
         /\ \A j \in Jobs : \/ next'[j] = next[j]
                            \/ next'[j] = next[j] + 1 /\ Readable(File(j))
<1>0. faults \in Nat /\ next \in [Jobs -> Nat]
  BY AuditStoreAssumption DEF IInv, Types
<1>1. ASSUME NEW j \in Jobs, Publisher(j)
      PROVE  /\ faults = 0
             /\ \/ entry' = entry
                \/ /\ entry[File(j)] = Absent
                   /\ entry' = [entry EXCEPT ![File(j)] = j]
                   /\ next' = next
             /\ \/ next' = next
                \/ next' = [next EXCEPT ![j] = @ + 1] /\ Readable(File(j))
  <2>1. CASE Prepare(j) \/ Verify(j) \/ Write(j) \/ Flush(j) \/ ReadBack(j)
    BY <2>1 DEF Prepare, Verify, Write, Flush, ReadBack
  <2>2. CASE Look(j)
    BY <2>2 DEF Look, Reuse, Fail, Advance
  <2>3. CASE Link(j)
    BY <2>3 DEF Link, Reuse, Fail, Advance
  <2>4. CASE SyncDirectory(j)
    <3>1. Readable(File(j))
      BY <2>4 DEF SyncDirectory, IInv, Linked, Readable
    <3> QED
      BY <2>4, <3>1 DEF SyncDirectory, Advance
  <2>5. ~SyncFails(j)
    BY <1>0 DEF SyncFails
  <2> QED
    BY <1>1, <2>1, <2>2, <2>3, <2>4, <2>5 DEF Publisher
<1>2. ASSUME NEW j \in Jobs, Crash(j)
      PROVE  UNCHANGED <<entry, next, faults>>
  BY <1>2 DEF Crash
<1>3. ~PowerLoss
  BY <1>0 DEF PowerLoss
<1>4. CASE UNCHANGED vars
  BY <1>4 DEF vars
<1> QED
  BY <1>0, <1>1, <1>2, <1>3, <1>4 DEF Next

LEMMA NextVisible ==
  IInv /\ Reached /\ VisibleRecordReadable /\ [Next]_vars
    => Reached' /\ VisibleRecordReadable'
<1> SUFFICES ASSUME IInv, Reached, VisibleRecordReadable, [Next]_vars, faults' = 0
             PROVE  Reached' /\ VisibleRecordReadable'
  BY DEF Reached, VisibleRecordReadable
<1>1. faults = 0 /\ entry \in [Names -> Contents] /\ next \in [Jobs -> Nat]
  BY VisibleStep DEF IInv, Types
<1>2. \A n \in Names : Readable(n) => entry'[n] = entry[n]
  BY <1>1, VisibleStep, FileIsName, NotAJob DEF Readable
<1>3. ASSUME NEW j \in Jobs
      PROVE  /\ next[j] \in 1..Len(Files(j)) /\ Len(Files(j)) \in Nat
             /\ \A i \in 1..Len(Files(j)) : Files(j)[i] \in Names
             /\ DOMAIN Files(j) = 1..Len(Files(j))
             /\ \A i \in 1..(next[j] - 1) : Readable(Files(j)[i])
  <2>1. Files(j) \in Seq(Names)
    BY FilesFacts
  <2> QED
    BY <1>1, <2>1 DEF IInv, Progress, At, Reached
<1>4. ASSUME NEW j \in Jobs, NEW i \in 1..(next'[j] - 1)
      PROVE  Readable(Files(j)[i])'
  <2>1. Readable(Files(j)[i]) /\ Files(j)[i] \in Names
    <3>1. CASE next'[j] = next[j]
      BY <1>3, <3>1
    <3>2. CASE next'[j] = next[j] + 1 /\ Readable(File(j))
      <4>1. i \in 1..(next[j] - 1) \/ i = next[j]
        BY <1>1, <3>2
      <4> QED
        BY <1>3, <3>2, <4>1 DEF File
    <3> QED
      BY <3>1, <3>2, VisibleStep
  <2> QED
    BY <1>2, <2>1 DEF Readable, Files
<1>5. ASSUME NEW j \in Jobs, entry'[Envelope[j]] = j, NEW i \in DOMAIN Files(j)
      PROVE  Readable(Files(j)[i])'
  <2>1. Envelope[j] \in Names
    BY AuditStoreAssumption
  <2>2. CASE entry[Envelope[j]] = j
    <3>1. Readable(Files(j)[i]) /\ Files(j)[i] \in Names
      BY <1>1, <1>3, <2>2 DEF VisibleRecordReadable
    <3> QED
      BY <1>2, <3>1 DEF Readable, Files
  <2>3. CASE entry[Envelope[j]] # j
    <3>1. PICK k \in Jobs : entry' = [entry EXCEPT ![File(k)] = k] /\ next' = next
      BY <1>5, <2>3, VisibleStep
    <3>2. k = j /\ File(j) = Envelope[j]
      BY <1>1, <1>5, <2>1, <2>3, <3>1
    <3>3. next[j] = Len(Files(j))
      BY <1>3, <3>2, EnvelopeLast DEF File
    <3>4. i \in 1..(next[j] - 1) \/ i = next[j]
      BY <1>3, <3>3
    <3>5. CASE i = next[j]
      BY <1>5, <3>2, <3>5 DEF File, Files, Readable
    <3>6. CASE i \in 1..(next[j] - 1)
      BY <1>4, <3>1, <3>6
    <3> QED
      BY <3>4, <3>5, <3>6
  <2> QED
    BY <2>2, <2>3
<1> QED
  BY <1>4, <1>5 DEF Reached, VisibleRecordReadable, Files

\* persist_profiled_record, "no visible record points to a half-written
\* artifact": until a flush fails or the machine goes down, whoever sees an
\* envelope can read every file it refers to, whichever publishers died.
THEOREM VisibleRecords == Spec => []VisibleRecordReadable
<1>1. Init => Reached /\ VisibleRecordReadable
  <2> SUFFICES ASSUME Init PROVE Reached /\ VisibleRecordReadable
    OBVIOUS
  <2>1. \A j \in Jobs : entry[Envelope[j]] # j /\ next[j] = 1
    BY AuditStoreAssumption DEF Init
  <2> QED
    BY <2>1 DEF Reached, VisibleRecordReadable
<1> QED
  BY <1>1, NextVisible, Publications, PTL DEF Spec
=============================================================================
