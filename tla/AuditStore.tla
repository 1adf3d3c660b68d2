----------------------------- MODULE AuditStore -----------------------------
(***************************************************************************)
(* The append-only audit store under concurrent delivery jobs, failing    *)
(* calls, dying processes and power loss. A job persists its canonical    *)
(* artifacts (persist_artifact), then persist_profiled_record verifies    *)
(* them, adds the original bytes and publishes the envelope, and          *)
(* publish_durable reads everything back before it issues a receipt.      *)
(*                                                                         *)
(* A file is published by a hard link to a flushed temporary file and a   *)
(* flush of the directory (_publish_new). Artifacts are content-addressed:*)
(* one that is there already is read and reused. An envelope's name is    *)
(* its record ID and is never reused.                                      *)
(*                                                                         *)
(* A name has what readers see now (entry) and what a power loss may      *)
(* leave (disk). Directories the store made itself (Fresh) are nowhere    *)
(* flushed into their parent. Temporary names, which readers skip, and    *)
(* the private-file and schema checks of one file are abstracted.         *)
(***************************************************************************)
EXTENDS Integers, Sequences, FiniteSets

CONSTANTS
    Jobs,         \* delivery jobs
    Inputs,       \* job -> its canonical artifacts, in order
    Bytes,        \* job -> its original-byte files, in order
    Envelope,     \* job -> the name its record ID gives the envelope
    Names,        \* every file name
    Dir,          \* name -> its managed directory
    Fresh,        \* directories made by the store since the last full flush
    Absent, Torn, \* no entry; an entry whose content was never flushed
    MaxFaults     \* bound on failed directory flushes and power losses

ASSUME AuditStoreAssumption ==
    /\ Inputs \in [Jobs -> Seq(Names) \ {<<>>}] /\ Bytes \in [Jobs -> Seq(Names)]
    /\ Envelope \in [Jobs -> Names]
    /\ \A j, k \in Jobs : \A i \in DOMAIN Inputs[j] : Inputs[j][i] # Envelope[k]
    /\ \A j, k \in Jobs : \A i \in DOMAIN Bytes[j] : Bytes[j][i] # Envelope[k]
    /\ DOMAIN Dir = Names
    /\ Absent \notin Jobs /\ Torn \notin Jobs /\ Absent # Torn
    /\ MaxFaults \in Nat

VARIABLES
    entry,    \* name -> the job whose content readers see, or Absent or Torn
    disk,     \* name -> what a power loss may leave of it
    pc,       \* job -> where it stands
    next,     \* job -> the file it is at, counting through Files
    flushed,  \* job -> its temporary file is on disk
    faults    \* failed directory flushes and power losses so far

vars == <<entry, disk, pc, next, flushed, faults>>

Contents == Jobs \cup {Absent, Torn}
Stopped == {"receipt", "failed", "dead"}

\* Mutant: the original bytes follow the envelope.
FilesBytesLast(j) == Inputs[j] \o <<Envelope[j]>> \o Bytes[j]

\* The order of publication: nothing refers to what comes after it.
Files(j) == Append(Inputs[j] \o Bytes[j], Envelope[j])
File(j) == Files(j)[next[j]]
AtEnvelope(j) == next[j] = Len(Files(j))

\* read_artifact and _read_private_file accept exactly the flushed content.
Readable(n) == entry[n] \in Jobs

Init ==
    /\ entry = [n \in Names |-> Absent]
    /\ disk = [n \in Names |-> {Absent}]
    /\ pc = [j \in Jobs |-> "prepare"]
    /\ next = [j \in Jobs |-> 1]
    /\ flushed = [j \in Jobs |-> FALSE]
    /\ faults = 0

-----------------------------------------------------------------------------
Goto(j, at) == pc' = [pc EXCEPT ![j] = at]

\* On to the file after this one, through the checks that stand before it.
Advance(j) ==
    /\ next' = [next EXCEPT ![j] = @ + 1]
    /\ Goto(j, IF next[j] = Len(Inputs[j]) THEN "verify"
               ELSE IF next[j] + 1 = Len(Files(j)) THEN "write"
               ELSE "look")

Fail(j) == Goto(j, "failed") /\ UNCHANGED next

\* An existing content-addressed file is validated and reused.
Reuse(j) == IF Readable(File(j)) THEN Advance(j) ELSE Fail(j)

\* Before a possible write: the record ID is unused.
Prepare(j) ==
    /\ pc[j] = "prepare"
    /\ Goto(j, IF entry[Envelope[j]] = Absent THEN "look" ELSE "failed")
    /\ UNCHANGED <<entry, disk, next, flushed, faults>>

\* persist_artifact, and the original bytes of persist_profiled_record.
Look(j) ==
    /\ pc[j] = "look"
    /\ IF entry[File(j)] = Absent THEN Goto(j, "write") /\ UNCHANGED next
                                  ELSE Reuse(j)
    /\ UNCHANGED <<entry, disk, flushed, faults>>

\* _verify_profiled_references, and the record ID is still unused.
Verify(j) ==
    /\ pc[j] = "verify"
    /\ LET sound == /\ \A i \in DOMAIN Inputs[j] : Readable(Inputs[j][i])
                    /\ entry[Envelope[j]] = Absent
       IN Goto(j, IF ~sound THEN "failed"
                  ELSE IF Bytes[j] = <<>> THEN "write" ELSE "look")
    /\ UNCHANGED <<entry, disk, next, flushed, faults>>

\* The temporary file is written; then it is flushed, or the attempt is over.
Write(j) ==
    /\ pc[j] = "write"
    /\ Goto(j, "flush") \/ Goto(j, "failed")
    /\ flushed' = [flushed EXCEPT ![j] = FALSE]
    /\ UNCHANGED <<entry, disk, next, faults>>

\* Mutant: the flush is left to the kernel.
FlushLazily(j) ==
    /\ pc[j] = "flush"
    /\ Goto(j, "link")
    /\ UNCHANGED <<entry, disk, next, flushed, faults>>

Flush(j) ==
    /\ pc[j] = "flush"
    /\ \/ Goto(j, "link") /\ flushed' = [flushed EXCEPT ![j] = TRUE]
       \/ Goto(j, "failed") /\ UNCHANGED flushed
    /\ UNCHANGED <<entry, disk, next, faults>>

\* Mutant: rename(), which replaces what is there.
LinkReplacing(j) ==
    /\ pc[j] = "link"
    /\ entry' = [entry EXCEPT ![File(j)] = j]
    /\ disk' = [disk EXCEPT ![File(j)] =
            @ \cup (IF flushed[j] THEN {j} ELSE {j, Torn})]
    /\ Goto(j, "sync")
    /\ UNCHANGED <<next, flushed, faults>>

\* link() publishes or reports EEXIST: an artifact is then reused, an envelope
\* refused.
Link(j) ==
    /\ pc[j] = "link"
    /\ IF entry[File(j)] = Absent
       THEN /\ entry' = [entry EXCEPT ![File(j)] = j]
            /\ disk' = [disk EXCEPT ![File(j)] =
                    @ \cup (IF flushed[j] THEN {j} ELSE {j, Torn})]
            /\ Goto(j, "sync")
            /\ UNCHANGED next
       ELSE /\ IF AtEnvelope(j) THEN Fail(j) ELSE Reuse(j)
            /\ UNCHANGED <<entry, disk>>
    /\ UNCHANGED <<flushed, faults>>

\* What a flush of directory d makes certain: its entries, not their content.
Settle(d) ==
    [n \in Names |-> IF Dir[n] # d THEN disk[n]
                     ELSE IF entry'[n] \in Jobs THEN {entry'[n]} \cup (disk[n] \cap {Torn})
                     ELSE {entry'[n]}]

\* Mutant: the envelope counts as one more artifact.
SyncDirectoryOn(j) ==
    /\ pc[j] = "sync"
    /\ entry' = entry
    /\ disk' = Settle(Dir[File(j)])
    /\ Advance(j)
    /\ UNCHANGED <<flushed, faults>>

\* The directory is flushed and everything in it with it.
SyncDirectory(j) ==
    /\ pc[j] = "sync"
    /\ entry' = entry
    /\ disk' = Settle(Dir[File(j)])
    /\ IF AtEnvelope(j) THEN Goto(j, "readback") /\ UNCHANGED next
                        ELSE Advance(j)
    /\ UNCHANGED <<flushed, faults>>

\* The directory flush fails: the new entry is withdrawn as far as that goes.
SyncFails(j) ==
    /\ pc[j] = "sync"
    /\ faults < MaxFaults
    /\ faults' = faults + 1
    /\ \/ UNCHANGED <<entry, disk>>
       \/ /\ entry' = [entry EXCEPT ![File(j)] = Absent]
          /\ \/ disk' = [disk EXCEPT ![File(j)] = @ \cup {Absent}]
             \/ disk' = Settle(Dir[File(j)])
    /\ Fail(j)
    /\ UNCHANGED flushed

\* read_profiled_record: the envelope, the bytes and the artifacts, or there is
\* no receipt.
ReadBack(j) ==
    /\ pc[j] = "readback"
    /\ Goto(j, IF /\ entry[Envelope[j]] = j
                  /\ \A i \in DOMAIN Files(j) : Readable(Files(j)[i])
               THEN "receipt" ELSE "failed")
    /\ UNCHANGED <<entry, disk, next, flushed, faults>>

Publisher(j) ==
    \/ Prepare(j) \/ Look(j) \/ Verify(j) \/ Write(j) \/ Flush(j)
    \/ Link(j) \/ SyncDirectory(j) \/ SyncFails(j) \/ ReadBack(j)

-----------------------------------------------------------------------------
\* A publisher's process ends.
Crash(j) ==
    /\ pc[j] \notin Stopped
    /\ Goto(j, "dead")
    /\ UNCHANGED <<entry, disk, next, flushed, faults>>

\* Every process ends; a name keeps one of the states its disk may hold, and a
\* directory that was never flushed into its parent may be gone altogether.
PowerLoss ==
    /\ faults < MaxFaults
    /\ faults' = faults + 1
    /\ \E gone \in SUBSET Fresh : \E left \in [Names -> Contents] :
         /\ \A n \in Names : left[n] \in IF Dir[n] \in gone THEN {Absent}
                                                            ELSE disk[n]
         /\ entry' = left
    /\ disk' = [n \in Names |-> {entry'[n]}]
    /\ pc' = [j \in Jobs |-> IF pc[j] \in Stopped THEN pc[j] ELSE "dead"]
    /\ UNCHANGED <<next, flushed>>

Next == (\E j \in Jobs : Publisher(j) \/ Crash(j)) \/ PowerLoss

Spec == Init /\ [][Next]_vars

-----------------------------------------------------------------------------
TypeOK ==
    /\ entry \in [Names -> Contents]
    /\ disk \in [Names -> SUBSET Contents]
    /\ pc \in [Jobs -> {"prepare", "look", "verify", "write", "flush", "link",
                        "sync", "readback"} \cup Stopped]
    /\ \A j \in Jobs : next[j] \in DOMAIN Files(j)
    /\ flushed \in [Jobs -> BOOLEAN]
    /\ faults \in 0..MaxFaults

\* "A persistence failure fails closed and must not claim durable audit
\* success": where there is a receipt, no power loss can take the envelope
\* away, tear it or put another one in its place, in a directory that is itself
\* durable.
ReceiptDurable ==
    \A j \in Jobs :
        /\ pc[j] = "receipt"
        /\ Dir[Envelope[j]] \notin Fresh
        => disk[Envelope[j]] = {j}

\* Two publishers of one record ID never both hold a receipt, however their
\* existence checks and links interleave.
OnePublisher ==
    \A j, k \in Jobs :
        /\ pc[j] = "receipt" /\ pc[k] = "receipt"
        /\ Dir[Envelope[j]] \notin Fresh
        /\ Envelope[j] = Envelope[k]
        => j = k

\* "No visible record points to a half-written artifact": as long as no flush
\* fails and the machine stays up, whoever sees an envelope can read everything
\* it refers to, whichever processes died on the way.
VisibleRecordReadable ==
    faults = 0 =>
        \A j \in Jobs :
            entry[Envelope[j]] = j =>
                \A i \in DOMAIN Files(j) : Readable(Files(j)[i])

\* The same with failing flushes and power loss: a receipt vouches for
\* everything its envelope refers to.
ReceiptReadable ==
    \A j \in Jobs :
        /\ pc[j] = "receipt"
        /\ \A i \in DOMAIN Files(j) : Dir[Files(j)[i]] \notin Fresh
        => \A i \in DOMAIN Files(j) : Readable(Files(j)[i])
=============================================================================
