------------------------ MODULE ManagedStateStore ------------------------
(*************************************************************************)
(* The chain of accepted states of one vertical (managed_state_store.py):*)
(* acceptances extend the head of what they resolve, and each becomes a  *)
(* file named by its content, linked into the vertical's directory.      *)
(*                                                                       *)
(* A record is the sequence of the observations accepted up to it: its   *)
(* digest binds its evidence, which binds the previous acceptance.  The  *)
(* generation is the length.  Callers of persist_acceptance are external:*)
(* the repository itself only calls it for the adoption.                 *)
(*************************************************************************)
EXTENDS Naturals, Sequences, FiniteSets

CONSTANTS Acceptors,      \* callers that accept a state after a write
          Observations,   \* the converged reads they accept: state, time and source
          MaxFaults       \* killed callers, failed flushes and power failures together

VARIABLES files,          \* the records in the directory
          synced,         \* those whose directory entry is on the disk
          callers,        \* each caller's place, evidence and answer
          faults

vars == <<files, synced, callers, faults>>

Previous(r) == SubSeq(r, 1, Len(r) - 1)

Idle == [pc |-> "idle", evidence |-> <<>>, answer |-> "none"]

\* The adoption made the first record.
FirstAcceptance == <<CHOOSE o \in Observations : TRUE>>

Init ==
    /\ files = {FirstAcceptance}
    /\ synced = files
    /\ callers = [a \in Acceptors |-> Idle]
    /\ faults = 0

At(a, pc) == callers[a].pc = pc
Goto(a, pc) == callers' = [callers EXCEPT ![a].pc = pc]
Answer(a, what) == callers' = [callers EXCEPT ![a].pc = "done", ![a].answer = what]
Fault == faults < MaxFaults /\ faults' = faults + 1

\* Generations 1, 2, ... once each, each naming the one before.
ChainValidNewest(records) ==
    /\ \A r \in records : Len(r) >= 1
    /\ \A r \in records : Len(r) > 1 => \E q \in records : Len(q) = Len(r) - 1
ChainValid(records) ==
    /\ {Len(r) : r \in records} = 1..Cardinality(records)
    /\ \A r \in records : Len(r) > 1 => Previous(r) \in records

Resolves == files # {} /\ ChainValid(files)

Current == CHOOSE r \in files : \A q \in files : Len(q) <= Len(r)

\* The records of the resolution: those its head goes back to.
History == {SubSeq(Current, 1, n) : n \in 1..Len(Current)}

Evidence(head, o) == Append(head, o)

\* The evidence of a read after a write names the accepted state resolved then.
Accept(a) ==
    /\ At(a, "idle") /\ Resolves
    /\ \E o \in Observations :
          callers' = [callers EXCEPT ![a] =
              [pc |-> "resolve", evidence |-> Evidence(Current, o), answer |-> "none"]]
    /\ UNCHANGED <<files, synced, faults>>

\* The chain is resolved again: the evidence is its head, an older member, or
\* must extend the head.
Resolve(a) ==
    /\ At(a, "resolve")
    /\ LET e == callers[a].evidence
       IN  IF ~Resolves THEN Answer(a, "refused")
           ELSE IF e \in History THEN Answer(a, IF e = Current THEN "existing" ELSE "refused")
           ELSE IF Previous(e) # Current THEN Answer(a, "refused")
           ELSE Goto(a, "link")
    /\ UNCHANGED <<files, synced, faults>>

\* The temporary file is written and flushed, then linked under its final name,
\* which fails when that exists: then the record there is returned.
Link(a) ==
    /\ At(a, "link")
    /\ IF callers[a].evidence \in files
       THEN Answer(a, "existing") /\ UNCHANGED files
       ELSE Goto(a, "flush") /\ files' = files \union {callers[a].evidence}
    /\ UNCHANGED <<synced, faults>>

\* The directory is flushed; a failed flush takes the link away, if it can.
Flush(a) ==
    /\ At(a, "flush")
    /\ \/ Answer(a, "own") /\ synced' = files /\ UNCHANGED <<files, faults>>
       \/ /\ Fault /\ Answer(a, "failed") /\ UNCHANGED synced
          /\ files' \in {files, files \ {callers[a].evidence}}

\* A caller without an answer, or with a failure, tries its evidence again.
Retry(a) ==
    /\ At(a, "dead") \/ callers[a].answer = "failed"
    /\ callers' = [callers EXCEPT ![a].pc = "resolve", ![a].answer = "none"]
    /\ UNCHANGED <<files, synced, faults>>

Crash(a) ==
    /\ Fault
    /\ callers[a].pc \in {"resolve", "link", "flush"}
    /\ Goto(a, "dead")
    /\ UNCHANGED <<files, synced>>

\* What was not flushed may be gone, and what was unlinked may be back.
PowerFails ==
    /\ Fault
    /\ \E back \in SUBSET ((files \ synced) \union (synced \ files)) :
          files' = (files \intersect synced) \union back
    /\ synced' = files'
    /\ callers' = [a \in Acceptors |->
          IF callers[a].pc \in {"resolve", "link", "flush"}
          THEN [callers[a] EXCEPT !.pc = "dead"] ELSE callers[a]]

Next ==
    \/ \E a \in Acceptors : Accept(a) \/ Resolve(a) \/ Link(a) \/ Flush(a) \/ Retry(a) \/ Crash(a)
    \/ PowerFails

Spec == Init /\ [][Next]_vars

----------------------------------------------------------------------------
(* Properties. *)

\* Whenever the directory resolves to a chain (_validate_chain), every acceptance
\* whose own publication succeeded (persist_acceptance after _publish_new) is a
\* member of that chain: of callers that extended the same head, not one may be
\* told it was accepted and then be left out of the history the others build on.
\* An acceptance answered with the record of another caller is not claimed.
OneHistory ==
    Resolves => \A a \in Acceptors : callers[a].answer = "own" => callers[a].evidence \in History
=============================================================================
