----------------------- MODULE OperationsProofs -----------------------
(***************************************************************************)
(* What holds of the procedures around the managed network for any number  *)
(* of acceptors, adoptions, observations, jobs and failures: an acceptance *)
(* that was published stays in the history (ManagedStateStore), the first  *)
(* accepted state is what was read (InitialAdoption), an observation       *)
(* binds a configuration the device had since the request                  *)
(* (ConfigurationCollection), and the inventory's reports and resolvers    *)
(* agree with the reference (InventoryAuthority).                          *)
(*                                                                         *)
(* Each rests on an inductive invariant of the component's own variables,  *)
(* which the steps of the other procedures leave alone.  The chain needs   *)
(* one thing more: that a directory which resolves has its records all on  *)
(* the head's own past, by an induction down from the head that is put as  *)
(* a least number for which it would fail.                                 *)
(***************************************************************************)
EXTENDS Operations, InventoryProofs, FunctionTheorems

-----------------------------------------------------------------------------
(***************************************************************************)
(* The chain of acceptances (ManagedStateStore).                          *)
(***************************************************************************)

\* Records, and a finite number of them.
Records(S) == S \in SUBSET Seq(Observations) /\ IsFiniteSet(S)

\* A chain has one record of each length, and the longest is the head.
LEMMA ChainLengths ==
  ASSUME NEW S, Records(S), Store!ChainValid(S), S # {}
  PROVE  /\ \A q, r \in S : Len(q) = Len(r) => q = r
         /\ \E r \in S : \A q \in S : Len(q) <= Len(r)
         /\ \A q \in S : Len(q) \in Nat \ {0}
<1> DEFINE n == Cardinality(S)
           T == 1..n
           f == [r \in S |-> Len(r)]
<1>1. n \in Nat /\ n # 0
  BY FS_CardinalityType, FS_EmptySet DEF Records
<1>2. (\A r \in S : Len(r) \in T) /\ (\A t \in T : \E r \in S : Len(r) = t)
  <2>1. {Len(r) : r \in S} = T
    BY Zenon DEF Store!ChainValid, Store!Cardinality, Cardinality
  <2>2. \A r \in S : Len(r) \in T
    BY <2>1, Zenon
  <2>3. \A t \in T : \E r \in S : Len(r) = t
    BY <2>1, Zenon
  <2> QED
    BY ONLY <2>2, <2>3
<1>3. f \in Surjection(S, T)
  <2>1. f \in [S -> T]
    BY <1>2
  <2>2. \A t \in T : \E r \in S : f[r] = t
    BY <1>2
  <2> QED
    BY <2>1, <2>2, Fun_IsSurj
<1>4. Cardinality(T) = n
  BY <1>1, FS_Interval
<1>5. f \in Injection(S, T)
  BY <1>3, <1>4, FS_Surjection DEF Records
<1>6. \A q, r \in S : Len(q) = Len(r) => q = r
  BY <1>5, Fun_IsInj DEF Injection, IsInjective
<1>7. \A q \in S : Len(q) \in T
  BY <1>2
<1>8. PICK r \in S : Len(r) = n
  BY <1>1, <1>2
<1> QED
  BY <1>1, <1>6, <1>7, <1>8

\* Every record of a chain is one the head goes back to.
LEMMA ChainHistory ==
  ASSUME Records(files), Store!Resolves
  PROVE  /\ Store!Current \in files
         /\ files \subseteq Store!History
<1> DEFINE c == Store!Current
           L == Len(c)
<1>1. Store!ChainValid(files) /\ files # {}
  BY DEF Store!Resolves
<1>2. c \in files /\ \A q \in files : Len(q) <= L
  BY <1>1, ChainLengths DEF Store!Current
<1>3. c \in Seq(Observations) /\ L \in Nat \ {0}
  BY <1>1, <1>2, ChainLengths DEF Records
<1> DEFINE Missing == {m \in 0..(L - 1) : SubSeq(c, 1, L - m) \notin files}
<1>4. Missing = {}
  <2> SUFFICES ASSUME Missing # {} PROVE FALSE
    OBVIOUS
  <2>1. PICK m \in Missing : \A k \in Missing : m <= k
    <3>1. Missing \in SUBSET Nat
      BY <1>3
    <3> HIDE DEF Missing
    <3> QED
      BY <3>1, LeastNumber
  <2>0. m \in 0..(L - 1) /\ SubSeq(c, 1, L - m) \notin files
    BY <2>1
  <2>2. m # 0
    <3>1. SubSeq(c, 1, L) = c
      BY <1>3
    <3>2. L - 0 = L
      BY <1>3
    <3>3. m = 0 => SubSeq(c, 1, L - m) = c
      BY <3>1, <3>2
    <3> QED
      BY <1>2, <2>0, <3>3
  <2>3. m - 1 \in 0..(L - 1) /\ m - 1 \notin Missing
    <3>1. m - 1 \in 0..(L - 1) /\ ~(m <= m - 1)
      BY <1>3, <2>0, <2>2
    <3> HIDE DEF Missing
    <3> QED
      BY <2>1, <3>1
  <2> DEFINE r == SubSeq(c, 1, L - (m - 1))
  <2>4. r \in files
    BY <2>3
  <2>5. Len(r) = L - m + 1 /\ Len(r) > 1
    BY <1>3, <2>0, <2>2
  <2>6. Store!Previous(r) \in files
    BY <1>1, <2>4, <2>5 DEF Store!ChainValid
  <2>7. Store!Previous(r) = SubSeq(c, 1, L - m)
    BY <1>3, <2>0, <2>2, <2>5 DEF Store!Previous
  <2> QED
    BY <2>0, <2>6, <2>7
<1>5. ASSUME NEW q \in files PROVE q \in Store!History
  <2>1. Len(q) \in 1..L
    BY <1>1, <1>2, <1>3, ChainLengths
  <2>2. L - Len(q) \in 0..(L - 1) /\ L - (L - Len(q)) = Len(q)
    BY <1>3, <2>1
  <2>3. SubSeq(c, 1, Len(q)) \in files
    BY <1>4, <2>2
  <2>4. Len(SubSeq(c, 1, Len(q))) = Len(q)
    BY <1>3, <2>1
  <2>5. q = SubSeq(c, 1, Len(q))
    BY <1>1, <2>3, <2>4, ChainLengths
  <2> QED
    BY <2>1, <2>5 DEF Store!History
<1> QED
  BY <1>2, <1>5

Mine(a) == callers[a].evidence

\* A caller that reported success has its record in the directory and on the
\* disk; whoever may still unlink a record is the only one that linked it.
HistoryInv ==
    /\ Records(files) /\ Records(synced)
    /\ callers \in [Acceptors ->
           [pc : {"idle", "resolve", "link", "flush", "done", "dead"},
            evidence : Seq(Observations),
            answer : {"none", "own", "existing", "refused", "failed"}]]
    /\ \A a \in Acceptors :
          /\ callers[a].pc = "flush" => Mine(a) \in files
          /\ callers[a].answer = "own" =>
                 callers[a].pc = "done" /\ Mine(a) \in files /\ Mine(a) \in synced
    /\ \A a, b \in Acceptors :
          a # b /\ callers[a].pc = "flush"
                /\ (callers[b].pc = "flush" \/ callers[b].answer = "own") => Mine(a) # Mine(b)

LEMMA InitHistory == Store!Init => HistoryInv
<1> SUFFICES ASSUME Store!Init PROVE HistoryInv
  OBVIOUS
<1>1. files = {Store!FirstAcceptance} /\ synced = files
      /\ callers = [a \in Acceptors |-> Store!Idle]
  BY DEF Store!Init
<1>2. Store!FirstAcceptance \in Seq(Observations)
  BY OperationsAssumption DEF Store!FirstAcceptance
<1>3. Records(files)
  BY <1>1, <1>2, FS_Singleton DEF Records
<1> QED
  BY <1>1, <1>3 DEF HistoryInv, Store!Idle

\* What a caller does to its own place and answer only.
LEMMA CallerMoves ==
  ASSUME HistoryInv, NEW a \in Acceptors, UNCHANGED <<files, synced>>,
         NEW c, callers' = [callers EXCEPT ![a] = c],
         c \in [pc : {"idle", "resolve", "link", "done", "dead"},
                evidence : Seq(Observations),
                answer : {"none", "existing", "refused", "failed"}]
  PROVE  HistoryInv'
<1>1. /\ callers'[a] = c /\ c.pc # "flush" /\ c.answer # "own"
      /\ \A b \in Acceptors : b # a => callers'[b] = callers[b]
      /\ callers' \in [Acceptors ->
           [pc : {"idle", "resolve", "link", "flush", "done", "dead"},
            evidence : Seq(Observations),
            answer : {"none", "own", "existing", "refused", "failed"}]]
  BY DEF HistoryInv
<1>2. \A b \in Acceptors : callers'[b].pc = "flush" \/ callers'[b].answer = "own" =>
          b # a /\ callers'[b] = callers[b]
  BY <1>1
<1> QED
  BY <1>1, <1>2 DEF HistoryInv, Mine, Records

LEMMA StepHistory ==
  ASSUME HistoryInv, NEW a \in Acceptors,
         \/ Store!Accept(a) \/ Store!Resolve(a) \/ Store!Link(a)
         \/ Store!Flush(a) \/ Store!Retry(a) \/ Store!Crash(a)
  PROVE  HistoryInv'
<1>0. /\ callers[a] \in [pc : {"idle", "resolve", "link", "flush", "done", "dead"},
                         evidence : Seq(Observations),
                         answer : {"none", "own", "existing", "refused", "failed"}]
      /\ DOMAIN callers = Acceptors
      /\ callers[a].answer = "own" => callers[a].pc = "done"
  BY DEF HistoryInv
<1>1. CASE Store!Accept(a)
  <2>1. PICK o \in Observations : callers' = [callers EXCEPT ![a] =
            [pc |-> "resolve", evidence |-> Store!Evidence(Store!Current, o), answer |-> "none"]]
    BY <1>1 DEF Store!Accept
  <2>2. Store!Current \in Seq(Observations)
    BY <1>1, ChainHistory DEF Store!Accept, HistoryInv, Records
  <2>3. Store!Evidence(Store!Current, o) \in Seq(Observations)
    BY <2>2 DEF Store!Evidence
  <2>4. UNCHANGED <<files, synced>>
    BY <1>1 DEF Store!Accept
  <2> QED
    BY <2>1, <2>3, <2>4, CallerMoves
<1>2. CASE \/ Store!Resolve(a) \/ Store!Retry(a) \/ Store!Crash(a)
           \/ (Store!Link(a) /\ Mine(a) \in files)
  <2> DEFINE Plain == [pc : {"idle", "resolve", "link", "done", "dead"},
                       evidence : Seq(Observations),
                       answer : {"none", "existing", "refused", "failed"}]
  <2>1. UNCHANGED <<files, synced>>
    BY <1>2 DEF Store!Resolve, Store!Retry, Store!Crash, Store!Link, Mine
  <2>2. \E c \in Plain : callers' = [callers EXCEPT ![a] = c]
    <3>1. CASE Store!Answer(a, "refused") \/ Store!Answer(a, "existing")
      <4>1. PICK answer \in {"refused", "existing"} :
              callers' = [callers EXCEPT ![a] = [callers[a] EXCEPT !.pc = "done", !.answer = answer]]
        BY <3>1 DEF Store!Answer
      <4>2. [callers[a] EXCEPT !.pc = "done", !.answer = answer] \in Plain
        BY <1>0
      <4> QED
        BY <4>1, <4>2
    <3>2. CASE Store!Resolve(a) /\ Store!Goto(a, "link")
      <4>1. callers' = [callers EXCEPT ![a] = [callers[a] EXCEPT !.pc = "link"]]
        BY <3>2 DEF Store!Goto
      <4>2. callers[a].answer # "own"
        BY <1>0, <3>2 DEF Store!Resolve, Store!At
      <4>3. [callers[a] EXCEPT !.pc = "link"] \in Plain
        BY <1>0, <4>2
      <4> QED
        BY <4>1, <4>3
    <3>3. CASE Store!Retry(a)
      <4>1. callers' = [callers EXCEPT ![a] = [callers[a] EXCEPT !.pc = "resolve", !.answer = "none"]]
        BY <3>3 DEF Store!Retry
      <4>2. [callers[a] EXCEPT !.pc = "resolve", !.answer = "none"] \in Plain
        BY <1>0
      <4> QED
        BY <4>1, <4>2
    <3>4. CASE Store!Crash(a)
      <4>1. callers' = [callers EXCEPT ![a] = [callers[a] EXCEPT !.pc = "dead"]]
        BY <3>4 DEF Store!Crash, Store!Goto
      <4>2. callers[a].answer # "own"
        BY <1>0, <3>4 DEF Store!Crash
      <4>3. [callers[a] EXCEPT !.pc = "dead"] \in Plain
        BY <1>0, <4>2
      <4> QED
        BY <4>1, <4>3
    <3> QED
      BY <1>2, <3>1, <3>2, <3>3, <3>4 DEF Store!Resolve, Store!Link, Mine
  <2> QED
    BY <2>1, <2>2, CallerMoves
<1>3. CASE Store!Link(a) /\ Mine(a) \notin files
  <2>1. /\ files' = files \union {Mine(a)} /\ synced' = synced
        /\ callers' = [callers EXCEPT ![a].pc = "flush"]
        /\ callers[a].pc = "link"
    BY <1>3 DEF Store!Link, Store!Goto, Store!At, Mine
  <2>2. Records(files')
    BY <1>0, <2>1, FS_AddElement DEF HistoryInv, Records, Mine
  <2>3. /\ callers'[a] = [callers[a] EXCEPT !.pc = "flush"]
        /\ \A b \in Acceptors : b # a => callers'[b] = callers[b]
    BY <1>0, <2>1
  <2>4. callers' \in [Acceptors ->
           [pc : {"idle", "resolve", "link", "flush", "done", "dead"},
            evidence : Seq(Observations),
            answer : {"none", "own", "existing", "refused", "failed"}]]
    BY <2>1 DEF HistoryInv
  <2>5. callers'[a].evidence = Mine(a) /\ callers'[a].pc = "flush" /\ callers'[a].answer # "own"
    BY <1>0, <2>1, <2>3 DEF Mine
  <2> QED
    BY <1>3, <2>1, <2>2, <2>3, <2>4, <2>5 DEF HistoryInv, Mine
<1>4. CASE Store!Flush(a)
  <2>1. /\ callers[a].pc = "flush"
        /\ \/ Store!Answer(a, "own") /\ synced' = files /\ files' = files
           \/ /\ Store!Answer(a, "failed") /\ synced' = synced
              /\ files' \in {files, files \ {Mine(a)}}
    BY <1>4 DEF Store!Flush, Store!At, Mine
  <2>2. Records(files') /\ Records(synced')
    BY <2>1, FS_RemoveElement DEF HistoryInv, Records
  <2>3. PICK answer \in {"own", "failed"} :
          callers' = [callers EXCEPT ![a].pc = "done", ![a].answer = answer]
    BY <2>1 DEF Store!Answer
  <2>4. /\ callers'[a] = [callers[a] EXCEPT !.pc = "done", !.answer = answer]
        /\ \A b \in Acceptors : b # a => callers'[b] = callers[b]
    BY <1>0, <2>3
  <2>5. callers' \in [Acceptors ->
           [pc : {"idle", "resolve", "link", "flush", "done", "dead"},
            evidence : Seq(Observations),
            answer : {"none", "own", "existing", "refused", "failed"}]]
    BY <2>3 DEF HistoryInv
  <2>6. callers'[a].evidence = Mine(a) /\ callers'[a].pc = "done" /\ callers'[a].answer = answer
    BY <1>0, <2>4 DEF Mine
  <2>7. answer = "own" => synced' = files /\ files' = files
    BY <1>0, <2>1, <2>6 DEF Store!Answer
  <2>8. \A b \in Acceptors : b # a /\ (callers[b].pc = "flush" \/ callers[b].answer = "own") =>
            Mine(b) # Mine(a) /\ (Mine(b) \in files => Mine(b) \in files')
    BY <2>1 DEF HistoryInv
  <2>9. \A b \in Acceptors : Mine(b) \in files /\ Mine(b) \in synced => Mine(b) \in synced'
    BY <2>1
  <2>10. ASSUME NEW b \in Acceptors
         PROVE  /\ callers'[b].pc = "flush" => b # a /\ Mine(b)' \in files'
                /\ callers'[b].answer = "own" =>
                       callers'[b].pc = "done" /\ Mine(b)' \in files' /\ Mine(b)' \in synced'
    <3>1. CASE b = a
      BY <2>1, <2>6, <2>7, <3>1 DEF HistoryInv, Mine
    <3>2. CASE b # a
      BY <2>4, <2>8, <2>9, <3>2 DEF HistoryInv, Mine
    <3> QED
      BY <3>1, <3>2
  <2>11. ASSUME NEW b \in Acceptors, NEW d \in Acceptors, b # d, callers'[b].pc = "flush",
                callers'[d].pc = "flush" \/ callers'[d].answer = "own"
         PROVE  Mine(b)' # Mine(d)'
    <3>1. b # a /\ callers'[b] = callers[b]
      BY <2>4, <2>10, <2>11
    <3>2. CASE d = a
      BY <2>6, <2>8, <2>11, <3>1, <3>2 DEF Mine
    <3>3. CASE d # a
      BY <2>4, <2>11, <3>1, <3>3 DEF HistoryInv, Mine
    <3> QED
      BY <3>2, <3>3
  <2> QED
    BY <2>2, <2>5, <2>10, <2>11 DEF HistoryInv
<1> QED
  BY <1>1, <1>2, <1>3, <1>4

LEMMA PowerHistory ==
  ASSUME HistoryInv, Store!PowerFails
  PROVE  HistoryInv'
<1>1. PICK back \in SUBSET ((files \ synced) \union (synced \ files)) :
          files' = (files \intersect synced) \union back /\ synced' = files'
  BY DEF Store!PowerFails
<1>2. Records(files') /\ Records(synced')
  <2>1. IsFiniteSet(files \union synced) /\ files' \subseteq files \union synced
    BY <1>1, FS_Union DEF HistoryInv, Records
  <2>2. IsFiniteSet(files')
    BY <2>1, FS_Subset
  <2> QED
    BY <1>1, <2>1, <2>2 DEF HistoryInv, Records
<1>3. ASSUME NEW a \in Acceptors
      PROVE  /\ callers'[a] \in
                   [pc : {"idle", "resolve", "link", "flush", "done", "dead"},
                    evidence : Seq(Observations),
                    answer : {"none", "own", "existing", "refused", "failed"}]
             /\ callers'[a].pc # "flush" /\ Mine(a)' = Mine(a)
             /\ callers'[a].answer = callers[a].answer
             /\ callers'[a].answer = "own" => callers'[a].pc = "done"
  <2>1. callers'[a] = IF callers[a].pc \in {"resolve", "link", "flush"}
                      THEN [callers[a] EXCEPT !.pc = "dead"] ELSE callers[a]
    BY DEF Store!PowerFails
  <2>2. /\ callers[a] \in [pc : {"idle", "resolve", "link", "flush", "done", "dead"},
                         evidence : Seq(Observations),
                         answer : {"none", "own", "existing", "refused", "failed"}]
        /\ callers[a].answer = "own" => callers[a].pc = "done"
    BY DEF HistoryInv
  <2> QED
    BY <2>1, <2>2 DEF Mine
<1>4. callers' \in [Acceptors ->
           [pc : {"idle", "resolve", "link", "flush", "done", "dead"},
            evidence : Seq(Observations),
            answer : {"none", "own", "existing", "refused", "failed"}]]
  BY <1>3 DEF Store!PowerFails
<1> QED
  BY <1>1, <1>2, <1>3, <1>4 DEF HistoryInv

LEMMA NextHistory == HistoryInv /\ [Next]_vars => HistoryInv'
<1> SUFFICES ASSUME HistoryInv, [Next]_vars PROVE HistoryInv'
  OBVIOUS
<1>1. CASE UNCHANGED acceptance
  BY <1>1 DEF acceptance, HistoryInv, Mine, Records
<1>2. CASE Store!Next
  BY <1>2, StepHistory, PowerHistory DEF Store!Next
<1> QED
  BY <1>1, <1>2 DEF Next, vars

\* An acceptance that was published is part of the history that later ones
\* build on (persist_acceptance, _publish_new and _validate_chain).
THEOREM Acceptances == Spec => []OneHistory
<1>1. Init => HistoryInv
  BY InitHistory DEF Init
<1>2. HistoryInv => OneHistory
  <2> SUFFICES ASSUME HistoryInv, Store!Resolves, NEW a \in Acceptors, callers[a].answer = "own"
               PROVE  Mine(a) \in Store!History
    BY DEF OneHistory, Store!OneHistory, Mine
  <2> QED
    BY ChainHistory DEF HistoryInv
<1> QED
  BY <1>1, <1>2, NextHistory, PTL DEF Spec

-----------------------------------------------------------------------------
(***************************************************************************)
(* The first accepted state (InitialAdoption).                            *)
(***************************************************************************)
Verticals == Adoption!Verticals

\* What has been read a second time is what was seen then, and found.
ReadAgain(a, v) == adopters[a].second[v] = seen[a][v] /\ seen[a][v] # {}

AdopterInv(a) ==
    /\ DOMAIN adopters[a] = {"pc", "done", "first", "second", "cached", "staging", "status"}
    /\ DOMAIN adopters[a].first = Verticals /\ DOMAIN adopters[a].second = Verticals
    /\ DOMAIN seen[a] = Verticals
    /\ adopters[a].done \in 0..3
    /\ adopters[a].pc = "stage" => adopters[a].done = 0
    /\ adopters[a].pc = "second" =>
           \A i \in 1..adopters[a].done : ReadAgain(a, Adoption!Reading[i])
    /\ adopters[a].pc = "reconcile" /\ ~adopters[a].cached => \A v \in Verticals : ReadAgain(a, v)
    /\ adopters[a].pc = "promote" =>
           \A v \in Verticals : adopters[a].first[v] = seen[a][v] /\ seen[a][v] # {}
    /\ adopters[a].pc = "verify" => root.by = a
    /\ adopters[a].status = "0" => root.by = a
    /\ root.by = a => adopters[a].pc \in {"verify", "end"}

RootInv ==
    root.by # "none" =>
        /\ root.by \in Adopters
        /\ \A v \in Verticals : root.states[v] # {} /\ root.states[v] = seen[root.by][v]

AdoptionInv ==
    /\ DOMAIN adopters = Adopters /\ DOMAIN seen = Adopters
    /\ RootInv /\ \A a \in Adopters : AdopterInv(a)

LEMMA InitAdoption == Adoption!Begin => AdoptionInv
<1> SUFFICES ASSUME Adoption!Begin PROVE AdoptionInv
  OBVIOUS
<1>1. /\ root.by = "none" /\ adopters = [a \in Adopters |-> Adoption!NewAdoption]
      /\ seen = [a \in Adopters |-> Adoption!Unread]
  BY DEF Adoption!Begin, Adoption!NoRoot
<1>2. ASSUME NEW a \in Adopters PROVE AdopterInv(a)
  <2>1. a # "none"
    BY OperationsAssumption
  <2>2. adopters[a] = Adoption!NewAdoption /\ seen[a] = Adoption!Unread
    BY <1>1
  <2> QED
    BY <1>1, <2>1, <2>2 DEF AdopterInv, Adoption!NewAdoption, Adoption!Unread, Verticals
<1> QED
  BY <1>1, <1>2 DEF AdoptionInv, RootInv

\* A step of one adoption, while the root stays.
LEMMA AdopterMoves ==
  ASSUME AdoptionInv, NEW a \in Adopters, UNCHANGED root,
         DOMAIN adopters' = Adopters, DOMAIN seen' = Adopters,
         \A b \in Adopters \ {a} : adopters'[b] = adopters[b] /\ seen'[b] = seen[b],
         AdopterInv(a)', seen'[a] = seen[a] \/ root.by # a
  PROVE  AdoptionInv'
<1>1. ASSUME NEW b \in Adopters, b # a PROVE AdopterInv(b)'
  <2>1. adopters'[b] = adopters[b] /\ seen'[b] = seen[b] /\ AdopterInv(b)
    BY <1>1 DEF AdoptionInv
  <2> QED
    BY <2>1 DEF AdopterInv, ReadAgain
<1>2. root.by \in Adopters => seen'[root.by] = seen[root.by]
  OBVIOUS
<1>3. RootInv'
  BY <1>2 DEF AdoptionInv, RootInv
<1> QED
  BY <1>1, <1>3 DEF AdoptionInv

\* An adoption that goes on to a place where nothing is known yet.
LEMMA AdopterGoes ==
  ASSUME AdoptionInv, NEW a \in Adopters, UNCHANGED <<root, seen>>,
         adopters[a].pc \notin {"verify", "end"},
         NEW goal, Adoption!Goto(a, goal), goal \notin {"second", "reconcile", "verify", "end"},
         goal = "promote" =>
             \A v \in Verticals : adopters[a].first[v] = seen[a][v] /\ seen[a][v] # {}
  PROVE  AdoptionInv'
<1>1. AdopterInv(a) /\ DOMAIN adopters = Adopters /\ DOMAIN seen = Adopters
  BY DEF AdoptionInv
<1>2. adopters'[a] = [adopters[a] EXCEPT !.pc = goal, !.done = 0]
  BY <1>1 DEF Adoption!Goto
<1>3. /\ DOMAIN adopters'[a] = DOMAIN adopters[a] /\ adopters'[a].pc = goal
      /\ adopters'[a].first = adopters[a].first /\ adopters'[a].second = adopters[a].second
      /\ adopters'[a].done = 0 /\ adopters'[a].status = adopters[a].status
  BY <1>1, <1>2 DEF AdopterInv
<1>4. AdopterInv(a)'
  BY <1>1, <1>3 DEF AdopterInv
<1>5. \A b \in Adopters \ {a} : adopters'[b] = adopters[b] /\ DOMAIN adopters' = Adopters
  BY <1>1 DEF Adoption!Goto
<1> QED
  BY <1>1, <1>4, <1>5, AdopterMoves DEF Adoption!Goto

\* An adoption that fails has claimed nothing.
LEMMA FailsEnds ==
  ASSUME AdoptionInv, NEW a \in Adopters, UNCHANGED <<root, seen>>,
         adopters[a].pc \notin {"verify", "end"}, Adoption!Fails(a)
  PROVE  AdoptionInv'
<1>1. AdopterInv(a) /\ DOMAIN adopters = Adopters /\ DOMAIN seen = Adopters
  BY DEF AdoptionInv
<1>2. /\ adopters'[a] = [adopters[a] EXCEPT !.pc = "end", !.staging = FALSE, !.status = "2"]
      /\ DOMAIN adopters' = Adopters /\ \A b \in Adopters \ {a} : adopters'[b] = adopters[b]
  BY <1>1 DEF Adoption!Fails
<1>3. /\ DOMAIN adopters'[a] = DOMAIN adopters[a] /\ adopters'[a].pc = "end"
      /\ adopters'[a].first = adopters[a].first /\ adopters'[a].second = adopters[a].second
      /\ adopters'[a].done = adopters[a].done /\ adopters'[a].status = "2"
  BY <1>1, <1>2 DEF AdopterInv
<1>4. AdopterInv(a)'
  BY <1>1, <1>3 DEF AdopterInv
<1> QED
  BY <1>1, <1>2, <1>4, AdopterMoves

LEMMA ReadingIs ==
  /\ Adoption!Reading[1] = "underlay" /\ Adoption!Reading[2] = "ospf"
  /\ Adoption!Reading[3] = "vlan" /\ Adoption!Reading[4] = "acl"
  /\ Verticals = {"underlay", "ospf", "vlan", "acl"}
  BY DEF Adoption!Reading, Verticals, Adoption!Verticals

\* The second read of one vertical.
LEMMA SecondReads ==
  ASSUME AdoptionInv, NEW a \in Adopters, Adoption!CollectSecond(a)
  PROVE  AdoptionInv'
<1> DEFINE x == adopters[a]
           v == Adoption!Reading[x.done + 1]
           state == Adoption!Managed(v, net)
<1>1. AdopterInv(a) /\ DOMAIN adopters = Adopters /\ DOMAIN seen = Adopters
  BY DEF AdoptionInv
<1>2. x.pc = "second" /\ root' = root /\ seen' = [seen EXCEPT ![a][v] = state]
  BY DEF Adoption!CollectSecond, Adoption!At
<1>3. root.by # a /\ x.done \in 0..3 /\ x.status # "0"
  BY <1>1, <1>2 DEF AdopterInv
<1>4. v \in Verticals
  <2>1. x.done = 0 \/ x.done = 1 \/ x.done = 2 \/ x.done = 3
    BY <1>3
  <2> QED
    BY <2>1, ReadingIs
<1>5. /\ DOMAIN seen' = Adopters /\ \A b \in Adopters \ {a} : seen'[b] = seen[b]
      /\ DOMAIN seen'[a] = Verticals /\ seen'[a][v] = state
      /\ \A w \in Verticals \ {v} : seen'[a][w] = seen[a][w]
  BY <1>1, <1>2, <1>4 DEF AdopterInv
<1>6. CASE state = {} /\ Adoption!Fails(a)
  <2>1. adopters' = [adopters EXCEPT ![a].pc = "end", ![a].staging = FALSE, ![a].status = "2"]
    BY <1>6 DEF Adoption!Fails
  <2>2. DOMAIN adopters' = Adopters /\ \A b \in Adopters \ {a} : adopters'[b] = adopters[b]
    BY <1>1, <2>1
  <2>3. adopters'[a] = [x EXCEPT !.pc = "end", !.staging = FALSE, !.status = "2"]
    BY <1>1, <2>1
  <2>4. /\ DOMAIN adopters'[a] = DOMAIN x /\ adopters'[a].pc = "end"
        /\ adopters'[a].first = x.first /\ adopters'[a].second = x.second
        /\ adopters'[a].done = x.done /\ adopters'[a].status = "2"
    BY <1>1, <2>3 DEF AdopterInv
  <2>5. AdopterInv(a)'
    BY <1>1, <1>2, <1>5, <2>4 DEF AdopterInv
  <2> QED
    BY <1>2, <1>3, <1>5, <2>2, <2>5, AdopterMoves
<1>7. CASE /\ state # {}
           /\ adopters' = [adopters EXCEPT
                ![a].second[v] = state,
                ![a].done = IF @ = 3 THEN 0 ELSE @ + 1,
                ![a].pc = IF x.done = 3 THEN "reconcile" ELSE @]
  <2>1. DOMAIN adopters' = Adopters /\ \A b \in Adopters \ {a} : adopters'[b] = adopters[b]
    BY <1>1, <1>7
  <2>2. adopters'[a] = [[[x EXCEPT !.second = [x.second EXCEPT ![v] = state]]
                            EXCEPT !.done = IF x.done = 3 THEN 0 ELSE x.done + 1]
                            EXCEPT !.pc = IF x.done = 3 THEN "reconcile" ELSE x.pc]
    BY <1>1, <1>7 DEF AdopterInv
  <2>3. /\ DOMAIN adopters'[a] = DOMAIN x
        /\ adopters'[a].first = x.first /\ adopters'[a].second = [x.second EXCEPT ![v] = state]
        /\ adopters'[a].done = IF x.done = 3 THEN 0 ELSE x.done + 1
        /\ adopters'[a].pc = IF x.done = 3 THEN "reconcile" ELSE "second"
        /\ adopters'[a].status = x.status
    BY <1>1, <1>2, <2>2 DEF AdopterInv
  <2>4. /\ DOMAIN adopters'[a].second = Verticals /\ adopters'[a].second[v] = state
        /\ \A w \in Verticals \ {v} : adopters'[a].second[w] = x.second[w]
    BY <1>1, <1>4, <2>3 DEF AdopterInv
  <2>5. adopters'[a].second[v] = seen'[a][v] /\ seen'[a][v] # {}
    BY <1>5, <1>7, <2>4
  <2>6. \A w \in Verticals \ {v} : ReadAgain(a, w) => ReadAgain(a, w)'
    BY <1>5, <2>4 DEF ReadAgain
  <2>7. \A i \in 1..x.done : ReadAgain(a, Adoption!Reading[i])
    BY <1>1, <1>2 DEF AdopterInv
  <2>8. \A i \in 1..(x.done + 1) : ReadAgain(a, Adoption!Reading[i])'
    <3> TAKE i \in 1..(x.done + 1)
    <3>1. i \in {1, 2, 3, 4} /\ Adoption!Reading[i] \in Verticals
      BY <1>3, ReadingIs
    <3>2. CASE i = x.done + 1
      <4>1. adopters'[a].second[Adoption!Reading[i]] = seen'[a][Adoption!Reading[i]]
            /\ seen'[a][Adoption!Reading[i]] # {}
        BY <2>5, <3>2
      <4> QED
        BY <4>1 DEF ReadAgain, Adoption!Reading
    <3>3. CASE i # x.done + 1
      <4>1. i \in 1..x.done
        BY <1>3, <3>3
      <4>2. ReadAgain(a, Adoption!Reading[i])
        BY <2>7, <4>1
      <4>3. CASE Adoption!Reading[i] = v
        <5>1. adopters'[a].second[Adoption!Reading[i]] = seen'[a][Adoption!Reading[i]]
              /\ seen'[a][Adoption!Reading[i]] # {}
          BY <2>5, <4>3
        <5> QED
          BY <5>1 DEF ReadAgain, Adoption!Reading
      <4>4. CASE Adoption!Reading[i] # v
        BY <2>6, <3>1, <4>2, <4>4 DEF Adoption!Reading
      <4> QED
        BY <4>3, <4>4
    <3> QED
      BY <3>2, <3>3
  <2>9. x.done = 3 => \A w \in Verticals : ReadAgain(a, w)'
    <3> HAVE x.done = 3
    <3>1. \A i \in 1..4 : ReadAgain(a, Adoption!Reading[i])'
      BY <2>8
    <3>2. /\ ReadAgain(a, Adoption!Reading[1])' /\ ReadAgain(a, Adoption!Reading[2])'
          /\ ReadAgain(a, Adoption!Reading[3])' /\ ReadAgain(a, Adoption!Reading[4])'
      BY <3>1
    <3> QED
      BY <3>2, ReadingIs
  <2>10. AdopterInv(a)'
    BY <1>1, <1>2, <1>3, <1>5, <2>3, <2>4, <2>8, <2>9 DEF AdopterInv
  <2> QED
    BY <1>2, <1>3, <1>5, <2>1, <2>10, AdopterMoves
<1> QED
  BY <1>6, <1>7 DEF Adoption!CollectSecond, Adoption!ReadVertical

\* The first read.
LEMMA FirstReads ==
  ASSUME AdoptionInv, NEW a \in Adopters, Adoption!CollectFirst(a)
  PROVE  AdoptionInv'
<1> DEFINE x == adopters[a]
           v == Adoption!Reading[x.done + 1]
           state == Adoption!Managed(v, net)
<1>1. AdopterInv(a) /\ DOMAIN adopters = Adopters /\ DOMAIN seen = Adopters
  BY DEF AdoptionInv
<1>2. x.pc = "first" /\ root' = root /\ seen' = seen
  BY DEF Adoption!CollectFirst, Adoption!At
<1>3. CASE Adoption!Fails(a)
  BY <1>2, <1>3, FailsEnds
<1>4. CASE adopters' = [adopters EXCEPT
                ![a].first[v] = state,
                ![a].done = IF @ = 3 THEN 0 ELSE @ + 1,
                ![a].pc = IF x.done = 3 THEN "continuity" ELSE @]
  <2>1. DOMAIN adopters' = Adopters /\ \A b \in Adopters \ {a} : adopters'[b] = adopters[b]
    BY <1>1, <1>4
  <2>2. adopters'[a] = [[[x EXCEPT !.first = [x.first EXCEPT ![v] = state]]
                            EXCEPT !.done = IF x.done = 3 THEN 0 ELSE x.done + 1]
                            EXCEPT !.pc = IF x.done = 3 THEN "continuity" ELSE x.pc]
    BY <1>1, <1>4 DEF AdopterInv
  <2>3. /\ DOMAIN adopters'[a] = DOMAIN x
        /\ DOMAIN adopters'[a].first = DOMAIN x.first /\ adopters'[a].second = x.second
        /\ adopters'[a].done = IF x.done = 3 THEN 0 ELSE x.done + 1
        /\ adopters'[a].pc \in {"first", "continuity"}
        /\ adopters'[a].status = x.status
    BY <1>1, <1>2, <2>2 DEF AdopterInv
  <2>4. adopters'[a].done \in 0..3
    BY <1>1, <2>3 DEF AdopterInv
  <2>5. AdopterInv(a)'
    BY <1>1, <1>2, <2>3, <2>4 DEF AdopterInv
  <2> QED
    BY <1>1, <1>2, <2>1, <2>5, AdopterMoves
<1> QED
  BY <1>3, <1>4 DEF Adoption!CollectFirst, Adoption!ReadVertical

LEMMA StepAdoption ==
  ASSUME AdoptionInv, NEW a \in Adopters,
         \/ Adoption!Admit(a) \/ Adoption!EnforceContinuity(a) \/ Adoption!Stage(a)
         \/ Adoption!CollectCached(a) \/ Adoption!Reconcile(a) \/ Adoption!Promote(a)
         \/ Adoption!ReadBack(a) \/ Adoption!Crash(a)
  PROVE  AdoptionInv'
<1> DEFINE x == adopters[a]
<1>1. AdopterInv(a) /\ DOMAIN adopters = Adopters /\ DOMAIN seen = Adopters
  BY DEF AdoptionInv
<1>2. CASE Adoption!Admit(a) \/ Adoption!EnforceContinuity(a)
  <2>1. UNCHANGED <<root, seen>> /\ x.pc \in {"start", "continuity"}
    BY <1>2 DEF Adoption!Admit, Adoption!EnforceContinuity, Adoption!At
  <2>2. Adoption!Fails(a) \/ Adoption!Goto(a, "first") \/ Adoption!Goto(a, "stage")
    BY <1>2 DEF Adoption!Admit, Adoption!EnforceContinuity
  <2> QED
    BY <2>1, <2>2, FailsEnds, AdopterGoes
<1>3. CASE Adoption!Stage(a)
  <2>1. UNCHANGED <<root, seen>> /\ x.pc = "stage"
    BY <1>3 DEF Adoption!Stage, Adoption!At
  <2>2. CASE adopters' = [adopters EXCEPT ![a].pc = "second", ![a].staging = TRUE]
    <3>1. adopters'[a] = [x EXCEPT !.pc = "second", !.staging = TRUE]
      BY <1>1, <2>2
    <3>2. /\ DOMAIN adopters'[a] = DOMAIN x /\ adopters'[a].pc = "second"
          /\ adopters'[a].first = x.first /\ adopters'[a].second = x.second
          /\ adopters'[a].done = 0 /\ adopters'[a].status = x.status
      BY <1>1, <2>1, <3>1 DEF AdopterInv
    <3>3. AdopterInv(a)'
      BY <1>1, <2>1, <3>2 DEF AdopterInv
    <3> QED
      BY <1>1, <2>1, <2>2, <3>3, AdopterMoves
  <2> QED
    BY <1>3, <2>1, <2>2, FailsEnds DEF Adoption!Stage
<1>4. CASE Adoption!CollectCached(a)
  <2>1. /\ UNCHANGED <<root, seen>> /\ x.pc = "second" /\ x.done = 0
        /\ adopters' = [adopters EXCEPT ![a].second = x.first, ![a].cached = TRUE,
                                        ![a].pc = "reconcile"]
    BY <1>4 DEF Adoption!CollectCached, Adoption!At
  <2>2. adopters'[a] = [x EXCEPT !.second = x.first, !.cached = TRUE, !.pc = "reconcile"]
    BY <1>1, <2>1
  <2>3. /\ DOMAIN adopters'[a] = DOMAIN x /\ adopters'[a].pc = "reconcile"
        /\ adopters'[a].first = x.first /\ adopters'[a].second = x.first
        /\ adopters'[a].done = x.done /\ adopters'[a].status = x.status
        /\ adopters'[a].cached = TRUE
    BY <1>1, <2>2 DEF AdopterInv
  <2>4. AdopterInv(a)'
    BY <1>1, <2>1, <2>3 DEF AdopterInv
  <2> QED
    BY <1>1, <2>1, <2>4, AdopterMoves
<1>5. CASE Adoption!Reconcile(a)
  <2>1. UNCHANGED <<root, seen>> /\ x.pc = "reconcile"
    BY <1>5 DEF Adoption!Reconcile, Adoption!At
  <2>2. CASE Adoption!Independent(a) /\ Adoption!InSync(a) /\ Adoption!Goto(a, "promote")
    <3>1. ~x.cached /\ \A v \in Verticals : x.first[v] = x.second[v]
      BY <2>2 DEF Adoption!Independent, Adoption!InSync, Verticals
    <3>2. \A v \in Verticals : x.first[v] = seen[a][v] /\ seen[a][v] # {}
      BY <1>1, <2>1, <3>1 DEF AdopterInv, ReadAgain
    <3> QED
      BY <2>1, <2>2, <3>2, AdopterGoes
  <2> QED
    BY <1>5, <2>1, <2>2, FailsEnds DEF Adoption!Reconcile
<1>6. CASE Adoption!Promote(a)
  <2>1. UNCHANGED seen /\ x.pc = "promote"
    BY <1>6 DEF Adoption!Promote, Adoption!At
  <2>2. CASE Adoption!Fails(a) /\ UNCHANGED root
    BY <2>1, <2>2, FailsEnds
  <2>3. CASE /\ root.by = "none" /\ root' = [by |-> a, states |-> x.first]
             /\ adopters' = [adopters EXCEPT ![a].pc = "verify", ![a].staging = FALSE]
    <3>1. root'.by = a /\ root'.states = x.first
      BY <2>3
    <3>2. adopters'[a] = [x EXCEPT !.pc = "verify", !.staging = FALSE]
          /\ DOMAIN adopters' = Adopters /\ \A b \in Adopters \ {a} : adopters'[b] = adopters[b]
      BY <1>1, <2>3
    <3>3. /\ DOMAIN adopters'[a] = DOMAIN x /\ adopters'[a].pc = "verify"
          /\ adopters'[a].first = x.first /\ adopters'[a].second = x.second
          /\ adopters'[a].done = x.done /\ adopters'[a].status = x.status
      BY <1>1, <3>2 DEF AdopterInv
    <3>4. AdopterInv(a)'
      BY <1>1, <2>1, <3>1, <3>3 DEF AdopterInv
    <3>5. ASSUME NEW b \in Adopters \ {a} PROVE AdopterInv(b)'
      <4>1. AdopterInv(b) /\ adopters'[b] = adopters[b] /\ seen'[b] = seen[b] /\ b # "none"
        BY <2>1, <3>2, OperationsAssumption DEF AdoptionInv
      <4>2. adopters[b].pc # "verify" /\ adopters[b].status # "0"
        BY <2>3, <4>1 DEF AdopterInv
      <4> QED
        BY <3>1, <4>1, <4>2 DEF AdopterInv, ReadAgain
    <3>6. RootInv'
      BY <1>1, <2>1, <3>1 DEF RootInv, AdopterInv
    <3> QED
      BY <1>1, <2>1, <3>2, <3>4, <3>5, <3>6 DEF AdoptionInv
  <2> QED
    BY <1>6, <2>2, <2>3 DEF Adoption!Promote
<1>7. CASE Adoption!ReadBack(a)
  <2>1. UNCHANGED <<root, seen>> /\ x.pc = "verify" /\ root.by = a
    BY <1>1, <1>7 DEF Adoption!ReadBack, Adoption!At, AdopterInv
  <2>2. PICK status \in {"0", "2"} :
          adopters' = [adopters EXCEPT ![a].pc = "end", ![a].status = status]
    BY <1>7 DEF Adoption!ReadBack
  <2>3. adopters'[a] = [x EXCEPT !.pc = "end", !.status = status]
        /\ DOMAIN adopters' = Adopters /\ \A b \in Adopters \ {a} : adopters'[b] = adopters[b]
    BY <1>1, <2>2
  <2>4. /\ DOMAIN adopters'[a] = DOMAIN x /\ adopters'[a].pc = "end"
        /\ adopters'[a].first = x.first /\ adopters'[a].second = x.second
        /\ adopters'[a].done = x.done
    BY <1>1, <2>3 DEF AdopterInv
  <2>5. AdopterInv(a)'
    BY <1>1, <2>1, <2>4 DEF AdopterInv
  <2> QED
    BY <1>1, <2>1, <2>3, <2>5, AdopterMoves
<1>8. CASE Adoption!Crash(a)
  <2>1. /\ UNCHANGED <<root, seen>> /\ x.pc # "end"
        /\ adopters' = [adopters EXCEPT ![a].pc = "end", ![a].status = "killed"]
    BY <1>8 DEF Adoption!Crash
  <2>2. adopters'[a] = [x EXCEPT !.pc = "end", !.status = "killed"]
        /\ DOMAIN adopters' = Adopters /\ \A b \in Adopters \ {a} : adopters'[b] = adopters[b]
    BY <1>1, <2>1
  <2>3. /\ DOMAIN adopters'[a] = DOMAIN x /\ adopters'[a].pc = "end"
        /\ adopters'[a].first = x.first /\ adopters'[a].second = x.second
        /\ adopters'[a].done = x.done /\ adopters'[a].status = "killed"
    BY <1>1, <2>2 DEF AdopterInv
  <2>4. AdopterInv(a)'
    BY <1>1, <2>1, <2>3 DEF AdopterInv
  <2> QED
    BY <1>1, <2>1, <2>2, <2>4, AdopterMoves
<1> QED
  BY <1>2, <1>3, <1>4, <1>5, <1>6, <1>7, <1>8

LEMMA NextAdoption == AdoptionInv /\ [Next]_vars => AdoptionInv'
<1> SUFFICES ASSUME AdoptionInv, [Next]_vars PROVE AdoptionInv'
  OBVIOUS
<1>1. CASE UNCHANGED <<root, adopters, seen>>
  BY <1>1 DEF AdoptionInv, RootInv, AdopterInv, ReadAgain
<1>2. CASE Adoption!Next
  BY <1>1, <1>2, FirstReads, SecondReads, StepAdoption DEF Adoption!Next, Adoption!Change
<1> QED
  BY <1>1, <1>2 DEF Next, vars, adoption

\* The first accepted state is what the second read found, vertical by vertical,
\* and one adoption made it (initialize_live_d0_store).
THEOREM Adoptions == Spec => []AdoptedAsRead
<1>1. Init => AdoptionInv
  BY InitAdoption DEF Init
<1>2. AdoptionInv => AdoptedAsRead
  BY DEF AdoptionInv, RootInv, AdopterInv, AdoptedAsRead, Adoption!AdoptedAsRead, Verticals
<1> QED
  BY <1>1, <1>2, NextAdoption, PTL DEF Spec

-----------------------------------------------------------------------------
(***************************************************************************)
(* The collection of a configuration (ConfigurationCollection).           *)
(***************************************************************************)
Names == Collection!Names
Outcome == [job : Nat, ok : BOOLEAN]
Revision == [job : Nat, content : Nat]
Container == [id : Nat, source : Nat, last : Outcome,
              phase : {"idle", "collecting", "storing"}, got : Nat]
Attempt == [pc : {"baseline", "admit", "mark", "submit", "poll", "bind", "bound", "failed"},
            expected : Revision, before : Revision, first : Nat, since : Nat,
            mark : Outcome, accepted : Nat, after : Revision]

\* What a job stores is never older than what the history has.
JobsInOrder(d, j, h, x) ==
    /\ h.content <= d /\ h.job <= j /\ x.last.job <= j
    /\ x.phase # "idle" => x.got <= d /\ h.content <= x.got
    /\ x.phase = "collecting" => h.job < j /\ x.last.job < j

\* What job k collected is in the history, is about to be, or never will be.
Accounted(k, since, j, h, x, l) ==
    \/ k \in l
    \/ x.phase = "storing" /\ j = k
    \/ since <= h.content

\* A job from the first one on that may answer a request collects what the
\* device had since, and what it said it collected is accounted for.
AttemptSound(o, d, j, h, x, l) ==
    /\ o.pc \in {"mark", "submit", "poll", "bind"} =>
          /\ o.first <= j + 1 /\ o.since <= d
          /\ o.first <= h.job => o.since <= h.content
          /\ x.phase # "idle" /\ o.first <= j => o.since <= x.got
    /\ o.pc \in {"mark", "submit", "poll"} /\ x.last.ok /\ o.first <= x.last.job =>
          Accounted(x.last.job, o.since, j, h, x, l)
    /\ o.pc = "bind" => o.first <= o.accepted /\ Accounted(o.accepted, o.since, j, h, x, l)
    /\ o.pc = "bound" =>
          \/ o.since <= o.after.content
          \/ o.accepted \in l
          \/ o.after # o.before /\ o.after.job < o.first /\ o.after.job # o.accepted

WorldTypes(d, j, h, x, l) ==
    d \in Nat /\ j \in Nat /\ h \in Revision /\ x \in Container /\ l \in SUBSET Nat

CollectionInv ==
    /\ WorldTypes(device, jobs, history, oxidized, lost)
    /\ JobsInOrder(device, jobs, history, oxidized)
    /\ observers \in [Names -> Attempt]
    /\ \A n \in Names : AttemptSound(observers[n], device, jobs, history, oxidized, lost)

SameSource == oxidized.source = source \/ missed

\* No marker is there while a reconciliation runs; a source that is not the
\* container's is known to the reconciliation, in suspicion, or was missed.
SourceInv ==
    /\ reconciler \in [pc : {"idle", "source", "container", "run", "publish"},
                       reload : BOOLEAN, changed : BOOLEAN]
    /\ source \in Nat /\ authority \in Nat /\ reconciles \in Nat /\ suspect \in BOOLEAN
    /\ oxidized.id = 0 => oxidized.phase = "idle"
    /\ reconciler.pc = "run" => oxidized.id = 0
    /\ reconciler.pc # "idle" => marker.id = 0
    /\ reconciler.pc \in {"source", "container"} /\ suspect => reconciler.reload
    /\ oxidized.id # 0 =>
          \/ SameSource \/ suspect
          \/ reconciler.pc = "container" /\ reconciler.changed
    /\ oxidized.id # 0 /\ (reconciler.pc = "publish" \/ (reconciler.pc = "idle" /\ marker.id # 0)) =>
          SameSource

\* The world without an observer's step: what an attempt knows stays true.
Onward(d, j, h, x, l, d2, j2, h2, x2, l2) ==
    \* the device changes
    \/ d2 >= d /\ j2 = j /\ h2 = h /\ x2 = x /\ l2 = l
    \* a job starts
    \/ /\ d2 = d /\ j2 = j + 1 /\ h2 = h /\ l2 = l
       /\ x.phase = "idle" /\ ~x.last.ok
       /\ x2.phase = "collecting" /\ x2.got = d /\ x2.last = x.last
    \* it has collected something, or failed
    \/ /\ d2 = d /\ j2 = j /\ h2 = h /\ l2 = l /\ x.phase = "collecting"
       /\ x2.phase = "storing" /\ x2.got \in x.got..d /\ x2.last.job = j
    \/ /\ d2 = d /\ j2 = j /\ h2 = h /\ l2 = l /\ x.phase = "collecting"
       /\ x2.phase = "idle" /\ x2.last.job = j /\ ~x2.last.ok
    \* it stores that
    \/ /\ d2 = d /\ j2 = j /\ l2 = l /\ x.phase = "storing"
       /\ x2.phase = "idle" /\ x2.last = x.last
       /\ h2.content = x.got /\ h2.job \in {h.job, j} /\ (h2.job = h.job => h2.job = j \/ h2 = h)
    \* or cannot, or the container stops
    \/ /\ d2 = d /\ j2 = j /\ h2 = h /\ l \subseteq l2
       /\ x.phase = "storing" => j \in l2
       /\ x2.phase = "idle"
       /\ x2.last = x.last \/ (x2.last.job = 0 /\ ~x2.last.ok)
    \* or a request for the node takes its last outcome away
    \/ /\ d2 = d /\ j2 = j /\ h2 = h /\ l2 = l
       /\ x2.phase = x.phase /\ x2.got = x.got /\ x2.last.job = 0 /\ ~x2.last.ok

LEMMA OnwardSound ==
  ASSUME NEW d, NEW j, NEW h, NEW x, NEW l, WorldTypes(d, j, h, x, l), JobsInOrder(d, j, h, x),
         NEW d2, NEW j2, NEW h2, NEW x2, NEW l2, WorldTypes(d2, j2, h2, x2, l2),
         Onward(d, j, h, x, l, d2, j2, h2, x2, l2)
  PROVE  /\ JobsInOrder(d2, j2, h2, x2)
         /\ \A o \in Attempt : AttemptSound(o, d, j, h, x, l) => AttemptSound(o, d2, j2, h2, x2, l2)
<1>1. /\ d \in Nat /\ j \in Nat /\ h.job \in Nat /\ h.content \in Nat
      /\ x.last.job \in Nat /\ x.last.ok \in BOOLEAN /\ x.got \in Nat
      /\ x.phase \in {"idle", "collecting", "storing"}
      /\ d2 \in Nat /\ j2 \in Nat /\ h2.job \in Nat /\ h2.content \in Nat
      /\ x2.last.job \in Nat /\ x2.last.ok \in BOOLEAN /\ x2.got \in Nat
      /\ x2.phase \in {"idle", "collecting", "storing"}
  BY DEF WorldTypes, Container, Revision, Outcome
<1>2. JobsInOrder(d2, j2, h2, x2)
  BY <1>1 DEF JobsInOrder, Onward
<1>3. ASSUME NEW o \in Attempt, AttemptSound(o, d, j, h, x, l)
      PROVE  AttemptSound(o, d2, j2, h2, x2, l2)
  <2>1. o.first \in Nat /\ o.since \in Nat /\ o.accepted \in Nat
    BY DEF Attempt
  <2>2. o.pc \in {"mark", "submit", "poll", "bind"} =>
          /\ o.first <= j2 + 1 /\ o.since <= d2
          /\ o.first <= h2.job => o.since <= h2.content
          /\ x2.phase # "idle" /\ o.first <= j2 => o.since <= x2.got
    BY <1>1, <1>3, <2>1 DEF AttemptSound, JobsInOrder, Onward
  <2>3. o.pc \in {"mark", "submit", "poll", "bind"} =>
          \A k \in Nat : Accounted(k, o.since, j, h, x, l) /\ o.first <= k =>
                             Accounted(k, o.since, j2, h2, x2, l2)
    BY <1>1, <1>3, <2>1 DEF AttemptSound, JobsInOrder, Onward, Accounted
  <2>4. o.pc \in {"mark", "submit", "poll"} /\ x2.last.ok /\ o.first <= x2.last.job =>
          Accounted(x2.last.job, o.since, j2, h2, x2, l2)
    <3>1. CASE x2.last.job = j /\ x2.phase = "storing" /\ j2 = j
      BY <3>1 DEF Accounted
    <3>2. CASE x2.last = x.last
      BY <1>1, <1>3, <2>3, <3>2 DEF AttemptSound
    <3>3. CASE ~x2.last.ok
      BY <3>3
    <3> QED
      BY <3>1, <3>2, <3>3 DEF Onward
  <2>5. o.pc = "bind" => o.first <= o.accepted /\ Accounted(o.accepted, o.since, j2, h2, x2, l2)
    BY <1>3, <2>1, <2>3 DEF AttemptSound
  <2>6. l \subseteq l2
    BY DEF Onward
  <2> QED
    BY <1>3, <2>2, <2>4, <2>5, <2>6 DEF AttemptSound
<1> QED
  BY <1>2, <1>3

\* A step of the world, then a step of one observer in it.
LEMMA CollectionMoves ==
  ASSUME CollectionInv,
         WorldTypes(device, jobs, history, oxidized, lost)',
         \/ UNCHANGED <<device, jobs, history, oxidized, lost>>
         \/ Onward(device, jobs, history, oxidized, lost, device', jobs', history', oxidized', lost'),
         \/ observers' = observers
         \/ \E n \in Names, o \in Attempt :
               /\ observers' = [observers EXCEPT ![n] = o]
               /\ AttemptSound(observers[n], device', jobs', history', oxidized', lost') =>
                      AttemptSound(o, device', jobs', history', oxidized', lost')
  PROVE  CollectionInv'
<1>1. JobsInOrder(device, jobs, history, oxidized)'
  BY OnwardSound DEF CollectionInv
<1>2. \A n \in Names : AttemptSound(observers[n], device', jobs', history', oxidized', lost')
  BY OnwardSound DEF CollectionInv
<1>3. /\ observers' \in [Names -> Attempt]
      /\ \A n \in Names : AttemptSound(observers'[n], device', jobs', history', oxidized', lost')
  <2>1. CASE observers' = observers
    BY <1>2, <2>1 DEF CollectionInv
  <2>2. CASE observers' # observers
    <3>1. PICK n \in Names, o \in Attempt :
               /\ observers' = [observers EXCEPT ![n] = o]
               /\ AttemptSound(observers[n], device', jobs', history', oxidized', lost') =>
                      AttemptSound(o, device', jobs', history', oxidized', lost')
      BY <2>2
    <3> QED
      BY <1>2, <3>1 DEF CollectionInv
  <2> QED
    BY <2>1, <2>2
<1> QED
  BY <1>1, <1>3 DEF CollectionInv

LEMMA InitSound == Collection!Begin \/ Collection!InitCollection => CollectionInv /\ SourceInv
<1> SUFFICES ASSUME Collection!Begin \/ Collection!InitCollection PROVE CollectionInv /\ SourceInv
  OBVIOUS
<1> DEFINE None == [job |-> 0, content |-> 0]
           Fresh == [pc |-> "baseline", expected |-> None, before |-> None, first |-> 0, since |-> 0,
                     mark |-> [job |-> 0, ok |-> FALSE], accepted |-> 0, after |-> None]
<1>1. \E last \in {[job |-> 0, ok |-> FALSE], [job |-> 1, ok |-> TRUE]} :
         oxidized = [id |-> 1, source |-> 1, last |-> last, phase |-> "idle", got |-> 0]
  BY DEF Collection!Begin, Collection!InitCollection, Collection!Starts, Collection!Up,
         Collection!Down, Collection!NoLast
<1>2. history \in {None, [job |-> 1, content |-> 1]}
  BY DEF Collection!Begin, Collection!InitCollection, Collection!Starts, Collection!NoRevision
<1>3. /\ device = 1 /\ jobs = 1 /\ lost = {} /\ observers = [n \in Names |-> Fresh]
      /\ source = 1 /\ missed = FALSE /\ suspect = FALSE
      /\ authority \in {1, 2} /\ reconciles = 0
      /\ reconciler = [pc |-> "idle", reload |-> FALSE, changed |-> FALSE]
  BY DEF Collection!Begin, Collection!InitCollection, Collection!Starts, Names,
         Collection!NewAttempt, Collection!NoRevision, Collection!NoLast
<1>4. SourceInv
  <2>1. oxidized.phase = "idle" /\ oxidized.source = 1 /\ oxidized.id = 1
    BY <1>1
  <2>2. reconciler \in [pc : {"idle", "source", "container", "run", "publish"},
                        reload : BOOLEAN, changed : BOOLEAN] /\ reconciler.pc = "idle"
    BY <1>3
  <2>3. source \in Nat /\ authority \in Nat /\ reconciles \in Nat
    BY <1>3
  <2>4. suspect \in BOOLEAN /\ ~suspect
    BY <1>3, Zenon
  <2> QED
    BY <1>3, <2>1, <2>2, <2>3, <2>4 DEF SourceInv, SameSource
<1>5. Fresh \in Attempt /\ \A d, j, h, x, l : AttemptSound(Fresh, d, j, h, x, l)
  BY DEF Attempt, Revision, Outcome, AttemptSound
<1>6. oxidized \in Container /\ oxidized.phase = "idle" /\ oxidized.last.job \in {0, 1}
  <2>1. PICK last \in {[job |-> 0, ok |-> FALSE], [job |-> 1, ok |-> TRUE]} :
           oxidized = [id |-> 1, source |-> 1, last |-> last, phase |-> "idle", got |-> 0]
    BY <1>1
  <2>2. /\ [job |-> 0, ok |-> FALSE] \in Outcome /\ [job |-> 0, ok |-> FALSE].job = 0
        /\ [job |-> 1, ok |-> TRUE] \in Outcome /\ [job |-> 1, ok |-> TRUE].job = 1
    BY DEF Outcome
  <2> QED
    BY <2>1, <2>2 DEF Container
<1>7. history \in Revision /\ history.job \in {0, 1} /\ history.content \in {0, 1}
  BY <1>2 DEF Revision
<1>8. WorldTypes(device, jobs, history, oxidized, lost)
  BY <1>3, <1>6, <1>7 DEF WorldTypes
<1>9. JobsInOrder(device, jobs, history, oxidized)
  BY <1>3, <1>6, <1>7 DEF JobsInOrder
<1> HIDE DEF Fresh
<1>10. observers \in [Names -> Attempt] /\ \A n \in Names : observers[n] = Fresh
  BY <1>3, <1>5
<1> QED
  BY <1>4, <1>5, <1>8, <1>9, <1>10 DEF CollectionInv

\* The container stops, or another one starts.
LEMMA StopsSound ==
  ASSUME CollectionInv, UNCHANGED <<device, jobs, history, observers>>,
         \/ Collection!Stops
         \/ /\ oxidized.phase # "storing" /\ lost' = lost
            /\ \E i, s \in Nat : oxidized' = Collection!Up(i, s)
  PROVE  CollectionInv'
<1>0. /\ WorldTypes(device, jobs, history, oxidized, lost)
      /\ device \in Nat /\ jobs \in Nat /\ oxidized \in Container
      /\ history \in Revision /\ lost \in SUBSET Nat
  BY DEF CollectionInv, WorldTypes
<1>1. \E i, s \in Nat : oxidized' = [id |-> i, source |-> s, last |-> [job |-> 0, ok |-> FALSE],
                                     phase |-> "idle", got |-> 0]
  BY DEF Collection!Stops, Collection!Down, Collection!Up, Collection!NoLast
<1>2. /\ oxidized' \in Container /\ oxidized'.phase = "idle"
      /\ oxidized'.last.job = 0 /\ ~oxidized'.last.ok
  <2>1. PICK i \in Nat, s \in Nat :
           oxidized' = [id |-> i, source |-> s, last |-> [job |-> 0, ok |-> FALSE],
                        phase |-> "idle", got |-> 0]
    BY <1>1
  <2>2. [job |-> 0, ok |-> FALSE] \in Outcome
    BY DEF Outcome
  <2> QED
    BY <2>1, <2>2 DEF Container
<1>3. /\ lost' \in SUBSET Nat /\ lost \subseteq lost'
      /\ oxidized.phase = "storing" => jobs \in lost'
  BY <1>0 DEF Collection!Stops
<1>4. WorldTypes(device, jobs, history, oxidized, lost)'
  BY <1>0, <1>2, <1>3 DEF WorldTypes
<1>5. Onward(device, jobs, history, oxidized, lost, device', jobs', history', oxidized', lost')
  BY <1>2, <1>3 DEF Onward
<1> QED
  BY <1>4, <1>5, CollectionMoves

LEMMA ContainerIs ==
  ASSUME NEW x \in Container
  PROVE  /\ x.id \in Nat /\ x.source \in Nat /\ x.last \in Outcome /\ x.got \in Nat
         /\ x.phase \in {"idle", "collecting", "storing"}
         /\ x.last.job \in Nat /\ x.last.ok \in BOOLEAN
  BY DEF Container, Outcome

\* What the device and Oxidized do.
LEMMA OxidizedSteps ==
  ASSUME CollectionInv,
         \/ Collection!Change \/ Collection!StartJob \/ Collection!EndJob
         \/ Collection!Store \/ Collection!Die
  PROVE  CollectionInv'
<1> DEFINE Goes == Onward(device, jobs, history, oxidized, lost,
                          device', jobs', history', oxidized', lost')
<1>0. /\ WorldTypes(device, jobs, history, oxidized, lost)
      /\ JobsInOrder(device, jobs, history, oxidized)
      /\ device \in Nat /\ jobs \in Nat /\ oxidized \in Container
      /\ history \in Revision /\ lost \in SUBSET Nat
  BY DEF CollectionInv, WorldTypes
<1>1. CASE Collection!Change
  <2>1. WorldTypes(device, jobs, history, oxidized, lost)' /\ Goes /\ observers' = observers
    BY <1>0, <1>1 DEF Collection!Change, WorldTypes, Onward
  <2> QED
    BY <2>1, CollectionMoves
<1>2. CASE Collection!StartJob
  <2>1. /\ jobs' = jobs + 1 /\ oxidized.phase = "idle" /\ oxidized.last = Collection!NoLast
        /\ oxidized' = [oxidized EXCEPT !.phase = "collecting", !.got = device]
        /\ UNCHANGED <<device, history, lost, observers>>
    BY <1>2 DEF Collection!StartJob
  <2>2. ~oxidized.last.ok
    BY <2>1 DEF Collection!NoLast
  <2>3. /\ oxidized' \in Container /\ oxidized'.phase = "collecting"
        /\ oxidized'.got = device /\ oxidized'.last = oxidized.last
    BY <1>0, <2>1 DEF Container
  <2>4. WorldTypes(device, jobs, history, oxidized, lost)'
    BY <1>0, <2>1, <2>3 DEF WorldTypes
  <2>5. Goes
    BY <2>1, <2>2, <2>3 DEF Onward
  <2> QED
    BY <2>1, <2>4, <2>5, CollectionMoves
<1>3. CASE Collection!EndJob
  <2>1. UNCHANGED <<device, jobs, history, lost, observers>> /\ oxidized.phase = "collecting"
    BY <1>3 DEF Collection!EndJob
  <2>2. /\ [job |-> jobs, ok |-> TRUE] \in Outcome /\ [job |-> jobs, ok |-> FALSE] \in Outcome
        /\ oxidized.got..device \subseteq Nat
    <3>1. oxidized.got \in Nat
      BY <1>0, ContainerIs
    <3> QED
      BY <1>0, <3>1 DEF Outcome
  <2>3. \/ \E c \in oxidized.got..device : oxidized' =
              [oxidized EXCEPT !.phase = "storing", !.got = c, !.last = [job |-> jobs, ok |-> TRUE]]
        \/ oxidized' =
              [oxidized EXCEPT !.phase = "idle", !.got = 0, !.last = [job |-> jobs, ok |-> FALSE]]
    BY <1>3 DEF Collection!EndJob
  <2>4. /\ oxidized' \in Container
        /\ \/ /\ oxidized'.phase = "storing" /\ oxidized'.got \in oxidized.got..device
              /\ oxidized'.last.job = jobs
           \/ oxidized'.phase = "idle" /\ oxidized'.last.job = jobs /\ ~oxidized'.last.ok
    <3>1. CASE \E c \in oxidized.got..device : oxidized' =
              [oxidized EXCEPT !.phase = "storing", !.got = c, !.last = [job |-> jobs, ok |-> TRUE]]
      <4>1. PICK c \in oxidized.got..device : oxidized' =
              [oxidized EXCEPT !.phase = "storing", !.got = c, !.last = [job |-> jobs, ok |-> TRUE]]
        BY <3>1
      <4>2. c \in Nat
        BY <2>2
      <4>3. /\ oxidized' \in Container /\ oxidized'.phase = "storing" /\ oxidized'.got = c
            /\ oxidized'.last = [job |-> jobs, ok |-> TRUE]
        BY <1>0, <2>2, <4>1, <4>2 DEF Container
      <4> QED
        BY <4>3
    <3>2. CASE oxidized' =
              [oxidized EXCEPT !.phase = "idle", !.got = 0, !.last = [job |-> jobs, ok |-> FALSE]]
      <4>1. /\ oxidized' \in Container /\ oxidized'.phase = "idle"
            /\ oxidized'.last = [job |-> jobs, ok |-> FALSE]
        BY <1>0, <2>2, <3>2 DEF Container
      <4> QED
        BY <4>1
    <3> QED
      BY <2>3, <3>1, <3>2
  <2>5. WorldTypes(device, jobs, history, oxidized, lost)'
    BY <1>0, <2>1, <2>4 DEF WorldTypes
  <2>6. Goes
    BY <2>1, <2>4 DEF Onward
  <2> QED
    BY <2>1, <2>5, <2>6, CollectionMoves
<1>4. CASE Collection!Store
  <2>1. /\ oxidized.phase = "storing" /\ UNCHANGED <<device, jobs, observers>>
        /\ oxidized' = [oxidized EXCEPT !.phase = "idle", !.got = 0]
        /\ \/ /\ history' = IF history.content = oxidized.got THEN history
                            ELSE [job |-> jobs, content |-> oxidized.got]
              /\ UNCHANGED lost
           \/ lost' = lost \union {jobs} /\ UNCHANGED history
    BY <1>4 DEF Collection!Store
  <2>2. oxidized' \in Container /\ oxidized'.phase = "idle" /\ oxidized'.last = oxidized.last
    BY <1>0, <2>1 DEF Container
  <2>3. /\ history' \in Revision
        /\ lost' = lost => /\ history' = history \/ history'.job = jobs
                           /\ history' = history => history.content = oxidized.got \/ jobs \in lost'
                           /\ history' # history => history'.content = oxidized.got
        /\ lost' # lost => history' = history /\ lost' = lost \union {jobs}
    <3>1. oxidized.got \in Nat
      BY <1>0, ContainerIs
    <3> QED
      BY <1>0, <2>1, <3>1 DEF Revision
  <2>4. WorldTypes(device, jobs, history, oxidized, lost)'
    BY <1>0, <2>1, <2>2, <2>3 DEF WorldTypes
  <2>5. Goes
    BY <1>0, <2>1, <2>2, <2>3 DEF Onward
  <2> QED
    BY <2>1, <2>4, <2>5, CollectionMoves
<1>5. CASE Collection!Die
  <2>1. UNCHANGED <<device, jobs, history, observers>> /\ Collection!Stops
    BY <1>5 DEF Collection!Die
  <2> QED
    BY <1>0, <2>1, StopsSound DEF Collection!Stops
<1> QED
  BY <1>1, <1>2, <1>3, <1>4, <1>5

\* What an observer does.
LEMMA ObserverMoves ==
  ASSUME CollectionInv, UNCHANGED <<device, jobs, history, oxidized, lost>>,
         NEW n \in Names, NEW o \in Attempt, observers' = [observers EXCEPT ![n] = o],
         AttemptSound(observers[n], device, jobs, history, oxidized, lost) =>
             AttemptSound(o, device, jobs, history, oxidized, lost)
  PROVE  CollectionInv'
<1>1. WorldTypes(device, jobs, history, oxidized, lost)'
  BY DEF CollectionInv, WorldTypes
<1> QED
  BY <1>1, CollectionMoves

\* An attempt that begins again, or failed, knows nothing.
LEMMA Blank ==
  ASSUME NEW n \in Names, NEW o \in Attempt, o.pc \in {"baseline", "failed"}, CollectionInv,
         UNCHANGED <<jobs, history, oxidized, lost>>, device' \in {device, device + 1},
         Collection!Set(n, o)
  PROVE  CollectionInv'
<1>1. \A d, j, h, x, l : AttemptSound(o, d, j, h, x, l)
  BY DEF AttemptSound
<1>2. WorldTypes(device, jobs, history, oxidized, lost)' /\ device \in Nat
  BY DEF CollectionInv, WorldTypes
<1>3. \/ UNCHANGED <<device, jobs, history, oxidized, lost>>
      \/ Onward(device, jobs, history, oxidized, lost, device', jobs', history', oxidized', lost')
  BY <1>2 DEF Onward
<1> QED
  BY <1>1, <1>2, <1>3, CollectionMoves DEF Collection!Set

LEMMA FailsSound ==
  ASSUME CollectionInv, NEW n \in Names, UNCHANGED <<device, jobs, history, oxidized, lost>>,
         Collection!Set(n, [Collection!NewAttempt EXCEPT !.pc = "failed"])
  PROVE  CollectionInv'
<1>1. PICK o : o = [Collection!NewAttempt EXCEPT !.pc = "failed"]
  OBVIOUS
<1>2. o \in Attempt /\ o.pc = "failed"
  BY <1>1 DEF Attempt, Revision, Outcome, Collection!NewAttempt, Collection!NoRevision,
              Collection!NoLast
<1>3. Collection!Set(n, o)
  BY <1>1
<1> QED
  BY <1>2, <1>3, Blank

LEMMA ObserverSteps ==
  ASSUME CollectionInv, NEW n \in Names,
         \/ Collection!ReadBaseline(n) \/ Collection!Admit(n) \/ Collection!ReadLast(n)
         \/ Collection!Submit(n) \/ Collection!Poll(n) \/ Collection!GiveUp(n)
         \/ Collection!BindChanged(n) \/ Collection!BindUnchanged(n)
  PROVE  CollectionInv'
<1> DEFINE a == observers[n]
<1>0. /\ WorldTypes(device, jobs, history, oxidized, lost)
      /\ JobsInOrder(device, jobs, history, oxidized)
      /\ device \in Nat /\ jobs \in Nat /\ oxidized \in Container
      /\ history \in Revision /\ lost \in SUBSET Nat
      /\ a \in Attempt /\ observers \in [Names -> Attempt]
      /\ AttemptSound(a, device, jobs, history, oxidized, lost)
  BY DEF CollectionInv, WorldTypes
<1>1. /\ a.first \in Nat /\ a.since \in Nat /\ a.accepted \in Nat
      /\ history.job \in Nat /\ history.content \in Nat /\ oxidized.got \in Nat
      /\ oxidized.last \in Outcome /\ oxidized.last.job \in Nat /\ oxidized.last.ok \in BOOLEAN
      /\ oxidized.phase \in {"idle", "collecting", "storing"}
  BY <1>0 DEF Attempt, Container, Revision, Outcome
<1> DEFINE Same == UNCHANGED <<device, jobs, history, oxidized, lost>>
           Failed == Collection!Set(n, [Collection!NewAttempt EXCEPT !.pc = "failed"])
<1>2. Same /\ Failed => CollectionInv'
  BY FailsSound
<1>3. CASE Collection!ReadBaseline(n)
  <2>1. Same
    BY <1>3 DEF Collection!ReadBaseline, Collection!Environment
  <2>2. CASE observers' = [observers EXCEPT ![n] = [a EXCEPT !.pc = "admit", !.before = history]]
    <3>1. PICK o : o = [a EXCEPT !.pc = "admit", !.before = history]
      OBVIOUS
    <3>2. o \in Attempt /\ o.pc = "admit"
      BY <1>0, <3>1 DEF Attempt
    <3>3. AttemptSound(o, device, jobs, history, oxidized, lost)
      BY <3>2 DEF AttemptSound
    <3> QED
      BY <2>1, <2>2, <3>1, <3>2, <3>3, ObserverMoves
  <2> QED
    BY <1>2, <1>3, <2>1, <2>2 DEF Collection!ReadBaseline, Collection!Fails, Collection!Set
<1>4. CASE Collection!Admit(n)
  <2>1. Same
    BY <1>4 DEF Collection!Admit, Collection!Environment
  <2>2. CASE \/ observers' = [observers EXCEPT ![n] =
                   [a EXCEPT !.pc = "mark", !.first = jobs + 1, !.since = device]]
             \/ /\ oxidized.phase = "collecting"
                /\ observers' = [observers EXCEPT ![n] =
                       [a EXCEPT !.pc = "mark", !.first = jobs, !.since = oxidized.got]]
    <3>1. PICK f \in Nat, s \in Nat :
            /\ observers' = [observers EXCEPT ![n] = [a EXCEPT !.pc = "mark", !.first = f, !.since = s]]
            /\ \/ f = jobs + 1 /\ s = device
               \/ f = jobs /\ s = oxidized.got /\ oxidized.phase = "collecting"
      <4>1. jobs + 1 \in Nat
        BY <1>0
      <4> QED
        BY <1>0, <1>1, <2>2, <4>1, Zenon
    <3>2. PICK o : o = [a EXCEPT !.pc = "mark", !.first = f, !.since = s]
      OBVIOUS
    <3>3. o \in Attempt /\ o.pc = "mark" /\ o.first = f /\ o.since = s
      BY <1>0, <3>2 DEF Attempt
    <3>4. AttemptSound(o, device, jobs, history, oxidized, lost)
      BY <1>0, <1>1, <3>1, <3>3 DEF AttemptSound, JobsInOrder
    <3> QED
      BY <2>1, <3>1, <3>2, <3>3, <3>4, ObserverMoves
  <2> QED
    BY <1>2, <1>4, <2>1, <2>2 DEF Collection!Admit, Collection!Fails, Collection!Set
<1>5. CASE Collection!ReadLast(n)
  <2>1. Same /\ a.pc = "mark"
    BY <1>5 DEF Collection!ReadLast, Collection!Environment, Collection!At
  <2>2. CASE observers' = [observers EXCEPT ![n] = [a EXCEPT !.pc = "submit", !.mark = oxidized.last]]
    <3>1. PICK o : o = [a EXCEPT !.pc = "submit", !.mark = oxidized.last]
      OBVIOUS
    <3>2. o \in Attempt /\ o.pc = "submit" /\ o.first = a.first /\ o.since = a.since
      BY <1>0, <1>1, <3>1 DEF Attempt
    <3>3. AttemptSound(o, device, jobs, history, oxidized, lost)
      BY <1>0, <2>1, <3>2 DEF AttemptSound
    <3> QED
      BY <2>1, <2>2, <3>1, <3>2, <3>3, ObserverMoves
  <2> QED
    BY <1>2, <1>5, <2>1, <2>2 DEF Collection!ReadLast, Collection!Fails, Collection!Set
<1>6. CASE Collection!Submit(n)
  <2>1. UNCHANGED <<device, jobs, history, lost>> /\ a.pc = "submit"
    BY <1>6 DEF Collection!Submit, Collection!Environment, Collection!At
  <2>2. CASE Failed /\ oxidized' = oxidized
    BY <1>2, <2>1, <2>2
  <2>3. CASE /\ observers' = [observers EXCEPT ![n] = [a EXCEPT !.pc = "poll"]]
             /\ oxidized' \in {oxidized, [oxidized EXCEPT !.last = Collection!NoLast]}
    <3>1. PICK o : o = [a EXCEPT !.pc = "poll"]
      OBVIOUS
    <3>2. o \in Attempt /\ o.pc = "poll" /\ o.first = a.first /\ o.since = a.since
      BY <1>0, <3>1 DEF Attempt
    <3>3. \A d, j, h, x, l : AttemptSound(a, d, j, h, x, l) => AttemptSound(o, d, j, h, x, l)
      BY <2>1, <3>2 DEF AttemptSound
    <3>4. Collection!NoLast \in Outcome /\ Collection!NoLast.job = 0 /\ ~Collection!NoLast.ok
      BY DEF Collection!NoLast, Outcome
    <3>5. /\ oxidized' \in Container
          /\ \/ oxidized' = oxidized
             \/ /\ oxidized'.phase = oxidized.phase /\ oxidized'.got = oxidized.got
                /\ oxidized'.last.job = 0 /\ ~oxidized'.last.ok
      BY <1>0, <2>3, <3>4 DEF Container
    <3>6. WorldTypes(device, jobs, history, oxidized, lost)'
      BY <1>0, <2>1, <3>5 DEF WorldTypes
    <3>7. Same \/ Onward(device, jobs, history, oxidized, lost,
                         device', jobs', history', oxidized', lost')
      BY <2>1, <3>5 DEF Onward
    <3> QED
      BY <2>3, <3>1, <3>2, <3>3, <3>6, <3>7, CollectionMoves
  <2> QED
    BY <1>6, <2>2, <2>3 DEF Collection!Submit, Collection!Fails, Collection!Set
<1>7. CASE Collection!Poll(n)
  <2>1. Same /\ a.pc = "poll"
    BY <1>7 DEF Collection!Poll, Collection!Environment, Collection!At
  <2>2. CASE /\ a.first <= oxidized.last.job /\ oxidized.last.ok
             /\ observers' = [observers EXCEPT ![n] = [a EXCEPT
                    !.pc = "bind", !.accepted = oxidized.last.job, !.mark = Collection!NoLast]]
    <3>1. PICK o : o = [a EXCEPT !.pc = "bind", !.accepted = oxidized.last.job,
                                 !.mark = Collection!NoLast]
      OBVIOUS
    <3>2. Collection!NoLast \in Outcome
      BY DEF Collection!NoLast, Outcome
    <3>3. /\ o \in Attempt /\ o.pc = "bind" /\ o.first = a.first /\ o.since = a.since
          /\ o.accepted = oxidized.last.job
      BY <1>0, <1>1, <3>1, <3>2 DEF Attempt
    <3>4. AttemptSound(o, device, jobs, history, oxidized, lost)
      BY <1>0, <2>1, <2>2, <3>3 DEF AttemptSound
    <3> QED
      BY <2>1, <2>2, <3>1, <3>3, <3>4, ObserverMoves
  <2> QED
    BY <1>1, <1>2, <1>7, <2>1, <2>2
    DEF Collection!Poll, Collection!Since, Collection!Fails, Collection!Set
<1>8. CASE Collection!GiveUp(n)
  BY <1>2, <1>8 DEF Collection!GiveUp, Collection!Fails
<1>9. CASE Collection!Bound(n) /\ Same /\ a.pc = "bind" /\ (history = a.before => Collection!Settled(a))
  <2>1. observers' = [observers EXCEPT ![n] = [a EXCEPT !.pc = "bound", !.after = history]]
    BY <1>9 DEF Collection!Bound, Collection!Set
  <2>2. PICK o : o = [a EXCEPT !.pc = "bound", !.after = history]
    OBVIOUS
  <2>3. /\ o \in Attempt /\ o.pc = "bound" /\ o.first = a.first /\ o.since = a.since
        /\ o.accepted = a.accepted /\ o.before = a.before /\ o.after = history
    BY <1>0, <2>2 DEF Attempt
  <2>4. AttemptSound(o, device, jobs, history, oxidized, lost)
    BY <1>0, <1>1, <1>9, <2>3 DEF AttemptSound, Accounted, Collection!Settled
  <2> QED
    BY <1>9, <2>1, <2>2, <2>3, <2>4, ObserverMoves
<1>10. CASE Collection!BindChanged(n)
  BY <1>2, <1>9, <1>10 DEF Collection!BindChanged, Collection!At
<1>11. CASE Collection!BindUnchanged(n)
  BY <1>2, <1>9, <1>11 DEF Collection!BindUnchanged, Collection!At, Collection!Environment
<1> QED
  BY <1>3, <1>4, <1>5, <1>6, <1>7, <1>8, <1>10, <1>11

LEMMA NextCollection == CollectionInv /\ SourceInv /\ [Next]_vars => CollectionInv'
<1> SUFFICES ASSUME CollectionInv, SourceInv, [Next]_vars PROVE CollectionInv'
  OBVIOUS
<1>1. CASE UNCHANGED <<device, oxidized, jobs, history, lost, observers>>
  BY <1>1 DEF CollectionInv, WorldTypes, JobsInOrder, AttemptSound, Accounted
<1>2. ASSUME NEW n \in Names, Collection!Observe(n) PROVE CollectionInv'
  BY <1>2, ObserverSteps DEF Collection!Observe
<1>3. CASE Collection!Execute
  <2>1. PICK o : o = [Collection!NewAttempt EXCEPT !.expected = observers["delivery"].after]
    OBVIOUS
  <2>2. "delivery" \in Names /\ observers["delivery"].after \in Revision
    BY DEF Names, Collection!Names, CollectionInv, Attempt
  <2>3. o \in Attempt /\ o.pc = "baseline"
    BY <2>1, <2>2 DEF Attempt, Revision, Outcome, Collection!NewAttempt, Collection!NoRevision,
                      Collection!NoLast
  <2>4. /\ Collection!Set("delivery", o) /\ UNCHANGED <<jobs, history, oxidized, lost>>
        /\ device' \in {device, device + 1}
    BY <1>3, <2>1 DEF Collection!Execute
  <2> QED
    BY <2>2, <2>3, <2>4, Blank
<1>4. CASE Collection!Remove
  BY <1>1, <1>4, StopsSound DEF Collection!Remove, Collection!Quiet
<1>5. CASE Collection!RunContainer
  <2>1. UNCHANGED <<device, jobs, history, observers, lost>> /\ reconciler.pc = "run"
    BY <1>5 DEF Collection!RunContainer, Collection!Quiet
  <2>2. oxidized.phase = "idle" /\ reconciles + 1 \in Nat /\ source \in Nat
    BY <2>1 DEF SourceInv
  <2>3. oxidized' = oxidized \/ oxidized' = Collection!Up(reconciles + 1, source)
    BY <1>5 DEF Collection!RunContainer
  <2> QED
    BY <1>1, <2>1, <2>2, <2>3, StopsSound
<1>6. CASE \/ Collection!Invalidate \/ Collection!Materialize \/ Collection!PublishReadiness
           \/ Collection!EnrollTrust \/ Collection!RetireTrust
  BY <1>1, <1>6 DEF Collection!Invalidate, Collection!Materialize, Collection!PublishReadiness,
                    Collection!EnrollTrust, Collection!RetireTrust, Collection!Quiet
<1> QED
  BY <1>1, <1>2, <1>3, <1>4, <1>5, <1>6, OxidizedSteps
  DEF Next, vars, collection, Collection!CollectOrObserve, Collection!Reconcile, Names

\* Oxidized goes on or stops, and the reconciler has no part in it.
LEMMA SourceStays ==
  ASSUME SourceInv,
         UNCHANGED <<source, authority, marker, suspect, missed, reconciler, reconciles>>,
         \/ oxidized'.id = oxidized.id /\ oxidized'.source = oxidized.source /\ oxidized.id # 0
         \/ oxidized'.id = 0 /\ oxidized'.phase = "idle"
  PROVE  SourceInv'
  BY DEF SourceInv, SameSource

LEMMA StopsDown ==
  ASSUME Collection!Stops
  PROVE  oxidized'.id = 0 /\ oxidized'.phase = "idle"
  BY DEF Collection!Stops, Collection!Down

\* What the reconciler does.
LEMMA ReconcilerSteps ==
  ASSUME CollectionInv, SourceInv,
         \/ Collection!Invalidate \/ Collection!Materialize \/ Collection!Remove
         \/ Collection!RunContainer \/ Collection!PublishReadiness
  PROVE  SourceInv'
<1>1. CASE Collection!Invalidate
  <2>1. /\ reconciler.pc = "idle" /\ reconciles' = reconciles + 1 /\ marker'.id = 0
        /\ reconciler' = [pc |-> "source", reload |-> suspect, changed |-> FALSE]
        /\ UNCHANGED <<oxidized, source, authority, suspect, missed>>
    BY <1>1 DEF Collection!Invalidate, Collection!NoMarker, Collection!Marker
  <2> QED
    BY <2>1 DEF SourceInv, SameSource
<1>2. CASE Collection!Materialize
  <2>1. /\ reconciler.pc = "source" /\ UNCHANGED <<oxidized, authority, marker, reconciles>>
    BY <1>2 DEF Collection!Materialize
  <2>2. CASE /\ source' = authority /\ UNCHANGED <<suspect, missed>>
             /\ reconciler' = [reconciler EXCEPT !.pc = "container", !.changed = (source # authority)]
    BY <2>1, <2>2 DEF SourceInv, SameSource
  <2>3. CASE /\ Collection!Ends
             /\ \/ UNCHANGED <<source, suspect, missed>>
                \/ Collection!ReplacedAndFails
    <3>1. reconciler' = [pc |-> "idle", reload |-> FALSE, changed |-> FALSE]
      BY <2>3 DEF Collection!Ends
    <3>2. \/ UNCHANGED <<source, suspect, missed>>
          \/ /\ source' = authority
             /\ suspect' = TRUE \/ (suspect' = suspect /\ missed' = TRUE)
      BY <2>3 DEF Collection!ReplacedAndFails
    <3> QED
      BY <2>1, <3>1, <3>2 DEF SourceInv, SameSource
  <2> QED
    BY <1>2, <2>2, <2>3 DEF Collection!Materialize
<1>3. CASE Collection!Remove
  <2>1. /\ reconciler.pc = "container"
        /\ UNCHANGED <<source, authority, marker, suspect, reconciles>>
    BY <1>3 DEF Collection!Remove
  <2>2. CASE /\ Collection!Stops /\ UNCHANGED missed
             /\ reconciler' = [reconciler EXCEPT !.pc = "run"]
    BY <2>1, <2>2, StopsDown DEF SourceInv, SameSource
  <2>3. CASE /\ ~Collection!Restart /\ UNCHANGED <<oxidized, missed>>
             /\ reconciler' = [reconciler EXCEPT !.pc = "publish"]
    BY <2>1, <2>3 DEF SourceInv, SameSource, Collection!Restart, Collection!Running
  <2>4. CASE /\ reconciler' = [pc |-> "idle", reload |-> FALSE, changed |-> FALSE]
             /\ missed' = (missed \/ (reconciler.changed /\ oxidized.id # 0)) /\ UNCHANGED oxidized
    BY <2>1, <2>4 DEF SourceInv, SameSource
  <2> QED
    BY <1>3, <2>2, <2>3, <2>4 DEF Collection!Remove, Collection!Pc, Collection!Ends, Collection!Running
<1>4. CASE Collection!RunContainer
  <2>1. /\ reconciler.pc = "run"
        /\ UNCHANGED <<source, authority, marker, suspect, reconciles>>
    BY <1>4 DEF Collection!RunContainer
  <2>2. CASE /\ oxidized' = Collection!Up(reconciles + 1, source) /\ missed' = FALSE
             /\ reconciler' = [reconciler EXCEPT !.pc = "publish"]
    <3>1. oxidized'.source = source /\ oxidized'.phase = "idle" /\ oxidized'.id = reconciles + 1
      BY <2>2 DEF Collection!Up, Collection!Down
    <3> QED
      BY <2>1, <2>2, <3>1 DEF SourceInv, SameSource
  <2>3. CASE Collection!Ends /\ UNCHANGED <<oxidized, missed>>
    BY <2>1, <2>3 DEF SourceInv, SameSource, Collection!Ends
  <2> QED
    BY <1>4, <2>2, <2>3 DEF Collection!RunContainer, Collection!Pc
<1>5. CASE Collection!PublishReadiness
  <2>1. /\ reconciler.pc = "publish"
        /\ reconciler' = [pc |-> "idle", reload |-> FALSE, changed |-> FALSE]
        /\ UNCHANGED <<oxidized, source, authority, missed, reconciles>>
        /\ suspect' = FALSE \/ suspect' = suspect
    BY <1>5 DEF Collection!PublishReadiness, Collection!Ends
  <2>2. marker' = marker \/ marker' = Collection!Marker(oxidized.id, trust)
    BY <1>5 DEF Collection!PublishReadiness, Collection!PublicationFails
  <2> QED
    BY <2>1, <2>2 DEF SourceInv, SameSource
<1> QED
  BY <1>1, <1>2, <1>3, <1>4, <1>5

LEMMA NextSource == CollectionInv /\ SourceInv /\ [Next]_vars => SourceInv'
<1> SUFFICES ASSUME CollectionInv, SourceInv, [Next]_vars PROVE SourceInv'
  OBVIOUS
<1> DEFINE Still == UNCHANGED <<source, authority, marker, suspect, missed, reconciler, reconciles>>
<1>0. oxidized \in Container
  BY DEF CollectionInv, WorldTypes
<1>1. CASE Still /\ oxidized' = oxidized
  BY <1>1 DEF SourceInv, SameSource
<1>2. CASE Collection!StartJob \/ Collection!EndJob \/ Collection!Store
  <2>1. Still /\ oxidized.id # 0
    <3>1. Still
      BY <1>2 DEF Collection!StartJob, Collection!EndJob, Collection!Store,
                  Collection!service, Collection!files
    <3>2. oxidized.id # 0
      BY <1>2 DEF Collection!StartJob, Collection!EndJob, Collection!Store, SourceInv
    <3> QED
      BY <3>1, <3>2
  <2>2. oxidized'.id = oxidized.id /\ oxidized'.source = oxidized.source
    BY <1>0, <1>2 DEF Collection!StartJob, Collection!EndJob, Collection!Store, Container
  <2> QED
    BY <2>1, <2>2, SourceStays
<1>3. CASE Collection!Die
  BY <1>3, SourceStays, StopsDown
  DEF Collection!Die, Collection!service, Collection!files
<1>4. ASSUME NEW n \in Names, Collection!Submit(n) PROVE SourceInv'
  <2>1. Still
    BY <1>4 DEF Collection!Submit, Collection!Environment, Collection!service, Collection!files
  <2>2. \/ oxidized' = oxidized
        \/ /\ oxidized.id # 0
           /\ oxidized' = [oxidized EXCEPT !.last = Collection!NoLast]
    BY <1>4 DEF Collection!Submit, Collection!Running
  <2>3. CASE oxidized.id # 0 /\ oxidized' = [oxidized EXCEPT !.last = Collection!NoLast]
    <3>1. oxidized'.id = oxidized.id /\ oxidized'.source = oxidized.source
      BY <1>0, <2>3 DEF Container
    <3> QED
      BY <2>1, <2>3, <3>1, SourceStays
  <2> QED
    BY <1>1, <2>1, <2>2, <2>3
<1>5. ASSUME NEW n \in Names,
             \/ Collection!ReadBaseline(n) \/ Collection!Admit(n) \/ Collection!ReadLast(n)
             \/ Collection!Poll(n) \/ Collection!GiveUp(n)
             \/ Collection!BindChanged(n) \/ Collection!BindUnchanged(n)
      PROVE  SourceInv'
  BY <1>1, <1>5 DEF Collection!ReadBaseline, Collection!Admit, Collection!ReadLast,
     Collection!Poll, Collection!GiveUp, Collection!BindChanged, Collection!BindUnchanged,
     Collection!Environment, Collection!service, Collection!files
<1>6. CASE Collection!Change \/ Collection!Execute
  BY <1>1, <1>6 DEF Collection!Change, Collection!Execute, Collection!service, Collection!files
<1>7. CASE Collection!EnrollTrust \/ Collection!RetireTrust
  <2>1. /\ UNCHANGED <<oxidized, source, authority, suspect, missed, reconciler, reconciles>>
        /\ marker' = marker \/ marker'.id = 0
    BY <1>7 DEF Collection!EnrollTrust, Collection!RetireTrust, Collection!NoMarker,
                Collection!Marker
  <2> QED
    BY <2>1 DEF SourceInv, SameSource
<1>8. CASE UNCHANGED collection
  BY <1>1, <1>8 DEF collection
<1> QED
  BY <1>2, <1>3, <1>4, <1>5, <1>6, <1>7, <1>8, ReconcilerSteps
  DEF Next, vars, Collection!CollectOrObserve, Collection!Observe, Collection!Reconcile, Names

\* What an observation binds is a configuration the device had since the request,
\* but for the exceptions the code admits (bind_collection_result), and a container
\* that a collection is admitted to works from the source on disk unless a
\* reconciliation was cut short (read_collection_ready).
THEOREM Collections == Spec => []ObservedAsCollected
<1>1. Init => CollectionInv /\ SourceInv
  BY InitSound DEF Init
<1>2. CollectionInv /\ SourceInv => ObservedAsCollected
  <2> SUFFICES ASSUME CollectionInv, SourceInv PROVE Collection!ObservedAsCollected
    BY DEF ObservedAsCollected
  <2>1. ASSUME NEW n \in Names, observers[n].pc = "bound"
        PROVE  \/ observers[n].after.content >= observers[n].since
               \/ observers[n].accepted \in lost
               \/ /\ observers[n].after # observers[n].before
                  /\ observers[n].after.job < observers[n].first
                  /\ observers[n].after.job # observers[n].accepted
    <3>1. observers[n] \in Attempt
      BY DEF CollectionInv
    <3>2. observers[n].since \in Nat /\ observers[n].after.content \in Nat
      BY <3>1 DEF Attempt, Revision
    <3> QED
      BY <2>1, <3>2 DEF CollectionInv, AttemptSound
  <2>2. ASSUME Collection!Ready PROVE oxidized.source = source \/ missed
    <3>1. oxidized.id # 0 /\ marker.id = oxidized.id
      BY <2>2 DEF Collection!Ready, Collection!Running, Collection!Marker
    <3> QED
      BY <3>1 DEF SourceInv, SameSource
  <2> QED
    BY <2>1, <2>2 DEF Collection!ObservedAsCollected, Collection!At, Names
<1>3. CollectionInv /\ SourceInv /\ [Next]_vars => (CollectionInv /\ SourceInv)'
  BY NextCollection, NextSource
<1> QED
  BY <1>1, <1>2, <1>3, PTL DEF Spec

-----------------------------------------------------------------------------
(***************************************************************************)
(* The inventory (InventoryAuthority), by the invariant of                *)
(* InventoryProofs.                                                        *)
(***************************************************************************)

\* What a migration reported (run_operator_migration) is there until somebody edits
\* the inventory, and resolves if nobody ever did; what the resolvers accept has the
\* primary keys and relations of the reference, for any edits, in any number, of
\* whatever objects, and any migrations killed, refused or run again.
THEOREM Inventories == Spec => []ResolvedAsMigrated
<1>1. Init => InventoryInv
  BY InitInventoryInv DEF Init
<1>2. InventoryInv /\ [Next]_vars => InventoryInv'
  <2> SUFFICES ASSUME InventoryInv, [Next]_vars PROVE InventoryInv'
    OBVIOUS
  <2>1. MigrateOrEdit \/ UNCHANGED inventory
    BY DEF Next, vars
  <2> QED
    BY <2>1, NextInventory
<1>3. InventoryInv => ResolvedAsMigrated
  BY InventorySound DEF ResolvedAsMigrated
<1> QED
  BY <1>1, <1>2, <1>3, PTL DEF Spec
=============================================================================
