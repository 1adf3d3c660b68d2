------------------------- MODULE InitialAdoption -------------------------
(*************************************************************************)
(* The adoption of the running network as the first accepted state D0 of *)
(* the four verticals (managed_state_live.py and initialize_live_d0.py): *)
(* the network is read, compared with the last accepted reading, staged  *)
(* as four chains in a private directory, read a second time, and the    *)
(* directory becomes the store's root by one rename that never replaces. *)
(*                                                                       *)
(* The verticals are read one after another; the network may change      *)
(* between any two reads, and two adoptions may run on the host.         *)
(*************************************************************************)
EXTENDS ManagedSnapshot

CONSTANTS Adopters,
          DriftingKeys,     \* the keys that change by themselves
          MaxChanges,       \* how often they do
          MaxLosses         \* killed adoptions, failed writes and cached reads together

VARIABLES net, changes, losses,
          root,             \* the promoted directory
          adopters,         \* each adoption's place, its two reads and its staging
          seen              \* what was on the network at each adoption's second read

vars == <<net, changes, losses, root, adopters, seen>>

Reading == <<"underlay", "ospf", "vlan", "acl">>
Unread == [v \in Verticals |-> {}]

NoRoot == [by |-> "none", states |-> Unread]
NewAdoption ==
    [pc |-> "start", done |-> 0, first |-> Unread, second |-> Unread, cached |-> FALSE,
     staging |-> FALSE, status |-> "none"]

Begin ==
    /\ changes = 0 /\ losses = 0
    /\ root = NoRoot
    /\ adopters = [a \in Adopters |-> NewAdoption]
    /\ seen = [a \in Adopters |-> Unread]

Init == net = PriorNetwork /\ Begin

At(a, pc) == adopters[a].pc = pc
Goto(a, pc) == adopters' = [adopters EXCEPT ![a].pc = pc, ![a].done = 0]
Loss == losses < MaxLosses /\ losses' = losses + 1

\* An exception before the promotion removes the staging directory; the script
\* ends with status 2.
Fails(a) == adopters' = [adopters EXCEPT ![a].pc = "end", ![a].staging = FALSE, ![a].status = "2"]

\* The reconstructed reading of the network as it was last accepted.
Expectation == [v \in Verticals |-> Managed(v, PriorNetwork)]

\* The root must be absent; the checkout is clean and at the named commit.
Admit(a) ==
    /\ At(a, "start")
    /\ IF root.by # "none" THEN Fails(a) ELSE Goto(a, "first")
    /\ UNCHANGED <<net, changes, losses, root, seen>>

\* One vertical of a read; a reader that refuses fails the adoption.
ReadVertical(a, pass, next) ==
    LET v == Reading[adopters[a].done + 1]
        state == Managed(v, net)
    IN  IF state = {} THEN Fails(a)
        ELSE adopters' = [adopters EXCEPT
                ![a][pass][v] = state,
                ![a].done = IF @ = 3 THEN 0 ELSE @ + 1,
                ![a].pc = IF adopters[a].done = 3 THEN next ELSE @]

CollectFirst(a) ==
    /\ At(a, "first")
    /\ ReadVertical(a, "first", "continuity")
    /\ UNCHANGED <<net, changes, losses, root, seen>>

EnforceContinuity(a) ==
    /\ At(a, "continuity")
    /\ IF \E v \in Verticals : adopters[a].first[v] # Expectation[v] THEN Fails(a) ELSE Goto(a, "stage")
    /\ UNCHANGED <<net, changes, losses, root, seen>>

\* Four records are persisted in the new directory, of generation one each.
Stage(a) ==
    /\ At(a, "stage")
    /\ \/ /\ adopters' = [adopters EXCEPT ![a].pc = "second", ![a].staging = TRUE]
          /\ UNCHANGED losses
       \/ Loss /\ Fails(a)
    /\ UNCHANGED <<net, changes, root, seen>>

\* The second read; a collector may answer with the first one again.
CollectSecond(a) ==
    /\ At(a, "second")
    /\ ReadVertical(a, "second", "reconcile")
    /\ seen' = [seen EXCEPT ![a][Reading[adopters[a].done + 1]] = Managed(Reading[adopters[a].done + 1], net)]
    /\ UNCHANGED <<net, changes, losses, root>>

CollectCached(a) ==
    /\ At(a, "second") /\ adopters[a].done = 0
    /\ Loss
    /\ adopters' = [adopters EXCEPT ![a].second = adopters[a].first, ![a].cached = TRUE,
                                    ![a].pc = "reconcile"]
    /\ UNCHANGED <<net, changes, root, seen>>

\* The reads carry their times: the same one twice is known for what it is.
IndependentOrCached(a) == TRUE
Independent(a) == ~adopters[a].cached

InSync(a) == \A v \in Verticals : adopters[a].first[v] = adopters[a].second[v]

Reconcile(a) ==
    /\ At(a, "reconcile")
    /\ IF Independent(a) /\ InSync(a) /\ root.by = "none" THEN Goto(a, "promote") ELSE Fails(a)
    /\ UNCHANGED <<net, changes, losses, root, seen>>

\* One rename, refused by the kernel when the root has appeared.
Promote(a) ==
    /\ At(a, "promote")
    /\ IF root.by # "none"
       THEN Fails(a) /\ UNCHANGED root
       ELSE /\ root' = [by |-> a, states |-> adopters[a].first]
            /\ adopters' = [adopters EXCEPT ![a].pc = "verify", ![a].staging = FALSE]
    /\ UNCHANGED <<net, changes, losses, seen>>

\* The promoted store is read back and compared with D1; what fails from here
\* on leaves the root where it is.
ReadBack(a) ==
    /\ At(a, "verify")
    /\ \/ /\ adopters' = [adopters EXCEPT ![a].pc = "end", ![a].status = "0"]
          /\ root.states = adopters[a].first /\ UNCHANGED losses
       \/ Loss /\ adopters' = [adopters EXCEPT ![a].pc = "end", ![a].status = "2"]
    /\ UNCHANGED <<net, changes, root, seen>>

\* A killed adoption leaves its staging directory, which no other one looks at.
Crash(a) ==
    /\ adopters[a].pc \notin {"start", "end"}
    /\ Loss
    /\ adopters' = [adopters EXCEPT ![a].pc = "end", ![a].status = "killed"]
    /\ UNCHANGED <<net, changes, root, seen>>

Change ==
    /\ changes < MaxChanges /\ changes' = changes + 1
    /\ \E k \in DriftingKeys : \E value \in Values(k) \ {net[k]} :
          net' = Settle([net EXCEPT ![k] = value])
    /\ UNCHANGED <<losses, root, adopters, seen>>

Next ==
    \/ \E a \in Adopters :
          \/ Admit(a) \/ CollectFirst(a) \/ EnforceContinuity(a) \/ Stage(a) \/ CollectSecond(a)
          \/ CollectCached(a) \/ Reconcile(a) \/ Promote(a) \/ ReadBack(a) \/ Crash(a)
    \/ Change

Spec == Init /\ [][Next]_vars

----------------------------------------------------------------------------
(* Properties. *)

\* Once a root is there (initialize_live_d0_store), each vertical's D0 is what
\* the network was found to be when that vertical was read a second time, and
\* no other adoption reports that it made the store.
AdoptedAsRead ==
    /\ root.by # "none" => \A v \in Verticals : root.states[v] # {} /\ root.states[v] = seen[root.by][v]
    /\ \A a \in Adopters : adopters[a].status = "0" => root.by = a
=============================================================================
