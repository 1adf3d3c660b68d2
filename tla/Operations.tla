---------------------------- MODULE Operations ----------------------------
(*************************************************************************)
(* The procedures around the managed network side by side: proposed      *)
(* service changes, the adoption of the first accepted state, the        *)
(* acceptances that extend it, the inventory's migrations and the        *)
(* collection of a node's configuration.  Nothing in the code runs one   *)
(* inside another, so a behaviour is one of one of them, chosen at its   *)
(* start.                                                                *)
(*************************************************************************)
EXTENDS InventoryAuthority

CONSTANTS MaxDrifts, Acceptors, Observations, MaxFaults, Adopters, DriftingKeys, MaxChanges, MaxLosses,
          MaxJobs, MaxReconciles, MaxOutages

ASSUME OperationsAssumption ==
    /\ Observations # {}          \* the adoption accepted one
    /\ "none" \notin Adopters

VARIABLES procedure, net, plans, drifts, verdict, files, synced, callers, faults,
          changes, losses, root, adopters, seen,
          device, oxidized, jobs, history, lost, observers, lock,
          source, authority, trust, marker, doubt, suspect, missed, reconciler, reconciles, outages

services == <<plans, drifts, verdict>>
acceptance == <<files, synced, callers, faults>>
adoption == <<changes, losses, root, adopters, seen>>
collection ==
    <<device, oxidized, jobs, history, lost, observers, lock, source, authority, trust, marker, doubt,
      suspect, missed, reconciler, reconciles, outages>>
vars == <<procedure, net, services, acceptance, adoption, inventory, collection>>

Service == INSTANCE ServiceChange
Store == INSTANCE ManagedStateStore
Adoption == INSTANCE InitialAdoption
Collection == INSTANCE ConfigurationCollection

Init ==
    /\ procedure \in {"services", "acceptance", "adoption", "inventory", "collection"}
    /\ CASE procedure = "services" -> Service!Init
         [] procedure = "adoption" -> Adoption!Init
         [] OTHER -> net = <<>>    \* the network has no part in it
    /\ Service!Begin /\ Store!Init /\ Adoption!Begin /\ InitInventory
    /\ IF procedure = "collection" THEN Collection!InitCollection ELSE Collection!Begin

Next ==
    \/ procedure = "services" /\ Service!Next /\ UNCHANGED <<procedure, acceptance, adoption, inventory, collection>>
    \/ procedure = "acceptance" /\ Store!Next /\ UNCHANGED <<procedure, net, services, adoption, inventory, collection>>
    \/ procedure = "adoption" /\ Adoption!Next /\ UNCHANGED <<procedure, services, acceptance, inventory, collection>>
    \/ procedure = "inventory" /\ MigrateOrEdit /\ UNCHANGED <<procedure, net, services, acceptance, adoption, collection>>
    \/ /\ procedure = "collection" /\ Collection!CollectOrObserve
       /\ UNCHANGED <<procedure, net, services, acceptance, adoption, inventory>>

Spec == Init /\ [][Next]_vars

----------------------------------------------------------------------------
(* The components' properties, each stated and explained in its module. *)

\* The rendered lines lead from whatever was read to D1 (ServiceChange).
RenderConverges == Service!RenderConverges
\* The policy protects and preserves what it should when it reads as D1 (ServiceChange).
ProtectedAsRead == procedure = "services" => Service!ProtectedAsRead
\* An assurance passes exactly what works (ServiceChange).
AssuranceSeparates == Service!AssuranceSeparates
\* An acceptance that was published is part of the history (ManagedStateStore).
OneHistory == Store!OneHistory
\* The first accepted state is what two reads found (InitialAdoption).
AdoptedAsRead == Adoption!AdoptedAsRead
\* What a migration reported is there, and what resolves is the reference (InventoryAuthority).
ResolvedAsMigrated == procedure = "inventory" => InventoryResolves
\* A bound revision is of a configuration since the request (ConfigurationCollection).
ObservedAsCollected == Collection!ObservedAsCollected
=============================================================================
