------------------------- MODULE UnderlayService -------------------------
(*************************************************************************)
(* The routed-underlay vertical (routed_underlay.py): intent, proposed   *)
(* state D1, the read of the six routed interfaces, the change rendered  *)
(* from what was read, and the assurance of the synthetic candidate.     *)
(*                                                                       *)
(* A network is a function from keys <<device, element, field>> to       *)
(* values; the four verticals read and change the same network.  A       *)
(* routed port is <<device, neighbour>> and its allocated address is     *)
(* written as the port itself.  An operation that may refuse returns the *)
(* set of its results: empty when the code raises.                       *)
(*************************************************************************)
EXTENDS FiniteSets, Naturals

Routers == {"core", "edge", "transit"}
CiscoRouters == {"core", "transit"}
Ports == {p \in Routers \X Routers : p[1] # p[2]}
Peer(p) == <<p[2], p[1]>>

\* Addresses no allocation holds: a leftover one and the management ones.
Stale == <<"stale", "">>
Management == <<"management", "">>

UnderlayIntent == [p \in Ports |-> p]

UnderlayIntentExact(intent) ==
    /\ DOMAIN intent = Ports
    /\ Cardinality({intent[p] : p \in Ports}) = Cardinality(Ports)
    /\ Management \notin {intent[p] : p \in Ports}

UnderlayDesired ==
    [p \in Ports |-> [exists |-> TRUE, addresses |-> {UnderlayIntent[p]}, enabled |-> TRUE]]

UnderlayDesiredExact(desired) ==
    /\ DOMAIN desired = Ports
    /\ \A p \in Ports : Cardinality(desired[p].addresses) = 1
    /\ \A p, q \in Ports : desired[p].addresses = desired[q].addresses => p = q

UnderlayEnvelope ==
    {<<p[1], p[2], field>> : p \in Ports, field \in {"addresses", "shut"}}

\* One interface as the profile's reader reports it; the interfaces are physical.
ReadPort(net, p) ==
    [exists |-> TRUE, addresses |-> net[<<p[1], p[2], "addresses">>],
     enabled |-> ~net[<<p[1], p[2], "shut">>]]

UnderlayRead(net) == {[p \in Ports |-> ReadPort(net, p)]}

Renderable(observed) ==
    \A p \in Ports : Management \notin observed[p].addresses

UnderlayAdded(observed, desired) == desired.addresses \ observed.addresses
UnderlayRemoved(observed, desired) == observed.addresses \ desired.addresses

UnderlayRender(observed) ==
    IF /\ Renderable(observed)
       /\ \A p \in Ports : p[1] \in CiscoRouters => Cardinality(observed[p].addresses) <= 1
    THEN {[p \in Ports |-> [remove |-> UnderlayRemoved(observed[p], UnderlayDesired[p]),
                            add |-> UnderlayAdded(observed[p], UnderlayDesired[p])]]}
    ELSE {}

UnderlayDelta(observed) ==
    [p \in Ports |->
        [addresses |-> observed[p].exists /\ observed[p].addresses = UnderlayDesired[p].addresses,
         admin |-> observed[p].exists /\ observed[p].enabled = UnderlayDesired[p].enabled]]

\* What a router makes of its rendered lines: a Cisco interface has one primary
\* address, which "ip address" replaces; Junos merges the additions.
PortChanged(net, p, change) ==
    LET kept == net[<<p[1], p[2], "addresses">>] \ change.remove
    IN  IF p[1] \in CiscoRouters /\ change.add # {} THEN change.add ELSE kept \union change.add

UnderlayChanged(net, rendered) ==
    [k \in DOMAIN net |->
        IF k \notin UnderlayEnvelope THEN net[k]
        ELSE IF k[3] = "shut" THEN FALSE
        ELSE PortChanged(net, <<k[1], k[2]>>, rendered[<<k[1], k[2]>>])]

----------------------------------------------------------------------------
(* The synthetic candidate and its assurance. *)

\* The candidate writes the final state of D1 onto otherwise empty devices.
UnderlayCandidate(blank) ==
    [k \in DOMAIN blank |->
        IF k \notin UnderlayEnvelope THEN blank[k]
        ELSE IF k[3] = "addresses" THEN UnderlayDesired[<<k[1], k[2]>>].addresses
        ELSE FALSE]

PortUp(net, p) ==
    /\ net[<<p[1], p[2], "addresses">>] = {p}
    /\ ~net[<<p[1], p[2], "shut">>]

NeighbourFlow(net, p) == PortUp(net, p) /\ PortUp(net, Peer(p))

\* The three flows asked, one for each link.
DirectFlows == {<<"core", "edge">>, <<"core", "transit">>, <<"edge", "transit">>}

UnderlayAnswers(net, issues) ==
    [issues |-> issues,
     prefixes |-> UNION {{<<p, a>> : a \in net[<<p[1], p[2], "addresses">>]} : p \in Ports},
     flows |-> [f \in DirectFlows |-> NeighbourFlow(net, f)],
     processes |-> {r \in Routers : net[<<r, "ospf", "process">>] # "none"}]

UnderlayCommon(answers) ==
    /\ answers.issues = 0
    /\ answers.prefixes = {<<p, p>> : p \in Ports}
    /\ \A x \in answers.prefixes : x[2] # Management
    /\ DOMAIN answers.flows = DirectFlows
    /\ \A f \in DirectFlows : answers.flows[f]

UnderlayAssured(answers) == UnderlayCommon(answers) /\ answers.processes = {}

UnderlayEvidence(observed, answers) ==
    [envelope |-> UnderlayEnvelope, observed |-> observed, desired |-> UnderlayDesired,
     delta |-> UnderlayDelta(observed), rendered |-> UnderlayRender(observed),
     passed |-> UnderlayAssured(answers)]

UnderlayBound(evidence) ==
    /\ evidence.envelope = UnderlayEnvelope
    /\ evidence.desired = UnderlayDesired
    /\ evidence.delta = UnderlayDelta(evidence.observed)
    /\ evidence.rendered = UnderlayRender(evidence.observed)
    /\ evidence.passed

\* What the routed underlay is for: both ends of every link reach each other.
UnderlayWorks(net) == \A p \in Ports : NeighbourFlow(net, p)
=============================================================================
