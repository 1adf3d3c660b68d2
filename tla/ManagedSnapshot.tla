------------------------- MODULE ManagedSnapshot -------------------------
(*************************************************************************)
(* The four managed verticals seen alike (managed_state.py): what was    *)
(* read of a network, or what is proposed, is projected into a snapshot  *)
(* of the vertical's envelope, and snapshots are compared.  Digests are  *)
(* the snapshots themselves.                                             *)
(*************************************************************************)
EXTENDS AclService

Verticals == {"underlay", "ospf", "vlan", "acl"}

Envelope(v) ==
    CASE v = "underlay" -> UnderlayEnvelope [] v = "ospf" -> OspfEnvelope
      [] v = "vlan" -> VlanEnvelope         [] v = "acl" -> AclEnvelope

\* The observation a reader reports of a network: a set, empty when it refuses.
Read(v, net) ==
    CASE v = "underlay" -> UnderlayRead(net) [] v = "ospf" -> OspfRead(net)
      [] v = "vlan" -> VlanRead(net)         [] v = "acl" -> AclRead(net)

----------------------------------------------------------------------------
(* Payloads.  An interface that is absent has no managed state. *)

RoutedPayload(ports) ==
    [p \in DOMAIN ports |->
        [present |-> ports[p].exists, addresses |-> ports[p].addresses,
         enabled |-> ports[p].exists /\ ports[p].enabled]]

RoutedShape(payload) ==
    \A p \in DOMAIN payload : ~payload[p].present => payload[p].addresses = {}

OspfPayload(routers) == routers

OspfPayloadShape(payload) ==
    \A r \in DOMAIN payload : OspfRouterShape(payload[r])
                              /\ \A p \in DOMAIN payload[r].ports : OspfPortShape(payload[r].ports[p])

CorePayload(state) ==
    [present |-> state.exists, enabled |-> state.exists /\ state.enabled,
     encapsulation |-> state.encapsulation, addresses |-> state.addresses]

VlanPayload(o) ==
    [vlans |-> o.vlans, parent |-> CorePayload(o.parent),
     gateways |-> [v \in Vids |-> CorePayload(o.gateways[v])], ports |-> o.ports]

VlanPayloadShape(payload) ==
    \A v \in Vids : ~payload.gateways[v].present =>
                        payload.gateways[v] = CorePayload(CoreState(FALSE, FALSE, "none", {}))

\* The interface of an observed attachment is the intent's: only its side is read.
AclPayload(o) ==
    [present |-> o.present, rules |-> o.rules,
     attached |-> {<<AclIntent.interface, x[2]>> : x \in o.attached},
     default |-> IF o.present THEN "permit" ELSE "none"]

AclPayloadShape(payload) ==
    IF payload.present THEN payload.rules # <<>> /\ payload.attached # {}
    ELSE payload.rules = <<>> /\ payload.attached = {} /\ payload.default = "none"

\* A vertical has one envelope, whose version is 1.
Snapshot(v, payload) == [vertical |-> v, envelope |-> 1, payload |-> payload]

Project(v, o) ==
    LET payload == CASE v = "underlay" -> RoutedPayload(o) [] v = "ospf" -> OspfPayload(o)
                     [] v = "vlan" -> VlanPayload(o)       [] v = "acl" -> AclPayload(o)
        exact == CASE v = "underlay" -> DOMAIN o = Ports /\ RoutedShape(payload)
                   [] v = "ospf" -> DOMAIN o = Routers /\ OspfPayloadShape(payload)
                   [] v = "vlan" -> VlanPayloadShape(payload)
                   [] v = "acl" -> AclPayloadShape(payload)
    IN  IF exact THEN {Snapshot(v, payload)} ELSE {}

\* The managed state of a network as one read finds it.
Managed(v, net) == UNION {Project(v, o) : o \in Read(v, net)}

UnderlayProposed == Snapshot("underlay", RoutedPayload(UnderlayDesired))
OspfProposed == Snapshot("ospf", OspfPayload(OspfDesired))
VlanProposed == Snapshot("vlan", VlanPayload(VlanDesired))
AclProposed == Snapshot("acl", AclPayload(AclDesired))

Proposed(v) ==
    CASE v = "underlay" -> UnderlayProposed [] v = "ospf" -> OspfProposed
      [] v = "vlan" -> VlanProposed         [] v = "acl" -> AclProposed

SameSubject(left, right) == left.vertical = right.vertical /\ left.envelope = right.envelope

\* The outcome of the comparison after a write; a read that refused has none.
ComparePostwrite(states, desired) ==
    IF \A s \in states : ~SameSubject(s, desired) THEN "refused"
    ELSE IF states = {desired} THEN "converged" ELSE "post_validation_failed"

----------------------------------------------------------------------------
(* The keys of a network, their values, and the two networks known. *)

RoutedValues(p) == {{}, {p}, {Stale}, {p, Stale}, {Management}}
GatewayValues(v) == {{}, {Gateway(v)}, {Stale}, {Gateway(v), Stale}}

PortValues(router, field) ==
    CASE field = "area" -> {"none", Area0, "1"}
      [] field = "type" -> {"none", "broadcast", "point-to-point"}
      [] field = "passive" -> {"none", "explicit"} \union {"active" : r \in CiscoRouters \intersect {router}}

PortKeys == {<<p[1], p[2], field>> : p \in Ports, field \in {"area", "type", "passive"}}

SubinterfaceValues(field) ==
    CASE field = "encapsulation" -> {"none"} \union Vids
      [] field \in Sides -> {"none", "ncdp", "foreign"}

SwitchValues(field) ==
    CASE field = "mode" -> {"access", "trunk", "dynamic auto"}
      [] field = "allowed" -> {{}, {"10"}, Vids}
      [] field \in {"access", "native"} -> {"1"} \union Vids

Flags == {<<p[1], p[2], field>> : p \in Ports, field \in {"shut", "cost"}} \union
         {<<r, "ospf", field>> : r \in CiscoRouters, field \in {"network", "passive-default"}} \union
         {<<"core", "parent", "shut">>, <<"core", "parent", "unsupported">>} \union
         {<<"core", v, field>> : v \in Vids, field \in {"exists", "shut", "ospf"}} \union
         {<<"core", "other", "exists">>, <<"core", "acl", "reserved">>} \union
         {<<"access", v, field>> : v \in Vids, field \in {"svi", "stray"}} \union
         {<<"access", t, field>> : t \in SwitchPorts, field \in {"shut", "feature"}}

\* A reordered list, a shortened one, and two that deny nothing or too little.
RuleLists == {<<>>, AclRules, <<AclRules[2], AclRules[1], AclRules[3]>>,
              <<AclRules[1], AclRules[3]>>,
              <<AclRules[1], Rule("permit", Kinds, {"10"}, {"20"}), AclRules[3]>>,
              <<AclRules[1], Rule("deny", {"ssh", "icmp"}, {"10"}, {"20"}), AclRules[3]>>}

KeyValues ==
    {<<k, BOOLEAN>> : k \in Flags} \union
    {<<k, PortValues(k[1], k[3])>> : k \in PortKeys} \union
    {<<<<p[1], p[2], "addresses">>, RoutedValues(p)>> : p \in Ports} \union
    {<<<<r, "ospf", "process">>, {"none", "1", "other"}>> : r \in CiscoRouters} \union
    {<<<<"edge", "ospf", "process">>, {"none", "1"}>>} \union
    {<<<<r, "ospf", "router-id">>, Routers \union {"none"}>> : r \in Routers} \union
    {<<<<"core", "parent", "addresses">>, {{}, {Stale}}>>} \union
    {<<<<"core", v, "addresses">>, GatewayValues(v)>> : v \in Vids} \union
    {<<<<"core", v, field>>, SubinterfaceValues(field)>> :
        v \in Vids, field \in {"encapsulation"} \union Sides} \union
    {<<<<"access", v, "name">>, {"none", "USERS", "SERVERS"}>> : v \in Vids} \union
    {<<<<"access", t, field>>, SwitchValues(field)>> :
        t \in SwitchPorts, field \in {"mode", "allowed", "access", "native"}} \union
    {<<<<"core", "acl", "rules">>, RuleLists>>, <<<<"core", "elsewhere", "group">>, {"none", "ncdp"}>>}

Keys == {x[1] : x \in KeyValues}
Values(k) == (CHOOSE x \in KeyValues : x[1] = k)[2]

\* Devices without configuration: the candidates are written onto these.
Blank ==
    [k \in Keys |->
        IF k \in Flags THEN FALSE
        ELSE CASE k[3] = "addresses" -> {} [] k[3] = "allowed" -> {}
               [] k[3] = "rules" -> <<>> [] k[3] = "mode" -> "dynamic auto"
               [] k[3] \in {"access", "native"} -> "1" [] OTHER -> "none"]

\* The network last accepted: two leftover addresses, the other routed ports
\* without one and all but one of them shut, no OSPF, no VLAN, no policy.
PriorUp == {<<"core", "edge">>, <<"edge", "core">>, <<"edge", "transit">>}
PriorNetwork ==
    [k \in Keys |->
        IF k[3] = "addresses" /\ k[1] \in Routers /\ {k[1], k[2]} = {"core", "edge"} THEN {Stale}
        ELSE IF k[3] = "shut" /\ k[1] \in Routers /\ k[2] \in Routers THEN <<k[1], k[2]>> \notin PriorUp
        ELSE IF k = <<"core", "parent", "shut">> THEN TRUE
        ELSE Blank[k]]

\* The network as all four proposals want it.
ProposedNetwork == AclCandidate(Blank)

\* A network that runs the services with nothing as proposed.
OtherVid(v) == IF v = "10" THEN "20" ELSE "10"
OtherNetwork ==
    [k \in Keys |->
        CASE k \in PortKeys -> (CASE k[3] = "area" -> "1" [] k[3] = "type" -> "broadcast"
                                  [] k[3] = "passive" -> "explicit")
          [] k[3] = "shut" -> TRUE
          [] k[3] = "exists" -> k[2] \in Vids
          [] k[3] = "process" -> "1"
          [] k[3] = "router-id" -> IF k[1] = "core" THEN "edge" ELSE "core"
          [] k[3] = "addresses" -> IF k[2] = "parent" THEN {}
                                   ELSE IF k[1] = "edge" THEN {<<k[1], k[2]>>, Stale} ELSE {Stale}
          [] k[3] = "encapsulation" -> OtherVid(k[2])
          [] k[3] = "name" -> VlanName(OtherVid(k[2]))
          [] k[3] = "allowed" -> {"10"}
          [] k[3] = "access" -> "20"
          [] OTHER -> Blank[k]]

\* What stands only inside something else is gone with it: the settings of a
\* Junos interface inside its area, the statements of a Cisco process, and what
\* is configured of a subinterface.
Settle(net) ==
    LET gone(k) ==
          \/ k[1] = "edge" /\ k[3] \in {"type", "passive", "cost"} /\ net[<<k[1], k[2], "area">>] = "none"
          \/ k[1] \in CiscoRouters /\ net[<<k[1], "ospf", "process">>] = "none"
             /\ k[3] \in {"area", "passive", "router-id", "network", "passive-default"}
          \/ k[1] = "core" /\ k[2] \in Vids /\ ~net[<<"core", k[2], "exists">>]
    IN  [k \in Keys |-> IF gone(k) THEN Blank[k] ELSE net[k]]
=============================================================================
