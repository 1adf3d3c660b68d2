--------------------------- MODULE VlanService ---------------------------
(*************************************************************************)
(* The VLAN vertical (vlan_service.py): a router on a stick on the core  *)
(* and three switch ports, for VLAN "10" (USERS) and "20" (SERVERS).     *)
(*                                                                       *)
(* Keys: <<"core", "parent", field>>, <<"core", vid, field>> of a        *)
(* subinterface, <<"access", vid, field>> of a VLAN of the switch and    *)
(* <<"access", port, field>> of a switch port.                           *)
(*************************************************************************)
EXTENDS OspfService

Vids == {"10", "20"}
SwitchPorts == {"trunk", "users", "servers"}
VlanName(v) == IF v = "10" THEN "USERS" ELSE "SERVERS"
HostPort(v) == IF v = "10" THEN "users" ELSE "servers"
Gateway(v) == <<"gateway", v>>

VlanIntent ==
    [gateways |-> [v \in Vids |-> [name |-> VlanName(v), address |-> Gateway(v)]],
     allowed |-> Vids, access |-> [v \in Vids |-> HostPort(v)]]

VlanIntentExact(intent) ==
    /\ DOMAIN intent.gateways = Vids /\ intent.allowed = Vids
    /\ intent.access["10"] # intent.access["20"]
    /\ \A v \in Vids : intent.gateways[v].address = Gateway(v)

CoreState(exists, enabled, encapsulation, addresses) ==
    [exists |-> exists, enabled |-> enabled, encapsulation |-> encapsulation, addresses |-> addresses]
PortState(mode, allowed, access, enabled) ==
    [mode |-> mode, allowed |-> allowed, access |-> access, enabled |-> enabled]

VlanDesired ==
    [parent |-> CoreState(TRUE, TRUE, "none", {}),
     gateways |-> [v \in Vids |-> CoreState(TRUE, TRUE, v, {VlanIntent.gateways[v].address})],
     vlans |-> [v \in Vids |-> VlanIntent.gateways[v].name],
     ports |-> [t \in SwitchPorts |->
                   IF t = "trunk" THEN PortState("trunk", VlanIntent.allowed, "none", TRUE)
                   ELSE PortState("access", {}, IF t = "users" THEN "10" ELSE "20", TRUE)]]

VlanDesiredExact(desired) ==
    /\ DOMAIN desired.gateways = Vids
    /\ desired.ports["trunk"].mode = "trunk" /\ desired.ports["trunk"].allowed = Vids
    /\ \A v \in Vids : /\ desired.ports[HostPort(v)].mode = "access"
                       /\ desired.ports[HostPort(v)].access = v

VlanEnvelope ==
    {<<"core", "parent", field>> : field \in {"addresses", "shut"}} \union
    {<<"core", v, field>> : v \in Vids, field \in {"exists", "encapsulation", "addresses", "shut"}} \union
    {<<"access", v, "name">> : v \in Vids} \union
    {<<"access", t, field>> : t \in SwitchPorts, field \in {"mode", "allowed", "access", "shut"}}

\* An absent subinterface has no state; several addresses or OSPF are not supported.
CoreShape(net, v) ==
    /\ Cardinality(net[<<"core", v, "addresses">>]) <= 1
    /\ ~net[<<"core", v, "ospf">>]

CoreReadable(net) ==
    /\ ~net[<<"core", "other", "exists">>]
    /\ ~net[<<"core", "parent", "unsupported">>]
    /\ net[<<"core", "parent", "addresses">>] = {}
    /\ \A v \in Vids : net[<<"core", v, "exists">>] => CoreShape(net, v)

ReadGateway(net, v) ==
    IF net[<<"core", v, "exists">>]
    THEN CoreState(TRUE, ~net[<<"core", v, "shut">>], net[<<"core", v, "encapsulation">>],
                   net[<<"core", v, "addresses">>])
    ELSE CoreState(FALSE, FALSE, "none", {})

\* The switch prints the administrative mode of an access port as "static access".
ShownMode(net, t) ==
    IF net[<<"access", t, "mode">>] = "access" THEN "static access" ELSE net[<<"access", t, "mode">>]

PortSupported(net, t) ==
    /\ ~net[<<"access", t, "feature">>]
    /\ net[<<"access", t, "native">>] \notin Vids
    /\ ShownMode(net, t) \in {"access", "trunk", "dynamic auto", "dynamic desirable", "none"}

\* The access VLAN is printed whatever the mode, the allowed VLANs count on a trunk.
ReadSwitchPort(net, t) ==
    PortState(ShownMode(net, t),
              IF ShownMode(net, t) = "trunk" THEN net[<<"access", t, "allowed">>] ELSE {},
              net[<<"access", t, "access">>], ~net[<<"access", t, "shut">>])

VlanReadable(net) ==
    \A v \in Vids : ~net[<<"access", v, "svi">>] /\ ~net[<<"access", v, "stray">>]

VlanRead(net) ==
    IF CoreReadable(net) /\ VlanReadable(net) /\ \A t \in SwitchPorts : PortSupported(net, t)
    THEN {[parent |-> CoreState(TRUE, ~net[<<"core", "parent", "shut">>], "none", {}),
           gateways |-> [v \in Vids |-> ReadGateway(net, v)],
           vlans |-> [v \in Vids |-> net[<<"access", v, "name">>]],
           ports |-> [t \in SwitchPorts |-> ReadSwitchPort(net, t)]]}
    ELSE {}

\* Full lines for every element; what was read decides only what is taken away.
VlanRender(observed) ==
    {[leave |-> {v \in Vids : observed.gateways[v].encapsulation \notin {"none", v}},
      remove |-> [v \in Vids |-> observed.gateways[v].addresses \ {Gateway(v)}],
      gateways |-> VlanDesired.gateways, vlans |-> VlanDesired.vlans, ports |-> VlanDesired.ports]}

CoreChanged(k, state) ==
    CASE k[3] = "exists" -> TRUE
      [] k[3] = "shut" -> FALSE
      [] k[3] = "encapsulation" -> state.encapsulation
      [] k[3] = "addresses" -> state.addresses

\* The trunk keeps its access VLAN and an access port its allowed VLANs.
PortFieldChanged(net, k, state) ==
    CASE k[3] = "mode" -> state.mode
      [] k[3] = "shut" -> FALSE
      [] k[3] = "allowed" -> IF state.mode = "trunk" THEN state.allowed ELSE net[k]
      [] k[3] = "access" -> IF state.mode = "access" THEN state.access ELSE net[k]

VlanChanged(net, rendered) ==
    [k \in DOMAIN net |->
        IF k \notin VlanEnvelope THEN net[k]
        ELSE IF k[2] = "parent" THEN CoreChanged(k, VlanDesired.parent)
        ELSE IF k[1] = "core" THEN CoreChanged(k, rendered.gateways[k[2]])
        ELSE IF k[2] \in Vids THEN rendered.vlans[k[2]]
        ELSE PortFieldChanged(net, k, rendered.ports[k[2]])]

----------------------------------------------------------------------------
(* The candidate with its two assurance hosts, and the assurance. *)

VlanCandidate(blank) ==
    VlanChanged(OspfCandidate(blank),
                [gateways |-> VlanDesired.gateways, vlans |-> VlanDesired.vlans,
                 ports |-> VlanDesired.ports])

GatewayUp(net, v) ==
    /\ ~net[<<"core", "parent", "shut">>]
    /\ net[<<"core", v, "exists">>] /\ ~net[<<"core", v, "shut">>]
    /\ net[<<"core", v, "encapsulation">>] = v
    /\ Gateway(v) \in net[<<"core", v, "addresses">>]

Trunked(net, v) ==
    /\ net[<<"access", "trunk", "mode">>] = "trunk" /\ ~net[<<"access", "trunk", "shut">>]
    /\ v \in net[<<"access", "trunk", "allowed">>] /\ net[<<"access", "trunk", "native">>] # v

HostOn(net, t, v) ==
    /\ net[<<"access", t, "mode">>] = "access" /\ ~net[<<"access", t, "shut">>]
    /\ net[<<"access", t, "access">>] = v

Member(net, t, v) ==
    net[<<"access", v, "name">>] # "none" /\ (IF t = "trunk" THEN Trunked(net, v) ELSE HostOn(net, t, v))

ReachesGateway(net, v) ==
    GatewayUp(net, v) /\ Member(net, "trunk", v) /\ Member(net, HostPort(v), v)

Routed(net, v, w) == ReachesGateway(net, v) /\ ReachesGateway(net, w)

VlanMembers(net) == [v \in Vids |-> {t \in SwitchPorts : Member(net, t, v)}]

\* The evaluation leaves out a port whose native VLAN is one of the service's.
VlanPorts(net) ==
    {<<t, net[<<"access", t, "mode">>],
       IF t = "trunk" THEN net[<<"access", t, "allowed">>] ELSE {},
       IF t = "trunk" THEN "none" ELSE net[<<"access", t, "access">>]>> :
         t \in {x \in SwitchPorts : net[<<"access", x, "native">>] \notin Vids}}

VlanRoutes(net) ==
    [connected |-> {v \in Vids : GatewayUp(net, v)},
     advertised |-> {v \in Vids : net[<<"core", v, "ospf">>]}]

\* From each host to its gateway and to the other host.
VlanFlows(net) ==
    [local |-> {v \in Vids : ReachesGateway(net, v)},
     open |-> {x \in Vids \X Vids : x[1] # x[2] /\ Routed(net, x[1], x[2])}]

VlanAnswers(net, issues) ==
    [ospf |-> OspfAnswers(net, issues), members |-> VlanMembers(net), ports |-> VlanPorts(net),
     gateways |-> [v \in Vids |-> net[<<"core", v, "addresses">>]],
     svis |-> {v \in Vids : net[<<"access", v, "svi">>]},
     routes |-> VlanRoutes(net), flows |-> VlanFlows(net)]

VlanCommon(answers) ==
    /\ OspfCommon(answers.ospf)
    /\ answers.members = [v \in Vids |-> {"trunk", HostPort(v)}]
    /\ answers.ports = {<<"trunk", "trunk", Vids, "none">>} \union
                       {<<HostPort(v), "access", {}, v>> : v \in Vids}
    /\ answers.gateways = [v \in Vids |-> {Gateway(v)}]
    /\ answers.svis = {} /\ answers.routes.advertised = {}
    /\ answers.routes.connected = Vids /\ answers.flows.local = Vids

VlanAssured(answers) ==
    VlanCommon(answers) /\ answers.flows.open = {x \in Vids \X Vids : x[1] # x[2]}

VlanEvidence(observed, answers) ==
    [envelope |-> VlanEnvelope, observed |-> observed, desired |-> VlanDesired,
     rendered |-> VlanRender(observed), adjacencies |-> Cardinality(answers.ospf.edges),
     passed |-> VlanAssured(answers)]

VlanBound(evidence) ==
    /\ evidence.envelope = VlanEnvelope
    /\ evidence.desired = VlanDesired
    /\ evidence.rendered = VlanRender(evidence.observed)
    /\ evidence.adjacencies = 3
    /\ evidence.passed

\* What the service alone is for: every host reaches its gateway and the other host.
VlanWorks(net) == \A v, w \in Vids : Routed(net, v, w)
=============================================================================
