--------------------------- MODULE OspfService ---------------------------
(*************************************************************************)
(* The OSPF vertical (ospf_triangle.py) over the routed underlay: area 0 *)
(* on the six ports of the three routers, point-to-point and active.     *)
(*                                                                       *)
(* Keys of the network: <<router, "ospf", field>> of the process and     *)
(* <<router, neighbour, field>> of an interface.  The field "area" is    *)
(* "none" without participation, "passive" is how the process text names *)
(* the interface: "explicit", "active" or not at all.                    *)
(*************************************************************************)
EXTENDS UnderlayService

Area0 == "0.0.0.0"

OspfIntent ==
    [r \in Routers |-> [routerId |-> r, ports |-> {p \in Ports : p[1] = r}]]

OspfIntentExact(intent) ==
    /\ DOMAIN intent = Routers
    /\ UNION {intent[r].ports : r \in Routers} = Ports
    /\ \A r \in Routers : Cardinality(intent[r].ports) = 2

OspfActive == [participating |-> TRUE, area |-> Area0, type |-> "point-to-point", passive |-> FALSE]
OspfSilent == [participating |-> FALSE, area |-> "none", type |-> "none", passive |-> FALSE]

OspfDesired ==
    [r \in Routers |-> [process |-> TRUE, routerId |-> OspfIntent[r].routerId,
                        ports |-> [p \in OspfIntent[r].ports |-> OspfActive]]]

OspfDesiredExact(desired) ==
    /\ DOMAIN desired = Routers
    /\ \A r \in Routers : DOMAIN desired[r].ports = OspfIntent[r].ports

OspfEnvelope ==
    {<<r, "ospf", field>> : r \in Routers, field \in {"process", "router-id"}} \union
    {<<p[1], p[2], field>> : p \in Ports, field \in {"area", "type", "passive"}}

OspfPortShape(o) == ~o.participating => o = OspfSilent

OspfRouterShape(o) == ~o.process => \A p \in DOMAIN o.ports : ~o.ports[p].participating

\* A Cisco interface is passive when named so, or by default unless named active.
CiscoPassive(net, p) ==
    \/ net[<<p[1], p[2], "passive">>] = "explicit"
    \/ net[<<p[1], "ospf", "passive-default">>] /\ net[<<p[1], p[2], "passive">>] # "active"

JunosPassive(net, p) == net[<<p[1], p[2], "passive">>] = "explicit"

ReadOspfPort(net, p) ==
    IF net[<<p[1], p[2], "area">>] = "none" THEN OspfSilent
    ELSE [participating |-> TRUE, area |-> net[<<p[1], p[2], "area">>],
          type |-> IF net[<<p[1], p[2], "type">>] = "none" THEN "broadcast"
                   ELSE net[<<p[1], p[2], "type">>],
          passive |-> IF p[1] \in CiscoRouters THEN CiscoPassive(net, p) ELSE JunosPassive(net, p)]

\* Junos runs OSPF as soon as one of its areas has an interface.
ProcessOn(net, r) ==
    \/ net[<<r, "ospf", "process">>] # "none"
    \/ r \notin CiscoRouters /\ \E p \in OspfIntent[r].ports : net[<<p[1], p[2], "area">>] # "none"

ReadOspfRouter(net, r) ==
    [process |-> ProcessOn(net, r),
     routerId |-> net[<<r, "ospf", "router-id">>],
     ports |-> [p \in OspfIntent[r].ports |-> ReadOspfPort(net, p)]]

\* Process 1 alone, no network statement, no option this service does not own.
CiscoOspfSupported(net, r) ==
    /\ net[<<r, "ospf", "process">>] \in {"none", "1"}
    /\ ~net[<<r, "ospf", "network">>]
    /\ \A p \in OspfIntent[r].ports : ~net[<<p[1], p[2], "cost">>]

JunosOspfSupported(net, r) ==
    \A p \in OspfIntent[r].ports :
        /\ net[<<p[1], p[2], "area">>] # "both"
        /\ net[<<p[1], p[2], "area">>] # "none" => ~net[<<p[1], p[2], "cost">>]

OspfRead(net) ==
    IF \A r \in Routers :
          /\ IF r \in CiscoRouters THEN CiscoOspfSupported(net, r) ELSE JunosOspfSupported(net, r)
          /\ OspfRouterShape(ReadOspfRouter(net, r))
    THEN {[r \in Routers |-> ReadOspfRouter(net, r)]}
    ELSE {}

\* Both renderers leave the old area first; the passive statement is dropped by
\* "no passive-interface" on Cisco, and on Junos only when it was read.
OspfPortJoins(p, state) ==
    [leaves |-> FALSE, active |-> p[1] \in CiscoRouters \/ (state.participating /\ state.passive)]
OspfPortChange(p, state) ==
    [leaves |-> state.participating /\ state.area # Area0,
     active |-> p[1] \in CiscoRouters \/ (state.participating /\ state.passive)]

OspfRender(observed) ==
    IF DOMAIN observed # Routers THEN {}
    ELSE {[p \in Ports |-> OspfPortChange(p, observed[p[1]].ports[p])]}

\* An interface that joins area 0 without leaving another one stays in both on Junos.
OspfFieldChanged(net, k, change) ==
    CASE k[3] = "area" -> IF k[1] \in CiscoRouters \/ change.leaves
                             \/ net[k] \in {"none", Area0}
                          THEN Area0 ELSE "both"
      [] k[3] = "type" -> "point-to-point"
      [] k[3] = "passive" -> IF ~change.active THEN net[k]
                             ELSE IF k[1] \in CiscoRouters /\ net[<<k[1], "ospf", "passive-default">>]
                             THEN "active" ELSE "none"

OspfChanged(net, rendered) ==
    [k \in DOMAIN net |->
        IF k \notin OspfEnvelope THEN net[k]
        ELSE IF k[2] # "ospf" THEN OspfFieldChanged(net, k, rendered[<<k[1], k[2]>>])
        ELSE IF k[3] = "process" THEN "1" ELSE OspfIntent[k[1]].routerId]

----------------------------------------------------------------------------
(* The combined underlay and OSPF candidate and its assurance. *)

\* On Cisco every interface is passive by default and the six are named active.
OspfCandidate(blank) ==
    LET base == UnderlayCandidate(blank)
    IN  [k \in DOMAIN blank |->
            IF k[3] = "passive-default" THEN k[1] \in CiscoRouters
            ELSE IF k \notin OspfEnvelope THEN base[k]
            ELSE CASE k[3] = "process" -> "1"
                   [] k[3] = "router-id" -> OspfDesired[k[1]].routerId
                   [] k[3] = "area" -> Area0
                   [] k[3] = "type" -> "point-to-point"
                   [] k[3] = "passive" -> IF k[1] \in CiscoRouters THEN "active" ELSE "none"]

OspfSpeaks(net, p) ==
    /\ PortUp(net, p)
    /\ ProcessOn(net, p[1])
    /\ ReadOspfPort(net, p).participating
    /\ ~ReadOspfPort(net, p).passive

Adjacent(net, p) ==
    /\ OspfSpeaks(net, p) /\ OspfSpeaks(net, Peer(p))
    /\ ReadOspfPort(net, p).area = ReadOspfPort(net, Peer(p)).area
    /\ ReadOspfPort(net, p).type = ReadOspfPort(net, Peer(p)).type
    /\ net[<<p[1], "ospf", "router-id">>] # net[<<p[2], "ospf", "router-id">>]

\* A router learns the link it is not on from a neighbour that speaks for it.
LearnsRemote(net, r) ==
    \E q \in Ports : r \notin {q[1], q[2]} /\ Adjacent(net, <<r, q[1]>>) /\ OspfSpeaks(net, q)

OspfPorts(net) ==
    {<<p, ReadOspfPort(net, p)>> : p \in {x \in Ports : ReadOspfPort(net, x).participating}}

OspfEdges(net) == {{p[1], p[2]} : p \in {x \in Ports : Adjacent(net, x)}}

OspfRoutes(net) == {r \in Routers : LearnsRemote(net, r)}

\* The three flows asked to an address of a link the source is not on.
RemoteFlows == {<<"core", <<"transit", "edge">>>>, <<"edge", <<"transit", "core">>>>,
                <<"transit", <<"edge", "core">>>>}

RemoteReached(net) == {f \in RemoteFlows : LearnsRemote(net, f[1]) /\ PortUp(net, f[2])}

OspfAnswers(net, issues) ==
    [underlay |-> UnderlayAnswers(net, issues),
     processes |-> {<<r, net[<<r, "ospf", "router-id">>]>> :
                        r \in {x \in Routers : ProcessOn(net, x)}},
     ports |-> OspfPorts(net), edges |-> OspfEdges(net), routes |-> OspfRoutes(net),
     remote |-> RemoteReached(net)]

OspfCommon(answers) ==
    /\ UnderlayCommon(answers.underlay)
    /\ answers.processes = {<<r, OspfDesired[r].routerId>> : r \in Routers}
    /\ answers.ports = {<<p, OspfActive>> : p \in Ports}
    /\ answers.edges = {{p[1], p[2]} : p \in Ports}
    /\ answers.routes = Routers /\ answers.remote = RemoteFlows

OspfEvidence(observed, answers) ==
    [envelope |-> OspfEnvelope, observed |-> observed, desired |-> OspfDesired,
     rendered |-> OspfRender(observed), routers |-> Cardinality(answers.processes),
     adjacencies |-> Cardinality(answers.edges), passed |-> OspfCommon(answers)]

OspfBound(evidence) ==
    /\ evidence.envelope = OspfEnvelope
    /\ evidence.desired = OspfDesired
    /\ evidence.rendered = OspfRender(evidence.observed)
    /\ evidence.routers = 3 /\ evidence.adjacencies = 3
    /\ evidence.passed

\* What OSPF is for: every router has a way to the link it is not on.
OspfWorks(net) == \A r \in Routers : LearnsRemote(net, r)
=============================================================================
