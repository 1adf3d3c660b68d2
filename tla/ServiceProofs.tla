--------------------------- MODULE ServiceProofs ---------------------------
(***************************************************************************)
(* Theorems about the proposed service changes (ServiceChange and the four *)
(* verticals), for any number of keys that deviate from the reference.     *)
(*                                                                         *)
(* Assurances needs no invariant of the network: what passes an assurance  *)
(* works, of whatever network it was (UnderlayPassed and its siblings),    *)
(* and each candidate passes as it stands (CandidateAssured).              *)
(*                                                                         *)
(* Renderings and Protections rest on ServiceInv: a plan's lines fit the   *)
(* network until they are applied (Fits), and what a vertical owns is as   *)
(* D1 wants it afterwards (Wanted), until somebody edits it.  The lines of *)
(* the other verticals leave that alone, because no two of them own a key. *)
(*                                                                         *)
(* What is quantified over in the model by sets of tuples is decided here  *)
(* key by key: that is most of the length.                                 *)
(***************************************************************************)
EXTENDS Operations, TLAPS

-----------------------------------------------------------------------------
(* Ports and keys. *)

LEMMA PortIsPair ==
  ASSUME NEW p \in Service!Ports
  PROVE  /\ p = <<p[1], p[2]>> /\ p[1] # p[2]
         /\ p[1] \in {"core", "edge", "transit"} /\ p[2] \in {"core", "edge", "transit"}
  BY DEF Service!Ports, Service!Routers

LEMMA PairIsPort ==
  ASSUME NEW a \in {"core", "edge", "transit"}, NEW b \in {"core", "edge", "transit"}, a # b
  PROVE  <<a, b>> \in Service!Ports
  BY DEF Service!Ports, Service!Routers

\* A key with its values is a key.
LEMMA KeyOfPair ==
  ASSUME NEW k, NEW V, <<k, V>> \in Service!KeyValues
  PROVE  k \in Service!Keys
  BY DEF Service!Keys

LEMMA FlagIsKey ==
  ASSUME NEW k \in Service!Flags
  PROVE  k \in Service!Keys
<1>1. <<k, BOOLEAN>> \in {<<f, BOOLEAN>> : f \in Service!Flags}
  OBVIOUS
<1>2. <<k, BOOLEAN>> \in Service!KeyValues
  BY <1>1 DEF Service!KeyValues
<1> QED
  BY <1>2, KeyOfPair

\* The keys that the four verticals and their assurance look at.
LEMMA PortFlags ==
  ASSUME NEW p \in Service!Ports
  PROVE  /\ <<p[1], p[2], "shut">> \in Service!Flags
         /\ <<p[1], p[2], "shut">> \in Service!Keys
<1>1. <<p[1], p[2], "shut">> \in {<<q[1], q[2], field>> : q \in Service!Ports, field \in {"shut", "cost"}}
  OBVIOUS
<1>2. <<p[1], p[2], "shut">> \in Service!Flags
  BY <1>1 DEF Service!Flags
<1> QED
  BY <1>2, FlagIsKey

LEMMA PortValueKeys ==
  ASSUME NEW p \in Service!Ports
  PROVE  /\ <<p[1], p[2], "addresses">> \in Service!Keys
         /\ \A field \in {"area", "type", "passive"} : <<p[1], p[2], field>> \in Service!Keys
<1>1. <<<<p[1], p[2], "addresses">>, Service!RoutedValues(p)>>
        \in {<<<<q[1], q[2], "addresses">>, Service!RoutedValues(q)>> : q \in Service!Ports}
  OBVIOUS
<1>2. <<<<p[1], p[2], "addresses">>, Service!RoutedValues(p)>> \in Service!KeyValues
  BY <1>1 DEF Service!KeyValues
<1>3. ASSUME NEW field \in {"area", "type", "passive"}
      PROVE  <<p[1], p[2], field>> \in Service!Keys
  <2> DEFINE k == <<p[1], p[2], field>>
  <2>1. k \in Service!PortKeys
    BY DEF Service!PortKeys
  <2>2. <<k, Service!PortValues(k[1], k[3])>>
          \in {<<j, Service!PortValues(j[1], j[3])>> : j \in Service!PortKeys}
    BY <2>1
  <2>3. <<k, Service!PortValues(k[1], k[3])>> \in Service!KeyValues
    BY <2>2 DEF Service!KeyValues
  <2> QED
    BY <2>3, KeyOfPair
<1> QED
  BY <1>2, <1>3, KeyOfPair

LEMMA ProcessKeys ==
  ASSUME NEW r \in Service!Routers
  PROVE  <<r, "ospf", "process">> \in Service!Keys /\ <<r, "ospf", "router-id">> \in Service!Keys
<1>1. <<<<r, "ospf", "router-id">>, Service!Routers \union {"none"}>>
        \in {<<<<q, "ospf", "router-id">>, Service!Routers \union {"none"}>> : q \in Service!Routers}
  OBVIOUS
<1>2. <<<<r, "ospf", "router-id">>, Service!Routers \union {"none"}>> \in Service!KeyValues
  BY <1>1 DEF Service!KeyValues
<1>3. CASE r \in Service!CiscoRouters
  <2>1. <<<<r, "ospf", "process">>, {"none", "1", "other"}>>
          \in {<<<<q, "ospf", "process">>, {"none", "1", "other"}>> : q \in Service!CiscoRouters}
    BY <1>3
  <2>2. <<<<r, "ospf", "process">>, {"none", "1", "other"}>> \in Service!KeyValues
    BY <2>1 DEF Service!KeyValues
  <2> QED
    BY <1>2, <2>2, KeyOfPair
<1>4. CASE r = "edge"
  <2>1. <<<<r, "ospf", "process">>, {"none", "1"}>> \in Service!KeyValues
    BY <1>4 DEF Service!KeyValues
  <2> QED
    BY <1>2, <2>1, KeyOfPair
<1> QED
  BY <1>3, <1>4 DEF Service!Routers, Service!CiscoRouters

LEMMA DefaultKeys ==
  ASSUME NEW r \in Service!CiscoRouters
  PROVE  <<r, "ospf", "passive-default">> \in Service!Keys
<1>1. <<r, "ospf", "passive-default">>
        \in {<<q, "ospf", field>> : q \in Service!CiscoRouters, field \in {"network", "passive-default"}}
  OBVIOUS
<1>2. <<r, "ospf", "passive-default">> \in Service!Flags
  BY <1>1 DEF Service!Flags
<1> QED
  BY <1>2, FlagIsKey

LEMMA CoreKeys ==
  ASSUME NEW v \in Service!Vids
  PROVE  /\ <<"core", "parent", "addresses">> \in Service!Keys
         /\ <<"core", "parent", "shut">> \in Service!Keys
         /\ \A field \in {"exists", "shut", "ospf"} : /\ <<"core", v, field>> \in Service!Flags
                                                      /\ <<"core", v, field>> \in Service!Keys
         /\ \A field \in {"addresses", "encapsulation", "in", "out"} : <<"core", v, field>> \in Service!Keys
<1>1. <<<<"core", "parent", "addresses">>, {{}, {Service!Stale}}>> \in Service!KeyValues
  BY DEF Service!KeyValues
<1>2. <<"core", "parent", "shut">> \in Service!Flags
  BY DEF Service!Flags
<1>3. ASSUME NEW field \in {"exists", "shut", "ospf"} PROVE <<"core", v, field>> \in Service!Flags
  <2>1. <<"core", v, field>>
          \in {<<"core", w, f>> : w \in Service!Vids, f \in {"exists", "shut", "ospf"}}
    OBVIOUS
  <2> QED
    BY <2>1 DEF Service!Flags
<1>4. <<"core", v, "addresses">> \in Service!Keys
  <2>1. <<<<"core", v, "addresses">>, Service!GatewayValues(v)>>
          \in {<<<<"core", w, "addresses">>, Service!GatewayValues(w)>> : w \in Service!Vids}
    OBVIOUS
  <2>2. <<<<"core", v, "addresses">>, Service!GatewayValues(v)>> \in Service!KeyValues
    BY <2>1 DEF Service!KeyValues
  <2> QED
    BY <2>2, KeyOfPair
<1>5. ASSUME NEW field \in {"encapsulation", "in", "out"} PROVE <<"core", v, field>> \in Service!Keys
  <2>1. <<<<"core", v, field>>, Service!SubinterfaceValues(field)>>
          \in {<<<<"core", w, f>>, Service!SubinterfaceValues(f)>> :
                  w \in Service!Vids, f \in {"encapsulation"} \union Service!Sides}
    BY DEF Service!Sides
  <2>2. <<<<"core", v, field>>, Service!SubinterfaceValues(field)>> \in Service!KeyValues
    BY <2>1 DEF Service!KeyValues
  <2> QED
    BY <2>2, KeyOfPair
<1> QED
  BY <1>1, <1>2, <1>3, <1>4, <1>5, FlagIsKey, KeyOfPair

LEMMA SwitchKeys ==
  /\ \A v \in Service!Vids : /\ <<"access", v, "name">> \in Service!Keys
                             /\ <<"access", v, "svi">> \in Service!Flags
                             /\ <<"access", v, "svi">> \in Service!Keys
  /\ \A t \in Service!SwitchPorts :
        /\ <<"access", t, "shut">> \in Service!Keys
        /\ \A field \in {"mode", "allowed", "access", "native"} : <<"access", t, field>> \in Service!Keys
<1>1. ASSUME NEW v \in Service!Vids
      PROVE  <<"access", v, "name">> \in Service!Keys /\ <<"access", v, "svi">> \in Service!Flags
  <2>1. <<<<"access", v, "name">>, {"none", "USERS", "SERVERS"}>>
          \in {<<<<"access", w, "name">>, {"none", "USERS", "SERVERS"}>> : w \in Service!Vids}
    OBVIOUS
  <2>2. <<<<"access", v, "name">>, {"none", "USERS", "SERVERS"}>> \in Service!KeyValues
    BY <2>1 DEF Service!KeyValues
  <2>3. <<"access", v, "svi">> \in {<<"access", w, f>> : w \in Service!Vids, f \in {"svi", "stray"}}
    OBVIOUS
  <2>4. <<"access", v, "svi">> \in Service!Flags
    BY <2>3 DEF Service!Flags
  <2> QED
    BY <2>2, <2>4, KeyOfPair
<1>2. ASSUME NEW t \in Service!SwitchPorts
      PROVE  /\ <<"access", t, "shut">> \in Service!Keys
             /\ \A field \in {"mode", "allowed", "access", "native"} : <<"access", t, field>> \in Service!Keys
  <2>1. <<"access", t, "shut">>
          \in {<<"access", s, f>> : s \in Service!SwitchPorts, f \in {"shut", "feature"}}
    OBVIOUS
  <2>2. <<"access", t, "shut">> \in Service!Flags
    BY <2>1 DEF Service!Flags
  <2>3. ASSUME NEW field \in {"mode", "allowed", "access", "native"}
        PROVE  <<"access", t, field>> \in Service!Keys
    <3>1. <<<<"access", t, field>>, Service!SwitchValues(field)>>
            \in {<<<<"access", s, f>>, Service!SwitchValues(f)>> :
                    s \in Service!SwitchPorts, f \in {"mode", "allowed", "access", "native"}}
      OBVIOUS
    <3>2. <<<<"access", t, field>>, Service!SwitchValues(field)>> \in Service!KeyValues
      BY <3>1 DEF Service!KeyValues
    <3> QED
      BY <3>2, KeyOfPair
  <2> QED
    BY <2>2, <2>3, FlagIsKey
<1> QED
  BY <1>1, <1>2, FlagIsKey

LEMMA PolicyKeys ==
  /\ <<"core", "acl", "rules">> \in Service!Keys
  /\ <<"core", "elsewhere", "group">> \in Service!Keys
<1>1. <<<<"core", "acl", "rules">>, Service!RuleLists>> \in Service!KeyValues
  BY DEF Service!KeyValues
<1>2. <<<<"core", "elsewhere", "group">>, {"none", "ncdp"}>> \in Service!KeyValues
  BY DEF Service!KeyValues
<1> QED
  BY <1>1, <1>2, KeyOfPair

LEMMA EnvelopeInKeys ==
  ASSUME NEW v \in Service!Verticals
  PROVE  Service!Envelope(v) \subseteq Service!Keys
<1>1. ASSUME NEW k \in Service!UnderlayEnvelope PROVE k \in Service!Keys
  <2>1. PICK p \in Service!Ports, field \in {"addresses", "shut"} : k = <<p[1], p[2], field>>
    BY <1>1 DEF Service!UnderlayEnvelope
  <2> QED
    BY <2>1, PortFlags, PortValueKeys
<1>2. ASSUME NEW k \in Service!OspfEnvelope PROVE k \in Service!Keys
  <2>1. CASE \E r \in Service!Routers, field \in {"process", "router-id"} : k = <<r, "ospf", field>>
    BY <2>1, ProcessKeys
  <2>2. CASE \E p \in Service!Ports, field \in {"area", "type", "passive"} : k = <<p[1], p[2], field>>
    BY <2>2, PortValueKeys
  <2> QED
    BY <1>2, <2>1, <2>2 DEF Service!OspfEnvelope
<1>3. ASSUME NEW k \in Service!VlanEnvelope PROVE k \in Service!Keys
  <2>1. CASE \E field \in {"addresses", "shut"} : k = <<"core", "parent", field>>
    <3>1. "10" \in Service!Vids
      BY DEF Service!Vids
    <3> QED
      BY <2>1, <3>1, CoreKeys
  <2>2. CASE \E v1 \in Service!Vids, field \in {"exists", "encapsulation", "addresses", "shut"} :
                k = <<"core", v1, field>>
    BY <2>2, CoreKeys
  <2>3. CASE \E v1 \in Service!Vids : k = <<"access", v1, "name">>
    BY <2>3, SwitchKeys
  <2>4. CASE \E t \in Service!SwitchPorts, field \in {"mode", "allowed", "access", "shut"} :
                k = <<"access", t, field>>
    BY <2>4, SwitchKeys
  <2> QED
    BY <1>3, <2>1, <2>2, <2>3, <2>4 DEF Service!VlanEnvelope
<1>4. ASSUME NEW k \in Service!AclEnvelope PROVE k \in Service!Keys
  <2>1. "20" \in Service!Vids
    BY DEF Service!Vids
  <2> QED
    BY <1>4, <2>1, CoreKeys, PolicyKeys DEF Service!AclEnvelope
<1> QED
  BY <1>1, <1>2, <1>3, <1>4 DEF Service!Verticals, Service!Envelope

\* Which keys a vertical owns, told by their second and third part.
LEMMA EnvelopeParts ==
  /\ \A k \in Service!UnderlayEnvelope :
        k[1] \in Service!Routers /\ k[2] \in Service!Routers /\ k[3] \in {"addresses", "shut"}
  /\ \A k \in Service!OspfEnvelope :
        /\ k[1] \in Service!Routers /\ k[2] \in Service!Routers \union {"ospf"}
        /\ k[3] \in {"process", "router-id", "area", "type", "passive"}
  /\ \A k \in Service!VlanEnvelope :
        /\ k[2] \in {"parent", "10", "20", "trunk", "users", "servers"}
        /\ k[3] \in {"addresses", "shut", "exists", "encapsulation", "name", "mode", "allowed", "access"}
  /\ \A k \in Service!AclEnvelope :
        k[1] = "core" /\ k[2] \in {"acl", "20"} /\ k[3] \in {"rules", "in", "out"}
<1>1. ASSUME NEW k \in Service!UnderlayEnvelope
      PROVE  k[1] \in Service!Routers /\ k[2] \in Service!Routers /\ k[3] \in {"addresses", "shut"}
  <2>1. PICK p \in Service!Ports, field \in {"addresses", "shut"} : k = <<p[1], p[2], field>>
    BY DEF Service!UnderlayEnvelope
  <2> QED
    BY <2>1, PortIsPair DEF Service!Routers
<1>2. ASSUME NEW k \in Service!OspfEnvelope
      PROVE  /\ k[1] \in Service!Routers /\ k[2] \in Service!Routers \union {"ospf"}
             /\ k[3] \in {"process", "router-id", "area", "type", "passive"}
  <2>1. CASE \E r \in Service!Routers, field \in {"process", "router-id"} : k = <<r, "ospf", field>>
    BY <2>1
  <2>2. CASE \E p \in Service!Ports, field \in {"area", "type", "passive"} : k = <<p[1], p[2], field>>
    BY <2>2, PortIsPair DEF Service!Routers
  <2> QED
    BY <2>1, <2>2 DEF Service!OspfEnvelope
<1>3. ASSUME NEW k \in Service!VlanEnvelope
      PROVE  /\ k[2] \in {"parent", "10", "20", "trunk", "users", "servers"}
             /\ k[3] \in {"addresses", "shut", "exists", "encapsulation", "name", "mode", "allowed", "access"}
  <2>1. CASE \E field \in {"addresses", "shut"} : k = <<"core", "parent", field>>
    BY <2>1
  <2>2. CASE \E v \in Service!Vids, field \in {"exists", "encapsulation", "addresses", "shut"} :
                k = <<"core", v, field>>
    BY <2>2 DEF Service!Vids
  <2>3. CASE \E v \in Service!Vids : k = <<"access", v, "name">>
    BY <2>3 DEF Service!Vids
  <2>4. CASE \E t \in Service!SwitchPorts, field \in {"mode", "allowed", "access", "shut"} :
                k = <<"access", t, field>>
    BY <2>4 DEF Service!SwitchPorts
  <2> QED
    BY <1>3, <2>1, <2>2, <2>3, <2>4 DEF Service!VlanEnvelope
<1>4. \A k \in Service!AclEnvelope :
         k[1] = "core" /\ k[2] \in {"acl", "20"} /\ k[3] \in {"rules", "in", "out"}
  BY DEF Service!AclEnvelope
<1> QED
  BY <1>1, <1>2, <1>3, <1>4

LEMMA PortInEnvelope ==
  ASSUME NEW p \in Service!Ports
  PROVE  /\ \A field \in {"addresses", "shut"} : <<p[1], p[2], field>> \in Service!UnderlayEnvelope
         /\ \A field \in {"area", "type", "passive"} : <<p[1], p[2], field>> \in Service!OspfEnvelope
<1>1. ASSUME NEW field \in {"addresses", "shut"} PROVE <<p[1], p[2], field>> \in Service!UnderlayEnvelope
  BY DEF Service!UnderlayEnvelope
<1>2. ASSUME NEW field \in {"area", "type", "passive"} PROVE <<p[1], p[2], field>> \in Service!OspfEnvelope
  <2>1. <<p[1], p[2], field>> \in {<<q[1], q[2], f>> : q \in Service!Ports, f \in {"area", "type", "passive"}}
    OBVIOUS
  <2> QED
    BY <2>1 DEF Service!OspfEnvelope
<1> QED
  BY <1>1, <1>2

LEMMA RouterInEnvelope ==
  ASSUME NEW r \in Service!Routers, NEW field \in {"process", "router-id"}
  PROVE  <<r, "ospf", field>> \in Service!OspfEnvelope
<1>1. <<r, "ospf", field>> \in {<<q, "ospf", f>> : q \in Service!Routers, f \in {"process", "router-id"}}
  OBVIOUS
<1> QED
  BY <1>1 DEF Service!OspfEnvelope

LEMMA VlanInEnvelope ==
  /\ \A field \in {"addresses", "shut"} : <<"core", "parent", field>> \in Service!VlanEnvelope
  /\ \A v \in Service!Vids :
        /\ <<"access", v, "name">> \in Service!VlanEnvelope
        /\ \A field \in {"exists", "encapsulation", "addresses", "shut"} :
              <<"core", v, field>> \in Service!VlanEnvelope
  /\ \A t \in Service!SwitchPorts : \A field \in {"mode", "allowed", "access", "shut"} :
        <<"access", t, field>> \in Service!VlanEnvelope
<1>1. ASSUME NEW field \in {"addresses", "shut"}
      PROVE  <<"core", "parent", field>> \in Service!VlanEnvelope
  BY DEF Service!VlanEnvelope
<1>2. ASSUME NEW v \in Service!Vids PROVE <<"access", v, "name">> \in Service!VlanEnvelope
  BY DEF Service!VlanEnvelope
<1>3. ASSUME NEW v \in Service!Vids, NEW field \in {"exists", "encapsulation", "addresses", "shut"}
      PROVE  <<"core", v, field>> \in Service!VlanEnvelope
  <2>1. <<"core", v, field>> \in {<<"core", w, f>> : w \in Service!Vids,
                                     f \in {"exists", "encapsulation", "addresses", "shut"}}
    OBVIOUS
  <2> QED
    BY <2>1 DEF Service!VlanEnvelope
<1>4. ASSUME NEW t \in Service!SwitchPorts, NEW field \in {"mode", "allowed", "access", "shut"}
      PROVE  <<"access", t, field>> \in Service!VlanEnvelope
  <2>1. <<"access", t, field>> \in {<<"access", s, f>> : s \in Service!SwitchPorts,
                                       f \in {"mode", "allowed", "access", "shut"}}
    OBVIOUS
  <2> QED
    BY <2>1 DEF Service!VlanEnvelope
<1> QED
  BY <1>1, <1>2, <1>3, <1>4

LEMMA FlagFields ==
  ASSUME NEW k \in Service!Flags
  PROVE  k[3] \in {"shut", "cost", "network", "passive-default", "unsupported", "exists", "ospf",
                   "reserved", "svi", "stray", "feature"}
<1>1. CASE \E p \in Service!Ports, field \in {"shut", "cost"} : k = <<p[1], p[2], field>>
  BY <1>1
<1>2. CASE \E r \in Service!CiscoRouters, field \in {"network", "passive-default"} : k = <<r, "ospf", field>>
  BY <1>2
<1>3. CASE \E v \in Service!Vids, field \in {"exists", "shut", "ospf"} : k = <<"core", v, field>>
  BY <1>3
<1>4. CASE \E v \in Service!Vids, field \in {"svi", "stray"} : k = <<"access", v, field>>
  BY <1>4
<1>5. CASE \E t \in Service!SwitchPorts, field \in {"shut", "feature"} : k = <<"access", t, field>>
  BY <1>5
<1>6. CASE k \in {<<"core", "parent", "shut">>, <<"core", "parent", "unsupported">>}
                 \union {<<"core", "other", "exists">>, <<"core", "acl", "reserved">>}
  BY <1>6
<1> QED
  BY <1>1, <1>2, <1>3, <1>4, <1>5, <1>6 DEF Service!Flags

LEMMA BlankValues ==
  /\ DOMAIN Service!Blank = Service!Keys
  /\ \A k \in Service!Flags : Service!Blank[k] = FALSE
  /\ \A k \in Service!Keys :
        /\ k[3] = "native" => Service!Blank[k] = "1"
        /\ k[3] \in {"in", "out", "group", "process", "area", "type", "passive", "router-id"} =>
              Service!Blank[k] = "none"
<1>1. \A k \in Service!Flags : k \in Service!Keys
  BY FlagIsKey
<1> QED
  BY <1>1, FlagFields DEF Service!Blank

-----------------------------------------------------------------------------
(* What each vertical's D1 puts into the keys it owns. *)

UnderlayStands(N) ==
    \A p \in Service!Ports : /\ N[<<p[1], p[2], "addresses">>] = {p}
                             /\ N[<<p[1], p[2], "shut">>] = FALSE

OspfStands(N) ==
    /\ \A r \in Service!Routers : N[<<r, "ospf", "process">>] = "1" /\ N[<<r, "ospf", "router-id">>] = r
    /\ \A p \in Service!Ports :
          /\ N[<<p[1], p[2], "area">>] = Service!Area0
          /\ N[<<p[1], p[2], "type">>] = "point-to-point"
          /\ N[<<p[1], p[2], "passive">>] = (IF p[1] \in Service!CiscoRouters THEN "active" ELSE "none")

VlanStands(N) ==
    /\ N[<<"core", "parent", "addresses">>] = {} /\ N[<<"core", "parent", "shut">>] = FALSE
    /\ \A v \in Service!Vids :
          /\ N[<<"core", v, "exists">>] = TRUE /\ N[<<"core", v, "shut">>] = FALSE
          /\ N[<<"core", v, "encapsulation">>] = v /\ N[<<"core", v, "addresses">>] = {Service!Gateway(v)}
          /\ N[<<"access", v, "name">>] = Service!VlanName(v)
          /\ N[<<"access", Service!HostPort(v), "mode">>] = "access"
          /\ N[<<"access", Service!HostPort(v), "access">>] = v
    /\ \A t \in Service!SwitchPorts : N[<<"access", t, "shut">>] = FALSE
    /\ N[<<"access", "trunk", "mode">>] = "trunk" /\ N[<<"access", "trunk", "allowed">>] = Service!Vids

\* What the services do not own and the candidates leave as an empty device has it.
RestBlank(N) ==
    /\ \A v \in Service!Vids : N[<<"core", v, "ospf">>] = FALSE /\ N[<<"access", v, "svi">>] = FALSE
    /\ \A t \in Service!SwitchPorts : N[<<"access", t, "native">>] = "1"
    /\ N[<<"core", "elsewhere", "group">>] = "none"

PolicyStands(N) ==
    /\ N[<<"core", "acl", "rules">>] = Service!AclRules
    /\ N[<<"core", "20", "out">>] = "ncdp" /\ N[<<"core", "20", "in">>] = "none"

LEMMA UnderlayCandidateStands ==
  /\ DOMAIN Service!Candidate("underlay") = Service!Keys
  /\ UnderlayStands(Service!Candidate("underlay"))
  /\ \A k \in Service!Keys \ Service!UnderlayEnvelope : Service!Candidate("underlay")[k] = Service!Blank[k]
<1> DEFINE C == Service!UnderlayCandidate(Service!Blank)
<1>1. Service!Candidate("underlay") = C
  BY DEF Service!Candidate, Service!Candidates, Service!Verticals
<1>2. /\ DOMAIN C = Service!Keys
      /\ \A k \in Service!Keys \ Service!UnderlayEnvelope : C[k] = Service!Blank[k]
  BY BlankValues DEF Service!UnderlayCandidate
<1>3. ASSUME NEW p \in Service!Ports
      PROVE  C[<<p[1], p[2], "addresses">>] = {p} /\ C[<<p[1], p[2], "shut">>] = FALSE
  <2>1. Service!UnderlayDesired[p].addresses = {p}
    BY DEF Service!UnderlayDesired, Service!UnderlayIntent
  <2> QED
    BY <2>1, BlankValues, PortIsPair, PortInEnvelope, PortFlags, PortValueKeys DEF Service!UnderlayCandidate
<1> QED
  BY <1>1, <1>2, <1>3 DEF UnderlayStands

LEMMA OspfCandidateStands ==
  /\ DOMAIN Service!Candidate("ospf") = Service!Keys
  /\ UnderlayStands(Service!Candidate("ospf")) /\ OspfStands(Service!Candidate("ospf"))
  /\ \A r \in Service!CiscoRouters : Service!Candidate("ospf")[<<r, "ospf", "passive-default">>] = TRUE
  /\ \A k \in Service!Keys \ (Service!UnderlayEnvelope \union Service!OspfEnvelope) :
        k[3] # "passive-default" => Service!Candidate("ospf")[k] = Service!Blank[k]
<1> DEFINE base == Service!Candidate("underlay")
           C == Service!OspfCandidate(Service!Blank)
<1>1. Service!Candidate("ospf") = C /\ base = Service!UnderlayCandidate(Service!Blank)
  BY DEF Service!Candidate, Service!Candidates, Service!Verticals
<1>2. DOMAIN C = Service!Keys
  BY BlankValues DEF Service!OspfCandidate
<1>3. \A k \in Service!Keys \ Service!OspfEnvelope : k[3] # "passive-default" => C[k] = base[k]
  BY <1>1, BlankValues DEF Service!OspfCandidate
<1>4. ASSUME NEW p \in Service!Ports
      PROVE  C[<<p[1], p[2], "addresses">>] = {p} /\ C[<<p[1], p[2], "shut">>] = FALSE
  <2>1. \A field \in {"addresses", "shut"} : <<p[1], p[2], field>> \in Service!Keys \ Service!OspfEnvelope
    BY PortFlags, PortValueKeys, EnvelopeParts
  <2> QED
    BY <1>3, <2>1, UnderlayCandidateStands DEF UnderlayStands
<1>5. ASSUME NEW r \in Service!Routers
      PROVE  C[<<r, "ospf", "process">>] = "1" /\ C[<<r, "ospf", "router-id">>] = r
  <2>1. Service!OspfDesired[r].routerId = r
    BY DEF Service!OspfDesired, Service!OspfIntent
  <2> QED
    BY <2>1, BlankValues, ProcessKeys, RouterInEnvelope DEF Service!OspfCandidate
<1>6. ASSUME NEW p \in Service!Ports
      PROVE  /\ C[<<p[1], p[2], "area">>] = Service!Area0 /\ C[<<p[1], p[2], "type">>] = "point-to-point"
             /\ C[<<p[1], p[2], "passive">>] = IF p[1] \in Service!CiscoRouters THEN "active" ELSE "none"
  BY BlankValues, PortValueKeys, PortInEnvelope DEF Service!OspfCandidate
<1>7. \A r \in Service!CiscoRouters : C[<<r, "ospf", "passive-default">>] = TRUE
  BY BlankValues, DefaultKeys DEF Service!OspfCandidate
<1>8. \A k \in Service!Keys \ (Service!UnderlayEnvelope \union Service!OspfEnvelope) :
        k[3] # "passive-default" => C[k] = Service!Blank[k]
  BY <1>3, UnderlayCandidateStands
<1> HIDE DEF C, base
<1> QED
  BY <1>1, <1>2, <1>4, <1>5, <1>6, <1>7, <1>8 DEF UnderlayStands, OspfStands

\* The rendered VLAN lines put D1 into the keys of the vertical, whatever was there.
LEMMA VlanLinesStand ==
  ASSUME NEW N, DOMAIN N = Service!Keys, NEW rendered,
         rendered.gateways = Service!VlanDesired.gateways,
         rendered.vlans = Service!VlanDesired.vlans, rendered.ports = Service!VlanDesired.ports
  PROVE  /\ DOMAIN Service!VlanChanged(N, rendered) = Service!Keys
         /\ VlanStands(Service!VlanChanged(N, rendered))
         /\ \A k \in Service!Keys \ Service!VlanEnvelope : Service!VlanChanged(N, rendered)[k] = N[k]
<1> DEFINE C == Service!VlanChanged(N, rendered)
<1>1. /\ DOMAIN C = Service!Keys
      /\ \A k \in Service!Keys \ Service!VlanEnvelope : C[k] = N[k]
  BY DEF Service!VlanChanged
<1>2. "10" \in Service!Vids /\ {"trunk", "users", "servers"} = Service!SwitchPorts
  BY DEF Service!Vids, Service!SwitchPorts
<1>3. C[<<"core", "parent", "addresses">>] = {} /\ C[<<"core", "parent", "shut">>] = FALSE
  <2>1. Service!VlanDesired.parent.addresses = {}
    BY DEF Service!VlanDesired, Service!CoreState
  <2> QED
    BY <1>2, <2>1, CoreKeys, VlanInEnvelope DEF Service!VlanChanged, Service!CoreChanged
<1>4. ASSUME NEW v \in Service!Vids
      PROVE  /\ C[<<"core", v, "exists">>] = TRUE /\ C[<<"core", v, "shut">>] = FALSE
             /\ C[<<"core", v, "encapsulation">>] = v
             /\ C[<<"core", v, "addresses">>] = {Service!Gateway(v)}
             /\ C[<<"access", v, "name">>] = Service!VlanName(v)
  <2>1. /\ rendered.gateways[v].encapsulation = v
        /\ rendered.gateways[v].addresses = {Service!Gateway(v)}
        /\ rendered.vlans[v] = Service!VlanName(v)
    BY DEF Service!VlanDesired, Service!CoreState, Service!VlanIntent
  <2>2. v # "parent"
    BY DEF Service!Vids
  <2>3. C[<<"core", v, "exists">>] = TRUE /\ C[<<"core", v, "shut">>] = FALSE
    BY <2>2, CoreKeys, VlanInEnvelope DEF Service!VlanChanged, Service!CoreChanged
  <2>4. C[<<"core", v, "encapsulation">>] = v /\ C[<<"core", v, "addresses">>] = {Service!Gateway(v)}
    BY <2>1, <2>2, CoreKeys, VlanInEnvelope DEF Service!VlanChanged, Service!CoreChanged
  <2>5. C[<<"access", v, "name">>] = Service!VlanName(v)
    BY <2>1, <2>2, SwitchKeys, VlanInEnvelope DEF Service!VlanChanged
  <2> QED
    BY <2>3, <2>4, <2>5
<1>5. ASSUME NEW t \in Service!SwitchPorts, NEW field \in {"mode", "allowed", "access", "shut"}
      PROVE  C[<<"access", t, field>>]
               = Service!PortFieldChanged(N, <<"access", t, field>>, Service!VlanDesired.ports[t])
  <2>1. t \notin Service!Vids /\ t # "parent"
    BY DEF Service!Vids, Service!SwitchPorts
  <2>2. <<"access", t, field>> \in Service!Keys /\ <<"access", t, field>> \in Service!VlanEnvelope
    BY SwitchKeys, VlanInEnvelope
  <2> QED
    BY <2>1, <2>2 DEF Service!VlanChanged
<1>6. /\ Service!VlanDesired.ports["trunk"].mode = "trunk"
      /\ Service!VlanDesired.ports["trunk"].allowed = Service!Vids
      /\ \A v \in Service!Vids : /\ Service!HostPort(v) \in Service!SwitchPorts
                                 /\ Service!VlanDesired.ports[Service!HostPort(v)].mode = "access"
                                 /\ Service!VlanDesired.ports[Service!HostPort(v)].access = v
  BY DEF Service!VlanDesired, Service!VlanIntent, Service!PortState, Service!SwitchPorts,
         Service!HostPort, Service!Vids
<1>7. \A t \in Service!SwitchPorts : C[<<"access", t, "shut">>] = FALSE
  BY <1>5 DEF Service!PortFieldChanged
<1>8. C[<<"access", "trunk", "mode">>] = "trunk" /\ C[<<"access", "trunk", "allowed">>] = Service!Vids
  BY <1>2, <1>5, <1>6 DEF Service!PortFieldChanged
<1>9. ASSUME NEW v \in Service!Vids
      PROVE  /\ C[<<"access", Service!HostPort(v), "mode">>] = "access"
             /\ C[<<"access", Service!HostPort(v), "access">>] = v
  <2> DEFINE t == Service!HostPort(v)
  <2>1. /\ t \in Service!SwitchPorts /\ Service!VlanDesired.ports[t].mode = "access"
        /\ Service!VlanDesired.ports[t].access = v
    BY <1>6
  <2> HIDE DEF t, C
  <2>2. /\ C[<<"access", t, "mode">>]
              = Service!PortFieldChanged(N, <<"access", t, "mode">>, Service!VlanDesired.ports[t])
        /\ C[<<"access", t, "access">>]
              = Service!PortFieldChanged(N, <<"access", t, "access">>, Service!VlanDesired.ports[t])
    BY <1>5, <2>1
  <2>3. C[<<"access", t, "mode">>] = "access" /\ C[<<"access", t, "access">>] = v
    BY <2>1, <2>2 DEF Service!PortFieldChanged
  <2> QED
    BY <2>3 DEF t
<1> HIDE DEF C
<1> QED
  BY <1>1, <1>3, <1>4, <1>7, <1>8, <1>9 DEF VlanStands, C

LEMMA VlanCandidateStands ==
  LET C == Service!Candidate("vlan") IN
  /\ DOMAIN C = Service!Keys
  /\ UnderlayStands(C) /\ OspfStands(C) /\ VlanStands(C) /\ RestBlank(C)
  /\ \A r \in Service!CiscoRouters : C[<<r, "ospf", "passive-default">>] = TRUE
  /\ \A v \in Service!Vids, side \in {"in", "out"} : C[<<"core", v, side>>] = "none"
<1> DEFINE base == Service!Candidate("ospf")
           D1 == [gateways |-> Service!VlanDesired.gateways, vlans |-> Service!VlanDesired.vlans,
                  ports |-> Service!VlanDesired.ports]
           C == Service!VlanChanged(base, D1)
<1>1. Service!Candidate("vlan") = C
  BY DEF Service!Candidate, Service!Candidates, Service!Verticals, Service!VlanCandidate
<1>2. DOMAIN base = Service!Keys
  BY OspfCandidateStands
<1>3. /\ DOMAIN C = Service!Keys /\ VlanStands(C)
      /\ \A k \in Service!Keys \ Service!VlanEnvelope : C[k] = base[k]
  <2>1. /\ D1.gateways = Service!VlanDesired.gateways /\ D1.vlans = Service!VlanDesired.vlans
        /\ D1.ports = Service!VlanDesired.ports
    OBVIOUS
  <2> HIDE DEF D1, base
  <2> QED
    BY <1>2, <2>1, VlanLinesStand
<1> HIDE DEF C, base
<1>4. ASSUME NEW p \in Service!Ports, NEW field \in {"addresses", "shut", "area", "type", "passive"}
      PROVE  C[<<p[1], p[2], field>>] = base[<<p[1], p[2], field>>]
  <2>1. <<p[1], p[2], field>> \in Service!Keys
    BY PortFlags, PortValueKeys
  <2>2. <<p[1], p[2], field>> \notin Service!VlanEnvelope
    BY EnvelopeParts, PortIsPair
  <2> QED
    BY <1>3, <2>1, <2>2
<1>5. UnderlayStands(C)
  BY <1>4, OspfCandidateStands DEF UnderlayStands, base
<1>6. ASSUME NEW r \in Service!Routers, NEW field \in {"process", "router-id", "passive-default"},
             field = "passive-default" => r \in Service!CiscoRouters
      PROVE  C[<<r, "ospf", field>>] = base[<<r, "ospf", field>>]
  <2>1. <<r, "ospf", field>> \in Service!Keys
    BY <1>6, ProcessKeys, DefaultKeys
  <2>2. <<r, "ospf", field>> \notin Service!VlanEnvelope
    BY EnvelopeParts
  <2> QED
    BY <1>3, <2>1, <2>2
<1>7. OspfStands(C)
  <2>1. OspfStands(base)
    BY OspfCandidateStands DEF base
  <2>2. ASSUME NEW r \in Service!Routers
        PROVE  C[<<r, "ospf", "process">>] = "1" /\ C[<<r, "ospf", "router-id">>] = r
    <3>1. /\ C[<<r, "ospf", "process">>] = base[<<r, "ospf", "process">>]
          /\ C[<<r, "ospf", "router-id">>] = base[<<r, "ospf", "router-id">>]
      BY <1>6
    <3> QED
      BY <2>1, <3>1 DEF OspfStands
  <2>3. ASSUME NEW p \in Service!Ports, NEW field \in {"area", "type", "passive"}
        PROVE  C[<<p[1], p[2], field>>] = base[<<p[1], p[2], field>>]
    BY <1>4
  <2> QED
    BY <2>1, <2>2, <2>3 DEF OspfStands
<1>8. \A r \in Service!CiscoRouters : C[<<r, "ospf", "passive-default">>] = TRUE
  <2>1. \A r \in Service!CiscoRouters : r \in Service!Routers
    BY DEF Service!CiscoRouters, Service!Routers
  <2> QED
    BY <1>6, <2>1, OspfCandidateStands DEF base
<1>9. ASSUME NEW k \in Service!Keys, k[3] \in {"ospf", "svi", "native", "group", "in", "out"}
      PROVE  C[k] = Service!Blank[k]
  <2>1. k \notin Service!VlanEnvelope /\ k \notin Service!UnderlayEnvelope /\ k \notin Service!OspfEnvelope
    BY <1>9, EnvelopeParts
  <2> QED
    BY <1>3, <1>9, <2>1, OspfCandidateStands DEF base
<1>10. RestBlank(C)
  <2>1. ASSUME NEW v \in Service!Vids
        PROVE  C[<<"core", v, "ospf">>] = FALSE /\ C[<<"access", v, "svi">>] = FALSE
    BY <1>9, CoreKeys, SwitchKeys, BlankValues
  <2>2. ASSUME NEW t \in Service!SwitchPorts PROVE C[<<"access", t, "native">>] = "1"
    BY <1>9, SwitchKeys, BlankValues
  <2>3. C[<<"core", "elsewhere", "group">>] = "none"
    BY <1>9, PolicyKeys, BlankValues
  <2> QED
    BY <2>1, <2>2, <2>3 DEF RestBlank
<1>11. \A v \in Service!Vids, side \in {"in", "out"} : C[<<"core", v, side>>] = "none"
  BY <1>9, CoreKeys, BlankValues
<1> QED
  BY <1>1, <1>3, <1>5, <1>7, <1>8, <1>10, <1>11

\* The candidate of all four verticals, which is also what the proposals want.
LEMMA ProposedStands ==
  LET C == Service!Candidate("acl") IN
  /\ Service!ProposedNetwork = C /\ DOMAIN C = Service!Keys
  /\ UnderlayStands(C) /\ OspfStands(C) /\ VlanStands(C) /\ RestBlank(C) /\ PolicyStands(C)
  /\ \A r \in Service!CiscoRouters : C[<<r, "ospf", "passive-default">>] = TRUE
  /\ \A v \in Service!Vids, side \in {"in", "out"} :
        <<v, side>> # <<"20", "out">> => C[<<"core", v, side>>] = "none"
<1> DEFINE base == Service!Candidate("vlan")
           C == [base EXCEPT ![<<"core", "acl", "rules">>] = Service!AclRules,
                             ![<<"core", "20", "out">>] = "ncdp",
                             ![<<"core", "20", "exists">>] = TRUE]
<1>1. Service!Candidate("acl") = C /\ Service!ProposedNetwork = C
  BY DEF Service!Candidate, Service!Candidates, Service!Verticals, Service!ProposedNetwork,
         Service!AclCandidate, Service!AclChanged, Service!AclDesired, Service!AclIntent
<1>2. base[<<"core", "20", "exists">>] = TRUE /\ DOMAIN base = Service!Keys
  BY VlanCandidateStands DEF VlanStands, Service!Vids
<1>3. /\ DOMAIN C = Service!Keys
      /\ \A k : k \notin {<<"core", "acl", "rules">>, <<"core", "20", "out">>} /\ k \in Service!Keys =>
                    C[k] = base[k]
  BY <1>2
<1>4. /\ "20" \in Service!Vids
      /\ <<"core", "acl", "rules">> \in Service!Keys /\ <<"core", "20", "out">> \in Service!Keys
      /\ <<"core", "20", "in">> \in Service!Keys
  BY CoreKeys, PolicyKeys DEF Service!Vids
<1>5. PolicyStands(C)
  BY <1>2, <1>4, VlanCandidateStands DEF PolicyStands
<1> HIDE DEF C, base
<1>6. ASSUME NEW k \in Service!Keys, k[3] \notin {"rules", "out"} PROVE C[k] = base[k]
  BY <1>3, <1>6
<1>7. UnderlayStands(C)
  BY <1>6, PortFlags, PortValueKeys, VlanCandidateStands DEF UnderlayStands, base
<1>8. OspfStands(C)
  BY <1>6, PortValueKeys, ProcessKeys, VlanCandidateStands DEF OspfStands, base
<1>9. VlanStands(C)
  <2>1. \A v \in Service!Vids : Service!HostPort(v) \in Service!SwitchPorts
    BY DEF Service!HostPort, Service!SwitchPorts
  <2>2. "trunk" \in Service!SwitchPorts
    BY DEF Service!SwitchPorts
  <2>3. VlanStands(base)
    BY VlanCandidateStands DEF base
  <2>4. /\ C[<<"core", "parent", "addresses">>] = {} /\ C[<<"core", "parent", "shut">>] = FALSE
    BY <1>4, <1>6, <2>3, CoreKeys DEF VlanStands
  <2>5. ASSUME NEW v \in Service!Vids
        PROVE  /\ C[<<"core", v, "exists">>] = TRUE /\ C[<<"core", v, "shut">>] = FALSE
               /\ C[<<"core", v, "encapsulation">>] = v
               /\ C[<<"core", v, "addresses">>] = {Service!Gateway(v)}
               /\ C[<<"access", v, "name">>] = Service!VlanName(v)
    BY <1>6, <2>3, CoreKeys, SwitchKeys DEF VlanStands
  <2>6. ASSUME NEW t \in Service!SwitchPorts, NEW field \in {"mode", "allowed", "access", "shut"}
        PROVE  C[<<"access", t, field>>] = base[<<"access", t, field>>]
    BY <1>6, SwitchKeys
  <2>7. ASSUME NEW v \in Service!Vids
        PROVE  /\ C[<<"access", Service!HostPort(v), "mode">>] = "access"
               /\ C[<<"access", Service!HostPort(v), "access">>] = v
    BY <2>1, <2>3, <2>6 DEF VlanStands
  <2>8. /\ C[<<"access", "trunk", "mode">>] = "trunk"
        /\ C[<<"access", "trunk", "allowed">>] = Service!Vids
        /\ \A t \in Service!SwitchPorts : C[<<"access", t, "shut">>] = FALSE
    BY <2>2, <2>3, <2>6 DEF VlanStands
  <2> QED
    BY <2>4, <2>5, <2>7, <2>8 DEF VlanStands
<1>10. RestBlank(C)
  BY <1>6, CoreKeys, SwitchKeys, PolicyKeys, VlanCandidateStands DEF RestBlank, base
<1>11. \A r \in Service!CiscoRouters : C[<<r, "ospf", "passive-default">>] = TRUE
  BY <1>6, DefaultKeys, VlanCandidateStands DEF base
<1>12. ASSUME NEW v \in Service!Vids, NEW side \in {"in", "out"}, <<v, side>> # <<"20", "out">>
       PROVE  C[<<"core", v, side>>] = "none"
  <2>1. <<"core", v, side>> \notin {<<"core", "acl", "rules">>, <<"core", "20", "out">>}
    BY <1>12
  <2> QED
    BY <1>3, <2>1, CoreKeys, VlanCandidateStands DEF base
<1> QED
  BY <1>1, <1>3, <1>5, <1>7, <1>8, <1>9, <1>10, <1>11, <1>12

-----------------------------------------------------------------------------
(* What passes an assurance does what it is for: of any network. *)

LEMMA UnderlayPassed ==
  ASSUME NEW N, NEW issues, Service!UnderlayCommon(Service!UnderlayAnswers(N, issues))
  PROVE  Service!UnderlayWorks(N)
<1>1. \A f \in Service!DirectFlows : Service!NeighbourFlow(N, f)
  BY DEF Service!UnderlayCommon, Service!UnderlayAnswers
<1>2. ASSUME NEW p \in Service!Ports PROVE Service!NeighbourFlow(N, p)
  <2>1. p \in Service!DirectFlows \/ Service!Peer(p) \in Service!DirectFlows
    BY PortIsPair DEF Service!DirectFlows, Service!Peer
  <2>2. Service!Peer(Service!Peer(p)) = p
    BY PortIsPair DEF Service!Peer
  <2> QED
    BY <1>1, <2>1, <2>2 DEF Service!NeighbourFlow
<1> QED
  BY <1>2 DEF Service!UnderlayWorks

LEMMA OspfPassed ==
  ASSUME NEW N, NEW issues, Service!OspfCommon(Service!OspfAnswers(N, issues))
  PROVE  Service!UnderlayWorks(N) /\ Service!OspfWorks(N)
<1>1. Service!UnderlayCommon(Service!UnderlayAnswers(N, issues))
  BY DEF Service!OspfCommon, Service!OspfAnswers
<1>2. Service!OspfRoutes(N) = Service!Routers
  BY DEF Service!OspfCommon, Service!OspfAnswers
<1>3. \A r \in Service!Routers : Service!LearnsRemote(N, r)
  BY <1>2 DEF Service!OspfRoutes
<1> QED
  BY <1>1, <1>3, UnderlayPassed DEF Service!OspfWorks

LEMMA VlanPassed ==
  ASSUME NEW N, NEW issues, Service!VlanCommon(Service!VlanAnswers(N, issues))
  PROVE  Service!OspfWorks(N) /\ Service!VlanWorks(N)
<1>1. Service!OspfCommon(Service!OspfAnswers(N, issues))
  BY DEF Service!VlanCommon, Service!VlanAnswers
<1>2. {v \in Service!Vids : Service!ReachesGateway(N, v)} = Service!Vids
  BY DEF Service!VlanCommon, Service!VlanAnswers, Service!VlanFlows
<1>3. \A v \in Service!Vids : Service!ReachesGateway(N, v)
  BY <1>2
<1> QED
  BY <1>1, <1>3, OspfPassed DEF Service!VlanWorks, Service!Routed

\* The second line denies whatever the first does not permit, before the third.
LEMMA PolicyDenies ==
  ASSUME NEW k \in Service!Kinds \ {"https"}
  PROVE  ~Service!Permits(Service!AclRules, Service!Flow("10", "20", k))
<1> DEFINE flow == Service!Flow("10", "20", k)
<1>1. /\ flow.from = "10" /\ flow.to = "20" /\ flow.kind = k
  BY DEF Service!Flow
<1>2. /\ DOMAIN Service!AclRules = 1..3 /\ Service!AclRules # <<>>
      /\ Service!AclRules[1].kinds = {"https"}
      /\ Service!AclRules[2].kinds = Service!Kinds /\ Service!AclRules[2].action = "deny"
      /\ Service!AclRules[2].from = {"10"} /\ Service!AclRules[2].to = {"20"}
  BY DEF Service!AclRules, Service!Rule
<1> HIDE DEF flow
<1>3. 2 \in Service!Matching(Service!AclRules, flow) /\ 1 \notin Service!Matching(Service!AclRules, flow)
  BY <1>1, <1>2 DEF Service!Matching
<1>4. ASSUME NEW i \in Service!Matching(Service!AclRules, flow), i <= 2 PROVE i = 2
  BY <1>2, <1>3, <1>4 DEF Service!Matching
<1>5. ~Service!Permits(Service!AclRules, flow)
  BY <1>2, <1>3, <1>4 DEF Service!Permits
<1> QED
  BY <1>5 DEF flow

LEMMA PolicyPermits ==
  Service!Permits(Service!AclRules, Service!Flow("10", "20", "https"))
<1> DEFINE flow == Service!Flow("10", "20", "https")
<1>1. /\ flow.from = "10" /\ flow.to = "20" /\ flow.kind = "https"
  BY DEF Service!Flow
<1>2. /\ DOMAIN Service!AclRules = 1..3 /\ Service!AclRules # <<>>
      /\ Service!AclRules[1] = [action |-> "permit", kinds |-> {"https"}, from |-> {"10"}, to |-> {"20"}]
  BY DEF Service!AclRules, Service!Rule
<1> HIDE DEF flow
<1>3. 1 \in Service!Matching(Service!AclRules, flow)
  BY <1>1, <1>2 DEF Service!Matching
<1>4. \A j \in Service!Matching(Service!AclRules, flow) : 1 <= j
  BY <1>2 DEF Service!Matching
<1>5. Service!Permits(Service!AclRules, flow)
  BY <1>2, <1>3, <1>4 DEF Service!Permits
<1> QED
  BY <1>5 DEF flow

\* The servers' outbound list is the policy's, and no other list is attached.
Guarded(N) ==
    /\ N[<<"core", "acl", "rules">>] = Service!AclRules
    /\ N[<<"core", "20", "out">>] = "ncdp"

OthersOpen(N) ==
    N[<<"core", "10", "in">>] = "none" /\ N[<<"core", "10", "out">>] = "none" /\ N[<<"core", "20", "in">>] = "none"

LEMMA GuardProtects ==
  ASSUME NEW N, Guarded(N)
  PROVE  Service!Protected(N)
<1> SUFFICES ASSUME NEW k \in Service!Kinds \ {"https"}
             PROVE  ~Service!Delivered(N, Service!Flow("10", "20", k))
  BY DEF Service!Protected
<1> DEFINE flow == Service!Flow("10", "20", k)
<1>1. flow.from = "10" /\ flow.to = "20"
  BY DEF Service!Flow
<1>2. ~Service!Permits(Service!AclRules, flow)
  BY PolicyDenies
<1> HIDE DEF flow
<1>3. ~Service!FilterPasses(N, flow.to, "out", flow)
  BY <1>1, <1>2 DEF Guarded, Service!FilterPasses
<1>4. ~Service!Delivered(N, flow)
  BY <1>1, <1>3 DEF Service!Delivered
<1> QED
  BY <1>4 DEF flow

LEMMA GuardPreserves ==
  ASSUME NEW N, Guarded(N), OthersOpen(N), \A v \in Service!Vids : Service!ReachesGateway(N, v)
  PROVE  Service!Preserved(N)
<1>1. \A v, w \in Service!Vids : Service!Routed(N, v, w)
  BY DEF Service!Routed
<1>2. "10" \in Service!Vids /\ "20" \in Service!Vids
  BY DEF Service!Vids
<1>3. \A flow : \A v \in Service!Vids : Service!FilterPasses(N, v, "in", flow)
  BY DEF Service!FilterPasses, OthersOpen, Service!Vids
<1>4. Service!Delivered(N, Service!Flow("10", "20", "https"))
  <2> DEFINE flow == Service!Flow("10", "20", "https")
  <2>1. flow.from = "10" /\ flow.to = "20"
    BY DEF Service!Flow
  <2>2. Service!Permits(Service!AclRules, flow)
    BY PolicyPermits
  <2> HIDE DEF flow
  <2>3. Service!FilterPasses(N, flow.to, "out", flow)
    BY <2>1, <2>2 DEF Guarded, Service!FilterPasses
  <2>4. Service!Delivered(N, flow)
    BY <1>1, <1>2, <1>3, <2>1, <2>3 DEF Service!Delivered
  <2> QED
    BY <2>4 DEF flow
<1>5. ASSUME NEW k \in Service!Kinds PROVE Service!Delivered(N, Service!Flow("20", "10", k))
  <2> DEFINE flow == Service!Flow("20", "10", k)
  <2>1. flow.from = "20" /\ flow.to = "10"
    BY DEF Service!Flow
  <2> HIDE DEF flow
  <2>2. Service!FilterPasses(N, flow.to, "out", flow)
    BY <2>1 DEF OthersOpen, Service!FilterPasses
  <2>3. Service!Delivered(N, flow)
    BY <1>1, <1>2, <1>3, <2>1, <2>2 DEF Service!Delivered
  <2> QED
    BY <2>3 DEF flow
<1>6. ASSUME NEW k \in Service!Kinds, NEW v \in Service!Vids
      PROVE  Service!Delivered(N, Service!Flow(v, v, k))
  <2> DEFINE flow == Service!Flow(v, v, k)
  <2>1. flow.from = v /\ flow.to = v
    BY DEF Service!Flow
  <2> HIDE DEF flow
  <2>2. Service!Delivered(N, flow)
    BY <1>1, <1>3, <2>1 DEF Service!Delivered
  <2> QED
    BY <2>2 DEF flow
<1> QED
  BY <1>4, <1>5, <1>6 DEF Service!Preserved

LEMMA AclPassed ==
  ASSUME NEW M, NEW N, NEW issues, Service!AclAssured(Service!AclAnswers(M, N, issues))
  PROVE  Service!Protected(N) /\ Service!Preserved(N)
<1>1. Service!VlanCommon(Service!VlanAnswers(N, issues))
  BY DEF Service!AclAssured, Service!AclAnswers
<1>2. \A v \in Service!Vids : Service!ReachesGateway(N, v)
  <2>1. \A v \in Service!Vids : Service!Routed(N, v, v)
    BY <1>1, VlanPassed DEF Service!VlanWorks
  <2> QED
    BY <2>1 DEF Service!Routed
<1>3. N[<<"core", "acl", "rules">>] = Service!AclRules
  BY DEF Service!AclAssured, Service!AclAnswers, Service!AclPolicyExact, Service!AclDesired, Service!AclIntent
<1>4. Service!AttachedTo(N, {"ncdp"}) \union
        {<<"elsewhere", g>> : g \in {N[<<"core", "elsewhere", "group">>]} \ {"none"}} = {<<"20", "out">>}
  BY DEF Service!AclAssured, Service!AclAnswers, Service!AclPolicyExact, Service!AclDesired, Service!AclIntent
<1>5. <<"20", "out">> \in Service!AttachedTo(N, {"ncdp"})
  <2>1. <<"20", "out">> \notin {<<"elsewhere", g>> : g \in {N[<<"core", "elsewhere", "group">>]} \ {"none"}}
    OBVIOUS
  <2> QED
    BY <1>4, <2>1
<1>6. \A x \in Service!AttachedTo(N, {"ncdp"}) : x = <<"20", "out">>
  BY <1>4
<1>7. Guarded(N)
  BY <1>3, <1>5 DEF Guarded, Service!AttachedTo
<1>8. ASSUME NEW v \in Service!Vids, NEW side \in {"in", "out"}, N[<<"core", v, side>>] = "ncdp"
      PROVE  v = "20" /\ side = "out"
  <2>1. <<v, side>> \in Service!AttachedTo(N, {"ncdp"})
    BY <1>8 DEF Service!AttachedTo, Service!Sides
  <2> QED
    BY <1>6, <2>1
<1>9. \A f \in Service!AskedFlows : f \notin Service!Blocked => Service!Delivered(N, f)
  BY Zenon DEF Service!AclAssured, Service!AclAnswers, Service!AclFlowsExact, Service!AclFlows
<1>10. ASSUME NEW v \in Service!Vids, NEW side \in {"in", "out"}, NEW flow,
              Service!FilterPasses(N, v, side, flow), <<v, side>> # <<"20", "out">>
       PROVE  N[<<"core", v, side>>] = "none"
  BY <1>8, <1>10 DEF Service!FilterPasses
<1>11. /\ Service!Delivered(N, Service!Flow("10", "20", "https"))
       /\ Service!Delivered(N, Service!Flow("20", "10", "https"))
  BY <1>9 DEF Service!AskedFlows, Service!Blocked, Service!Flow
<1>12. /\ Service!FilterPasses(N, "10", "in", Service!Flow("10", "20", "https"))
       /\ Service!FilterPasses(N, "20", "in", Service!Flow("20", "10", "https"))
       /\ Service!FilterPasses(N, "10", "out", Service!Flow("20", "10", "https"))
  BY <1>11 DEF Service!Delivered, Service!Flow
<1>13. "10" \in Service!Vids /\ "20" \in Service!Vids
  BY DEF Service!Vids
<1>14. OthersOpen(N)
  BY <1>10, <1>12, <1>13 DEF OthersOpen
<1> QED
  BY <1>2, <1>7, <1>14, GuardProtects, GuardPreserves

-----------------------------------------------------------------------------
(* The candidates pass when they are understood as they stand. *)

LEMMA UnderlayStandsUp ==
  ASSUME NEW N, UnderlayStands(N)
  PROVE  /\ \A p \in Service!Ports : Service!PortUp(N, p) /\ Service!NeighbourFlow(N, p)
         /\ Service!UnderlayCommon(Service!UnderlayAnswers(N, 0))
<1>1. \A p \in Service!Ports : Service!Peer(p) \in Service!Ports
  BY PortIsPair, PairIsPort DEF Service!Peer
<1>2. \A p \in Service!Ports : Service!PortUp(N, p)
  BY DEF UnderlayStands, Service!PortUp
<1>3. \A p \in Service!Ports : Service!NeighbourFlow(N, p)
  BY <1>1, <1>2 DEF Service!NeighbourFlow
<1>4. Service!DirectFlows \subseteq Service!Ports
  BY PairIsPort DEF Service!DirectFlows
<1>5. Service!UnderlayAnswers(N, 0).prefixes = {<<p, p>> : p \in Service!Ports}
  <2> DEFINE ends(p) == {<<p, a>> : a \in N[<<p[1], p[2], "addresses">>]}
  <2>1. \A p \in Service!Ports : ends(p) = {<<p, p>>}
    BY DEF UnderlayStands
  <2>2. UNION {ends(p) : p \in Service!Ports} = {<<p, p>> : p \in Service!Ports}
    <3> HIDE DEF ends
    <3> QED
      BY <2>1
  <2> QED
    BY <2>2 DEF Service!UnderlayAnswers
<1>6. \A p \in Service!Ports : p # Service!Management
  <2> SUFFICES ASSUME NEW p \in Service!Ports, p = Service!Management PROVE FALSE
    OBVIOUS
  <2>1. p[1] = "management"
    BY DEF Service!Management
  <2> QED
    BY <2>1, PortIsPair
<1>7. \A x \in Service!UnderlayAnswers(N, 0).prefixes : x[2] # Service!Management
  BY <1>5, <1>6
<1>8. /\ Service!UnderlayAnswers(N, 0).issues = 0
      /\ DOMAIN Service!UnderlayAnswers(N, 0).flows = Service!DirectFlows
      /\ \A f \in Service!DirectFlows : Service!UnderlayAnswers(N, 0).flows[f]
  BY <1>3, <1>4 DEF Service!UnderlayAnswers
<1> QED
  BY <1>2, <1>3, <1>5, <1>7, <1>8 DEF Service!UnderlayCommon

LEMMA OspfStandsUp ==
  ASSUME NEW N, UnderlayStands(N), OspfStands(N)
  PROVE  Service!OspfCommon(Service!OspfAnswers(N, 0))
<1>1. \A p \in Service!Ports : Service!ReadOspfPort(N, p) = Service!OspfActive
  <2> TAKE p \in Service!Ports
  <2>1. /\ N[<<p[1], p[2], "area">>] = Service!Area0 /\ N[<<p[1], p[2], "type">>] = "point-to-point"
        /\ Service!Area0 # "none"
    BY DEF OspfStands, Service!Area0
  <2>2. CASE p[1] \in Service!CiscoRouters
    <3>1. N[<<p[1], p[2], "passive">>] = "active"
      BY <2>2 DEF OspfStands
    <3>2. Service!CiscoPassive(N, p) = FALSE
      BY <3>1 DEF Service!CiscoPassive
    <3> QED
      BY <2>1, <2>2, <3>2 DEF Service!ReadOspfPort, Service!OspfActive
  <2>3. CASE p[1] \notin Service!CiscoRouters
    <3>1. N[<<p[1], p[2], "passive">>] = "none"
      BY <2>3 DEF OspfStands
    <3>2. Service!JunosPassive(N, p) = FALSE
      BY <3>1 DEF Service!JunosPassive
    <3> QED
      BY <2>1, <2>3, <3>2 DEF Service!ReadOspfPort, Service!OspfActive
  <2> QED
    BY <2>2, <2>3
<1>2. \A r \in Service!Routers : Service!ProcessOn(N, r)
  BY DEF OspfStands, Service!ProcessOn
<1>3. \A p \in Service!Ports : Service!OspfSpeaks(N, p)
  BY <1>1, <1>2, PortIsPair, UnderlayStandsUp DEF Service!OspfSpeaks, Service!OspfActive, Service!Routers
<1>4. \A p \in Service!Ports : Service!Peer(p) \in Service!Ports
  BY PortIsPair, PairIsPort DEF Service!Peer
<1>5. \A p \in Service!Ports : Service!Adjacent(N, p)
  <2> TAKE p \in Service!Ports
  <2>1. N[<<p[1], "ospf", "router-id">>] = p[1] /\ N[<<p[2], "ospf", "router-id">>] = p[2] /\ p[1] # p[2]
    BY PortIsPair DEF OspfStands, Service!Routers
  <2> QED
    BY <1>1, <1>3, <1>4, <2>1 DEF Service!Adjacent
<1>6. \A r \in Service!Routers : Service!LearnsRemote(N, r)
  <2> SUFFICES ASSUME NEW r \in Service!Routers,
                      NEW a \in Service!Routers \ {r}, NEW b \in Service!Routers \ {r, a}
               PROVE  Service!LearnsRemote(N, r)
    BY DEF Service!Routers
  <2>1. <<a, b>> \in Service!Ports /\ <<r, a>> \in Service!Ports
    BY PairIsPort DEF Service!Routers
  <2>2. /\ r \notin {<<a, b>>[1], <<a, b>>[2]} /\ Service!Adjacent(N, <<r, <<a, b>>[1]>>)
        /\ Service!OspfSpeaks(N, <<a, b>>)
    BY <1>3, <1>5, <2>1
  <2> QED
    BY <2>1, <2>2 DEF Service!LearnsRemote
<1>7. Service!OspfAnswers(N, 0).processes = {<<r, Service!OspfDesired[r].routerId>> : r \in Service!Routers}
  <2>1. {x \in Service!Routers : Service!ProcessOn(N, x)} = Service!Routers
    BY <1>2
  <2>2. \A r \in Service!Routers : N[<<r, "ospf", "router-id">>] = Service!OspfDesired[r].routerId
    BY DEF OspfStands, Service!OspfDesired, Service!OspfIntent
  <2>3. {<<r, N[<<r, "ospf", "router-id">>]>> : r \in Service!Routers}
          = {<<r, Service!OspfDesired[r].routerId>> : r \in Service!Routers}
    BY <2>2
  <2> QED
    BY <2>1, <2>3 DEF Service!OspfAnswers
<1>8. Service!OspfAnswers(N, 0).ports = {<<p, Service!OspfActive>> : p \in Service!Ports}
  <2>1. {x \in Service!Ports : Service!ReadOspfPort(N, x).participating} = Service!Ports
    BY <1>1 DEF Service!OspfActive
  <2>2. {<<p, Service!ReadOspfPort(N, p)>> : p \in Service!Ports} = {<<p, Service!OspfActive>> : p \in Service!Ports}
    BY <1>1
  <2> QED
    BY <2>1, <2>2 DEF Service!OspfAnswers, Service!OspfPorts
<1>9. Service!OspfAnswers(N, 0).edges = {{p[1], p[2]} : p \in Service!Ports}
  <2>1. {x \in Service!Ports : Service!Adjacent(N, x)} = Service!Ports
    BY <1>5
  <2> QED
    BY <2>1 DEF Service!OspfAnswers, Service!OspfEdges
<1>10. Service!OspfAnswers(N, 0).routes = Service!Routers
  BY <1>6 DEF Service!OspfAnswers, Service!OspfRoutes
<1>11. Service!OspfAnswers(N, 0).remote = Service!RemoteFlows
  <2>1. \A f \in Service!RemoteFlows : f[1] \in Service!Routers /\ f[2] \in Service!Ports
    BY PairIsPort DEF Service!RemoteFlows, Service!Routers
  <2>2. \A f \in Service!RemoteFlows : Service!LearnsRemote(N, f[1]) /\ Service!PortUp(N, f[2])
    BY <1>6, <2>1, UnderlayStandsUp
  <2> QED
    BY <2>2 DEF Service!OspfAnswers, Service!RemoteReached
<1>12. Service!UnderlayCommon(Service!OspfAnswers(N, 0).underlay)
  BY UnderlayStandsUp DEF Service!OspfAnswers
<1> QED
  BY <1>7, <1>8, <1>9, <1>10, <1>11, <1>12 DEF Service!OspfCommon

\* What the VLAN elements are for, whatever else the network has.
LEMMA VlanReaches ==
  ASSUME NEW N, VlanStands(N), \A v \in Service!Vids : N[<<"access", "trunk", "native">>] # v
  PROVE  /\ \A v \in Service!Vids : Service!ReachesGateway(N, v)
         /\ \A v \in Service!Vids : Service!Member(N, "trunk", v) /\ Service!Member(N, Service!HostPort(v), v)
<1>1. ASSUME NEW v \in Service!Vids PROVE Service!GatewayUp(N, v)
  BY DEF Service!GatewayUp, VlanStands
<1>2. ASSUME NEW v \in Service!Vids PROVE N[<<"access", v, "name">>] # "none"
  BY DEF VlanStands, Service!VlanName, Service!Vids
<1>3. ASSUME NEW v \in Service!Vids PROVE Service!Trunked(N, v)
  BY DEF Service!Trunked, VlanStands, Service!SwitchPorts
<1>4. ASSUME NEW v \in Service!Vids
      PROVE  Service!HostPort(v) # "trunk" /\ Service!HostPort(v) \in Service!SwitchPorts
  BY DEF Service!HostPort, Service!SwitchPorts
<1>5. ASSUME NEW v \in Service!Vids PROVE Service!HostOn(N, Service!HostPort(v), v)
  BY <1>4 DEF Service!HostOn, VlanStands
<1>6. ASSUME NEW v \in Service!Vids
      PROVE  Service!Member(N, "trunk", v) /\ Service!Member(N, Service!HostPort(v), v)
  BY <1>2, <1>3, <1>4, <1>5 DEF Service!Member
<1> QED
  BY <1>1, <1>6 DEF Service!ReachesGateway

LEMMA VlanStandsUp ==
  ASSUME NEW N, UnderlayStands(N), OspfStands(N), VlanStands(N), RestBlank(N)
  PROVE  Service!VlanAssured(Service!VlanAnswers(N, 0))
<1> DEFINE A == Service!VlanAnswers(N, 0)
<1>1. Service!OspfCommon(A.ospf)
  BY OspfStandsUp DEF Service!VlanAnswers
<1>2. \A t \in Service!SwitchPorts : N[<<"access", t, "native">>] \notin Service!Vids
  BY DEF RestBlank, Service!Vids
<1>3. \A v \in Service!Vids : N[<<"access", "trunk", "native">>] # v
  BY <1>2 DEF Service!SwitchPorts
<1>4. /\ \A v \in Service!Vids : Service!ReachesGateway(N, v)
      /\ \A v \in Service!Vids : Service!Member(N, "trunk", v) /\ Service!Member(N, Service!HostPort(v), v)
  BY <1>3, VlanReaches
<1>5. A.members = [v \in Service!Vids |-> {"trunk", Service!HostPort(v)}]
  <2>1. ASSUME NEW v \in Service!Vids
        PROVE  {t \in Service!SwitchPorts : Service!Member(N, t, v)} = {"trunk", Service!HostPort(v)}
    <3>1. ASSUME NEW t \in Service!SwitchPorts, t # "trunk", t # Service!HostPort(v)
          PROVE  ~Service!Member(N, t, v)
      <4>1. PICK w \in Service!Vids : t = Service!HostPort(w) /\ w # v
        BY <3>1 DEF Service!HostPort, Service!SwitchPorts, Service!Vids
      <4>2. N[<<"access", t, "access">>] = w
        BY <4>1 DEF VlanStands
      <4> QED
        BY <3>1, <4>1, <4>2 DEF Service!Member, Service!HostOn
    <3>2. "trunk" \in Service!SwitchPorts /\ Service!HostPort(v) \in Service!SwitchPorts
      BY DEF Service!HostPort, Service!SwitchPorts
    <3> QED
      BY <1>4, <3>1, <3>2
  <2>2. [v \in Service!Vids |-> {t \in Service!SwitchPorts : Service!Member(N, t, v)}]
          = [v \in Service!Vids |-> {"trunk", Service!HostPort(v)}]
    BY <2>1
  <2> QED
    BY <2>2 DEF Service!VlanAnswers, Service!VlanMembers
<1>6. A.ports = {<<"trunk", "trunk", Service!Vids, "none">>} \union
                {<<Service!HostPort(v), "access", {}, v>> : v \in Service!Vids}
  <2> DEFINE row(t) == <<t, N[<<"access", t, "mode">>],
                         IF t = "trunk" THEN N[<<"access", t, "allowed">>] ELSE {},
                         IF t = "trunk" THEN "none" ELSE N[<<"access", t, "access">>]>>
  <2>1. {x \in Service!SwitchPorts : N[<<"access", x, "native">>] \notin Service!Vids} = Service!SwitchPorts
    BY <1>2
  <2>2. row("trunk") = <<"trunk", "trunk", Service!Vids, "none">>
    BY DEF VlanStands
  <2>3. ASSUME NEW v \in Service!Vids
        PROVE  row(Service!HostPort(v)) = <<Service!HostPort(v), "access", {}, v>>
    <3>1. Service!HostPort(v) # "trunk"
      BY DEF Service!HostPort
    <3> QED
      BY <3>1 DEF VlanStands
  <2> HIDE DEF row
  <2>4. Service!SwitchPorts = {"trunk"} \union {Service!HostPort(v) : v \in Service!Vids}
    BY DEF Service!SwitchPorts, Service!HostPort, Service!Vids
  <2>5. {row(t) : t \in Service!SwitchPorts}
          = {row("trunk")} \union {row(Service!HostPort(v)) : v \in Service!Vids}
    BY <2>4
  <2>6. {row(Service!HostPort(v)) : v \in Service!Vids}
          = {<<Service!HostPort(v), "access", {}, v>> : v \in Service!Vids}
    BY <2>3
  <2>7. A.ports = {row(t) : t \in Service!SwitchPorts}
    BY <2>1 DEF Service!VlanAnswers, Service!VlanPorts, row
  <2> QED
    BY <2>2, <2>5, <2>6, <2>7
<1>7. A.gateways = [v \in Service!Vids |-> {Service!Gateway(v)}]
  BY DEF Service!VlanAnswers, VlanStands
<1>8. A.svis = {} /\ A.routes.advertised = {}
  BY DEF Service!VlanAnswers, Service!VlanRoutes, RestBlank
<1>9. A.routes.connected = Service!Vids /\ A.flows.local = Service!Vids
  BY <1>4 DEF Service!VlanAnswers, Service!VlanRoutes, Service!VlanFlows, Service!ReachesGateway
<1>10. A.flows.open = {x \in Service!Vids \X Service!Vids : x[1] # x[2]}
  BY <1>4 DEF Service!VlanAnswers, Service!VlanFlows, Service!Routed
<1> HIDE DEF A
<1>11. Service!VlanAssured(A)
  BY <1>1, <1>5, <1>6, <1>7, <1>8, <1>9, <1>10 DEF Service!VlanAssured, Service!VlanCommon
<1> QED
  BY <1>11 DEF A

LEMMA AclStandsUp ==
  Service!AclAssured(Service!AclAnswers(Service!VlanCandidate(Service!Blank), Service!Candidate("acl"), 0))
<1> DEFINE M == Service!Candidate("vlan")
           N == Service!Candidate("acl")
           A == Service!AclAnswers(M, N, 0)
<1>1. M = Service!VlanCandidate(Service!Blank)
  BY DEF Service!Candidate, Service!Candidates, Service!Verticals
<1>2. Service!VlanAssured(Service!VlanAnswers(M, 0)) /\ Service!VlanAssured(Service!VlanAnswers(N, 0))
  BY VlanCandidateStands, ProposedStands, VlanStandsUp
<1>3. Service!VlanAssured(A.baseline) /\ Service!VlanCommon(A.secured)
  BY <1>2 DEF Service!AclAnswers, Service!VlanAssured
<1>4. /\ \A v \in Service!Vids : Service!ReachesGateway(M, v)
      /\ \A v \in Service!Vids : Service!ReachesGateway(N, v)
  <2>1. ASSUME NEW C, VlanStands(C), RestBlank(C)
        PROVE  \A v \in Service!Vids : Service!ReachesGateway(C, v)
    <3>1. \A v \in Service!Vids : C[<<"access", "trunk", "native">>] # v
      BY <2>1 DEF RestBlank, Service!Vids, Service!SwitchPorts
    <3> QED
      BY <2>1, <3>1, VlanReaches
  <2> QED
    BY <2>1, VlanCandidateStands, ProposedStands
<1>5. /\ Guarded(N) /\ N[<<"core", "10", "in">>] = "none" /\ N[<<"core", "10", "out">>] = "none"
      /\ N[<<"core", "20", "in">>] = "none" /\ N[<<"core", "elsewhere", "group">>] = "none"
  BY ProposedStands DEF Guarded, PolicyStands, RestBlank, Service!Vids
<1>6. Service!Protected(N) /\ Service!Preserved(N)
  BY <1>4, <1>5, GuardProtects, GuardPreserves DEF OthersOpen
<1>7. A.lines = Service!AclRules
  BY <1>5 DEF Service!AclAnswers, Guarded
<1>8. A.attached = {<<"20", "out">>}
  <2>1. Service!AttachedTo(N, {"ncdp"}) = {<<"20", "out">>}
    <3>1. ASSUME NEW x \in Service!Vids \X Service!Sides, x # <<"20", "out">>
          PROVE  N[<<"core", x[1], x[2]>>] = "none"
      BY <1>5, <3>1 DEF Service!Vids, Service!Sides
    <3>2. <<"20", "out">> \in Service!Vids \X Service!Sides /\ N[<<"core", "20", "out">>] = "ncdp"
      BY <1>5 DEF Guarded, Service!Vids, Service!Sides
    <3> QED
      BY <3>1, <3>2 DEF Service!AttachedTo
  <2> QED
    BY <1>5, <2>1 DEF Service!AclAnswers
<1>9. ASSUME NEW f \in Service!AskedFlows
      PROVE  /\ f.from \in Service!Vids /\ f.to \in Service!Vids
             /\ Service!Delivered(M, f) = TRUE /\ Service!Delivered(N, f) = (f \notin Service!Blocked)
  <2>1. f.from \in Service!Vids /\ f.to \in Service!Vids
    BY DEF Service!AskedFlows, Service!Flow, Service!Vids
  <2>2. Service!Delivered(M, f)
    <3>1. \A v \in Service!Vids, side \in {"in", "out"} : Service!FilterPasses(M, v, side, f)
      BY VlanCandidateStands DEF Service!FilterPasses
    <3> QED
      BY <1>4, <2>1, <3>1 DEF Service!Delivered, Service!Routed
  <2>3. CASE f \in Service!Blocked
    <3>1. ~Service!Delivered(N, f)
      BY <1>6, <2>3 DEF Service!Protected, Service!Blocked, Service!Kinds
    <3> QED
      BY <2>1, <2>2, <2>3, <3>1 DEF Service!Delivered
  <2>4. CASE f \notin Service!Blocked
    <3>1. Service!Delivered(N, f)
      BY <1>6, <2>4 DEF Service!Preserved, Service!Blocked, Service!AskedFlows, Service!Kinds, Service!Vids
    <3> QED
      BY <2>1, <2>2, <2>4, <3>1 DEF Service!Delivered
  <2> QED
    BY <2>3, <2>4
<1>10. Service!AclFlowsExact(A)
  <2>1. /\ \A f \in Service!AskedFlows : A.openFlows[f] = Service!Delivered(M, f)
        /\ \A f \in Service!AskedFlows : A.flows[f] = Service!Delivered(N, f)
    BY DEF Service!AclAnswers, Service!AclFlows
  <2> QED
    BY <1>9, <2>1, Zenon DEF Service!AclFlowsExact
<1> HIDE DEF A
<1>11. Service!AclAssured(A)
  BY <1>3, <1>7, <1>8, <1>10
     DEF Service!AclAssured, Service!AclPolicyExact, Service!AclDesired, Service!AclIntent
<1> QED
  BY <1>1, <1>11 DEF A

-----------------------------------------------------------------------------
(* The assurance separates what works from what does not. *)

LEMMA CandidateAssured ==
  ASSUME NEW v \in Service!Verticals
  PROVE  Service!Assured(v, Service!Candidate(v), 0)
<1>1. CASE v = "underlay"
  <2> DEFINE N == Service!Candidate("underlay")
  <2>1. \A r \in Service!Routers : N[<<r, "ospf", "process">>] = "none"
    <3>1. \A r \in Service!Routers : <<r, "ospf", "process">> \in Service!Keys \ Service!UnderlayEnvelope
      BY ProcessKeys, EnvelopeParts
    <3> QED
      BY <3>1, ProcessKeys, UnderlayCandidateStands, BlankValues
  <2>2. Service!UnderlayCommon(Service!UnderlayAnswers(N, 0))
    BY UnderlayCandidateStands, UnderlayStandsUp
  <2>3. Service!UnderlayAnswers(N, 0).processes = {}
    BY <2>1 DEF Service!UnderlayAnswers
  <2> HIDE DEF N
  <2>4. Service!UnderlayAssured(Service!UnderlayAnswers(N, 0))
    BY <2>2, <2>3 DEF Service!UnderlayAssured
  <2> QED
    BY <1>1, <2>4 DEF Service!Assured, N
<1>2. CASE v = "ospf"
  <2>1. Service!OspfCommon(Service!OspfAnswers(Service!Candidate("ospf"), 0))
    BY OspfCandidateStands, OspfStandsUp
  <2> QED
    BY <1>2, <2>1 DEF Service!Assured
<1>3. CASE v = "vlan"
  <2>1. Service!VlanAssured(Service!VlanAnswers(Service!Candidate("vlan"), 0))
    BY VlanCandidateStands, VlanStandsUp
  <2> QED
    BY <1>3, <2>1 DEF Service!Assured
<1>4. CASE v = "acl"
  BY <1>4, AclStandsUp DEF Service!Assured
<1> QED
  BY <1>1, <1>2, <1>3, <1>4 DEF Service!Verticals

LEMMA CandidateIsNetwork ==
  ASSUME NEW v \in Service!Verticals
  PROVE  Service!Candidate(v) = [k \in DOMAIN Service!Candidate(v) |-> Service!Candidate(v)[k]]
<1>1. CASE v = "underlay"
  BY <1>1 DEF Service!Candidate, Service!Candidates, Service!Verticals, Service!UnderlayCandidate
<1>2. CASE v = "ospf"
  <2> DEFINE C == Service!OspfCandidate(Service!Blank)
  <2>1. Service!Candidate("ospf") = C
    BY DEF Service!Candidate, Service!Candidates, Service!Verticals
  <2> DEFINE field(k) ==
               IF k[3] = "passive-default" THEN k[1] \in Service!CiscoRouters
               ELSE IF k \notin Service!OspfEnvelope THEN Service!UnderlayCandidate(Service!Blank)[k]
               ELSE CASE k[3] = "process" -> "1"
                      [] k[3] = "router-id" -> Service!OspfDesired[k[1]].routerId
                      [] k[3] = "area" -> Service!Area0
                      [] k[3] = "type" -> "point-to-point"
                      [] k[3] = "passive" -> IF k[1] \in Service!CiscoRouters THEN "active" ELSE "none"
  <2>3. C = [k \in DOMAIN Service!Blank |-> field(k)]
    BY DEF Service!OspfCandidate
  <2> HIDE DEF C, field
  <2>2. C = [k \in DOMAIN C |-> C[k]]
    BY <2>3
  <2> USE DEF C
  <2> QED
    BY <1>2, <2>1, <2>2
<1>3. CASE v = "vlan"
  BY <1>3 DEF Service!Candidate, Service!Candidates, Service!Verticals, Service!VlanCandidate,
              Service!VlanChanged
<1>4. CASE v = "acl"
  BY <1>4 DEF Service!Candidate, Service!Candidates, Service!Verticals, Service!AclCandidate,
              Service!AclChanged
<1> QED
  BY <1>1, <1>2, <1>3, <1>4 DEF Service!Verticals

LEMMA AssureSeparates ==
  ASSUME NEW v \in Service!Verticals, Service!Assure(v)
  PROVE  AssuranceSeparates'
<1>0. PICK k \in Service!Keys : \E value \in Service!Values(k), issues \in {0, 1} :
         verdict' = [vertical |-> v, key |-> k, value |-> value,
                     faithful |-> value = Service!Candidate(v)[k] /\ issues = 0,
                     passed |-> Service!Assured(v, Service!Understood(v, k, value), issues)]
  BY Zenon DEF Service!Assure
<1>1. PICK value \in Service!Values(k), issues \in {0, 1} :
         verdict' = [vertical |-> v, key |-> k, value |-> value,
                     faithful |-> value = Service!Candidate(v)[k] /\ issues = 0,
                     passed |-> Service!Assured(v, Service!Understood(v, k, value), issues)]
  BY <1>0, Zenon
<1> DEFINE N == Service!Understood(v, k, value)
<1>2. /\ verdict'.vertical = v /\ verdict'.key = k /\ verdict'.value = value
      /\ verdict'.faithful = (value = Service!Candidate(v)[k] /\ issues = 0)
      /\ verdict'.passed = Service!Assured(v, N, issues)
  BY <1>1, Zenon
<1>3. ASSUME verdict'.passed
      PROVE  CASE v = "underlay" -> Service!UnderlayWorks(N)
               [] v = "ospf" -> Service!UnderlayWorks(N) /\ Service!OspfWorks(N)
               [] v = "vlan" -> Service!OspfWorks(N) /\ Service!VlanWorks(N)
               [] v = "acl" -> Service!Protected(N) /\ Service!Preserved(N)
  <2>1. Service!Assured(v, N, issues)
    BY <1>2, <1>3, Zenon
  <2> HIDE DEF N
  <2>2. CASE v = "underlay"
    <3>1. Service!UnderlayWorks(N)
      BY <2>1, <2>2, UnderlayPassed DEF Service!Assured, Service!UnderlayAssured
    <3> QED
      BY <2>2, <3>1
  <2>3. CASE v = "ospf"
    <3>1. Service!UnderlayWorks(N) /\ Service!OspfWorks(N)
      BY <2>1, <2>3, OspfPassed DEF Service!Assured
    <3> QED
      BY <2>3, <3>1
  <2>4. CASE v = "vlan"
    <3>1. Service!OspfWorks(N) /\ Service!VlanWorks(N)
      BY <2>1, <2>4, VlanPassed DEF Service!Assured, Service!VlanAssured
    <3> QED
      BY <2>4, <3>1
  <2>5. CASE v = "acl"
    <3>1. Service!Protected(N) /\ Service!Preserved(N)
      BY <2>1, <2>5, AclPassed DEF Service!Assured
    <3> QED
      BY <2>5, <3>1
  <2> QED
    BY <2>2, <2>3, <2>4, <2>5 DEF Service!Verticals
<1>4. ASSUME verdict'.faithful PROVE verdict'.passed
  <2>1. value = Service!Candidate(v)[k] /\ issues = 0
    BY <1>2, <1>4, Zenon
  <2>2. N = Service!Candidate(v)
    BY <2>1, CandidateIsNetwork DEF Service!Understood
  <2>3. Service!Assured(v, N, issues)
    BY <2>1, <2>2, CandidateAssured
  <2> QED
    BY <1>2, <2>3, Zenon
<1> HIDE DEF N
<1> QED
  BY <1>2, <1>3, <1>4 DEF AssuranceSeparates, Service!AssuranceSeparates, N

\* An assurance that passes (evaluate_routed_underlay, evaluate_ospf_triangle,
\* evaluate_vlan_service, evaluate_security_policy) was of a network in which the
\* service does what it is for, whichever element Batfish misread; and each of
\* the four candidates passes when Batfish understood it as it stands.
THEOREM Assurances == Spec => []AssuranceSeparates
<1>1. Init => AssuranceSeparates
  <2>1. Init => verdict = Service!NoVerdict
    BY DEF Init, Service!Begin
  <2> QED
    <3>1. Service!NoVerdict.passed = FALSE /\ Service!NoVerdict.faithful = FALSE
      BY DEF Service!NoVerdict
    <3> QED
      BY <2>1, <3>1 DEF AssuranceSeparates, Service!AssuranceSeparates
<1>2. AssuranceSeparates /\ [Next]_vars => AssuranceSeparates'
  <2> SUFFICES ASSUME AssuranceSeparates, [Next]_vars PROVE AssuranceSeparates'
    OBVIOUS
  <2>1. CASE verdict' = verdict
    BY <2>1 DEF AssuranceSeparates, Service!AssuranceSeparates
  <2>2. CASE \E v \in Service!Verticals : Service!Assure(v)
    BY <2>2, AssureSeparates
  <2>3. CASE UNCHANGED vars
    BY <2>1, <2>3 DEF vars, services
  <2>4. CASE Next
    <3>1. CASE procedure # "services"
      BY <2>1, <2>4, <3>1 DEF Next, services
    <3>2. CASE Service!Next
      BY <2>1, <2>2, <3>2 DEF Service!Next, Service!Propose, Service!Apply, Service!Drift
    <3> QED
      BY <2>4, <3>1, <3>2 DEF Next
  <2> QED
    BY <2>3, <2>4
<1> QED
  BY <1>1, <1>2, PTL DEF Spec

-----------------------------------------------------------------------------
(* What a proposal knows of the network until it is applied, and what its  *)
(* lines leave of it, as long as nobody edits what the vertical owns.       *)

\* An owned element of the network N is as D1 has it.
Wanted(N, k) ==
    IF k[3] = "passive" THEN ~Service!ReadOspfPort(N, <<k[1], k[2]>>).passive
    ELSE Service!Unused(k) \/ N[k] = Service!ProposedNetwork[k]

\* Rendered lines that fit the network N, whoever else changed it since the read.
UnderlayFits(lines, N) ==
    \A p \in Service!Ports : /\ lines[p].remove = N[<<p[1], p[2], "addresses">>] \ {p}
                             /\ lines[p].add = {p} \ N[<<p[1], p[2], "addresses">>]
OspfFits(lines, N) ==
    \A p \in Service!Ports :
        IF p[1] \in Service!CiscoRouters THEN lines[p].active
        ELSE /\ N[<<p[1], p[2], "area">>] \notin {"none", Service!Area0} => lines[p].leaves
             /\ ~lines[p].active => N[<<p[1], p[2], "passive">>] # "explicit"
VlanFits(lines) ==
    /\ lines.gateways = Service!VlanDesired.gateways /\ lines.vlans = Service!VlanDesired.vlans
    /\ lines.ports = Service!VlanDesired.ports
AclFits(lines, N) ==
    /\ N[<<"core", "20", "in">>] = "none"
    /\ IF lines.noOp THEN N[<<"core", "acl", "rules">>] = Service!AclRules /\ N[<<"core", "20", "out">>] = "ncdp"
       ELSE lines.rules = Service!AclRules
Fits(v, lines, N) ==
    CASE v = "underlay" -> UnderlayFits(lines, N) [] v = "ospf" -> OspfFits(lines, N)
      [] v = "vlan" -> VlanFits(lines)            [] v = "acl" -> AclFits(lines, N)

\* A network of the services: a list attached is one of the two known, and a
\* Junos interface outside the area has no passive statement.
Configured(N) ==
    /\ DOMAIN N = Service!Keys
    /\ \A v \in Service!Vids, side \in {"in", "out"} : N[<<"core", v, side>>] \in {"none", "ncdp", "foreign"}
    /\ \A p \in Service!Ports :
          p[1] \notin Service!CiscoRouters /\ N[<<p[1], p[2], "area">>] = "none" =>
              N[<<p[1], p[2], "passive">>] # "explicit"

PlanIsRecord(plan) ==
    plan = [phase |-> plan.phase, rendered |-> plan.rendered, undisturbed |-> plan.undisturbed]

PlanHolds(v, plan, N) ==
    plan.undisturbed => /\ plan.phase = "proposed" => Fits(v, plan.rendered, N)
                        /\ plan.phase = "applied" => \A k \in Service!Envelope(v) : Wanted(N, k)

ServiceInv ==
    IF procedure = "services"
    THEN /\ Configured(net) /\ DOMAIN plans = Service!Verticals
         /\ \A v \in Service!Verticals : PlanIsRecord(plans[v]) /\ PlanHolds(v, plans[v], net)
    ELSE \A v \in Service!Verticals : plans[v].phase = "none"

\* The lists that may be attached to a side of a subinterface.
LEMMA SideValues ==
  ASSUME NEW v \in Service!Vids, NEW side \in {"in", "out"}
  PROVE  Service!Values(<<"core", v, side>>) = {"none", "ncdp", "foreign"}
<1> DEFINE k == <<"core", v, side>>
<1>0. k[1] = "core" /\ k[2] = v /\ k[3] = side
  OBVIOUS
<1>1. Service!SubinterfaceValues(side) = {"none", "ncdp", "foreign"}
  BY DEF Service!SubinterfaceValues, Service!Sides
<1>2. <<k, {"none", "ncdp", "foreign"}>> \in Service!KeyValues
  <2>1. <<k, Service!SubinterfaceValues(side)>>
          \in {<<<<"core", w, f>>, Service!SubinterfaceValues(f)>> :
                  w \in Service!Vids, f \in {"encapsulation"} \union Service!Sides}
    BY DEF Service!Sides
  <2>2. <<k, Service!SubinterfaceValues(side)>> \in Service!KeyValues
    BY <2>1 DEF Service!KeyValues
  <2> QED
    BY <1>1, <2>2
<1>3. ASSUME NEW x \in Service!KeyValues, x[1] = k
      PROVE  x[2] = {"none", "ncdp", "foreign"}
  <2> DEFINE fields == {"in", "out"}
  <2>1. CASE \E f \in Service!Flags : x = <<f, BOOLEAN>>
    BY <1>0, <1>3, <2>1, FlagFields
  <2>2. CASE \E j \in Service!PortKeys : x = <<j, Service!PortValues(j[1], j[3])>>
    <3>1. PICK j \in Service!PortKeys : x = <<j, Service!PortValues(j[1], j[3])>>
      BY <2>2
    <3>2. j = k
      BY <1>3, <3>1
    <3>3. j[3] \in {"area", "type", "passive"}
      BY DEF Service!PortKeys
    <3> QED
      BY <1>0, <3>2, <3>3
  <2>3. CASE \E p \in Service!Ports : x = <<<<p[1], p[2], "addresses">>, Service!RoutedValues(p)>>
    BY <1>0, <1>3, <2>3
  <2>4. CASE \E r \in Service!Routers, field \in {"process", "router-id"}, V \in {x[2]} :
                x = <<<<r, "ospf", field>>, V>>
    BY <1>0, <1>3, <2>4
  <2>5. CASE \E w \in {"parent"} \union Service!Vids, V \in {x[2]} : x = <<<<"core", w, "addresses">>, V>>
    BY <1>0, <1>3, <2>5
  <2>6. CASE \E w \in Service!Vids, field \in {"encapsulation"} \union Service!Sides :
                x = <<<<"core", w, field>>, Service!SubinterfaceValues(field)>>
    <3>1. PICK w \in Service!Vids, field \in {"encapsulation"} \union Service!Sides :
             x = <<<<"core", w, field>>, Service!SubinterfaceValues(field)>>
      BY <2>6
    <3>2. field = side
      BY <1>0, <1>3, <3>1
    <3> QED
      BY <1>1, <3>1, <3>2
  <2>7. CASE \E w \in Service!Vids : x = <<<<"access", w, "name">>, {"none", "USERS", "SERVERS"}>>
    BY <1>0, <1>3, <2>7
  <2>8. CASE \E t \in Service!SwitchPorts, field \in {"mode", "allowed", "access", "native"} :
                x = <<<<"access", t, field>>, Service!SwitchValues(field)>>
    BY <1>0, <1>3, <2>8
  <2>9. CASE x \in {<<<<"core", "acl", "rules">>, Service!RuleLists>>,
                    <<<<"core", "elsewhere", "group">>, {"none", "ncdp"}>>}
    BY <1>0, <1>3, <2>9
  <2>10. ASSUME x \in {<<<<r, "ospf", "process">>, {"none", "1", "other"}>> : r \in Service!CiscoRouters}
                      \union {<<<<"edge", "ospf", "process">>, {"none", "1"}>>}
                      \union {<<<<r, "ospf", "router-id">>, Service!Routers \union {"none"}>> :
                                 r \in Service!Routers}
         PROVE  \E r \in Service!Routers, field \in {"process", "router-id"}, V \in {x[2]} :
                   x = <<<<r, "ospf", field>>, V>>
    <3>1. CASE \E r \in Service!CiscoRouters : x = <<<<r, "ospf", "process">>, {"none", "1", "other"}>>
      BY <3>1 DEF Service!Routers, Service!CiscoRouters
    <3>2. CASE x = <<<<"edge", "ospf", "process">>, {"none", "1"}>>
      BY <3>2 DEF Service!Routers
    <3>3. CASE \E r \in Service!Routers : x = <<<<r, "ospf", "router-id">>, Service!Routers \union {"none"}>>
      BY <3>3
    <3> QED
      BY <2>10, <3>1, <3>2, <3>3
  <2>11. ASSUME x \in {<<<<"core", "parent", "addresses">>, {{}, {Service!Stale}}>>}
                      \union {<<<<"core", w, "addresses">>, Service!GatewayValues(w)>> : w \in Service!Vids}
         PROVE  \E w \in {"parent"} \union Service!Vids, V \in {x[2]} : x = <<<<"core", w, "addresses">>, V>>
    <3>1. CASE x = <<<<"core", "parent", "addresses">>, {{}, {Service!Stale}}>>
      BY <3>1
    <3>2. CASE \E w \in Service!Vids : x = <<<<"core", w, "addresses">>, Service!GatewayValues(w)>>
      <4>1. PICK w \in Service!Vids : x = <<<<"core", w, "addresses">>, Service!GatewayValues(w)>>
        BY <3>2
      <4>2. Service!GatewayValues(w) \in {x[2]}
        BY <4>1
      <4> QED
        BY <4>1, <4>2
    <3> QED
      BY <2>11, <3>1, <3>2
  <2> QED
    BY <2>1, <2>2, <2>3, <2>4, <2>5, <2>6, <2>7, <2>8, <2>9, <2>10, <2>11 DEF Service!KeyValues
<1>4. (CHOOSE x \in Service!KeyValues : x[1] = k)[2] = {"none", "ncdp", "foreign"}
  <2>1. \E x \in Service!KeyValues : x[1] = k
    BY <1>2
  <2> HIDE DEF k
  <2> QED
    BY <1>3, <2>1
<1> QED
  BY <1>4 DEF Service!Values

-----------------------------------------------------------------------------
(* Where a lookup depends on what the vertical owns alone. *)

\* Between N and M nothing of what v owns changed, but that a subinterface the
\* policy was entered on is there.
Kept(v, N, M) ==
    /\ \A k \in Service!Envelope(v) :
          IF k[3] = "exists" THEN M[k] \in {N[k], Service!ProposedNetwork[k]} ELSE M[k] = N[k]
    /\ v = "ospf" => \A r \in Service!CiscoRouters :
                        M[<<r, "ospf", "passive-default">>] = N[<<r, "ospf", "passive-default">>]

LEMMA FitsKept ==
  ASSUME NEW v \in Service!Verticals, NEW N, NEW M, NEW lines, Kept(v, N, M), Fits(v, lines, N)
  PROVE  Fits(v, lines, M)
<1>1. CASE v = "underlay"
  <2>1. ASSUME NEW p \in Service!Ports
        PROVE  M[<<p[1], p[2], "addresses">>] = N[<<p[1], p[2], "addresses">>]
    <3>1. <<p[1], p[2], "addresses">> \in Service!UnderlayEnvelope
      BY PortInEnvelope
    <3> QED
      BY <1>1, <3>1 DEF Kept, Service!Envelope
  <2>2. UnderlayFits(lines, M)
    BY <1>1, <2>1 DEF Fits, UnderlayFits
  <2> QED
    BY <1>1, <2>2 DEF Fits
<1>2. CASE v = "ospf"
  <2>1. ASSUME NEW p \in Service!Ports, NEW field \in {"area", "passive"}
        PROVE  M[<<p[1], p[2], field>>] = N[<<p[1], p[2], field>>]
    <3>1. <<p[1], p[2], field>> \in Service!OspfEnvelope
      BY PortInEnvelope
    <3> QED
      BY <1>2, <3>1 DEF Kept, Service!Envelope
  <2>2. OspfFits(lines, M)
    BY <1>2, <2>1 DEF Fits, OspfFits
  <2> QED
    BY <1>2, <2>2 DEF Fits
<1>3. CASE v = "vlan"
  BY <1>3 DEF Fits
<1>4. CASE v = "acl"
  <2>1. \A k \in Service!AclEnvelope : M[k] = N[k]
    BY <1>4, EnvelopeParts DEF Kept, Service!Envelope
  <2>2. AclFits(lines, M)
    BY <1>4, <2>1 DEF Fits, AclFits, Service!AclEnvelope
  <2> QED
    BY <1>4, <2>2 DEF Fits
<1> QED
  BY <1>1, <1>2, <1>3, <1>4 DEF Service!Verticals

LEMMA WantedKept ==
  ASSUME NEW v \in Service!Verticals, NEW N, NEW M, Kept(v, N, M),
         \A k \in Service!Envelope(v) : Wanted(N, k)
  PROVE  \A k \in Service!Envelope(v) : Wanted(M, k)
<1> SUFFICES ASSUME NEW k \in Service!Envelope(v) PROVE Wanted(M, k)
  OBVIOUS
<1>1. Wanted(N, k)
  OBVIOUS
<1>2. CASE k[3] # "passive"
  <2>1. M[k] \in {N[k], Service!ProposedNetwork[k]}
    BY DEF Kept
  <2> QED
    BY <1>1, <1>2, <2>1 DEF Wanted
<1>3. CASE k[3] = "passive"
  <2>1. v = "ospf" /\ k \in Service!OspfEnvelope
    BY <1>3, EnvelopeParts DEF Service!Envelope, Service!Verticals
  <2>2. PICK p \in Service!Ports : k = <<p[1], p[2], "passive">>
    <3>1. ~ \E r \in Service!Routers, field \in {"process", "router-id"} : k = <<r, "ospf", field>>
      BY <1>3
    <3>2. \E p \in Service!Ports, field \in {"area", "type", "passive"} : k = <<p[1], p[2], field>>
      BY <2>1, <3>1 DEF Service!OspfEnvelope
    <3> QED
      BY <1>3, <3>2
  <2>3. ASSUME NEW field \in {"area", "type", "passive"}
        PROVE  M[<<p[1], p[2], field>>] = N[<<p[1], p[2], field>>]
    <3>1. <<p[1], p[2], field>> \in Service!OspfEnvelope
      BY PortInEnvelope
    <3> QED
      BY <2>1, <3>1 DEF Kept, Service!Envelope
  <2>4. p[1] \in Service!CiscoRouters =>
          M[<<p[1], "ospf", "passive-default">>] = N[<<p[1], "ospf", "passive-default">>]
    BY <2>1 DEF Kept
  <2>5. <<k[1], k[2]>> = p
    BY <2>2, PortIsPair
  <2>6. ~Service!ReadOspfPort(N, p).passive
    BY <1>1, <1>3, <2>5 DEF Wanted
  <2>7. Service!ReadOspfPort(M, p) = Service!ReadOspfPort(N, p)
    BY <2>3, <2>4 DEF Service!ReadOspfPort, Service!CiscoPassive, Service!JunosPassive
  <2> QED
    BY <1>3, <2>5, <2>6, <2>7 DEF Wanted
<1> QED
  BY <1>2, <1>3

-----------------------------------------------------------------------------
(* What is rendered fits the network it was read from. *)

LEMMA OspfPortChangeParts ==
  ASSUME NEW p, NEW state
  PROVE  /\ Service!OspfPortChange(p, state).leaves = (state.participating /\ state.area # Service!Area0)
         /\ Service!OspfPortChange(p, state).active
              = (p[1] \in Service!CiscoRouters \/ (state.participating /\ state.passive))
  BY Zenon DEF Service!OspfPortChange

LEMMA RenderFits ==
  ASSUME NEW v \in Service!Verticals, NEW N, Configured(N),
         NEW o \in Service!Read(v, N), NEW lines \in Service!Render(v, o)
  PROVE  Fits(v, lines, N)
<1>1. CASE v = "underlay"
  <2>1. o = [p \in Service!Ports |-> Service!ReadPort(N, p)]
    BY <1>1 DEF Service!Read, Service!UnderlayRead
  <2>2. \A p \in Service!Ports : o[p].addresses = N[<<p[1], p[2], "addresses">>]
    BY <2>1 DEF Service!ReadPort
  <2>3. \A p \in Service!Ports : Service!UnderlayDesired[p].addresses = {p}
    BY DEF Service!UnderlayDesired, Service!UnderlayIntent
  <2>4. lines = [p \in Service!Ports |->
                    [remove |-> Service!UnderlayRemoved(o[p], Service!UnderlayDesired[p]),
                     add |-> Service!UnderlayAdded(o[p], Service!UnderlayDesired[p])]]
    BY <1>1 DEF Service!Render, Service!UnderlayRender
  <2>5. UnderlayFits(lines, N)
    BY <2>2, <2>3, <2>4 DEF UnderlayFits, Service!UnderlayRemoved, Service!UnderlayAdded
  <2> QED
    BY <1>1, <2>5 DEF Fits
<1>2. CASE v = "ospf"
  <2>1. o = [r \in Service!Routers |-> Service!ReadOspfRouter(N, r)]
    BY <1>2 DEF Service!Read, Service!OspfRead
  <2>2. ASSUME NEW p \in Service!Ports PROVE o[p[1]].ports[p] = Service!ReadOspfPort(N, p)
    <3>1. p[1] \in Service!Routers /\ p \in Service!OspfIntent[p[1]].ports
      BY PortIsPair DEF Service!OspfIntent, Service!Routers
    <3> QED
      BY <2>1, <3>1 DEF Service!ReadOspfRouter
  <2>3. \A p \in Service!Ports :
           lines[p] = Service!OspfPortChange(p, Service!ReadOspfPort(N, p))
    <3>1. lines \in {[p \in Service!Ports |-> Service!OspfPortChange(p, o[p[1]].ports[p])]}
      BY <1>2, <2>1 DEF Service!Render, Service!OspfRender
    <3> QED
      BY <2>2, <3>1
  <2>4. ASSUME NEW p \in Service!Ports, p[1] \in Service!CiscoRouters PROVE lines[p].active
    <3> DEFINE state == Service!ReadOspfPort(N, p)
    <3>1. lines[p] = Service!OspfPortChange(p, state)
      BY <2>3
    <3> HIDE DEF state
    <3>2. lines[p].active = (p[1] \in Service!CiscoRouters \/ (state.participating /\ state.passive))
      BY <3>1, OspfPortChangeParts, Zenon
    <3> QED
      BY <2>4, <3>2, Zenon
  <2>5. ASSUME NEW p \in Service!Ports, p[1] \notin Service!CiscoRouters
        PROVE  /\ N[<<p[1], p[2], "area">>] \notin {"none", Service!Area0} => lines[p].leaves
               /\ ~lines[p].active => N[<<p[1], p[2], "passive">>] # "explicit"
    <3> DEFINE state == Service!ReadOspfPort(N, p)
    <3>0. lines[p] = Service!OspfPortChange(p, state)
      BY <2>3
    <3>1. lines[p].leaves = (state.participating /\ state.area # Service!Area0)
      BY <3>0, OspfPortChangeParts, Zenon
    <3>2. lines[p].active = (p[1] \in Service!CiscoRouters \/ (state.participating /\ state.passive))
      BY <3>0, OspfPortChangeParts, Zenon
    <3>3. ASSUME N[<<p[1], p[2], "area">>] # "none"
          PROVE  /\ state.participating /\ state.area = N[<<p[1], p[2], "area">>]
                 /\ state.passive = Service!JunosPassive(N, p)
      BY <2>5, <3>3 DEF Service!ReadOspfPort
    <3> HIDE DEF state
    <3>4. N[<<p[1], p[2], "area">>] \notin {"none", Service!Area0} => lines[p].leaves
      BY <3>1, <3>3
    <3>5. ASSUME ~lines[p].active, N[<<p[1], p[2], "area">>] # "none"
          PROVE  N[<<p[1], p[2], "passive">>] # "explicit"
      <4>1. ~state.passive
        BY <3>2, <3>3, <3>5, Zenon
      <4>2. ~Service!JunosPassive(N, p)
        BY <3>3, <3>5, <4>1, Zenon
      <4> QED
        BY <4>2 DEF Service!JunosPassive
    <3> QED
      BY <2>5, <3>4, <3>5 DEF Configured
  <2>6. OspfFits(lines, N)
    BY <2>4, <2>5 DEF OspfFits
  <2> QED
    BY <1>2, <2>6 DEF Fits
<1>3. CASE v = "vlan"
  <2>1. VlanFits(lines)
    BY <1>3 DEF VlanFits, Service!Render, Service!VlanRender
  <2> QED
    BY <1>3, <2>1 DEF Fits
<1>4. CASE v = "acl"
  <2>1. PICK rules \in {<<>>, Service!AclRules} :
           /\ N[<<"core", "acl", "rules">>] = rules
           /\ o \in Service!AclAs(N, rules)
    BY <1>4 DEF Service!Read, Service!AclRead, Service!AclIntent
  <2> DEFINE attached == Service!AttachedTo(N, {"ncdp", "foreign"})
  <2>2. /\ o = [present |-> rules # <<>>, rules |-> rules, attached |-> attached]
        /\ Service!AbsentOrExact(o, {N[<<"core", x[1], x[2]>>] : x \in attached})
    BY <2>1 DEF Service!AclAs, Service!AclObserved
  <2>3. attached \subseteq {<<"20", "out">>}
    <3>1. attached = {} \/ attached = {<<"20", "out">>}
      BY <2>2 DEF Service!AbsentOrExact, Service!AclObserved
    <3> QED
      BY <3>1
  <2>4. N[<<"core", "20", "in">>] = "none"
    <3>1. <<"20", "in">> \notin attached
      BY <2>3
    <3>2. <<"20", "in">> \in Service!Vids \X Service!Sides
      BY DEF Service!Vids, Service!Sides
    <3> QED
      BY <3>1, <3>2 DEF Service!AttachedTo, Configured, Service!Vids
  <2>5. CASE rules = <<>>
    <3>1. o.present = FALSE
      BY <2>2, <2>5
    <3>2. lines.noOp = FALSE /\ lines.rules = Service!AclRules
      BY <1>4, <3>1 DEF Service!Render, Service!AclRender, Service!AclDesired, Service!AclIntent
    <3>3. AclFits(lines, N)
      BY <2>4, <3>2 DEF AclFits
    <3> QED
      BY <1>4, <3>3 DEF Fits
  <2>6. CASE rules # <<>>
    <3>1. rules = Service!AclRules /\ o.present = TRUE
      BY <2>2, <2>6
    <3>2. lines.noOp = TRUE
      BY <1>4, <3>1 DEF Service!Render, Service!AclRender
    <3>3. /\ o.attached = {<<"20", "out">>}
          /\ {N[<<"core", x[1], x[2]>>] : x \in attached} = {"ncdp"}
      BY <2>2, <3>1 DEF Service!AbsentOrExact, Service!AclObserved
    <3>4. attached = {<<"20", "out">>}
      BY <2>2, <3>3
    <3>5. N[<<"core", "20", "out">>] = "ncdp"
      <4> DEFINE y == <<"20", "out">>
      <4>1. y \in attached /\ y[1] = "20" /\ y[2] = "out"
        BY <3>4
      <4> HIDE DEF y, attached
      <4>2. N[<<"core", y[1], y[2]>>] \in {N[<<"core", x[1], x[2]>>] : x \in attached}
        BY <4>1
      <4> QED
        BY <3>3, <4>1, <4>2
    <3>6. AclFits(lines, N)
      BY <2>1, <2>4, <3>1, <3>2, <3>5 DEF AclFits
    <3> QED
      BY <1>4, <3>6 DEF Fits
  <2> QED
    BY <2>5, <2>6
<1> QED
  BY <1>1, <1>2, <1>3, <1>4 DEF Service!Verticals

-----------------------------------------------------------------------------
(* What the rendered lines make of a network they fit. *)

LEMMA EnvelopesDisjoint ==
  ASSUME NEW v \in Service!Verticals, NEW w \in Service!Verticals, v # w
  PROVE  Service!Envelope(v) \intersect Service!Envelope(w) = {}
<1> SUFFICES ASSUME NEW k \in Service!Envelope(v), k \in Service!Envelope(w) PROVE FALSE
  OBVIOUS
<1>1. /\ Service!Envelope("underlay") = Service!UnderlayEnvelope
      /\ Service!Envelope("ospf") = Service!OspfEnvelope
      /\ Service!Envelope("vlan") = Service!VlanEnvelope
      /\ Service!Envelope("acl") = Service!AclEnvelope
  BY DEF Service!Envelope
<1>2. ~(k \in Service!Envelope("underlay") /\ k \in Service!Envelope("ospf"))
  BY <1>1, EnvelopeParts
<1>3. ~(k \in Service!Envelope("underlay") /\ k \in Service!Envelope("vlan"))
  BY <1>1, EnvelopeParts DEF Service!Routers
<1>4. ~(k \in Service!Envelope("underlay") /\ k \in Service!Envelope("acl"))
  BY <1>1, EnvelopeParts
<1>5. ~(k \in Service!Envelope("ospf") /\ k \in Service!Envelope("vlan"))
  BY <1>1, EnvelopeParts
<1>6. ~(k \in Service!Envelope("ospf") /\ k \in Service!Envelope("acl"))
  BY <1>1, EnvelopeParts
<1>7. ~(k \in Service!Envelope("vlan") /\ k \in Service!Envelope("acl"))
  BY <1>1, EnvelopeParts
<1> QED
  BY <1>2, <1>3, <1>4, <1>5, <1>6, <1>7 DEF Service!Verticals

\* A vertical's lines change its own elements, and the policy's may create the
\* subinterface it is attached to.
LEMMA ChangedElsewhere ==
  ASSUME NEW v \in Service!Verticals, DOMAIN net = Service!Keys, NEW lines
  PROVE  /\ DOMAIN Service!Changed(v, lines) = Service!Keys
         /\ \A k \in Service!Keys \ Service!Envelope(v) :
               \/ Service!Changed(v, lines)[k] = net[k]
               \/ k = <<"core", "20", "exists">> /\ Service!Changed(v, lines)[k] = TRUE
<1>1. CASE v = "underlay"
  BY <1>1 DEF Service!Changed, Service!UnderlayChanged, Service!Envelope
<1>2. CASE v = "ospf"
  BY <1>2 DEF Service!Changed, Service!OspfChanged, Service!Envelope
<1>3. CASE v = "vlan"
  BY <1>3 DEF Service!Changed, Service!VlanChanged, Service!Envelope
<1>4. CASE v = "acl"
  <2>1. CASE lines.noOp
    BY <1>4, <2>1 DEF Service!Changed, Service!AclChanged
  <2>2. CASE ~lines.noOp
    <3>1. Service!Changed(v, lines) = [net EXCEPT ![<<"core", "acl", "rules">>] = lines.rules,
                                                  ![<<"core", "20", "out">>] = "ncdp",
                                                  ![<<"core", "20", "exists">>] = TRUE]
      BY <1>4, <2>2 DEF Service!Changed, Service!AclChanged
    <3>2. <<"core", "acl", "rules">> \in Service!AclEnvelope /\ <<"core", "20", "out">> \in Service!AclEnvelope
      BY DEF Service!AclEnvelope
    <3> QED
      BY <1>4, <3>1, <3>2 DEF Service!Envelope
  <2> QED
    BY <2>1, <2>2
<1> QED
  BY <1>1, <1>2, <1>3, <1>4 DEF Service!Verticals

LEMMA ChangedKeeps ==
  ASSUME NEW v \in Service!Verticals, NEW w \in Service!Verticals, v # w,
         DOMAIN net = Service!Keys, NEW lines
  PROVE  Kept(w, net, Service!Changed(v, lines))
<1>1. ASSUME NEW k \in Service!Envelope(w)
      PROVE  /\ k[3] # "exists" => Service!Changed(v, lines)[k] = net[k]
             /\ k[3] = "exists" => Service!Changed(v, lines)[k] \in {net[k], Service!ProposedNetwork[k]}
  <2>1. k \in Service!Keys \ Service!Envelope(v)
    BY EnvelopesDisjoint, EnvelopeInKeys
  <2>2. \/ Service!Changed(v, lines)[k] = net[k]
        \/ k = <<"core", "20", "exists">> /\ Service!Changed(v, lines)[k] = TRUE
    BY <2>1, ChangedElsewhere
  <2>3. Service!ProposedNetwork[<<"core", "20", "exists">>] = TRUE
    BY ProposedStands DEF VlanStands, Service!Vids
  <2>4. CASE k = <<"core", "20", "exists">> /\ Service!Changed(v, lines)[k] = TRUE
    <3>1. Service!Changed(v, lines)[k] = Service!ProposedNetwork[k]
      BY <2>3, <2>4
    <3>2. k[3] = "exists"
      BY <2>4
    <3> QED
      BY <3>1, <3>2
  <2> QED
    BY <2>2, <2>4
<1>2. ASSUME NEW r \in Service!CiscoRouters
      PROVE  Service!Changed(v, lines)[<<r, "ospf", "passive-default">>] = net[<<r, "ospf", "passive-default">>]
  <2>1. <<r, "ospf", "passive-default">> \notin Service!Envelope(v)
    <3> DEFINE k == <<r, "ospf", "passive-default">>
    <3>1. k[3] = "passive-default"
      OBVIOUS
    <3> HIDE DEF k
    <3>2. k \notin Service!Envelope(v)
      BY <3>1, EnvelopeParts DEF Service!Envelope, Service!Verticals
    <3> QED
      BY <3>2 DEF k
  <2> QED
    BY <2>1, DefaultKeys, ChangedElsewhere
<1> QED
  BY <1>1, <1>2 DEF Kept

LEMMA VlanStandsWanted ==
  ASSUME NEW N, VlanStands(N), NEW k \in Service!VlanEnvelope
  PROVE  Wanted(N, k)
<1> DEFINE P == Service!ProposedNetwork
<1>1. VlanStands(P)
  BY ProposedStands
<1> HIDE DEF P
<1>2. k[3] # "passive"
  BY EnvelopeParts
<1>3. /\ \A field \in {"addresses", "shut"} : N[<<"core", "parent", field>>] = P[<<"core", "parent", field>>]
      /\ \A v \in Service!Vids :
            /\ \A field \in {"exists", "encapsulation", "addresses", "shut"} :
                  N[<<"core", v, field>>] = P[<<"core", v, field>>]
            /\ N[<<"access", v, "name">>] = P[<<"access", v, "name">>]
            /\ \A field \in {"mode", "access"} :
                  N[<<"access", Service!HostPort(v), field>>] = P[<<"access", Service!HostPort(v), field>>]
      /\ \A t \in Service!SwitchPorts : N[<<"access", t, "shut">>] = P[<<"access", t, "shut">>]
      /\ \A field \in {"mode", "allowed"} : N[<<"access", "trunk", field>>] = P[<<"access", "trunk", field>>]
  <2>1. /\ N[<<"core", "parent", "addresses">>] = P[<<"core", "parent", "addresses">>]
        /\ N[<<"core", "parent", "shut">>] = P[<<"core", "parent", "shut">>]
    BY <1>1 DEF VlanStands
  <2>2. ASSUME NEW v \in Service!Vids
        PROVE  /\ N[<<"core", v, "exists">>] = P[<<"core", v, "exists">>]
               /\ N[<<"core", v, "encapsulation">>] = P[<<"core", v, "encapsulation">>]
               /\ N[<<"core", v, "addresses">>] = P[<<"core", v, "addresses">>]
               /\ N[<<"core", v, "shut">>] = P[<<"core", v, "shut">>]
               /\ N[<<"access", v, "name">>] = P[<<"access", v, "name">>]
    <3>1. /\ N[<<"core", v, "exists">>] = TRUE /\ N[<<"core", v, "shut">>] = FALSE
          /\ P[<<"core", v, "exists">>] = TRUE /\ P[<<"core", v, "shut">>] = FALSE
      BY <1>1, Zenon DEF VlanStands
    <3>2. /\ N[<<"core", v, "encapsulation">>] = v /\ P[<<"core", v, "encapsulation">>] = v
          /\ N[<<"core", v, "addresses">>] = {Service!Gateway(v)}
          /\ P[<<"core", v, "addresses">>] = {Service!Gateway(v)}
          /\ N[<<"access", v, "name">>] = Service!VlanName(v)
          /\ P[<<"access", v, "name">>] = Service!VlanName(v)
      BY <1>1, Zenon DEF VlanStands
    <3> QED
      BY <3>1, <3>2, Zenon
  <2>3. ASSUME NEW v \in Service!Vids
        PROVE  /\ N[<<"access", Service!HostPort(v), "mode">>] = P[<<"access", Service!HostPort(v), "mode">>]
               /\ N[<<"access", Service!HostPort(v), "access">>] = P[<<"access", Service!HostPort(v), "access">>]
    BY <1>1 DEF VlanStands
  <2>4. ASSUME NEW t \in Service!SwitchPorts
        PROVE  N[<<"access", t, "shut">>] = P[<<"access", t, "shut">>]
    BY <1>1 DEF VlanStands
  <2>5. /\ N[<<"access", "trunk", "mode">>] = P[<<"access", "trunk", "mode">>]
        /\ N[<<"access", "trunk", "allowed">>] = P[<<"access", "trunk", "allowed">>]
    BY <1>1 DEF VlanStands
  <2> QED
    BY <2>1, <2>2, <2>3, <2>4, <2>5
<1>4. CASE \E field \in {"addresses", "shut"} : k = <<"core", "parent", field>>
  BY <1>2, <1>3, <1>4 DEF Wanted, P
<1>5. CASE \E v \in Service!Vids, field \in {"exists", "encapsulation", "addresses", "shut"} :
              k = <<"core", v, field>>
  BY <1>2, <1>3, <1>5 DEF Wanted, P
<1>6. CASE \E v \in Service!Vids : k = <<"access", v, "name">>
  BY <1>2, <1>3, <1>6 DEF Wanted, P
<1>7. CASE \E t \in Service!SwitchPorts, field \in {"mode", "allowed", "access", "shut"} :
              k = <<"access", t, field>>
  <2>1. PICK t \in Service!SwitchPorts, field \in {"mode", "allowed", "access", "shut"} :
           k = <<"access", t, field>>
    BY <1>7
  <2>2. CASE t = "trunk"
    BY <1>2, <1>3, <2>1, <2>2 DEF Wanted, P, Service!Unused
  <2>3. CASE t # "trunk"
    <3>1. PICK v \in Service!Vids : t = Service!HostPort(v)
      BY <2>3 DEF Service!SwitchPorts, Service!HostPort, Service!Vids
    <3>2. field = "allowed" => Service!Unused(k)
      BY <2>1, <2>3 DEF Service!Unused, Service!SwitchPorts
    <3>3. field # "allowed" => N[k] = P[k]
      BY <1>3, <2>1, <3>1
    <3> QED
      BY <1>2, <3>2, <3>3 DEF Wanted, P
  <2> QED
    BY <2>2, <2>3
<1> QED
  BY <1>4, <1>5, <1>6, <1>7 DEF Service!VlanEnvelope

LEMMA UnderlayLinesStand ==
  ASSUME DOMAIN net = Service!Keys, NEW lines, UnderlayFits(lines, net)
  PROVE  UnderlayStands(Service!UnderlayChanged(net, lines))
<1> DEFINE C == Service!UnderlayChanged(net, lines)
<1> SUFFICES ASSUME NEW p \in Service!Ports
             PROVE  C[<<p[1], p[2], "addresses">>] = {p} /\ C[<<p[1], p[2], "shut">>] = FALSE
  BY DEF UnderlayStands
<1>1. <<p[1], p[2]>> = p
  BY PortIsPair
<1>2. C[<<p[1], p[2], "shut">>] = FALSE
  BY PortFlags, PortInEnvelope DEF Service!UnderlayChanged
<1>3. C[<<p[1], p[2], "addresses">>] = Service!PortChanged(net, p, lines[p])
  BY <1>1, PortValueKeys, PortInEnvelope DEF Service!UnderlayChanged
<1>4. Service!PortChanged(net, p, lines[p]) = {p}
  <2> DEFINE held == net[<<p[1], p[2], "addresses">>]
  <2>1. lines[p].remove = held \ {p} /\ lines[p].add = {p} \ held
    BY DEF UnderlayFits
  <2>2. Service!PortChanged(net, p, lines[p])
          = IF p[1] \in Service!CiscoRouters /\ lines[p].add # {} THEN lines[p].add
            ELSE (held \ lines[p].remove) \union lines[p].add
    BY DEF Service!PortChanged
  <2> HIDE DEF held
  <2>3. lines[p].add # {} => lines[p].add = {p}
    BY <2>1
  <2>4. (held \ lines[p].remove) \union lines[p].add = {p}
    BY <2>1
  <2> QED
    BY <2>2, <2>3, <2>4
<1> QED
  BY <1>2, <1>3, <1>4

\* Every one of the six interfaces is in area 0 and none is passive.
LEMMA OspfLinesStand ==
  ASSUME DOMAIN net = Service!Keys, NEW lines, OspfFits(lines, net),
         NEW C, C = Service!OspfChanged(net, lines)
  PROVE  /\ \A r \in Service!Routers : C[<<r, "ospf", "process">>] = "1" /\ C[<<r, "ospf", "router-id">>] = r
         /\ \A p \in Service!Ports :
               /\ C[<<p[1], p[2], "area">>] = Service!Area0 /\ C[<<p[1], p[2], "type">>] = "point-to-point"
               /\ ~Service!ReadOspfPort(C, p).passive
<1>1. ASSUME NEW r \in Service!Routers
      PROVE  C[<<r, "ospf", "process">>] = "1" /\ C[<<r, "ospf", "router-id">>] = r
  <2>1. Service!OspfIntent[r].routerId = r
    BY DEF Service!OspfIntent
  <2> QED
    BY <2>1, ProcessKeys, RouterInEnvelope DEF Service!OspfChanged
<1>2. ASSUME NEW p \in Service!Ports
      PROVE  /\ C[<<p[1], p[2], "area">>] = Service!Area0 /\ C[<<p[1], p[2], "type">>] = "point-to-point"
             /\ ~Service!ReadOspfPort(C, p).passive
  <2>1. <<p[1], p[2]>> = p /\ p[2] # "ospf"
    BY PortIsPair
  <2>2. ASSUME NEW field \in {"area", "type", "passive"}
        PROVE  C[<<p[1], p[2], field>>] = Service!OspfFieldChanged(net, <<p[1], p[2], field>>, lines[p])
    <3>1. <<p[1], p[2], field>> \in Service!Keys /\ <<p[1], p[2], field>> \in Service!OspfEnvelope
      BY PortValueKeys, PortInEnvelope
    <3> QED
      BY <2>1, <3>1 DEF Service!OspfChanged
  <2>3. C[<<p[1], p[2], "type">>] = "point-to-point"
    BY <2>2 DEF Service!OspfFieldChanged
  <2>4. C[<<p[1], p[2], "area">>] = Service!Area0
    <3>1. \/ p[1] \in Service!CiscoRouters \/ lines[p].leaves
          \/ net[<<p[1], p[2], "area">>] \in {"none", Service!Area0}
      BY DEF OspfFits
    <3> QED
      BY <2>2, <3>1 DEF Service!OspfFieldChanged
  <2>5. Service!Area0 # "none"
    BY DEF Service!Area0
  <2>6. CASE p[1] \in Service!CiscoRouters
    <3> DEFINE default == <<p[1], "ospf", "passive-default">>
    <3>1. lines[p].active
      BY <2>6 DEF OspfFits
    <3>2. C[<<p[1], p[2], "passive">>] = IF net[default] THEN "active" ELSE "none"
      BY <2>2, <2>6, <3>1 DEF Service!OspfFieldChanged
    <3>3. C[default] = net[default]
      <4>1. default \in Service!Keys
        BY <2>6, DefaultKeys
      <4>2. default[3] = "passive-default"
        OBVIOUS
      <4> HIDE DEF default
      <4>3. default \notin Service!OspfEnvelope
        BY <4>2, EnvelopeParts
      <4> QED
        BY <4>1, <4>3 DEF Service!OspfChanged
    <3>4. ~Service!CiscoPassive(C, p)
      BY <3>2, <3>3 DEF Service!CiscoPassive
    <3> QED
      BY <2>3, <2>4, <2>5, <2>6, <3>4 DEF Service!ReadOspfPort
  <2>7. CASE p[1] \notin Service!CiscoRouters
    <3>1. C[<<p[1], p[2], "passive">>] # "explicit"
      <4>1. CASE lines[p].active
        BY <2>2, <2>7, <4>1 DEF Service!OspfFieldChanged
      <4>2. CASE ~lines[p].active
        <5>1. net[<<p[1], p[2], "passive">>] # "explicit"
          BY <2>7, <4>2 DEF OspfFits
        <5> QED
          BY <2>2, <4>2, <5>1 DEF Service!OspfFieldChanged
      <4> QED
        BY <4>1, <4>2
    <3>2. ~Service!JunosPassive(C, p)
      BY <3>1 DEF Service!JunosPassive
    <3> QED
      BY <2>3, <2>4, <2>5, <2>7, <3>2 DEF Service!ReadOspfPort
  <2> QED
    BY <2>3, <2>4, <2>6, <2>7
<1> QED
  BY <1>1, <1>2

\* Lines that fit leave every element they own as D1 has it.
LEMMA ChangedWanted ==
  ASSUME NEW v \in Service!Verticals, DOMAIN net = Service!Keys, NEW lines, Fits(v, lines, net),
         NEW k \in Service!Envelope(v)
  PROVE  Wanted(Service!Changed(v, lines), k)
<1> DEFINE C == Service!Changed(v, lines)
           P == Service!ProposedNetwork
<1>1. UnderlayStands(P) /\ OspfStands(P) /\ PolicyStands(P)
  BY ProposedStands
<1> HIDE DEF P
<1>2. CASE v = "underlay"
  <2>1. C = Service!UnderlayChanged(net, lines)
    BY <1>2 DEF Service!Changed
  <2> HIDE DEF C
  <2>2. UnderlayStands(C)
    BY <1>2, <2>1, UnderlayLinesStand DEF Fits
  <2>3. PICK p \in Service!Ports, field \in {"addresses", "shut"} : k = <<p[1], p[2], field>>
    BY <1>2 DEF Service!Envelope, Service!UnderlayEnvelope
  <2>4. C[<<p[1], p[2], "addresses">>] = P[<<p[1], p[2], "addresses">>]
    BY <1>1, <2>2 DEF UnderlayStands
  <2>5. C[<<p[1], p[2], "shut">>] = P[<<p[1], p[2], "shut">>]
    BY <1>1, <2>2 DEF UnderlayStands
  <2>6. k[3] # "passive" /\ C[k] = P[k]
    BY <2>3, <2>4, <2>5
  <2> QED
    BY <2>6 DEF Wanted, C, P
<1>3. CASE v = "ospf"
  <2>1. C = Service!OspfChanged(net, lines) /\ OspfFits(lines, net)
    BY <1>3 DEF Service!Changed, Fits
  <2> HIDE DEF C
  <2>2. /\ \A r \in Service!Routers : C[<<r, "ospf", "process">>] = "1" /\ C[<<r, "ospf", "router-id">>] = r
        /\ \A p \in Service!Ports :
              /\ C[<<p[1], p[2], "area">>] = Service!Area0 /\ C[<<p[1], p[2], "type">>] = "point-to-point"
              /\ ~Service!ReadOspfPort(C, p).passive
    BY <2>1, OspfLinesStand
  <2>3. CASE \E r \in Service!Routers, field \in {"process", "router-id"} : k = <<r, "ospf", field>>
    <3>1. PICK r \in Service!Routers, field \in {"process", "router-id"} : k = <<r, "ospf", field>>
      BY <2>3
    <3>2. /\ C[<<r, "ospf", "process">>] = P[<<r, "ospf", "process">>]
          /\ C[<<r, "ospf", "router-id">>] = P[<<r, "ospf", "router-id">>]
      BY <1>1, <2>2 DEF OspfStands
    <3>3. k[3] # "passive" /\ C[k] = P[k]
      BY <3>1, <3>2
    <3> QED
      BY <3>3 DEF Wanted, C, P
  <2>4. CASE \E p \in Service!Ports, field \in {"area", "type", "passive"} : k = <<p[1], p[2], field>>
    <3>1. PICK p \in Service!Ports, field \in {"area", "type", "passive"} : k = <<p[1], p[2], field>>
      BY <2>4
    <3>2. <<k[1], k[2]>> = p
      BY <3>1, PortIsPair
    <3>3. CASE field = "passive"
      BY <2>2, <3>1, <3>2, <3>3 DEF Wanted, C
    <3>4. CASE field # "passive"
      <4>1. /\ C[<<p[1], p[2], "area">>] = P[<<p[1], p[2], "area">>]
            /\ C[<<p[1], p[2], "type">>] = P[<<p[1], p[2], "type">>]
        BY <1>1, <2>2 DEF OspfStands
      <4>2. k[3] # "passive" /\ C[k] = P[k]
        BY <3>1, <3>4, <4>1
      <4> QED
        BY <4>2 DEF Wanted, C, P
    <3> QED
      BY <3>3, <3>4
  <2> QED
    BY <1>3, <2>3, <2>4 DEF Service!Envelope, Service!OspfEnvelope
<1>4. CASE v = "vlan"
  <2>1. C = Service!VlanChanged(net, lines) /\ VlanFits(lines)
    BY <1>4 DEF Service!Changed, Fits
  <2> HIDE DEF C
  <2>2. VlanStands(C)
    BY <2>1, VlanLinesStand DEF VlanFits
  <2>3. Wanted(C, k)
    BY <1>4, <2>2, VlanStandsWanted DEF Service!Envelope
  <2> QED
    BY <2>3 DEF C
<1>5. CASE v = "acl"
  <2>1. /\ net[<<"core", "20", "in">>] = "none"
        /\ IF lines.noOp THEN net[<<"core", "acl", "rules">>] = Service!AclRules
                              /\ net[<<"core", "20", "out">>] = "ncdp"
           ELSE lines.rules = Service!AclRules
    BY <1>5 DEF Fits, AclFits
  <2>2. C = Service!AclChanged(net, lines)
    BY <1>5 DEF Service!Changed
  <2> HIDE DEF C
  <2>3. "20" \in Service!Vids
    BY DEF Service!Vids
  <2>4. PolicyStands(C)
    <3>1. CASE lines.noOp
      BY <2>1, <2>2, <3>1 DEF PolicyStands, Service!AclChanged
    <3>2. CASE ~lines.noOp
      BY <2>1, <2>2, <2>3, <3>2, PolicyKeys, CoreKeys DEF PolicyStands, Service!AclChanged
    <3> QED
      BY <3>1, <3>2
  <2>5. \A j \in Service!AclEnvelope : j[3] # "passive" /\ C[j] = P[j]
    BY <1>1, <2>4 DEF Service!AclEnvelope, PolicyStands
  <2> QED
    BY <1>5, <2>5 DEF Wanted, Service!Envelope, C, P
<1> QED
  BY <1>2, <1>3, <1>4, <1>5 DEF Service!Verticals

LEMMA ChangedConfigured ==
  ASSUME NEW v \in Service!Verticals, Configured(net), NEW lines
  PROVE  Configured(Service!Changed(v, lines))
<1> DEFINE C == Service!Changed(v, lines)
<1>0. DOMAIN net = Service!Keys
  BY DEF Configured
<1>1. DOMAIN C = Service!Keys
  BY <1>0, ChangedElsewhere
<1>2. ASSUME NEW w \in Service!Vids, NEW side \in {"in", "out"}
      PROVE  C[<<"core", w, side>>] \in {"none", "ncdp", "foreign"}
  <2> DEFINE k == <<"core", w, side>>
  <2>1. k \in Service!Keys /\ k[3] = side /\ net[k] \in {"none", "ncdp", "foreign"}
    BY CoreKeys DEF Configured
  <2>2. CASE v # "acl"
    <3> HIDE DEF k
    <3>1. k \notin Service!Envelope(v)
      BY <2>1, <2>2, EnvelopeParts DEF Service!Envelope, Service!Verticals
    <3>2. k # <<"core", "20", "exists">>
      BY <2>1
    <3>3. C[k] = net[k]
      BY <1>0, <2>1, <3>1, <3>2, ChangedElsewhere
    <3>4. C[k] \in {"none", "ncdp", "foreign"}
      BY <2>1, <3>3
    <3> QED
      BY <3>4 DEF k
  <2>3. CASE v = "acl"
    <3>1. C = Service!AclChanged(net, lines)
      BY <2>3 DEF Service!Changed
    <3>2. C[k] \in {net[k], "ncdp"}
      <4>1. CASE lines.noOp
        BY <3>1, <4>1 DEF Service!AclChanged
      <4>2. CASE ~lines.noOp
        <5>1. C = [net EXCEPT ![<<"core", "acl", "rules">>] = lines.rules,
                              ![<<"core", "20", "out">>] = "ncdp",
                              ![<<"core", "20", "exists">>] = TRUE]
          BY <3>1, <4>2 DEF Service!AclChanged
        <5>2. k # <<"core", "acl", "rules">> /\ k # <<"core", "20", "exists">>
          BY <2>1
        <5> HIDE DEF k, C
        <5> QED
          BY <1>0, <2>1, <5>1, <5>2
      <4> QED
        BY <4>1, <4>2
    <3> HIDE DEF k, C
    <3>3. C[k] \in {"none", "ncdp", "foreign"}
      BY <2>1, <3>2
    <3> QED
      BY <3>3 DEF k
  <2> QED
    BY <2>2, <2>3
<1>3. ASSUME NEW p \in Service!Ports, p[1] \notin Service!CiscoRouters, C[<<p[1], p[2], "area">>] = "none"
      PROVE  C[<<p[1], p[2], "passive">>] # "explicit"
  <2>1. CASE v # "ospf"
    <3>1. ASSUME NEW field \in {"area", "passive"}
          PROVE  C[<<p[1], p[2], field>>] = net[<<p[1], p[2], field>>]
      <4> DEFINE k == <<p[1], p[2], field>>
      <4>1. k \in Service!Keys /\ k[3] = field
        BY PortValueKeys
      <4> HIDE DEF k
      <4>2. k \notin Service!Envelope(v)
        BY <2>1, <4>1, EnvelopeParts DEF Service!Envelope, Service!Verticals
      <4>3. C[k] = net[k]
        <5>1. k # <<"core", "20", "exists">>
          BY <4>1
        <5> QED
          BY <1>0, <4>1, <4>2, <5>1, ChangedElsewhere
      <4> QED
        BY <4>3 DEF k
    <3> QED
      BY <1>3, <3>1 DEF Configured
  <2>2. CASE v = "ospf"
    <3>1. <<p[1], p[2], "area">> \in Service!Keys /\ <<p[1], p[2], "area">> \in Service!OspfEnvelope
      BY PortValueKeys, PortInEnvelope
    <3>2. p[2] # "ospf"
      BY PortIsPair
    <3>3. C[<<p[1], p[2], "area">>]
            = Service!OspfFieldChanged(net, <<p[1], p[2], "area">>, lines[<<p[1], p[2]>>])
      BY <1>0, <2>2, <3>1, <3>2 DEF Service!Changed, Service!OspfChanged
    <3>4. C[<<p[1], p[2], "area">>] \in {Service!Area0, "both"}
      BY <3>3 DEF Service!OspfFieldChanged
    <3> QED
      BY <1>3, <3>4 DEF Service!Area0
  <2> QED
    BY <2>1, <2>2
<1> HIDE DEF C
<1>4. Configured(C)
  BY <1>1, <1>2, <1>3 DEF Configured
<1> QED
  BY <1>4 DEF C

\* One key changes by itself, and what it stood in takes it along.
LEMMA SettleConfigured ==
  ASSUME NEW N, Configured(N), NEW k \in Service!Keys, NEW value \in Service!Values(k)
  PROVE  Configured(Service!Settle([N EXCEPT ![k] = value]))
<1> DEFINE M == [N EXCEPT ![k] = value]
           S == Service!Settle(M)
<1>1. DOMAIN S = Service!Keys
  BY DEF Service!Settle
<1>2. \A j \in Service!Keys : S[j] \in {M[j], Service!Blank[j]}
  BY DEF Service!Settle
<1>3. ASSUME NEW w \in Service!Vids, NEW side \in {"in", "out"}
      PROVE  S[<<"core", w, side>>] \in {"none", "ncdp", "foreign"}
  <2> DEFINE j == <<"core", w, side>>
  <2>1. /\ j \in Service!Keys /\ j[3] = side /\ N[j] \in {"none", "ncdp", "foreign"}
        /\ Service!Values(j) = {"none", "ncdp", "foreign"}
    BY CoreKeys, SideValues DEF Configured
  <2> HIDE DEF j
  <2>2. M[j] \in {"none", "ncdp", "foreign"}
    BY <2>1 DEF Configured
  <2>3. Service!Blank[j] = "none"
    BY <2>1, BlankValues
  <2>4. S[j] \in {"none", "ncdp", "foreign"}
    BY <1>2, <2>1, <2>2, <2>3
  <2> QED
    BY <2>4 DEF j
<1>4. ASSUME NEW p \in Service!Ports, p[1] \notin Service!CiscoRouters, S[<<p[1], p[2], "area">>] = "none"
      PROVE  S[<<p[1], p[2], "passive">>] # "explicit"
  <2>1. p[1] = "edge"
    BY <1>4, PortIsPair DEF Service!CiscoRouters
  <2>2. <<p[1], p[2], "area">> \in Service!Keys /\ <<p[1], p[2], "passive">> \in Service!Keys
    BY PortValueKeys
  <2> HIDE DEF M
  <2>3. S[<<p[1], p[2], "area">>] = M[<<p[1], p[2], "area">>]
    BY <2>1, <2>2 DEF Service!Settle, Service!CiscoRouters
  <2>4. S[<<p[1], p[2], "passive">>] = Service!Blank[<<p[1], p[2], "passive">>]
    BY <1>4, <2>1, <2>2, <2>3 DEF Service!Settle
  <2>5. Service!Blank[<<p[1], p[2], "passive">>] = "none"
    BY <2>2, BlankValues
  <2> QED
    BY <2>4, <2>5
<1> HIDE DEF S
<1>5. Configured(S)
  BY <1>1, <1>3, <1>4 DEF Configured
<1> QED
  BY <1>5 DEF S, M

-----------------------------------------------------------------------------
(* What is as D1 wants it reads as D1, or is not understood. *)

LEMMA UnderlayRereads ==
  ASSUME NEW N, \A k \in Service!UnderlayEnvelope : Wanted(N, k)
  PROVE  Service!Managed("underlay", N) = {Service!Proposed("underlay")}
<1>1. \A p \in Service!Ports : Service!ReadPort(N, p) = Service!UnderlayDesired[p]
  <2> TAKE p \in Service!Ports
  <2>1. /\ <<p[1], p[2], "addresses">> \in Service!UnderlayEnvelope
        /\ <<p[1], p[2], "shut">> \in Service!UnderlayEnvelope
    BY PortInEnvelope
  <2>2. ~Service!Unused(<<p[1], p[2], "addresses">>) /\ ~Service!Unused(<<p[1], p[2], "shut">>)
    BY PortIsPair DEF Service!Unused
  <2>3. /\ N[<<p[1], p[2], "addresses">>] = Service!ProposedNetwork[<<p[1], p[2], "addresses">>]
        /\ N[<<p[1], p[2], "shut">>] = Service!ProposedNetwork[<<p[1], p[2], "shut">>]
    BY <2>1, <2>2 DEF Wanted
  <2>4. N[<<p[1], p[2], "addresses">>] = {p} /\ N[<<p[1], p[2], "shut">>] = FALSE
    BY <2>3, ProposedStands DEF UnderlayStands
  <2> QED
    BY <2>4 DEF Service!ReadPort, Service!UnderlayDesired, Service!UnderlayIntent
<1>2. [p \in Service!Ports |-> Service!ReadPort(N, p)] = Service!UnderlayDesired
  <2>1. Service!UnderlayDesired = [p \in Service!Ports |-> Service!UnderlayDesired[p]]
    BY DEF Service!UnderlayDesired
  <2> QED
    BY <1>1, <2>1
<1>3. Service!Read("underlay", N) = {Service!UnderlayDesired}
  BY <1>2 DEF Service!Read, Service!UnderlayRead
<1>4. Service!Project("underlay", Service!UnderlayDesired) = {Service!Proposed("underlay")}
  <2>1. DOMAIN Service!UnderlayDesired = Service!Ports
    BY DEF Service!UnderlayDesired
  <2>2. Service!RoutedShape(Service!RoutedPayload(Service!UnderlayDesired))
    BY DEF Service!RoutedShape, Service!RoutedPayload, Service!UnderlayDesired
  <2> QED
    BY <2>1, <2>2 DEF Service!Project, Service!Proposed, Service!UnderlayProposed
<1> QED
  BY <1>3, <1>4 DEF Service!Managed

LEMMA OspfRereads ==
  ASSUME NEW N, \A k \in Service!OspfEnvelope : Wanted(N, k)
  PROVE  Service!Managed("ospf", N) \subseteq {Service!Proposed("ospf")}
<1>1. ASSUME NEW p \in Service!Ports PROVE Service!ReadOspfPort(N, p) = Service!OspfActive
  <2>1. \A field \in {"area", "type", "passive"} : <<p[1], p[2], field>> \in Service!OspfEnvelope
    BY PortInEnvelope
  <2>2. \A field \in {"area", "type"} : ~Service!Unused(<<p[1], p[2], field>>)
    BY PortIsPair DEF Service!Unused
  <2>3. /\ N[<<p[1], p[2], "area">>] = Service!ProposedNetwork[<<p[1], p[2], "area">>]
        /\ N[<<p[1], p[2], "type">>] = Service!ProposedNetwork[<<p[1], p[2], "type">>]
    BY <2>1, <2>2 DEF Wanted
  <2>4. N[<<p[1], p[2], "area">>] = Service!Area0 /\ N[<<p[1], p[2], "type">>] = "point-to-point"
    BY <2>3, ProposedStands DEF OspfStands
  <2>5. ~Service!ReadOspfPort(N, p).passive
    <3>1. Wanted(N, <<p[1], p[2], "passive">>)
      BY <2>1
    <3>2. <<p[1], p[2]>> = p
      BY PortIsPair
    <3> QED
      BY <3>1, <3>2 DEF Wanted
  <2> DEFINE passive == IF p[1] \in Service!CiscoRouters THEN Service!CiscoPassive(N, p)
                        ELSE Service!JunosPassive(N, p)
  <2>6. passive \in BOOLEAN
    BY DEF Service!CiscoPassive, Service!JunosPassive
  <2>7. Service!ReadOspfPort(N, p)
          = [participating |-> TRUE, area |-> Service!Area0, type |-> "point-to-point", passive |-> passive]
    BY <2>4 DEF Service!ReadOspfPort, Service!Area0
  <2> HIDE DEF passive
  <2>8. passive = FALSE
    BY <2>5, <2>6, <2>7
  <2> QED
    BY <2>7, <2>8 DEF Service!OspfActive
<1>2. ASSUME NEW r \in Service!Routers
      PROVE  Service!ReadOspfRouter(N, r) = Service!OspfDesired[r]
  <2>1. \A field \in {"process", "router-id"} : <<r, "ospf", field>> \in Service!OspfEnvelope
    BY RouterInEnvelope
  <2>2. \A field \in {"process", "router-id"} : ~Service!Unused(<<r, "ospf", field>>)
    BY DEF Service!Unused, Service!Routers
  <2>3. /\ N[<<r, "ospf", "process">>] = Service!ProposedNetwork[<<r, "ospf", "process">>]
        /\ N[<<r, "ospf", "router-id">>] = Service!ProposedNetwork[<<r, "ospf", "router-id">>]
    BY <2>1, <2>2 DEF Wanted
  <2>4. N[<<r, "ospf", "process">>] = "1" /\ N[<<r, "ospf", "router-id">>] = r
    BY <2>3, ProposedStands DEF OspfStands
  <2>5. Service!ProcessOn(N, r) = TRUE
    BY <2>4 DEF Service!ProcessOn
  <2>6. /\ Service!OspfIntent[r].routerId = r
        /\ \A p \in Service!OspfIntent[r].ports : Service!ReadOspfPort(N, p) = Service!OspfActive
    BY <1>1 DEF Service!OspfIntent
  <2>7. [p \in Service!OspfIntent[r].ports |-> Service!ReadOspfPort(N, p)]
          = [p \in Service!OspfIntent[r].ports |-> Service!OspfActive]
    BY <2>6
  <2> QED
    BY <2>4, <2>5, <2>6, <2>7 DEF Service!ReadOspfRouter, Service!OspfDesired
<1>3. [r \in Service!Routers |-> Service!ReadOspfRouter(N, r)] = Service!OspfDesired
  <2>1. Service!OspfDesired = [r \in Service!Routers |-> Service!OspfDesired[r]]
    BY DEF Service!OspfDesired
  <2> QED
    BY <1>2, <2>1
<1>4. Service!Read("ospf", N) \subseteq {Service!OspfDesired}
  BY <1>3 DEF Service!Read, Service!OspfRead
<1>5. Service!Project("ospf", Service!OspfDesired) \subseteq {Service!Proposed("ospf")}
  BY DEF Service!Project, Service!Proposed, Service!OspfProposed
<1> QED
  BY <1>4, <1>5 DEF Service!Managed

LEMMA AclRereads ==
  ASSUME NEW N, \A k \in Service!AclEnvelope : Wanted(N, k)
  PROVE  Service!Managed("acl", N) \subseteq {Service!Proposed("acl")}
<1>1. N[<<"core", "acl", "rules">>] = Service!AclRules
  <2>1. N[<<"core", "acl", "rules">>] = Service!ProposedNetwork[<<"core", "acl", "rules">>]
    BY DEF Service!AclEnvelope, Wanted, Service!Unused
  <2> QED
    BY <2>1, ProposedStands DEF PolicyStands
<1>2. ASSUME NEW o \in Service!Read("acl", N) PROVE o = Service!AclDesired
  <2>1. o \in Service!AclAs(N, Service!AclRules)
    BY <1>1, <1>2 DEF Service!Read, Service!AclRead
  <2>2. Service!AclRules # <<>>
    BY DEF Service!AclRules
  <2> DEFINE attached == Service!AttachedTo(N, {"ncdp", "foreign"})
  <2>3. /\ o = [present |-> TRUE, rules |-> Service!AclRules, attached |-> attached]
        /\ Service!AbsentOrExact(o, {N[<<"core", x[1], x[2]>>] : x \in attached})
    BY <2>1, <2>2 DEF Service!AclAs, Service!AclObserved
  <2> HIDE DEF attached
  <2>4. attached = {<<"20", "out">>}
    BY <2>3 DEF Service!AbsentOrExact, Service!AclObserved
  <2> QED
    BY <2>3, <2>4 DEF Service!AclDesired, Service!AclIntent
<1>3. Service!Project("acl", Service!AclDesired) \subseteq {Service!Proposed("acl")}
  BY DEF Service!Project, Service!Proposed, Service!AclProposed
<1> QED
  BY <1>2, <1>3 DEF Service!Managed

LEMMA WantedConverges ==
  ASSUME NEW v \in Service!Verticals \ {"vlan"}, NEW N, \A k \in Service!Envelope(v) : Wanted(N, k)
  PROVE  Service!ComparePostwrite(Service!Managed(v, N), Service!Proposed(v)) # "post_validation_failed"
<1>1. Service!Managed(v, N) \subseteq {Service!Proposed(v)}
  <2>1. CASE v = "underlay"
    BY <2>1, UnderlayRereads DEF Service!Envelope
  <2>2. CASE v = "ospf"
    BY <2>2, OspfRereads DEF Service!Envelope
  <2>3. CASE v = "acl"
    BY <2>3, AclRereads DEF Service!Envelope
  <2> QED
    BY <2>1, <2>2, <2>3 DEF Service!Verticals
<1>2. CASE Service!Managed(v, N) = {}
  BY <1>2 DEF Service!ComparePostwrite
<1>3. CASE Service!Managed(v, N) = {Service!Proposed(v)}
  BY <1>3 DEF Service!ComparePostwrite
<1> QED
  BY <1>1, <1>2, <1>3

-----------------------------------------------------------------------------
(* The invariant of the proposals. *)

LEMMA InitConfigured ==
  ASSUME NEW N \in {Service!PriorNetwork, Service!ProposedNetwork, Service!OtherNetwork}
  PROVE  Configured(N)
<1>1. Configured(Service!PriorNetwork)
  <2> DEFINE N1 == Service!PriorNetwork
  <2>1. DOMAIN N1 = Service!Keys
    BY DEF Service!PriorNetwork
  <2>2. ASSUME NEW k \in Service!Keys, k[3] \in {"in", "out", "passive"} PROVE N1[k] = "none"
    <3>1. k # <<"core", "parent", "shut">>
      BY <2>2
    <3>2. N1[k] = Service!Blank[k]
      BY <2>2, <3>1 DEF Service!PriorNetwork
    <3> QED
      BY <2>2, <3>2, BlankValues
  <2> HIDE DEF N1
  <2>3. \A v \in Service!Vids, side \in {"in", "out"} : N1[<<"core", v, side>>] = "none"
    BY <2>2, CoreKeys
  <2>4. \A p \in Service!Ports : N1[<<p[1], p[2], "passive">>] = "none"
    BY <2>2, PortValueKeys
  <2>5. Configured(N1)
    BY <2>1, <2>3, <2>4 DEF Configured
  <2> QED
    BY <2>5 DEF N1
<1>2. Configured(Service!ProposedNetwork)
  <2> DEFINE N1 == Service!ProposedNetwork
  <2>1. DOMAIN N1 = Service!Keys /\ OspfStands(N1) /\ N1[<<"core", "20", "out">>] = "ncdp"
    BY ProposedStands DEF PolicyStands
  <2>2. \A v \in Service!Vids, side \in {"in", "out"} :
           <<v, side>> # <<"20", "out">> => N1[<<"core", v, side>>] = "none"
    BY ProposedStands
  <2> HIDE DEF N1
  <2>3. ASSUME NEW v \in Service!Vids, NEW side \in {"in", "out"}
        PROVE  N1[<<"core", v, side>>] \in {"none", "ncdp", "foreign"}
    BY <2>1, <2>2
  <2>4. \A p \in Service!Ports : N1[<<p[1], p[2], "area">>] # "none"
    BY <2>1 DEF OspfStands, Service!Area0
  <2>5. Configured(N1)
    BY <2>1, <2>3, <2>4 DEF Configured
  <2> QED
    BY <2>5 DEF N1
<1>3. Configured(Service!OtherNetwork)
  <2> DEFINE N1 == Service!OtherNetwork
  <2>1. DOMAIN N1 = Service!Keys
    BY DEF Service!OtherNetwork
  <2>2. \A k \in Service!Keys : k[3] \in {"in", "out"} => N1[k] = "none"
    <3>1. \A k \in Service!PortKeys : k[3] \in {"area", "type", "passive"}
      BY DEF Service!PortKeys
    <3> QED
      BY <3>1, BlankValues DEF Service!OtherNetwork
  <2>3. \A p \in Service!Ports : N1[<<p[1], p[2], "area">>] = "1"
    <3> TAKE p \in Service!Ports
    <3> DEFINE field == "area"
    <3>1. <<p[1], p[2], "area">> \in Service!PortKeys
      <4>1. field \in {"area", "type", "passive"}
        OBVIOUS
      <4> HIDE DEF field
      <4>2. <<p[1], p[2], field>> \in Service!PortKeys
        BY <4>1 DEF Service!PortKeys
      <4> QED
        BY <4>2 DEF field
    <3>2. <<p[1], p[2], "area">> \in Service!Keys
      BY PortValueKeys
    <3> QED
      BY <3>1, <3>2 DEF Service!OtherNetwork
  <2> HIDE DEF N1
  <2>4. \A v \in Service!Vids, side \in {"in", "out"} : N1[<<"core", v, side>>] = "none"
    BY <2>2, CoreKeys
  <2>5. Configured(N1)
    BY <2>1, <2>3, <2>4 DEF Configured
  <2> QED
    BY <2>5 DEF N1
<1> QED
  BY <1>1, <1>2, <1>3

LEMMA ServiceInit ==
  ASSUME Init
  PROVE  ServiceInv
<1>1. plans = [v \in Service!Verticals |-> Service!NoPlan]
  BY DEF Init, Service!Begin
<1>2. ASSUME NEW v \in Service!Verticals
      PROVE  plans[v].phase = "none" /\ PlanIsRecord(plans[v]) /\ PlanHolds(v, plans[v], net)
  <2>1. plans[v] = Service!NoPlan
    BY <1>1
  <2> QED
    BY <2>1 DEF Service!NoPlan, PlanIsRecord, PlanHolds
<1>3. ASSUME procedure = "services" PROVE Configured(net)
  <2>1. Service!Init
    BY <1>3 DEF Init
  <2> QED
    BY <2>1, InitConfigured DEF Service!Init
<1> QED
  BY <1>1, <1>2, <1>3 DEF ServiceInv

LEMMA PlanKept ==
  ASSUME NEW v \in Service!Verticals, NEW plan, NEW N, NEW M, PlanHolds(v, plan, N), Kept(v, N, M)
  PROVE  PlanHolds(v, plan, M)
  BY FitsKept, WantedKept DEF PlanHolds

LEMMA ProposeKeeps ==
  ASSUME ServiceInv, procedure = "services", NEW v \in Service!Verticals, Service!Propose(v)
  PROVE  /\ Configured(net') /\ DOMAIN plans' = Service!Verticals
         /\ \A w \in Service!Verticals : PlanIsRecord(plans'[w]) /\ PlanHolds(w, plans'[w], net')
<1>1. PICK o \in Service!Read(v, net) : \E r \in Service!Render(v, o) :
         plans' = [plans EXCEPT ![v] = [phase |-> "proposed", rendered |-> r, undisturbed |-> TRUE]]
  BY DEF Service!Propose
<1>2. PICK r \in Service!Render(v, o) :
         plans' = [plans EXCEPT ![v] = [phase |-> "proposed", rendered |-> r, undisturbed |-> TRUE]]
  BY <1>1
<1>3. net' = net /\ Configured(net) /\ DOMAIN plans = Service!Verticals
  BY DEF Service!Propose, ServiceInv
<1>4. Fits(v, r, net)
  BY <1>3, RenderFits
<1>5. plans'[v] = [phase |-> "proposed", rendered |-> r, undisturbed |-> TRUE]
  BY <1>2, <1>3
<1>6. PlanIsRecord(plans'[v]) /\ PlanHolds(v, plans'[v], net)
  BY <1>4, <1>5 DEF PlanIsRecord, PlanHolds
<1>7. ASSUME NEW w \in Service!Verticals, w # v
      PROVE  PlanIsRecord(plans'[w]) /\ PlanHolds(w, plans'[w], net)
  <2>1. plans'[w] = plans[w]
    BY <1>2, <1>3, <1>7
  <2> QED
    BY <2>1 DEF ServiceInv
<1> QED
  BY <1>2, <1>3, <1>6, <1>7

LEMMA ApplyKeeps ==
  ASSUME ServiceInv, procedure = "services", NEW v \in Service!Verticals, Service!Apply(v)
  PROVE  /\ Configured(net') /\ DOMAIN plans' = Service!Verticals
         /\ \A w \in Service!Verticals : PlanIsRecord(plans'[w]) /\ PlanHolds(w, plans'[w], net')
<1> DEFINE C == Service!Changed(v, plans[v].rendered)
<1>1. /\ net' = C /\ plans[v].phase = "proposed"
      /\ plans' = [plans EXCEPT ![v].phase = "applied"]
  BY DEF Service!Apply
<1>2. Configured(net) /\ DOMAIN net = Service!Keys /\ DOMAIN plans = Service!Verticals
  BY DEF ServiceInv, Configured
<1>3. Configured(C)
  BY <1>2, ChangedConfigured
<1>4. PlanIsRecord(plans[v]) /\ PlanHolds(v, plans[v], net)
  BY DEF ServiceInv
<1>5. plans'[v] = [phase |-> "applied", rendered |-> plans[v].rendered, undisturbed |-> plans[v].undisturbed]
  BY <1>1, <1>2, <1>4 DEF PlanIsRecord
<1>6. PlanIsRecord(plans'[v])
  BY <1>5 DEF PlanIsRecord
<1>7. PlanHolds(v, plans'[v], C)
  <2>1. ASSUME plans[v].undisturbed PROVE \A k \in Service!Envelope(v) : Wanted(C, k)
    <3>1. Fits(v, plans[v].rendered, net)
      BY <1>1, <1>4, <2>1 DEF PlanHolds
    <3> QED
      BY <1>2, <3>1, ChangedWanted
  <2> HIDE DEF C
  <2> QED
    BY <1>5, <2>1 DEF PlanHolds
<1>8. ASSUME NEW w \in Service!Verticals, w # v
      PROVE  PlanIsRecord(plans'[w]) /\ PlanHolds(w, plans'[w], C)
  <2>1. plans'[w] = plans[w] /\ PlanIsRecord(plans[w]) /\ PlanHolds(w, plans[w], net)
    BY <1>1, <1>2, <1>8 DEF ServiceInv
  <2>2. Kept(w, net, C)
    BY <1>2, <1>8, ChangedKeeps
  <2> HIDE DEF C
  <2>3. PlanHolds(w, plans[w], C)
    BY <2>1, <2>2, PlanKept
  <2> QED
    BY <2>1, <2>3
<1> HIDE DEF C
<1> QED
  BY <1>1, <1>2, <1>3, <1>6, <1>7, <1>8

LEMMA DriftKeeps ==
  ASSUME ServiceInv, procedure = "services", Service!Drift
  PROVE  /\ Configured(net') /\ DOMAIN plans' = Service!Verticals
         /\ \A w \in Service!Verticals : PlanIsRecord(plans'[w]) /\ PlanHolds(w, plans'[w], net')
<1>1. PICK k \in Service!Keys : \E value \in Service!Values(k) \ {net[k]} :
         /\ net' = Service!Settle([net EXCEPT ![k] = value])
         /\ plans' = [v \in Service!Verticals |->
               [plans[v] EXCEPT !.undisturbed = @ /\ (plans[v].phase = "none" \/ ~Service!Disturbed(v))]]
  BY DEF Service!Drift
<1>2. PICK value \in Service!Values(k) : net' = Service!Settle([net EXCEPT ![k] = value])
  BY <1>1
<1>3. /\ DOMAIN plans' = Service!Verticals
      /\ \A v \in Service!Verticals : plans'[v] =
            [plans[v] EXCEPT !.undisturbed = @ /\ (plans[v].phase = "none" \/ ~Service!Disturbed(v))]
  BY <1>1
<1>4. Configured(net')
  BY <1>2, SettleConfigured DEF ServiceInv
<1>5. ASSUME NEW w \in Service!Verticals
      PROVE  PlanIsRecord(plans'[w]) /\ PlanHolds(w, plans'[w], net')
  <2>1. PlanIsRecord(plans[w]) /\ PlanHolds(w, plans[w], net)
    BY DEF ServiceInv
  <2> DEFINE left == plans[w].undisturbed /\ (plans[w].phase = "none" \/ ~Service!Disturbed(w))
  <2>2. plans'[w] = [phase |-> plans[w].phase, rendered |-> plans[w].rendered, undisturbed |-> left]
    BY <1>3, <2>1 DEF PlanIsRecord
  <2> HIDE DEF left
  <2>3. PlanIsRecord(plans'[w])
    BY <2>2 DEF PlanIsRecord
  <2>4. /\ plans'[w].phase = plans[w].phase /\ plans'[w].rendered = plans[w].rendered
        /\ plans'[w].undisturbed = left
    BY <2>2
  <2>5. ASSUME plans'[w].undisturbed, plans[w].phase # "none"
        PROVE  PlanHolds(w, plans[w], net') /\ plans[w].undisturbed
    <3>1. left
      BY <2>4, <2>5, Zenon
    <3>2. plans[w].undisturbed /\ ~Service!Disturbed(w)
      BY <2>5, <3>1, Zenon DEF left
    <3>3. Kept(w, net, net')
      BY <3>2 DEF Kept, Service!Disturbed
    <3> QED
      BY <2>1, <3>2, <3>3, PlanKept
  <2>6. PlanHolds(w, plans'[w], net')
    BY <2>4, <2>5 DEF PlanHolds
  <2> QED
    BY <2>3, <2>6
<1> QED
  BY <1>3, <1>4, <1>5

LEMMA ServiceStep ==
  ASSUME ServiceInv, [Next]_vars
  PROVE  ServiceInv'
<1>1. procedure' = procedure
  BY DEF Next, vars
<1>2. CASE UNCHANGED <<net, plans>>
  BY <1>1, <1>2 DEF ServiceInv
<1>3. CASE procedure # "services"
  <2>1. plans' = plans
    BY <1>3 DEF Next, vars, services
  <2> QED
    BY <1>1, <1>3, <2>1 DEF ServiceInv
<1>4. CASE procedure = "services" /\ Service!Next
  <2>1. CASE \E v \in Service!Verticals : Service!Propose(v)
    BY <1>1, <1>4, <2>1, ProposeKeeps DEF ServiceInv
  <2>2. CASE \E v \in Service!Verticals : Service!Apply(v)
    BY <1>1, <1>4, <2>2, ApplyKeeps DEF ServiceInv
  <2>3. CASE Service!Drift
    BY <1>1, <1>4, <2>3, DriftKeeps DEF ServiceInv
  <2>4. CASE \E v \in Service!Verticals : Service!Assure(v)
    BY <1>2, <2>4 DEF Service!Assure
  <2> QED
    BY <1>4, <2>1, <2>2, <2>3, <2>4 DEF Service!Next
<1> QED
  BY <1>2, <1>3, <1>4 DEF Next, vars, services

\* The lines a proposal holds (the four render functions) fit the network until
\* somebody enters them, and afterwards every element the vertical owns is as D1
\* wants it, until one of those elements is edited.
THEOREM ServiceInvariant == Spec => []ServiceInv
<1>1. Init => ServiceInv
  BY ServiceInit
<1>2. ServiceInv /\ [Next]_vars => ServiceInv'
  BY ServiceStep
<1> QED
  BY <1>1, <1>2, PTL DEF Spec

\* The lines rendered for whatever was read (render_routed_underlay_changes,
\* render_ospf_triangle_changes, render_vlan_service_changes and
\* render_security_policy_changes), once somebody entered them, leave every
\* element the vertical owns as D1 has it, also after the lines of other verticals
\* and any number of edits of what the vertical does not own; and where a reader
\* but the VLAN's still understands the device, the comparison after the write
\* does not fail.
THEOREM Renderings == Spec => []RenderConverges
<1>1. ServiceInv => RenderConverges
  <2> SUFFICES ASSUME ServiceInv, NEW v \in Service!Verticals,
                      plans[v].phase = "applied", plans[v].undisturbed
               PROVE  /\ \A k \in Service!Envelope(v) : Service!AsProposed(k)
                      /\ v # "vlan" => Service!ComparePostwrite(Service!Managed(v, net), Service!Proposed(v))
                                         # "post_validation_failed"
    BY DEF RenderConverges, Service!RenderConverges
  <2>1. \A k \in Service!Envelope(v) : Wanted(net, k)
    BY DEF ServiceInv, PlanHolds
  <2>2. \A k \in Service!Envelope(v) : Service!AsProposed(k)
    BY <2>1 DEF Wanted, Service!AsProposed
  <2> QED
    BY <2>1, <2>2, WantedConverges
<1> QED
  BY <1>1, ServiceInvariant, PTL

\* A network whose VLAN elements are those of D1 and which tags both VLANs on
\* every port lets each host reach its gateway.
LEMMA VlanWantedReaches ==
  ASSUME NEW N, \A k \in Service!VlanEnvelope : Wanted(N, k),
         \A t \in Service!SwitchPorts : N[<<"access", t, "native">>] \notin Service!Vids
  PROVE  \A v \in Service!Vids : Service!ReachesGateway(N, v)
<1> DEFINE P == Service!ProposedNetwork
<1>1. VlanStands(P)
  BY ProposedStands
<1>2. ASSUME NEW k \in Service!VlanEnvelope, ~Service!Unused(k) PROVE N[k] = P[k]
  BY <1>2, EnvelopeParts DEF Wanted
<1> HIDE DEF P
<1>3. /\ N[<<"core", "parent", "addresses">>] = P[<<"core", "parent", "addresses">>]
      /\ N[<<"core", "parent", "shut">>] = P[<<"core", "parent", "shut">>]
  BY <1>2, VlanInEnvelope DEF Service!Unused
<1>4. ASSUME NEW v \in Service!Vids
      PROVE  /\ N[<<"core", v, "exists">>] = P[<<"core", v, "exists">>]
             /\ N[<<"core", v, "encapsulation">>] = P[<<"core", v, "encapsulation">>]
             /\ N[<<"core", v, "addresses">>] = P[<<"core", v, "addresses">>]
             /\ N[<<"core", v, "shut">>] = P[<<"core", v, "shut">>]
             /\ N[<<"access", v, "name">>] = P[<<"access", v, "name">>]
  <2>1. \A field \in {"exists", "encapsulation", "addresses", "shut"} : N[<<"core", v, field>>] = P[<<"core", v, field>>]
    BY <1>2, VlanInEnvelope DEF Service!Unused
  <2>2. N[<<"access", v, "name">>] = P[<<"access", v, "name">>]
    BY <1>2, VlanInEnvelope DEF Service!Unused
  <2> QED
    BY <2>1, <2>2
<1>5. ASSUME NEW t \in Service!SwitchPorts, NEW field \in {"mode", "allowed", "access", "shut"},
             ~Service!Unused(<<"access", t, field>>)
      PROVE  N[<<"access", t, field>>] = P[<<"access", t, field>>]
  BY <1>2, <1>5, VlanInEnvelope
<1>6. ASSUME NEW t \in Service!SwitchPorts
      PROVE  N[<<"access", t, "shut">>] = P[<<"access", t, "shut">>]
  BY <1>5 DEF Service!Unused
<1>7. ASSUME NEW v \in Service!Vids
      PROVE  /\ N[<<"access", Service!HostPort(v), "mode">>] = P[<<"access", Service!HostPort(v), "mode">>]
             /\ N[<<"access", Service!HostPort(v), "access">>] = P[<<"access", Service!HostPort(v), "access">>]
  <2>1. Service!HostPort(v) \in Service!SwitchPorts /\ Service!HostPort(v) # "trunk"
    BY DEF Service!HostPort, Service!SwitchPorts
  <2> QED
    BY <1>5, <2>1 DEF Service!Unused
<1>8. /\ N[<<"access", "trunk", "mode">>] = P[<<"access", "trunk", "mode">>]
      /\ N[<<"access", "trunk", "allowed">>] = P[<<"access", "trunk", "allowed">>]
  <2>1. "trunk" \in Service!SwitchPorts
    BY DEF Service!SwitchPorts
  <2> QED
    BY <1>5, <2>1 DEF Service!Unused
<1>9. VlanStands(N)
  <2>1. N[<<"core", "parent", "addresses">>] = {} /\ N[<<"core", "parent", "shut">>] = FALSE
    BY <1>1, <1>3 DEF VlanStands
  <2>2. ASSUME NEW v \in Service!Vids
        PROVE  /\ N[<<"core", v, "exists">>] = TRUE /\ N[<<"core", v, "shut">>] = FALSE
               /\ N[<<"core", v, "encapsulation">>] = v
               /\ N[<<"core", v, "addresses">>] = {Service!Gateway(v)}
               /\ N[<<"access", v, "name">>] = Service!VlanName(v)
    <3>1. /\ P[<<"core", v, "exists">>] = TRUE /\ P[<<"core", v, "shut">>] = FALSE
          /\ P[<<"core", v, "encapsulation">>] = v
          /\ P[<<"core", v, "addresses">>] = {Service!Gateway(v)}
          /\ P[<<"access", v, "name">>] = Service!VlanName(v)
      BY <1>1 DEF VlanStands
    <3> QED
      BY <1>4, <3>1, Zenon
  <2>3. ASSUME NEW v \in Service!Vids
        PROVE  /\ N[<<"access", Service!HostPort(v), "mode">>] = "access"
               /\ N[<<"access", Service!HostPort(v), "access">>] = v
    BY <1>1, <1>7 DEF VlanStands
  <2>4. \A t \in Service!SwitchPorts : N[<<"access", t, "shut">>] = FALSE
    BY <1>1, <1>6 DEF VlanStands
  <2>5. N[<<"access", "trunk", "mode">>] = "trunk" /\ N[<<"access", "trunk", "allowed">>] = Service!Vids
    BY <1>1, <1>8 DEF VlanStands
  <2> QED
    BY <2>1, <2>2, <2>3, <2>4, <2>5 DEF VlanStands
<1>10. \A v \in Service!Vids : N[<<"access", "trunk", "native">>] # v
  BY DEF Service!SwitchPorts
<1> QED
  BY <1>9, <1>10, VlanReaches

\* What the policy's reader reports when it reports D1.
LEMMA AclReadsDesired ==
  ASSUME NEW N, Configured(N), Service!Managed("acl", N) = {Service!Proposed("acl")}
  PROVE  Guarded(N) /\ OthersOpen(N)
<1>1. PICK o \in Service!Read("acl", N) : Service!Proposed("acl") \in Service!Project("acl", o)
  BY DEF Service!Managed
<1>2. o.present = TRUE /\ o.rules = Service!AclRules
  <2>1. Service!Proposed("acl") = Service!Snapshot("acl", Service!AclPayload(o))
    BY <1>1 DEF Service!Project
  <2>2. Service!AclPayload(o) = Service!AclPayload(Service!AclDesired)
    BY <2>1 DEF Service!Proposed, Service!AclProposed, Service!Snapshot
  <2>3. /\ Service!AclPayload(o).present = o.present /\ Service!AclPayload(o).rules = o.rules
        /\ Service!AclPayload(Service!AclDesired).present = TRUE
        /\ Service!AclPayload(Service!AclDesired).rules = Service!AclRules
    BY DEF Service!AclPayload, Service!AclDesired, Service!AclIntent
  <2> QED
    BY <2>2, <2>3
<1>3. PICK rules \in {<<>>, Service!AclRules} :
         N[<<"core", "acl", "rules">>] = rules /\ o \in Service!AclAs(N, rules)
  BY DEF Service!Read, Service!AclRead, Service!AclIntent
<1> DEFINE attached == Service!AttachedTo(N, {"ncdp", "foreign"})
<1>4. /\ o = [present |-> rules # <<>>, rules |-> rules, attached |-> attached]
      /\ Service!AbsentOrExact(o, {N[<<"core", x[1], x[2]>>] : x \in attached})
  BY <1>3 DEF Service!AclAs, Service!AclObserved
<1>5. rules = Service!AclRules
  BY <1>2, <1>4
<1>6. attached = {<<"20", "out">>} /\ {N[<<"core", x[1], x[2]>>] : x \in attached} = {"ncdp"}
  <2> DEFINE lists == {N[<<"core", x[1], x[2]>>] : x \in attached}
  <2>1. o.attached = attached
    BY <1>4
  <2> HIDE DEF lists, attached
  <2> QED
    BY <1>2, <1>4, <2>1 DEF Service!AbsentOrExact, Service!AclObserved, lists
<1>7. N[<<"core", "20", "out">>] = "ncdp"
  <2> DEFINE y == <<"20", "out">>
  <2>1. y \in attached /\ y[1] = "20" /\ y[2] = "out"
    BY <1>6
  <2> HIDE DEF y, attached
  <2>2. N[<<"core", y[1], y[2]>>] \in {N[<<"core", x[1], x[2]>>] : x \in attached}
    BY <2>1
  <2> QED
    BY <1>6, <2>1, <2>2
<1>8. ASSUME NEW v \in Service!Vids, NEW side \in {"in", "out"}, <<v, side>> # <<"20", "out">>
      PROVE  N[<<"core", v, side>>] = "none"
  <2>1. <<v, side>> \notin attached
    BY <1>6, <1>8
  <2>2. N[<<"core", v, side>>] \notin {"ncdp", "foreign"}
    BY <2>1 DEF Service!AttachedTo, Service!Sides
  <2> QED
    BY <2>2 DEF Configured
<1> QED
  BY <1>3, <1>5, <1>7, <1>8 DEF Guarded, OthersOpen, Service!Vids

\* When the policy's reader (parse_acl_observation) reports D1, no forbidden flow
\* reaches the servers, whatever else was edited and however often; and when the
\* VLAN elements are those of D1 and neither VLAN is native on a switch port,
\* every flow the policy permits gets through.
THEOREM Protections == Spec => []ProtectedAsRead
<1>1. ServiceInv => ProtectedAsRead
  <2> SUFFICES ASSUME ServiceInv, procedure = "services",
                      Service!Managed("acl", net) = {Service!Proposed("acl")}
               PROVE  /\ Service!Protected(net)
                      /\ (\A k \in Service!VlanEnvelope : Service!AsProposed(k))
                            /\ (\A t \in Service!SwitchPorts : net[<<"access", t, "native">>] \notin Service!Vids)
                            => Service!Preserved(net)
    BY DEF ProtectedAsRead, Service!ProtectedAsRead
  <2>1. Configured(net)
    BY DEF ServiceInv
  <2>2. Guarded(net) /\ OthersOpen(net)
    BY <2>1, AclReadsDesired
  <2>3. Service!Protected(net)
    BY <2>2, GuardProtects
  <2>4. ASSUME \A k \in Service!VlanEnvelope : Service!AsProposed(k),
               \A t \in Service!SwitchPorts : net[<<"access", t, "native">>] \notin Service!Vids
        PROVE  Service!Preserved(net)
    <3>1. \A k \in Service!VlanEnvelope : Wanted(net, k)
      BY <2>4 DEF Wanted, Service!AsProposed
    <3>2. \A v \in Service!Vids : Service!ReachesGateway(net, v)
      BY <2>4, <3>1, VlanWantedReaches
    <3> QED
      BY <2>2, <3>2, GuardPreserves
  <2> QED
    BY <2>3, <2>4
<1> QED
  BY <1>1, ServiceInvariant, PTL
=============================================================================
