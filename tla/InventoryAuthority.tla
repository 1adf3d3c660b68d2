------------------------ MODULE InventoryAuthority ------------------------
(*************************************************************************)
(* The inventory in NetBox: five migrations that establish it, each one  *)
(* transaction in NetBox's administrative shell (scripts/netbox), the    *)
(* operators who edit it, and the four read-only resolvers that admit    *)
(* what the rest of the platform works with.                             *)
(*                                                                       *)
(* A transaction that fails takes its objects back but not the primary   *)
(* keys it drew; the resolvers and the later migrations name primary     *)
(* keys.  A table is the first member of an object's key.                *)
(*************************************************************************)
EXTENDS Naturals, SequencesExt

CONSTANTS EditedKeys,      \* the objects operators edit
          MaxMishaps       \* edits, lost results, killed and refused runs together

\* Operators name an object as the migrations do: by its table, and by its own
\* name or by a device and a name.
ASSUME InventoryAssumption ==
    \A k \in EditedKeys :
        IF k[1] \in {"interface", "ip", "cable"} THEN k = <<k[1], k[2], k[3]>>
        ELSE k = <<k[1], k[2]>> /\ k[1] \in {"device", "prefix", "vlan", "slug", "permission"}

VARIABLES objects,         \* the objects that are there
          next,            \* of each numbered table, the next primary key
          reported,        \* the migrations that reported success since the last edit
          clean,           \* nothing was edited and no key was drawn in vain
          mishaps

inventory == <<objects, next, reported, clean, mishaps>>

Existing == {"core", "edge"}
Devices == Existing \union {"transit", "access"}
DeviceId == [core |-> 1, edge |-> 2, transit |-> 8, access |-> 9]

Device(d) == <<"device", d>>
Port(d, p) == <<"interface", d, p>>
IP(d, p) == <<"ip", d, p>>
Prefix(n) == <<"prefix", n>>
Vlan(v) == <<"vlan", v>>
Cable(d, e) == <<"cable", d, e>>
Slug(n) == <<"slug", n>>
ReadPermission == <<"permission", "reader">>

\* An object's link is what it refers to: a device's primary address, an
\* address's interface, a prefix's VLAN, a subinterface's parent, a cable's ends.
\* Its marks are its tags and, of a device, its role.
Object(id, value, link, marks) == [id |-> id, value |-> value, link |-> link, marks |-> marks]

With(o, key, object) == [k \in DOMAIN o \union {key} |-> IF k \in DOMAIN o THEN o[k] ELSE object]
In(o, table) == {k \in DOMAIN o : k[1] = table}
Marked(o, table, mark) == {k \in In(o, table) : mark \in o[k].marks}
Ids(o, keys) == {o[k].id : k \in keys}
Is(o, key, id) == key \in DOMAIN o /\ o[key].id = id

Before32 ==
    [k \in {Device("core"), Device("edge"), Port("core", "management"), Port("edge", "management"),
            Port("core", "transit"), Port("core", "access"), Port("edge", "transit"), IP("core", "live"),
            IP("edge", "live"), IP("core", "staging"), IP("edge", "staging"), Slug("lab")} |->
        CASE k = Device("core") -> Object(1, "active", {IP("core", "live")}, {"managed", "fleet"})
          [] k = Device("edge") -> Object(2, "active", {IP("edge", "live")}, {"managed"})
          [] k = Port("core", "management") -> Object(1, "exact", {}, {"protected"})
          [] k = Port("edge", "management") -> Object(3, "exact", {}, {"protected"})
          [] k = Port("core", "transit") -> Object(2, "exact", {}, {})
          [] k = Port("core", "access") -> Object(7, "exact", {}, {"fleet"})
          [] k = Port("edge", "transit") -> Object(4, "exact", {}, {})
          [] k = IP("core", "live") -> Object(1, "exact", {Port("core", "management")}, {})
          [] k = IP("edge", "live") -> Object(2, "exact", {Port("edge", "management")}, {})
          [] k = IP("core", "staging") -> Object(3, "exact", {Port("core", "management")}, {})
          [] k = IP("edge", "staging") -> Object(4, "exact", {Port("edge", "management")}, {})
          [] k = Slug("lab") -> Object(0, "exact", {}, {})]

FirstKeys == [device |-> 8, interface |-> 11, ip |-> 13, cable |-> 1, prefix |-> 2, vlan |-> 1]

InitInventory ==
    /\ objects = Before32 /\ next = FirstKeys
    /\ reported = {} /\ clean = TRUE /\ mishaps = 0

----------------------------------------------------------------------------
(* The steps of a migration. *)

\* A step finds its object or makes it, refuses what is otherwise, and adds its
\* marks.  No values, no links: the step does not look at them.
Step(k) ==
    [key |-> k, id |-> 0, values |-> {"exact"}, value |-> "exact", links |-> {}, link |-> {},
     needs |-> {}, bars |-> {}, adds |-> {}, makes |-> FALSE, ports |-> {}]

Make(k, link, adds) == [Step(k) EXCEPT !.links = {link}, !.link = link, !.adds = adds, !.makes = TRUE]

PortsOf(o, d) == {k[3] : k \in {k \in In(o, "interface") : k[2] = d}}

AgreesButLink(o, s) ==
    /\ s.id \in {0, o[s.key].id}
    /\ s.values = {} \/ o[s.key].value \in s.values
    /\ s.needs \subseteq o[s.key].marks
    /\ s.bars \intersect o[s.key].marks = {}
    /\ s.ports = {} \/ PortsOf(o, s.key[2]) = s.ports
Agrees(o, s) == AgreesButLink(o, s) /\ (s.links = {} \/ o[s.key].link \in s.links)

Made(keys, s) ==
    Object(IF s.key[1] \in DOMAIN keys THEN keys[s.key[1]] ELSE 0, s.value, s.link, s.adds)

\* Only a device without a primary address is given one.
Found(object, s) ==
    [object EXCEPT !.value = IF s.values = {} THEN @ ELSE s.value,
                   !.link = IF @ = {} THEN s.link ELSE @,
                   !.marks = @ \union s.adds]

\* A step of a transaction t, which also records the primary keys drawn so far.
Ensure(t, s) ==
    IF ~t.ok THEN t
    ELSE IF s.key \in DOMAIN t.objects
    THEN IF Agrees(t.objects, s) THEN [t EXCEPT !.objects[s.key] = Found(@, s)] ELSE [t EXCEPT !.ok = FALSE]
    ELSE IF ~s.makes THEN [t EXCEPT !.ok = FALSE]
    ELSE LET keys == IF s.key[1] \in DOMAIN t.next THEN [t.next EXCEPT ![s.key[1]] = @ + 1] ELSE t.next
         IN  [t EXCEPT !.objects = With(@, s.key, Made(t.next, s)), !.next = keys, !.drawn = @ \union {keys}]

\* migrate_b3_inventory: devices, management addresses, interfaces and cables.
Management(d) ==
    << Make(Port(d, "management"), {}, {"protected", "attachment"}),
       Make(IP(d, "live"), {Port(d, "management")}, {"live"}),
       Make(IP(d, "staging"), {Port(d, "management")}, {"staging"}) >>

ExistingDevice(d) ==
    LET known == [Step(Device(d)) EXCEPT !.id = DeviceId[d], !.values = {"active"}, !.value = "active",
                                         !.needs = {"managed"}, !.adds = {"role", "profiled"}]
    IN  <<known>> \o Management(d)
        \o <<[known EXCEPT !.links = {{IP(d, "live")}}, !.link = {IP(d, "live")}]>>

NewDevice(d, ports) ==
    LET planned == [Make(Device(d), {}, {"role", "profiled"}) EXCEPT
                        !.values = {"planned"}, !.value = "planned", !.links = {}, !.bars = {"managed"}]
    IN  <<planned>> \o [i \in 1..4 |-> Make(Port(d, ports[i]), {}, {})]
        \o <<[planned EXCEPT !.ports = ToSet(ports)]>> \o Management(d)
        \o <<[planned EXCEPT !.links = {{}, {IP(d, "live")}}, !.link = {IP(d, "live")}]>>

CableOf(d, e) == Make(Cable(d, e), {Port(d, e), Port(e, d)}, {})

InventorySteps ==
    <<Step(Slug("lab")), Make(Slug("inventory"), {}, {})>>
    \o ExistingDevice("core") \o ExistingDevice("edge")
    \o << Make(Port("core", "transit"), {}, {}),
          [Make(Port("core", "access"), {}, {}) EXCEPT !.needs = {"fleet"}],
          Make(Port("core", "edge"), {}, {}), Make(Port("edge", "core"), {}, {}),
          Make(Port("edge", "transit"), {}, {}) >>
    \o NewDevice("transit", <<"management", "core", "edge", "spare">>)
    \o NewDevice("access", <<"management", "core", "users", "servers">>)
    \o << CableOf("core", "edge"), CableOf("core", "transit"), CableOf("edge", "transit"),
          CableOf("core", "access") >>

ActiveOnes(o, mark) == {k \in Marked(o, "device", mark) : o[k].value = "active"}
Named(devices) == {Device(d) : d \in devices}

InventoryExact(o) ==
    /\ ActiveOnes(o, "managed") = Named(Existing)
    /\ Marked(o, "device", "profiled") = Named(Devices)
    /\ ActiveOnes(o, "profiled") = Named(Existing)

\* What the later migrations ask of the management objects.
ManagementComplete(o) ==
    /\ \A d \in Devices : DeviceId[d] \in Ids(o, In(o, "device"))
    /\ \A d \in Devices, p \in {"live", "staging"} : IP(d, p) \in DOMAIN o

DeviceKnown(o, d) == Is(o, Device(d), DeviceId[d])
Primaries(o) == UNION {o[k].link : k \in In(o, "device")}

\* migrate_b3_data_plane: VLANs, prefixes, routed addresses, the reader's permission.
RoutedEnds ==
    << <<"core", "edge", 11>>, <<"edge", "core", 12>>, <<"core", "transit", 2>>,
       <<"transit", "core", 14>>, <<"edge", "transit", 4>>, <<"transit", "edge", 15>> >>
RoutedPorts == {Port(e[1], e[2]) : e \in ToSet(RoutedEnds)}
RoutedIPs == {IP(e[1], e[2]) : e \in ToSet(RoutedEnds)}

\* A service's prefix carries its VLAN's number for a name.
Vids == {"10", "20"}
PrefixOrder == <<"parent", "core-edge", "core-transit", "edge-transit", "10", "20", "pool">>
PrefixVlan(n) == IF n \in Vids THEN {Vlan(n)} ELSE {}

RoutedEnd(e) ==
    << [Step(Device(e[1])) EXCEPT !.id = DeviceId[e[1]], !.values = {}],
       [Step(Port(e[1], e[2])) EXCEPT !.id = e[3], !.values = {}, !.adds = {"data-plane"}],
       Make(IP(e[1], e[2]), {Port(e[1], e[2])}, {"data-plane"}) >>

DataPlaneSteps ==
    <<Make(Slug("data-plane"), {}, {})>>
    \o << Make(Vlan("10"), {}, {"data-plane"}), Make(Vlan("20"), {}, {"data-plane"}) >>
    \o [i \in DOMAIN PrefixOrder |->
           Make(Prefix(PrefixOrder[i]), PrefixVlan(PrefixOrder[i]), {"data-plane"})]
    \o RoutedEnd(RoutedEnds[1]) \o RoutedEnd(RoutedEnds[2]) \o RoutedEnd(RoutedEnds[3])
    \o RoutedEnd(RoutedEnds[4]) \o RoutedEnd(RoutedEnds[5]) \o RoutedEnd(RoutedEnds[6])
    \o <<Make(ReadPermission, {}, {})>>

PrefixSpaceFree(o) == \A k \in In(o, "prefix") : k[2] \in ToSet(PrefixOrder)

DataPlaneExact(o) ==
    /\ Marked(o, "prefix", "data-plane") = {Prefix(n) : n \in ToSet(PrefixOrder)}
    /\ Marked(o, "vlan", "data-plane") = {Vlan(v) : v \in Vids}
    /\ Marked(o, "ip", "data-plane") = RoutedIPs
    /\ Marked(o, "interface", "data-plane") = RoutedPorts
    /\ Primaries(o) \intersect RoutedIPs = {}

\* migrate_b4_ospf_router_ids: three addresses that no interface has.
Speakers == <<"core", "edge", "transit">>
RouterIds == {IP(d, "router-id") : d \in ToSet(Speakers)}
DataPlaneKnown(o) == Ids(o, Marked(o, "ip", "data-plane")) = 17..22

RoutersReady(o) ==
    /\ Is(o, Prefix("pool"), 8)
    /\ ManagementComplete(o) /\ (\A d \in Devices : DeviceKnown(o, d))
    /\ Slug("data-plane") \in DOMAIN o /\ DataPlaneKnown(o)

RouterIdSteps ==
    <<Make(Slug("routing"), {}, {})>>
    \o [i \in 1..3 |-> [Make(IP(Speakers[i], "router-id"), {}, {"routing"}) EXCEPT !.bars = {"data-plane"}]]

RouterIdsExact(o) ==
    /\ Marked(o, "ip", "routing") = RouterIds
    /\ \A k \in RouterIds : o[k].link = {}
    /\ Primaries(o) \intersect RouterIds = {}

\* migrate_b4_vlan_gateways: two subinterfaces of the core and their addresses.
Gateways == {IP("core", v) : v \in Vids}
TrunkEnds == {Port("core", "access"), Port("access", "core")}
HostPorts == {Port("access", "users"), Port("access", "servers")}
ServiceId ==
    [k \in TrunkEnds \union HostPorts \union {Vlan(v) : v \in Vids} \union {Prefix(v) : v \in Vids} |->
        CASE k = Port("core", "access") -> 7    [] k = Port("access", "core") -> 18
          [] k = Port("access", "users") -> 19  [] k = Port("access", "servers") -> 20
          [] k = Vlan("10") -> 1                [] k = Vlan("20") -> 2
          [] k = Prefix("10") -> 6              [] k = Prefix("20") -> 7]

CablesAt(o, port) == {k \in In(o, "cable") : port \in o[k].link}

ServiceReady(o) ==
    /\ ManagementComplete(o) /\ DeviceKnown(o, "core") /\ DeviceKnown(o, "access")
    /\ \A k \in DOMAIN ServiceId : Is(o, k, ServiceId[k])
    /\ Is(o, Cable("core", "access"), 4)
    /\ o[Cable("core", "access")].link = TrunkEnds /\ o[Cable("core", "access")].value = "exact"
    /\ \A p \in HostPorts : CablesAt(o, p) = {}
    /\ \A v \in Vids : /\ o[Vlan(v)].value = "exact" /\ o[Prefix(v)].value = "exact"
                       /\ o[Prefix(v)].link = {Vlan(v)}
    /\ {Slug("data-plane"), Slug("routing")} \subseteq DOMAIN o
    /\ DataPlaneKnown(o) /\ Ids(o, Marked(o, "ip", "routing")) = 23..25

GatewaySteps ==
    LET gateway(k, link) == [Make(k, link, {"gateway"}) EXCEPT !.bars = {"data-plane"}]
    IN  << Make(Slug("gateway"), {}, {}),
           gateway(Port("core", "10"), {Port("core", "access")}),
           gateway(Port("core", "20"), {Port("core", "access")}),
           gateway(IP("core", "10"), {Port("core", "10")}),
           gateway(IP("core", "20"), {Port("core", "20")}) >>

GatewaysExact(o) ==
    /\ Marked(o, "interface", "gateway") = {Port("core", v) : v \in Vids}
    /\ Marked(o, "ip", "gateway") = Gateways
    /\ Primaries(o) \intersect Gateways = {}

\* activate_b3_profiled_devices: the two new devices become active together.
ManagementIP(o, d, p) ==
    /\ IP(d, p) \in DOMAIN o
    /\ o[IP(d, p)].value = "exact" /\ o[IP(d, p)].link = {Port(d, "management")}
    /\ p \in o[IP(d, p)].marks

Activable(o) ==
    \A d \in Devices \ Existing :
        /\ DeviceKnown(o, d)
        /\ {"role", "profiled"} \subseteq o[Device(d)].marks /\ "managed" \notin o[Device(d)].marks
        /\ {"attachment", "protected"} \subseteq o[Port(d, "management")].marks
        /\ ManagementIP(o, d, "live") /\ ManagementIP(o, d, "staging")
        /\ o[Device(d)].link = {IP(d, "live")}

ActivationSteps ==
    [i \in 1..2 |-> [Step(Device(<<"transit", "access">>[i])) EXCEPT
                        !.values = {"planned", "active"}, !.value = "active"]]

Migrations == <<"inventory", "activation", "data-plane", "router-ids", "gateways">>
Steps ==
    [m \in ToSet(Migrations) |->
        CASE m = "inventory" -> InventorySteps   [] m = "activation" -> ActivationSteps
          [] m = "data-plane" -> DataPlaneSteps  [] m = "router-ids" -> RouterIdSteps
          [] m = "gateways" -> GatewaySteps]

Before(m, o) ==
    CASE m = "inventory" -> TRUE        [] m = "activation" -> Activable(o)
      [] m = "data-plane" -> ManagementComplete(o) /\ PrefixSpaceFree(o)
      [] m = "router-ids" -> RoutersReady(o) [] m = "gateways" -> ServiceReady(o)
After(m, o) ==
    CASE m = "inventory" -> InventoryExact(o) [] m = "activation" -> TRUE
      [] m = "data-plane" -> DataPlaneExact(o)
      [] m = "router-ids" -> RouterIdsExact(o) [] m = "gateways" -> GatewaysExact(o)

Transaction(m, o, keys) ==
    LET after[n \in 0..Len(Steps[m])] ==
            IF n = 0 THEN [objects |-> o, next |-> keys, drawn |-> {}, ok |-> Before(m, o)]
            ELSE Ensure(after[n - 1], Steps[m][n])
    IN  after[Len(Steps[m])]
Committed(m, t) == t.ok /\ After(m, t.objects)

----------------------------------------------------------------------------
(* Actions. *)

Mishap == mishaps < MaxMishaps /\ mishaps' = mishaps + 1

\* The host sees the result of the committed transaction, or not: the run timed
\* out or its output was lost.  A transaction that is refused, or killed at any of
\* its steps, is rolled back, and the primary keys it drew are gone.
Run(m) ==
    LET t == Transaction(m, objects, next) IN
    \/ /\ Committed(m, t)
       /\ objects' = t.objects /\ next' = t.next
       /\ \/ reported' = reported \union {m} /\ UNCHANGED mishaps
          \/ Mishap /\ UNCHANGED reported
       /\ UNCHANGED clean
    \/ /\ next' \in t.drawn \ {next}
       /\ Mishap /\ clean' = FALSE
       /\ UNCHANGED <<objects, reported>>

\* What is deleted is no longer referred to; a VLAN that a prefix has cannot be.
Without(k) ==
    [j \in DOMAIN objects \ {k} |-> [objects[j] EXCEPT !.link = IF k[1] = "ip" THEN @ \ {k} ELSE @]]

Otherwise(k) ==
    {[objects[k] EXCEPT !.value = v] : v \in IF k[1] = "device" THEN {"planned", "active"} ELSE {"other"}}
    \union {[objects[k] EXCEPT !.link = l] :
               l \in CASE k[1] = "ip" -> {{}, {Port("core", "transit")}}
                       [] k[1] = "cable" -> {{Port(k[2], k[3]), Port("access", "users")}}
                       [] k[1] = "prefix" -> {{}}
                       [] k[1] = "device" -> {{IP(k[2], "staging")} \intersect DOMAIN objects}
                       [] OTHER -> {objects[k].link}}
    \union {[objects[k] EXCEPT !.marks = (@ \ {mark}) \union ({mark} \ @)] :
               mark \in CASE k[1] = "ip" -> {"live", "data-plane", "routing"}
                          [] k[1] = "prefix" -> {"data-plane"}
                          [] k[1] = "interface" -> {"attachment", "data-plane"}
                          [] k[1] = "device" -> {"managed", "profiled"}
                          [] OTHER -> {}}

Edit ==
    /\ \E k \in EditedKeys :
          \/ /\ k \in DOMAIN objects
             /\ \/ k[1] \in {"ip", "prefix", "cable", "permission"} /\ objects' = Without(k)
                \/ \E o \in Otherwise(k) : objects' = [objects EXCEPT ![k] = o]
             /\ objects' # objects
             /\ UNCHANGED next
          \/ /\ k \notin DOMAIN objects /\ k[1] \in {"prefix", "interface"}
             /\ objects' = With(objects, k, Object(next[k[1]], "exact", {}, {}))
             /\ next' = [next EXCEPT ![k[1]] = @ + 1]
    /\ Mishap /\ reported' = {} /\ clean' = FALSE

MigrateInventory == Run("inventory")
ActivateDevices == Run("activation")
MigrateDataPlane == Run("data-plane")
AllocateRouterIds == Run("router-ids")
EstablishGateways == Run("gateways")

MigrateOrEdit ==
    \/ MigrateInventory \/ ActivateDevices \/ MigrateDataPlane
    \/ AllocateRouterIds \/ EstablishGateways
    \/ Edit

----------------------------------------------------------------------------
(* The resolvers.  Prefixes and VLANs can be read with the permission alone. *)

Readable == ReadPermission \in DOMAIN objects
At(table, id) == {k \in In(objects, table) : objects[k].id = id}

\* One address of the purpose on the device, on a protected port.
OnDevice(d) == {k \in In(objects, "ip") : \E p \in objects[k].link : p[2] = d}
Purpose(d, mark) == OnDevice(d) \intersect Marked(objects, "ip", mark)
Protected(k) == "protected" \in objects[k].marks
PortsMarked(d, mark) == {k \in Marked(objects, "interface", mark) : k[2] = d}

\* The declared member of that name: its identity, role and platform.
Admitted(d) == DeviceKnown(objects, d) /\ "role" \in objects[Device(d)].marks

ProfileOf(d) ==
    LET device == objects[Device(d)] IN
    /\ Admitted(d) /\ device.value = "active"
    /\ Cardinality(PortsMarked(d, "attachment")) = 1
    /\ \A p \in PortsMarked(d, "attachment") : Protected(p)
    /\ \E live, staging \in OnDevice(d) :
          /\ Purpose(d, "live") = {live} /\ Purpose(d, "staging") = {staging}
          /\ device.link = {live} /\ staging # live
          /\ objects[live].link = objects[staging].link
          /\ \A k \in {live, staging} : /\ objects[k].value = "exact"
                                        /\ \A p \in objects[k].link : Protected(p)

ResolveProfile ==
    /\ Marked(objects, "device", "profiled") = Named(Devices)
    /\ \A d \in Devices : ProfileOf(d)

PrefixId ==
    [n \in ToSet(PrefixOrder) |->
        CASE n = "parent" -> 2        [] n = "core-edge" -> 3  [] n = "core-transit" -> 4
          [] n = "edge-transit" -> 5  [] n = "10" -> 6         [] n = "20" -> 7
          [] n = "pool" -> 8]
VlanId(v) == ServiceId[Vlan(v)]

PrefixAsAllocated(k) ==
    /\ k[2] \in DOMAIN PrefixId /\ objects[k].id = PrefixId[k[2]]
    /\ objects[k].value = "exact" /\ objects[k].link = PrefixVlan(k[2])
VlanAsAllocated(k) == objects[k].id = VlanId(k[2]) /\ objects[k].value = "exact"

\* The n-th end has the n-th of the addresses 17 to 22 and cable 1, 2 or 3.
EndAsAllocated(n) ==
    LET e == RoutedEnds[n]
        port == Port(e[1], e[2])
    IN  /\ Is(objects, port, e[3]) /\ DeviceKnown(objects, e[1])
        /\ Ids(objects, CablesAt(objects, port)) = {(n + 1) \div 2}
        /\ Is(objects, IP(e[1], e[2]), 16 + n)
        /\ objects[IP(e[1], e[2])].value = "exact" /\ objects[IP(e[1], e[2])].link = {port}

ResolveDataPlane ==
    LET population(table) == Marked(objects, table, "data-plane") IN
    /\ Readable
    /\ Cardinality(population("prefix")) = 7 /\ (\A k \in population("prefix") : PrefixAsAllocated(k))
    /\ Cardinality(population("vlan")) = 2 /\ (\A k \in population("vlan") : VlanAsAllocated(k))
    /\ population("interface") = RoutedPorts /\ population("ip") = RoutedIPs
    /\ \A n \in 1..6 : EndAsAllocated(n)

PrimaryId == [core |-> 1, edge |-> 2, transit |-> 13]
RouterId == [core |-> 23, edge |-> 24, transit |-> 25]

ResolveRoutingIdentities ==
    /\ Readable
    /\ Is(objects, Prefix("pool"), 8) /\ objects[Prefix("pool")].value = "exact"
    /\ Cardinality(Marked(objects, "ip", "routing")) = 3
    /\ \A d \in ToSet(Speakers) :
          /\ DeviceKnown(objects, d) /\ "profiled" \in objects[Device(d)].marks
          /\ Ids(objects, objects[Device(d)].link) = {PrimaryId[d]}
          /\ Is(objects, IP(d, "router-id"), RouterId[d])
          /\ LET o == objects[IP(d, "router-id")]
             IN  o.value = "exact" /\ o.link = {} /\ "routing" \in o.marks /\ "data-plane" \notin o.marks

ResolveVlanService ==
    LET tagged(table) == Marked(objects, table, "gateway") IN
    /\ Readable
    /\ Cardinality(Marked(objects, "device", "profiled")) = 4
    /\ \A k \in DOMAIN ServiceId : Is(objects, k, ServiceId[k])
    /\ \A p \in TrunkEnds : Ids(objects, CablesAt(objects, p)) = {4}
    /\ \A p \in HostPorts : CablesAt(objects, p) = {}
    /\ \A p \in TrunkEnds \union HostPorts : "gateway" \notin objects[p].marks
    /\ DeviceKnown(objects, "core") /\ DeviceKnown(objects, "access")
    /\ \A v \in Vids : /\ objects[Vlan(v)].value = "exact" /\ objects[Prefix(v)].value = "exact"
                       /\ objects[Prefix(v)].link = {Vlan(v)}
    /\ Ids(objects, tagged("interface")) = {21, 22} /\ tagged("ip") = Gateways
    /\ \A i \in 1..2 :
          LET port == Port("core", <<"10", "20">>[i])
              ip == IP("core", <<"10", "20">>[i])
          IN  /\ Is(objects, port, 20 + i) /\ Is(objects, ip, 25 + i)
              /\ objects[port].link = {Port("core", "access")} /\ objects[ip].link = {port}
              /\ objects[ip].value = "exact" /\ ip \notin Primaries(objects)
              /\ \A k \in {port, ip} : "data-plane" \notin objects[k].marks

\* The other ends of the cable at a port.
CabledPeers(port) == (UNION {objects[k].link : k \in CablesAt(objects, port)}) \ {port}

\* The resolvers of the legacy workflow: of one platform per legacy device only.
LegacyTarget(k) ==
    /\ objects[k].value = "active" /\ "managed" \in objects[k].marks
    /\ k[2] \in Existing /\ objects[k].link # {}
ResolveManaged ==
    LET selected == ActiveOnes(objects, "managed")
    IN  IF \A k \in selected : LegacyTarget(k) THEN selected ELSE {}
\* One port of each selected device, and not a protected one.
ResolveFleet ==
    LET selected == ActiveOnes(objects, "fleet") IN
    IF \A k \in selected :
          /\ LegacyTarget(k) /\ Cardinality(PortsMarked(k[2], "fleet")) = 1
          /\ \A p \in PortsMarked(k[2], "fleet") : ~Protected(p)
    THEN selected ELSE {}

Resolved(m) ==
    CASE m = "inventory" -> TRUE            [] m = "activation" -> ResolveProfile
      [] m = "data-plane" -> ResolveDataPlane
      [] m = "router-ids" -> ResolveRoutingIdentities [] m = "gateways" -> ResolveVlanService

----------------------------------------------------------------------------
(* Properties. *)

\* The inventory as the migrations leave it when each runs once, in order.
Then(t, m) == Transaction(m, t.objects, t.next)
Reference ==
    LET prior == [objects |-> Before32, next |-> FirstKeys]
    IN  Then(Then(Then(Then(Then(prior, "inventory"), "activation"), "data-plane"), "router-ids"), "gateways").objects

\* Of each migration, the objects it makes with the marks it gives them.
Makes ==
    [m \in ToSet(Migrations) |->
        [k \in {s.key : s \in {s \in ToSet(Steps[m]) : s.makes}} |->
            UNION {s.adds : s \in {s \in ToSet(Steps[m]) : s.key = k}}]]

\* What a reader relies on besides the primary key.
AsMigrated(m, k) ==
    /\ k \in DOMAIN objects
    /\ objects[k].link = Reference[k].link /\ Makes[m][k] \subseteq objects[k].marks
    /\ objects[k].value \in IF k[1] = "device" THEN {"planned", "active"} ELSE {"exact"}

ReportedIsThere == \A m \in reported : \A k \in DOMAIN Makes[m] : AsMigrated(m, k)

UntouchedResolves ==
    clean => /\ \A m \in reported : Resolved(m)
             /\ ResolveManaged = Named(Existing) /\ ResolveFleet = Named({"core"})

ResolvedIsReference ==
    \A m \in {"data-plane", "router-ids", "gateways"} :
        Resolved(m) => \A k \in DOMAIN Makes[m] \ In(Reference, "slug") :
                          objects[k].id = Reference[k].id /\ objects[k].link = Reference[k].link

CablesLeadAcross ==
    ResolveDataPlane => \A e \in ToSet(RoutedEnds) : CabledPeers(Port(e[1], e[2])) = {Port(e[2], e[1])}

ProfileIsReference ==
    ResolveProfile =>
        \A d \in Devices : /\ objects[Device(d)].id = Reference[Device(d)].id
                          /\ \A p \in {"live", "staging"} : objects[IP(d, p)].link = Reference[IP(d, p)].link

\* What a migration reported (run_operator_migration) is there until somebody
\* edits the inventory, whatever was edited, killed or refused before and whatever
\* migrates afterwards; and when nothing ever was, its resolver accepts it and the
\* legacy resolvers select what they always did.  What a resolver accepts has the
\* primary keys and relations of the reference, down to the far ends of the cables.
InventoryResolves ==
    ReportedIsThere /\ UntouchedResolves /\ ResolvedIsReference /\ CablesLeadAcross /\ ProfileIsReference
=============================================================================
