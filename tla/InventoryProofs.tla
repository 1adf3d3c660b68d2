-------------------------- MODULE InventoryProofs --------------------------
(***************************************************************************)
(* Lemmas about InventoryAuthority, for any objects that operators edit    *)
(* and any number of mishaps, which lead to its property                   *)
(* InventoryResolves.                                                      *)
(*                                                                         *)
(* The argument has two halves.  As long as nothing was edited and no      *)
(* primary key was drawn in vain, the inventory is in order (Canonical):   *)
(* a function of the set of migrations that were done, with the primary    *)
(* keys, relations and marks of the reference; so each migration that the  *)
(* code lets through comes in its turn, and each resolver accepts what was *)
(* done.  Whatever operators do, some things stay (Whole): which port an   *)
(* address of management can refer to, which ports are protected, that     *)
(* cables have primary keys apart; this is what makes the little that a    *)
(* resolver reads determine the reference.                                 *)
(*                                                                         *)
(* A migration is put together from blocks of its steps; a block says      *)
(* which keys it goes through, which it makes and which it settles.        *)
(***************************************************************************)
EXTENDS InventoryAuthority, WellFoundedInduction, FiniteSetTheorems, SequenceTheorems, TLAPS

\* A nonempty set of natural numbers has a least member: where an argument
\* goes by induction, it is about the first number that it fails for.
LEMMA LeastNumber ==
  ASSUME NEW T \in SUBSET Nat, T # {}
  PROVE  \E x \in T : \A y \in T : x <= y
<1>1. PICK x \in T : \A y \in T : <<y, x>> \notin OpToRel(<, Nat)
  BY NatLessThanWellFounded, WFMin
<1>2. \A y \in T : ~(y < x)
  BY <1>1 DEF OpToRel
<1>3. x \in Nat /\ \A y \in T : y \in Nat
  OBVIOUS
<1> QED
  BY ONLY <1>2, <1>3

-----------------------------------------------------------------------------
(***************************************************************************)
(* The reference in closed form: its names, primary keys, relations, marks. *)
(***************************************************************************)

\* What the reference names and numbers.
Tables == {"device", "interface", "ip", "cable", "prefix", "vlan"}
NewDevices == {"transit", "access"}
PortsOfNew(d) == {"management", "core"} \union IF d = "transit" THEN {"edge", "spare"} ELSE {"users", "servers"}

PortNumber(d, p) ==
    CASE d = "core" -> (CASE p = "management" -> 1 [] p = "transit" -> 2 [] p = "access" -> 7
                          [] p = "edge" -> 11 [] p = "10" -> 21 [] p = "20" -> 22)
      [] d = "edge" -> (CASE p = "management" -> 3 [] p = "core" -> 12 [] p = "transit" -> 4)
      [] d = "transit" -> (CASE p = "management" -> 13 [] p = "core" -> 14 [] p = "edge" -> 15 [] p = "spare" -> 16)
      [] d = "access" -> (CASE p = "management" -> 17 [] p = "core" -> 18 [] p = "users" -> 19 [] p = "servers" -> 20)

AddressNumber(d, p) ==
    CASE d = "core" -> (CASE p = "live" -> 1 [] p = "staging" -> 3 [] p = "edge" -> 17 [] p = "transit" -> 19
                          [] p = "router-id" -> 23 [] p = "10" -> 26 [] p = "20" -> 27)
      [] d = "edge" -> (CASE p = "live" -> 2 [] p = "staging" -> 4 [] p = "core" -> 18 [] p = "transit" -> 21
                          [] p = "router-id" -> 24)
      [] d = "transit" -> (CASE p = "live" -> 13 [] p = "staging" -> 14 [] p = "core" -> 20 [] p = "edge" -> 22
                             [] p = "router-id" -> 25)
      [] d = "access" -> (CASE p = "live" -> 15 [] p = "staging" -> 16)

CableNumber(d, e) ==
    CASE d = "core" -> (CASE e = "edge" -> 1 [] e = "transit" -> 2 [] e = "access" -> 4)
      [] d = "edge" -> 3

RefId(k) ==
    CASE k[1] = "device" -> DeviceId[k[2]]       [] k[1] = "interface" -> PortNumber(k[2], k[3])
      [] k[1] = "ip" -> AddressNumber(k[2], k[3]) [] k[1] = "cable" -> CableNumber(k[2], k[3])
      [] k[1] = "prefix" -> PrefixId[k[2]]       [] k[1] = "vlan" -> VlanId(k[2])
      [] OTHER -> 0

LinkOf(k) ==
    CASE k[1] = "device" -> {IP(k[2], "live")}
      [] k[1] = "interface" -> IF k[2] = "core" /\ k[3] \in Vids THEN {Port("core", "access")} ELSE {}
      [] k[1] = "ip" -> IF k[3] = "router-id" THEN {}
                        ELSE {Port(k[2], IF k[3] \in {"live", "staging"} THEN "management" ELSE k[3])}
      [] k[1] = "cable" -> {Port(k[2], k[3]), Port(k[3], k[2])}
      [] k[1] = "prefix" -> PrefixVlan(k[2])
      [] OTHER -> {}

\* What each migration goes through.
OldPorts ==
    {Port("core", "management"), Port("core", "transit"), Port("core", "access"),
     Port("edge", "management"), Port("edge", "transit")}
OldIPs == {IP(d, p) : d \in Existing, p \in {"live", "staging"}}
NewPorts ==
    {Port("core", "edge"), Port("edge", "core"),
     Port("transit", "management"), Port("transit", "core"), Port("transit", "edge"), Port("transit", "spare"),
     Port("access", "management"), Port("access", "core"), Port("access", "users"), Port("access", "servers")}
NewIPs == {IP(d, p) : d \in NewDevices, p \in {"live", "staging"}}
CableKeys == {Cable("core", "edge"), Cable("core", "transit"), Cable("edge", "transit"), Cable("core", "access")}
PrefixKeys == {Prefix(n) : n \in {"parent", "core-edge", "core-transit", "edge-transit", "10", "20", "pool"}}
VlanKeys == {Vlan(v) : v \in Vids}
Subinterfaces == {Port("core", v) : v \in Vids}
RoutedAt == {IP("core", "edge"), IP("edge", "core"), IP("core", "transit"), IP("transit", "core"),
             IP("edge", "transit"), IP("transit", "edge")}
RoutedOn == {Port("core", "edge"), Port("edge", "core"), Port("core", "transit"), Port("transit", "core"),
             Port("edge", "transit"), Port("transit", "edge")}
LoopbackIds == {IP("core", "router-id"), IP("edge", "router-id"), IP("transit", "router-id")}

KeysOf(m) ==
    CASE m = "inventory" -> {Slug("lab"), Slug("inventory")} \union Named(Devices) \union OldPorts \union NewPorts
                            \union OldIPs \union NewIPs \union CableKeys
      [] m = "activation" -> Named(NewDevices)
      [] m = "data-plane" -> {Slug("data-plane"), ReadPermission} \union VlanKeys \union PrefixKeys
                             \union Named(ToSet(Speakers)) \union RoutedOn \union RoutedAt
      [] m = "router-ids" -> {Slug("routing")} \union LoopbackIds
      [] m = "gateways" -> {Slug("gateway")} \union Subinterfaces \union Gateways
Known == Named(Existing) \union OldPorts \union OldIPs \union {Slug("lab")}
MadeBy(m) ==
    CASE m = "inventory" -> KeysOf(m) \ (Named(Existing) \union {Slug("lab")})
      [] m = "activation" -> {}
      [] m = "data-plane" -> KeysOf(m) \ (Named(ToSet(Speakers)) \union RoutedOn)
      [] OTHER -> KeysOf(m)
AllKeys == Known \union UNION {KeysOf(m) : m \in ToSet(Migrations)}

Adds(m, k) ==
    CASE m = "inventory" -> (CASE k[1] = "device" -> {"role", "profiled"}
                               [] k[1] = "interface" /\ k[3] = "management" -> {"protected", "attachment"}
                               [] k[1] = "ip" -> {k[3]}
                               [] OTHER -> {})
      [] m = "data-plane" -> IF k[1] \in {"vlan", "prefix", "ip", "interface"} THEN {"data-plane"} ELSE {}
      [] m = "router-ids" -> IF k[1] = "ip" THEN {"routing"} ELSE {}
      [] m = "gateways" -> IF k[1] \in {"ip", "interface"} THEN {"gateway"} ELSE {}
      [] OTHER -> {}

\* What a device is before and after a step that looks at it.
ValuesOf(m, k) ==
    IF m = "activation" THEN {"planned", "active"}
    ELSE IF k \in Named(Existing) THEN {"active"} ELSE {"planned"}
ValueOf(m, k) == IF m = "activation" \/ k \in Named(Existing) THEN "active" ELSE "planned"

-----------------------------------------------------------------------------
(***************************************************************************)
(* The steps of the five migrations.                                       *)
(***************************************************************************)

\* A step as its migration means it.
StepSound(m, s) ==
    /\ s.key \in KeysOf(m) /\ s.adds \subseteq Adds(m, s.key)
    /\ s.link \in {{}, LinkOf(s.key)} /\ s.id \in {0, RefId(s.key)}
    /\ IF s.key[1] # "device" THEN s.values \in {{}, {"exact"}} /\ s.value = "exact"
       ELSE IF m = "data-plane" THEN s.values = {}
       ELSE s.values = ValuesOf(m, s.key) /\ s.value = ValueOf(m, s.key)
    /\ s.makes => s.key \in MadeBy(m) /\ s.values # {}
    /\ s.makes /\ s.key[1] # "device" => s.link = LinkOf(s.key)
    /\ ~s.makes => s.key \notin MadeBy(m)
    /\ s.links # {} => LinkOf(s.key) \in s.links /\ (s.key \in Named(NewDevices) => {} \in s.links)
    /\ \/ s.needs = {}
       \/ s.key \in Named(Existing) /\ s.needs = {"managed"}
       \/ s.key = Port("core", "access") /\ s.needs = {"fleet"}
    /\ \/ s.bars = {}
       \/ s.key \in Named(NewDevices) /\ s.bars = {"managed"}
       \/ s.key \in MadeBy("router-ids") \union MadeBy("gateways") /\ s.bars = {"data-plane"}
    /\ s.ports # {} => s.key \in Named(NewDevices) /\ s.ports = PortsOfNew(s.key[2])

\* After it the object has all its marks and, if the migration makes it, the link
\* and the value of the reference.
Final(m, s) ==
    /\ s.adds = Adds(m, s.key)
    /\ s.key \in MadeBy(m) =>
          /\ LinkOf(s.key) \in s.links /\ s.links \subseteq {{}, LinkOf(s.key)} /\ s.link = LinkOf(s.key)
          /\ s.key[1] # "device" => s.values = {"exact"}

\* The step finds behind it its object, or what is numbered before it, and the ports it counts.
Follows(k, D) ==
    k[1] \in Tables => \/ RefId(k) <= FirstKeys[k[1]] \/ k \in D
                       \/ \E p \in D : p[1] = k[1] /\ RefId(p) + 1 = RefId(k)
Ready(s, D) == Follows(s.key, D) /\ {Port(s.key[2], p) : p \in s.ports} \subseteq D

KeysBefore(q, n) == {q[i].key : i \in 1..(n - 1)}
KeysIn(q) == {q[i].key : i \in 1..Len(q)}
MakesIn(q) == {q[i].key : i \in {j \in 1..Len(q) : q[j].makes}}
FinalsIn(m, q) == {q[i].key : i \in {j \in 1..Len(q) : Final(m, q[j])}}

\* A block of a migration that goes through the keys K when D are behind it, makes
\* those in M and settles those in F.
Block(m, q, D, K, M, F) ==
    /\ \E S : q \in Seq(S)
    /\ \A n \in 1..Len(q) : StepSound(m, q[n]) /\ Ready(q[n], D \union KeysBefore(q, n))
    /\ KeysIn(q) = K /\ MakesIn(q) = M /\ FinalsIn(m, q) = F

\* Blocks are put together from single steps.
LEMMA OneBlock ==
  ASSUME NEW m, NEW s, NEW D, StepSound(m, s), Ready(s, D)
  PROVE  Block(m, <<s>>, D, {s.key}, IF s.makes THEN {s.key} ELSE {}, IF Final(m, s) THEN {s.key} ELSE {})
<1> DEFINE q == <<s>>
<1>1. q \in Seq({s}) /\ Len(q) = 1 /\ q[1] = s /\ 1..Len(q) = {1}
  OBVIOUS
<1> HIDE DEF q
<1>2. KeysBefore(q, 1) = {}
  BY DEF KeysBefore
<1>3. \A n \in 1..Len(q) : StepSound(m, q[n]) /\ Ready(q[n], D \union KeysBefore(q, n))
  <2>1. D \union KeysBefore(q, 1) = D
    BY <1>2
  <2> QED
    BY <1>1, <2>1
<1>4. KeysIn(q) = {s.key} /\ MakesIn(q) = (IF s.makes THEN {s.key} ELSE {})
      /\ FinalsIn(m, q) = (IF Final(m, s) THEN {s.key} ELSE {})
  BY <1>1 DEF KeysIn, MakesIn, FinalsIn
<1>5. Block(m, q, D, {s.key}, IF s.makes THEN {s.key} ELSE {}, IF Final(m, s) THEN {s.key} ELSE {})
  BY <1>1, <1>3, <1>4 DEF Block
<1> QED
  BY <1>5 DEF q

LEMMA TwoBlocks ==
  ASSUME NEW m, NEW a, NEW b, NEW D, NEW K1, NEW M1, NEW F1, NEW K2, NEW M2, NEW F2,
         Block(m, a, D, K1, M1, F1), Block(m, b, D \union K1, K2, M2, F2)
  PROVE  Block(m, a \o b, D, K1 \union K2, M1 \union M2, F1 \union F2)
<1> DEFINE q == a \o b
<1>1. PICK A : a \in Seq(A)
  BY DEF Block
<1>2. PICK B : b \in Seq(B)
  BY DEF Block
<1>3. a \in Seq(A \union B) /\ b \in Seq(A \union B)
  BY <1>1, <1>2
<1>4. /\ q \in Seq(A \union B) /\ Len(q) = Len(a) + Len(b)
      /\ Len(a) \in Nat /\ Len(b) \in Nat
      /\ \A i \in 1..Len(a) + Len(b) : q[i] = IF i <= Len(a) THEN a[i] ELSE b[i - Len(a)]
  BY <1>3, ConcatProperties
<1> HIDE DEF q
<1>5. \A i \in 1..Len(a) : i \in 1..Len(q) /\ q[i] = a[i]
  BY <1>4
<1>6. ASSUME NEW i \in 1..Len(b)
      PROVE  i + Len(a) \in 1..Len(q) /\ q[i + Len(a)] = b[i]
  <2>1. i + Len(a) \in 1..Len(a) + Len(b) /\ ~(i + Len(a) <= Len(a)) /\ (i + Len(a)) - Len(a) = i
    BY <1>4
  <2> QED
    BY <1>4, <2>1
<1>7. \A i \in 1..Len(q) : \/ i \in 1..Len(a) /\ q[i] = a[i]
                           \/ i > Len(a) /\ i - Len(a) \in 1..Len(b) /\ q[i] = b[i - Len(a)]
  BY <1>4
<1>8. KeysIn(q) = KeysIn(a) \union KeysIn(b)
  <2>1. KeysIn(q) \subseteq KeysIn(a) \union KeysIn(b)
    BY <1>7 DEF KeysIn
  <2>2. KeysIn(a) \subseteq KeysIn(q)
    BY <1>5 DEF KeysIn
  <2>3. KeysIn(b) \subseteq KeysIn(q)
    BY <1>6 DEF KeysIn
  <2> QED
    BY <2>1, <2>2, <2>3
<1>9. MakesIn(q) = MakesIn(a) \union MakesIn(b)
  <2>1. MakesIn(q) \subseteq MakesIn(a) \union MakesIn(b)
    BY <1>7 DEF MakesIn
  <2>2. MakesIn(a) \subseteq MakesIn(q)
    BY <1>5 DEF MakesIn
  <2>3. MakesIn(b) \subseteq MakesIn(q)
    BY <1>6 DEF MakesIn
  <2> QED
    BY <2>1, <2>2, <2>3
<1>10. FinalsIn(m, q) = FinalsIn(m, a) \union FinalsIn(m, b)
  <2>1. FinalsIn(m, q) \subseteq FinalsIn(m, a) \union FinalsIn(m, b)
    BY <1>7 DEF FinalsIn
  <2>2. FinalsIn(m, a) \subseteq FinalsIn(m, q)
    BY <1>5 DEF FinalsIn
  <2>3. FinalsIn(m, b) \subseteq FinalsIn(m, q)
    BY <1>6 DEF FinalsIn
  <2> QED
    BY <2>1, <2>2, <2>3
<1>11. ASSUME NEW n \in 1..Len(q)
       PROVE  StepSound(m, q[n]) /\ Ready(q[n], D \union KeysBefore(q, n))
  <2>1. CASE n \in 1..Len(a) /\ q[n] = a[n]
    <3>1. KeysBefore(q, n) = KeysBefore(a, n)
      <4>1. \A i \in 1..(n - 1) : q[i] = a[i]
        BY <1>4, <1>5, <2>1
      <4> QED
        BY <4>1 DEF KeysBefore
    <3> QED
      BY <2>1, <3>1 DEF Block
  <2>2. CASE n > Len(a) /\ n - Len(a) \in 1..Len(b) /\ q[n] = b[n - Len(a)]
    <3> DEFINE j == n - Len(a)
    <3>1. K1 \union KeysBefore(b, j) \subseteq KeysBefore(q, n)
      <4>1. \A i \in 1..Len(a) : i \in 1..(n - 1) /\ q[i] = a[i]
        BY <1>4, <1>5, <2>2
      <4>2. KeysIn(a) \subseteq KeysBefore(q, n)
        BY <4>1 DEF KeysBefore, KeysIn
      <4>3. \A i \in 1..(j - 1) : i + Len(a) \in 1..(n - 1) /\ q[i + Len(a)] = b[i]
        BY <1>4, <1>6, <2>2
      <4>4. KeysBefore(b, j) \subseteq KeysBefore(q, n)
        BY <4>3 DEF KeysBefore
      <4> QED
        BY <4>2, <4>4 DEF Block
    <3>2. StepSound(m, q[n]) /\ Ready(q[n], (D \union K1) \union KeysBefore(b, j))
      BY <2>2 DEF Block
    <3>3. (D \union K1) \union KeysBefore(b, j) \subseteq D \union KeysBefore(q, n)
      BY <3>1
    <3> HIDE DEF j
    <3>4. Ready(q[n], D \union KeysBefore(q, n))
      <4> DEFINE small == (D \union K1) \union KeysBefore(b, j)
                 large == D \union KeysBefore(q, n)
      <4>1. Ready(q[n], small) /\ small \subseteq large
        BY <3>2, <3>3
      <4> HIDE DEF small, large
      <4>2. Ready(q[n], large)
        BY <4>1 DEF Ready, Follows
      <4> QED
        BY <4>2 DEF large
    <3> QED
      BY <3>2, <3>4
  <2> QED
    BY <1>7, <2>1, <2>2
<1>12. Block(m, q, D, K1 \union K2, M1 \union M2, F1 \union F2)
  BY <1>4, <1>8, <1>9, <1>10, <1>11 DEF Block
<1> QED
  BY <1>12 DEF q

\* An object that is there as the reference has it, or is made so.
LEMMA MakeBlock ==
  ASSUME NEW m, NEW k \in MadeBy(m), k \in KeysOf(m), k[1] # "device", NEW D, Follows(k, D)
  PROVE  Block(m, <<Make(k, LinkOf(k), Adds(m, k))>>, D, {k}, {k}, {k})
<1>0. PICK s : s = Make(k, LinkOf(k), Adds(m, k))
  OBVIOUS
<1>1. /\ s.key = k /\ s.id = 0 /\ s.values = {"exact"} /\ s.value = "exact"
      /\ s.links = {LinkOf(k)} /\ s.link = LinkOf(k) /\ s.needs = {} /\ s.bars = {}
      /\ s.adds = Adds(m, k) /\ s.makes = TRUE /\ s.ports = {}
  BY <1>0 DEF Make, Step
<1>2. k \notin Named(NewDevices)
  BY DEF Named, Device
<1>3. StepSound(m, s)
  BY <1>1, <1>2 DEF StepSound
<1>4. Ready(s, D) /\ Final(m, s)
  BY <1>1 DEF Ready, Final
<1>5. Block(m, <<s>>, D, {k}, {k}, {k})
  <2>1. Block(m, <<s>>, D, {s.key}, IF s.makes THEN {s.key} ELSE {}, IF Final(m, s) THEN {s.key} ELSE {})
    BY <1>3, <1>4, OneBlock
  <2> QED
    BY <1>1, <1>4, <2>1
<1> QED
  BY <1>0, <1>5

\* Two, three and four at once, as the source writes them.
LEMMA PairBlock ==
  ASSUME NEW m, NEW a, NEW b, NEW D, NEW K1, NEW M1, NEW F1, NEW K2, NEW M2, NEW F2,
         Block(m, <<a>>, D, K1, M1, F1), Block(m, <<b>>, D \union K1, K2, M2, F2)
  PROVE  Block(m, <<a, b>>, D, K1 \union K2, M1 \union M2, F1 \union F2)
<1>1. <<a, b>> = <<a>> \o <<b>>
  <2> DEFINE s == <<a>>
             t == <<b>>
             q == <<a, b>>
  <2>1. /\ s \in Seq({a, b}) /\ t \in Seq({a, b}) /\ q \in Seq({a, b})
        /\ Len(s) = 1 /\ Len(t) = 1 /\ Len(q) = 2 /\ s[1] = a /\ t[1] = b /\ q[1] = a /\ q[2] = b
    OBVIOUS
  <2> HIDE DEF s, t, q
  <2>2. /\ s \o t \in Seq({a, b}) /\ Len(s \o t) = 2
        /\ (s \o t)[1] = a /\ (s \o t)[2] = b
    BY <2>1, ConcatProperties
  <2>3. q = s \o t
    BY <2>1, <2>2, SeqEqual
  <2> QED
    BY <2>3 DEF s, t, q
<1>2. Block(m, <<a>> \o <<b>>, D, K1 \union K2, M1 \union M2, F1 \union F2)
  BY TwoBlocks
<1> QED
  BY <1>1, <1>2

LEMMA TripleBlock ==
  ASSUME NEW m, NEW a, NEW b, NEW c, NEW D, NEW K1, NEW M1, NEW F1, NEW K2, NEW M2, NEW F2,
         Block(m, <<a>>, D, K1, M1, F1), Block(m, <<b, c>>, D \union K1, K2, M2, F2)
  PROVE  Block(m, <<a, b, c>>, D, K1 \union K2, M1 \union M2, F1 \union F2)
<1>1. <<a, b, c>> = <<a>> \o <<b, c>>
  OBVIOUS
<1>2. Block(m, <<a>> \o <<b, c>>, D, K1 \union K2, M1 \union M2, F1 \union F2)
  BY TwoBlocks
<1> QED
  BY <1>1, <1>2

LEMMA QuadrupleBlock ==
  ASSUME NEW m, NEW a, NEW b, NEW c, NEW d, NEW D, NEW K1, NEW M1, NEW F1, NEW K2, NEW M2, NEW F2,
         Block(m, <<a, b>>, D, K1, M1, F1), Block(m, <<c, d>>, D \union K1, K2, M2, F2)
  PROVE  Block(m, <<a, b, c, d>>, D, K1 \union K2, M1 \union M2, F1 \union F2)
<1>1. <<a, b, c, d>> = <<a, b>> \o <<c, d>>
  OBVIOUS
<1>2. Block(m, <<a, b>> \o <<c, d>>, D, K1 \union K2, M1 \union M2, F1 \union F2)
  BY TwoBlocks
<1> QED
  BY <1>1, <1>2

\* The management port of a device and its two addresses.
LEMMA ManagementBlock ==
  ASSUME NEW d \in Devices, NEW D, Follows(Port(d, "management"), D), Follows(IP(d, "live"), D),
         Follows(IP(d, "staging"), D \union {IP(d, "live")})
  PROVE  LET K == {Port(d, "management"), IP(d, "live"), IP(d, "staging")}
         IN  Block("inventory", Management(d), D, K, K, K)
<1> DEFINE port == Port(d, "management")
           live == IP(d, "live")
           staging == IP(d, "staging")
<1>1. port \in KeysOf("inventory") /\ live \in KeysOf("inventory") /\ staging \in KeysOf("inventory")
  BY DEF KeysOf, Devices, Existing, NewDevices, OldPorts, NewPorts, OldIPs, NewIPs
<1>2. \A k \in {port, live, staging} : k \in MadeBy("inventory") /\ k[1] # "device"
  BY <1>1 DEF MadeBy, Named, Device, Port, IP, Slug
<1>3. LinkOf(port) = {} /\ LinkOf(live) = {port} /\ LinkOf(staging) = {port}
  BY DEF LinkOf, Port, IP, Vids
<1>4. /\ Adds("inventory", port) = {"protected", "attachment"}
      /\ Adds("inventory", live) = {"live"} /\ Adds("inventory", staging) = {"staging"}
  BY DEF Adds, Port, IP
<1>5. Management(d) = <<Make(port, {}, {"protected", "attachment"}), Make(live, {port}, {"live"}),
                        Make(staging, {port}, {"staging"})>>
  BY DEF Management
<1>6. Follows(live, D \union {port}) /\ Follows(staging, (D \union {port}) \union {live})
  BY DEF Follows
<1> HIDE DEF port, live, staging
<1>7. Block("inventory", <<Make(port, {}, {"protected", "attachment"})>>, D, {port}, {port}, {port})
  <2>1. Follows(port, D)
    BY DEF port
  <2>2. Block("inventory", <<Make(port, LinkOf(port), Adds("inventory", port))>>, D, {port}, {port}, {port})
    BY <1>1, <1>2, <2>1, MakeBlock
  <2> QED
    BY <1>3, <1>4, <2>2
<1>8. Block("inventory", <<Make(live, {port}, {"live"})>>, D \union {port}, {live}, {live}, {live})
  <2>1. Block("inventory", <<Make(live, LinkOf(live), Adds("inventory", live))>>, D \union {port}, {live}, {live}, {live})
    BY <1>1, <1>2, <1>6, MakeBlock
  <2> QED
    BY <1>3, <1>4, <2>1
<1>9. Block("inventory", <<Make(staging, {port}, {"staging"})>>, (D \union {port}) \union {live},
            {staging}, {staging}, {staging})
  <2>1. Block("inventory", <<Make(staging, LinkOf(staging), Adds("inventory", staging))>>,
              (D \union {port}) \union {live}, {staging}, {staging}, {staging})
    BY <1>1, <1>2, <1>6, MakeBlock
  <2> QED
    BY <1>3, <1>4, <2>1
<1> DEFINE rest == {live} \union {staging}
           K == {port} \union rest
<1>10. Block("inventory", <<Make(live, {port}, {"live"}), Make(staging, {port}, {"staging"})>>, D \union {port},
             rest, rest, rest)
  BY <1>8, <1>9, PairBlock
<1>11. Block("inventory", Management(d), D, K, K, K)
  BY <1>5, <1>7, <1>10, TripleBlock
<1>12. K = {port, live, staging}
  OBVIOUS
<1> QED
  BY <1>11, <1>12 DEF port, live, staging

\* A device that was there before.
LEMMA ExistingBlock ==
  ASSUME NEW d \in Existing, NEW D
  PROVE  LET K == {Device(d), Port(d, "management"), IP(d, "live"), IP(d, "staging")}
         IN  Block("inventory", ExistingDevice(d), D, K, K \ {Device(d)}, K)
<1> DEFINE k == Device(d)
           link == {IP(d, "live")}
           T == {Port(d, "management"), IP(d, "live"), IP(d, "staging")}
<1>1. PICK known : known = [Step(k) EXCEPT !.id = DeviceId[d], !.values = {"active"}, !.value = "active",
                                           !.needs = {"managed"}, !.adds = {"role", "profiled"}]
  OBVIOUS
<1>2. PICK again : again = [known EXCEPT !.links = {link}, !.link = link]
  OBVIOUS
<1>3. /\ known.key = k /\ known.id = DeviceId[d] /\ known.values = {"active"} /\ known.value = "active"
      /\ known.links = {} /\ known.link = {} /\ known.needs = {"managed"} /\ known.bars = {}
      /\ known.adds = {"role", "profiled"} /\ known.makes = FALSE /\ known.ports = {}
  BY <1>1 DEF Step
<1>4. /\ again.key = k /\ again.id = DeviceId[d] /\ again.values = {"active"} /\ again.value = "active"
      /\ again.links = {link} /\ again.link = link /\ again.needs = {"managed"} /\ again.bars = {}
      /\ again.adds = {"role", "profiled"} /\ again.makes = FALSE /\ again.ports = {}
  BY <1>1, <1>2 DEF Step
<1>5. ExistingDevice(d) = (<<known>> \o Management(d)) \o <<again>>
  BY <1>1, <1>2, Zenon DEF ExistingDevice
<1>6. /\ k \in KeysOf("inventory") /\ k \in Named(Existing) /\ k[1] = "device" /\ k[2] = d
      /\ k \notin MadeBy("inventory") /\ k \notin Named(NewDevices)
      /\ Adds("inventory", k) = {"role", "profiled"} /\ RefId(k) = DeviceId[d] /\ LinkOf(k) = link
  BY DEF KeysOf, MadeBy, Named, Device, Devices, Existing, NewDevices, Adds, RefId, LinkOf
<1>7. ValuesOf("inventory", k) = {"active"} /\ ValueOf("inventory", k) = "active"
  BY <1>6 DEF ValuesOf, ValueOf
<1>8. /\ Follows(k, D) /\ Follows(Port(d, "management"), D)
      /\ Follows(IP(d, "live"), D) /\ Follows(IP(d, "staging"), D)
  BY DEF Follows, Device, Port, IP, Existing, RefId, PortNumber, AddressNumber, FirstKeys, DeviceId
<1> HIDE DEF k, link
<1>9. StepSound("inventory", known) /\ StepSound("inventory", again)
  BY <1>3, <1>4, <1>6, <1>7 DEF StepSound
<1>10. /\ Final("inventory", known) /\ Final("inventory", again)
       /\ Ready(known, D) /\ Ready(again, D \union ({k} \union T))
  BY <1>3, <1>4, <1>6, <1>8 DEF Final, Ready, Follows
<1>11. Block("inventory", <<known>>, D, {k}, {}, {k})
  <2>1. Block("inventory", <<known>>, D, {known.key}, IF known.makes THEN {known.key} ELSE {},
              IF Final("inventory", known) THEN {known.key} ELSE {})
    BY <1>9, <1>10, OneBlock
  <2> QED
    BY <1>3, <1>10, <2>1
<1>12. Block("inventory", Management(d), D \union {k}, T, T, T)
  <2>1. /\ Follows(Port(d, "management"), D \union {k}) /\ Follows(IP(d, "live"), D \union {k})
        /\ Follows(IP(d, "staging"), (D \union {k}) \union {IP(d, "live")})
    BY <1>8 DEF Follows
  <2> QED
    BY <2>1, ManagementBlock DEF Devices
<1>13. Block("inventory", <<again>>, D \union ({k} \union T), {k}, {}, {k})
  <2>1. Block("inventory", <<again>>, D \union ({k} \union T), {again.key},
              IF again.makes THEN {again.key} ELSE {}, IF Final("inventory", again) THEN {again.key} ELSE {})
    BY <1>9, <1>10, OneBlock
  <2> QED
    BY <1>4, <1>10, <2>1
<1>17. T = ({k} \union T) \ {k}
  BY DEF k, Device, Port, IP
<1> HIDE DEF T
<1>14. Block("inventory", <<known>> \o Management(d), D, {k} \union T, {} \union T, {k} \union T)
  BY <1>11, <1>12, TwoBlocks
<1>15. Block("inventory", (<<known>> \o Management(d)) \o <<again>>, D, ({k} \union T) \union {k},
             ({} \union T) \union {}, ({k} \union T) \union {k})
  BY <1>13, <1>14, TwoBlocks
<1>16. ({k} \union T) \union {k} = {k} \union T /\ ({} \union T) \union {} = T
  OBVIOUS
<1>18. Block("inventory", ExistingDevice(d), D, {k} \union T, ({k} \union T) \ {k}, {k} \union T)
  BY <1>5, <1>15, <1>16, <1>17
<1>19. {k} \union T = {Device(d), Port(d, "management"), IP(d, "live"), IP(d, "staging")}
  BY DEF k, T
<1> QED
  BY <1>18, <1>19 DEF k

\* A port without an address of its own.
LEMMA PlainPortBlock ==
  ASSUME NEW k \in NewPorts \union OldPorts, k[3] # "management", NEW D, Follows(k, D)
  PROVE  Block("inventory", <<Make(k, {}, {})>>, D, {k}, {k}, {k})
<1>1. k \in KeysOf("inventory") /\ k \in MadeBy("inventory") /\ k[1] = "interface"
  BY DEF KeysOf, MadeBy, NewPorts, OldPorts, Port, Named, Device, Slug
<1>2. LinkOf(k) = {} /\ Adds("inventory", k) = {}
  BY <1>1 DEF LinkOf, Adds, NewPorts, OldPorts, Port, Vids
<1>3. Block("inventory", <<Make(k, LinkOf(k), Adds("inventory", k))>>, D, {k}, {k}, {k})
  BY <1>1, MakeBlock
<1> QED
  BY <1>2, <1>3

\* A device that is new, with its four ports.
LEMMA NewBlock ==
  ASSUME NEW d \in NewDevices, NEW p, NEW r, PortsOfNew(d) = {"management", "core", p, r},
         RefId(Port(d, p)) = RefId(Port(d, "core")) + 1, RefId(Port(d, r)) = RefId(Port(d, p)) + 1,
         p # "management", r # "management", Port(d, p) \in NewPorts, Port(d, r) \in NewPorts,
         NEW D, Follows(Device(d), D), Follows(Port(d, "management"), D), Follows(IP(d, "live"), D)
  PROVE  LET K == {Device(d), IP(d, "live"), IP(d, "staging")} \union {Port(d, x) : x \in PortsOfNew(d)}
         IN  Block("inventory", NewDevice(d, <<"management", "core", p, r>>), D, K, K, K)
<1> DEFINE k == Device(d)
           link == {IP(d, "live")}
           p1 == Port(d, "management")
           p2 == Port(d, "core")
           p3 == Port(d, p)
           p4 == Port(d, r)
           live == IP(d, "live")
           staging == IP(d, "staging")
           made == Make(k, {}, {"role", "profiled"})
           q == [i \in 1..4 |-> Make(Port(d, <<"management", "core", p, r>>[i]), {}, {})]
<1>1. PICK planned : planned = [made EXCEPT !.values = {"planned"}, !.value = "planned", !.links = {},
                                            !.bars = {"managed"}]
  OBVIOUS
<1>2. PICK counted : counted = [planned EXCEPT !.ports = ToSet(<<"management", "core", p, r>>)]
  OBVIOUS
<1>3. PICK last : last = [planned EXCEPT !.links = {{}, link}, !.link = link]
  OBVIOUS
<1>4. /\ planned.key = k /\ planned.id = 0 /\ planned.values = {"planned"} /\ planned.value = "planned"
      /\ planned.links = {} /\ planned.link = {} /\ planned.needs = {} /\ planned.bars = {"managed"}
      /\ planned.adds = {"role", "profiled"} /\ planned.makes = TRUE /\ planned.ports = {}
  BY <1>1 DEF Make, Step
<1>5. /\ counted.key = k /\ counted.id = 0 /\ counted.values = {"planned"} /\ counted.value = "planned"
      /\ counted.links = {} /\ counted.link = {} /\ counted.needs = {} /\ counted.bars = {"managed"}
      /\ counted.adds = {"role", "profiled"} /\ counted.makes = TRUE /\ counted.ports = PortsOfNew(d)
  <2>1. ToSet(<<"management", "core", p, r>>) = {"management", "core", p, r}
    BY DEF ToSet
  <2> QED
    BY <1>1, <1>2, <2>1 DEF Make, Step
<1>6. /\ last.key = k /\ last.id = 0 /\ last.values = {"planned"} /\ last.value = "planned"
      /\ last.links = {{}, link} /\ last.link = link /\ last.needs = {} /\ last.bars = {"managed"}
      /\ last.adds = {"role", "profiled"} /\ last.makes = TRUE /\ last.ports = {}
  BY <1>1, <1>3 DEF Make, Step
<1>7. NewDevice(d, <<"management", "core", p, r>>)
        = (((<<planned>> \o q) \o <<counted>>) \o Management(d)) \o <<last>>
  BY <1>1, <1>2, <1>3, Zenon DEF NewDevice
<1>8. q = <<Make(p1, {}, {}), Make(p2, {}, {}), Make(p3, {}, {}), Make(p4, {}, {})>>
  OBVIOUS
<1>9. /\ k \in KeysOf("inventory") /\ k \in MadeBy("inventory") /\ k \in Named(NewDevices) /\ k[1] = "device"
      /\ k[2] = d /\ k \notin Named(Existing)
      /\ Adds("inventory", k) = {"role", "profiled"} /\ LinkOf(k) = link
  BY DEF KeysOf, MadeBy, Named, Device, Devices, Existing, NewDevices, Adds, LinkOf, Slug
<1>10. ValuesOf("inventory", k) = {"planned"} /\ ValueOf("inventory", k) = "planned"
  BY <1>9 DEF ValuesOf, ValueOf
<1>11. /\ RefId(p2) = RefId(p1) + 1 /\ RefId(staging) = RefId(live) + 1
       /\ p1[1] = "interface" /\ p2[1] = "interface" /\ p3[1] = "interface" /\ p4[1] = "interface"
       /\ live[1] = "ip" /\ staging[1] = "ip"
  BY DEF RefId, Port, IP, PortNumber, AddressNumber, NewDevices
<1>12. p1 \in NewPorts /\ p2 \in NewPorts /\ p2[3] # "management" /\ p3[3] # "management" /\ p4[3] # "management"
  BY DEF NewPorts, NewDevices, Port
<1>13. {Port(d, x) : x \in PortsOfNew(d)} = {p1, p2, p3, p4}
  OBVIOUS
<1>14. /\ p1 \in KeysOf("inventory") /\ p1 \in MadeBy("inventory") /\ p1 \notin Named(NewDevices)
       /\ LinkOf(p1) = {} /\ Adds("inventory", p1) # {}
  BY <1>12 DEF KeysOf, MadeBy, NewPorts, Port, Named, Device, Slug, LinkOf, Adds, Vids, NewDevices
<1> DEFINE D1 == D \union {k}
           D2 == D1 \union {p1}
           D3 == D2 \union {p2}
           D4 == D3 \union {p3}
           P12 == {p1} \union {p2}
           P34 == {p3} \union {p4}
           F12 == {} \union {p2}
           P == P12 \union P34
           F == F12 \union P34
           T == {p1, live, staging}
<1>15. Follows(k, D) /\ Follows(p1, D1) /\ Follows(live, D)
  BY DEF Follows
<1>151. live \in T /\ staging \in T /\ p1 \in T
  OBVIOUS
<1>152. p1 \in {p1} /\ p2 \in {p2} /\ p3 \in {p3}
  OBVIOUS
<1> HIDE DEF k, link, p1, p2, p3, p4, live, staging, q, made
<1>16. Follows(p2, D2) /\ Follows(p3, D3) /\ Follows(p4, D4)
  BY <1>11 DEF Follows, p3, p4, p2
<1>17. /\ StepSound("inventory", planned) /\ StepSound("inventory", counted) /\ StepSound("inventory", last)
  BY <1>4, <1>5, <1>6, <1>9, <1>10 DEF StepSound
<1>18. Final("inventory", last) /\ ~Final("inventory", planned) /\ ~Final("inventory", counted)
  BY <1>4, <1>5, <1>6, <1>9 DEF Final
<1>19. Block("inventory", <<planned>>, D, {k}, {k}, {})
  <2>1. Ready(planned, D)
    BY <1>4, <1>15 DEF Ready
  <2>2. Block("inventory", <<planned>>, D, {planned.key}, IF planned.makes THEN {planned.key} ELSE {},
              IF Final("inventory", planned) THEN {planned.key} ELSE {})
    BY <1>17, <2>1, OneBlock
  <2> QED
    BY <1>4, <1>18, <2>2
<1>20. Block("inventory", <<Make(p1, {}, {})>>, D1, {p1}, {p1}, {})
  <2>1. PICK s : s = Make(p1, {}, {})
    OBVIOUS
  <2>2. /\ s.key = p1 /\ s.id = 0 /\ s.values = {"exact"} /\ s.value = "exact"
        /\ s.links = {{}} /\ s.link = {} /\ s.needs = {} /\ s.bars = {}
        /\ s.adds = {} /\ s.makes = TRUE /\ s.ports = {}
    BY <2>1 DEF Make, Step
  <2>3. StepSound("inventory", s) /\ ~Final("inventory", s)
    BY <1>11, <1>14, <2>2 DEF StepSound, Final
  <2>4. Ready(s, D1)
    BY <1>15, <2>2 DEF Ready
  <2>5. Block("inventory", <<s>>, D1, {s.key}, IF s.makes THEN {s.key} ELSE {},
              IF Final("inventory", s) THEN {s.key} ELSE {})
    BY <2>3, <2>4, OneBlock
  <2> QED
    BY <2>1, <2>2, <2>3, <2>5
<1>21. /\ Block("inventory", <<Make(p2, {}, {})>>, D2, {p2}, {p2}, {p2})
       /\ Block("inventory", <<Make(p3, {}, {})>>, D3, {p3}, {p3}, {p3})
       /\ Block("inventory", <<Make(p4, {}, {})>>, D4, {p4}, {p4}, {p4})
  <2>1. p2 \in NewPorts /\ p3 \in NewPorts /\ p4 \in NewPorts
    BY <1>12 DEF p3, p4
  <2> QED
    BY <1>12, <1>16, <2>1, PlainPortBlock
<1>22. Block("inventory", <<Make(p1, {}, {}), Make(p2, {}, {})>>, D1, P12, P12, F12)
  BY <1>20, <1>21, PairBlock
<1>23. Block("inventory", <<Make(p3, {}, {}), Make(p4, {}, {})>>, D3, P34, P34, P34)
  BY <1>21, PairBlock
<1>24. D3 = D1 \union P12
  OBVIOUS
<1> HIDE DEF D3, D1, P12, P34, F12
<1>25. Block("inventory", q, D1, P, P, F)
  <2>1. Block("inventory", <<Make(p3, {}, {}), Make(p4, {}, {})>>, D1 \union P12, P34, P34, P34)
    BY <1>23, <1>24
  <2> QED
    BY <1>8, <1>22, <2>1, QuadrupleBlock
<1>26. {p1, p2, p3, p4} = P /\ {p2, p3, p4} \subseteq F /\ F \subseteq P
  BY DEF P12, P34, F12
<1> HIDE DEF P, F
<1> DEFINE C == D \union ({k} \union P)
<1>27. Block("inventory", <<planned>> \o q, D, {k} \union P, {k} \union P, {} \union F)
  <2>1. Block("inventory", q, D \union {k}, P, P, F)
    BY <1>25 DEF D1
  <2> QED
    BY <1>19, <2>1, TwoBlocks
<1>28. Block("inventory", <<counted>>, C, {k}, {k}, {})
  <2>1. Ready(counted, C)
    <3>1. {Port(counted.key[2], x) : x \in counted.ports} \subseteq C
      BY <1>5, <1>9, <1>13, <1>26
    <3>2. Follows(k, C)
      BY <1>15 DEF Follows
    <3> QED
      BY <1>5, <3>1, <3>2 DEF Ready
  <2>2. Block("inventory", <<counted>>, C, {counted.key}, IF counted.makes THEN {counted.key} ELSE {},
              IF Final("inventory", counted) THEN {counted.key} ELSE {})
    BY <1>17, <2>1, OneBlock
  <2> QED
    BY <1>5, <1>18, <2>2
<1> DEFINE K1 == ({k} \union P) \union {k}
           F1 == ({} \union F) \union {}
<1>29. Block("inventory", (<<planned>> \o q) \o <<counted>>, D, K1, K1, F1)
  BY <1>27, <1>28, TwoBlocks
<1>30. K1 = {k} \union P /\ F1 = F
  OBVIOUS
<1> HIDE DEF K1, F1
<1>31. Block("inventory", Management(d), D \union K1, T, T, T)
  <2>1. /\ Follows(p1, D \union K1) /\ Follows(live, D \union K1)
        /\ Follows(staging, (D \union K1) \union {live})
    BY <1>11, <1>15, <1>30 DEF Follows, D1
  <2>2. d \in Devices
    BY DEF Devices, NewDevices
  <2> QED
    BY <2>1, <2>2, ManagementBlock DEF p1, live, staging
<1> HIDE DEF T
<1>32. Block("inventory", ((<<planned>> \o q) \o <<counted>>) \o Management(d), D, K1 \union T, K1 \union T, F1 \union T)
  BY <1>29, <1>31, TwoBlocks
<1>33. Block("inventory", <<last>>, D \union (K1 \union T), {k}, {k}, {k})
  <2>1. Ready(last, D \union (K1 \union T))
    BY <1>6, <1>15 DEF Ready, Follows
  <2>2. Block("inventory", <<last>>, D \union (K1 \union T), {last.key}, IF last.makes THEN {last.key} ELSE {},
              IF Final("inventory", last) THEN {last.key} ELSE {})
    BY <1>17, <2>1, OneBlock
  <2> QED
    BY <1>6, <1>18, <2>2
<1> DEFINE K2 == (K1 \union T) \union {k}
           F2 == (F1 \union T) \union {k}
<1>34. Block("inventory", (((<<planned>> \o q) \o <<counted>>) \o Management(d)) \o <<last>>, D, K2, K2, F2)
  BY <1>32, <1>33, TwoBlocks
<1>35. K2 = {k, live, staging} \union {p1, p2, p3, p4}
  BY <1>26, <1>30 DEF T
<1>36. F2 = K2
  BY <1>26, <1>30, <1>151
<1> HIDE DEF K2, F2
<1>37. Block("inventory", NewDevice(d, <<"management", "core", p, r>>), D, K2, K2, K2)
  BY <1>7, <1>34, <1>36
<1>38. K2 = {Device(d), IP(d, "live"), IP(d, "staging")} \union {Port(d, x) : x \in PortsOfNew(d)}
  BY <1>13, <1>35 DEF k, live, staging
<1> QED
  BY <1>37, <1>38

LEMMA QuintupleBlock ==
  ASSUME NEW m, NEW a, NEW b, NEW c, NEW d, NEW e, NEW D, NEW K1, NEW M1, NEW F1, NEW K2, NEW M2, NEW F2,
         Block(m, <<a, b>>, D, K1, M1, F1), Block(m, <<c, d, e>>, D \union K1, K2, M2, F2)
  PROVE  Block(m, <<a, b, c, d, e>>, D, K1 \union K2, M1 \union M2, F1 \union F2)
<1>1. <<a, b, c, d, e>> = <<a, b>> \o <<c, d, e>>
  OBVIOUS
<1>2. Block(m, <<a, b>> \o <<c, d, e>>, D, K1 \union K2, M1 \union M2, F1 \union F2)
  BY TwoBlocks
<1> QED
  BY <1>1, <1>2

LEMMA CableBlock ==
  ASSUME NEW d, NEW e, Cable(d, e) \in CableKeys, NEW D, Follows(Cable(d, e), D)
  PROVE  Block("inventory", <<CableOf(d, e)>>, D, {Cable(d, e)}, {Cable(d, e)}, {Cable(d, e)})
<1> DEFINE k == Cable(d, e)
<1>1. k \in KeysOf("inventory") /\ k \in MadeBy("inventory") /\ k[1] = "cable"
  BY DEF KeysOf, MadeBy, CableKeys, Cable, Named, Device, Slug
<1>2. LinkOf(k) = {Port(d, e), Port(e, d)} /\ Adds("inventory", k) = {}
  BY DEF LinkOf, Adds, Cable
<1>3. Block("inventory", <<Make(k, LinkOf(k), Adds("inventory", k))>>, D, {k}, {k}, {k})
  BY <1>1, MakeBlock
<1> QED
  BY <1>2, <1>3 DEF CableOf

\* migrate_b3_inventory.
LEMMA InventoryBlock ==
  ASSUME NEW D
  PROVE  Block("inventory", InventorySteps, D, KeysOf("inventory"), MadeBy("inventory"), KeysOf("inventory"))
<1> DEFINE m == "inventory"
           KeysAt(d) == {Device(d), Port(d, "management"), IP(d, "live"), IP(d, "staging")}
           NewAt(d) == {Device(d), IP(d, "live"), IP(d, "staging")} \union {Port(d, x) : x \in PortsOfNew(d)}
           lab == Slug("lab")
           slug == Slug("inventory")
           a1 == Port("core", "transit")
           a2 == Port("core", "access")
           a3 == Port("core", "edge")
           a4 == Port("edge", "core")
           a5 == Port("edge", "transit")
           K1 == {lab} \union {slug}
           M1 == {} \union {slug}
           K2 == KeysAt("core")
           M2 == KeysAt("core") \ {Device("core")}
           K3 == KeysAt("edge")
           M3 == KeysAt("edge") \ {Device("edge")}
           A12 == {a1} \union {a2}
           A45 == {a4} \union {a5}
           A345 == {a3} \union A45
           K4 == A12 \union A345
           K5 == NewAt("transit")
           K6 == NewAt("access")
           C12 == {Cable("core", "edge")} \union {Cable("core", "transit")}
           C34 == {Cable("edge", "transit")} \union {Cable("core", "access")}
           K7 == C12 \union C34
           q1 == <<Step(lab), Make(slug, {}, {})>>
           q4 == <<Make(a1, {}, {}), [Make(a2, {}, {}) EXCEPT !.needs = {"fleet"}],
                   Make(a3, {}, {}), Make(a4, {}, {}), Make(a5, {}, {})>>
           q7 == <<CableOf("core", "edge"), CableOf("core", "transit"), CableOf("edge", "transit"),
                   CableOf("core", "access")>>
<1>0. InventorySteps = (((((q1 \o ExistingDevice("core")) \o ExistingDevice("edge")) \o q4)
                         \o NewDevice("transit", <<"management", "core", "edge", "spare">>))
                         \o NewDevice("access", <<"management", "core", "users", "servers">>)) \o q7
  BY Zenon DEF InventorySteps
<1>1. Block(m, q1, D, K1, M1, K1)
  <2>1. PICK s : s = Step(lab)
    OBVIOUS
  <2>2. /\ s.key = lab /\ s.id = 0 /\ s.values = {"exact"} /\ s.value = "exact" /\ s.links = {}
        /\ s.link = {} /\ s.needs = {} /\ s.bars = {} /\ s.adds = {} /\ s.makes = FALSE /\ s.ports = {}
    BY <2>1 DEF Step
  <2>3. /\ lab \in KeysOf(m) /\ lab[1] = "slug" /\ lab \notin MadeBy(m) /\ Adds(m, lab) = {}
        /\ LinkOf(lab) = {} /\ RefId(lab) = 0
    BY DEF KeysOf, MadeBy, Slug, Adds, LinkOf, RefId
  <2>4. slug \in KeysOf(m) /\ slug[1] = "slug" /\ slug \in MadeBy(m) /\ Adds(m, slug) = {} /\ LinkOf(slug) = {}
    BY DEF KeysOf, MadeBy, Slug, Adds, LinkOf, Named, Device
  <2> HIDE DEF lab, slug, m
  <2>5. StepSound(m, s) /\ Final(m, s) /\ Ready(s, D)
    BY <2>2, <2>3 DEF StepSound, Final, Ready, Follows, Tables
  <2>6. Block(m, <<s>>, D, {s.key}, IF s.makes THEN {s.key} ELSE {}, IF Final(m, s) THEN {s.key} ELSE {})
    BY <2>5, OneBlock
  <2>7. Block(m, <<Step(lab)>>, D, {lab}, {}, {lab})
    BY <2>1, <2>2, <2>5, <2>6
  <2>8. Follows(slug, D \union {lab})
    BY <2>4 DEF Follows, Tables
  <2>9. Block(m, <<Make(slug, LinkOf(slug), Adds(m, slug))>>, D \union {lab}, {slug}, {slug}, {slug})
    BY <2>4, <2>8, MakeBlock
  <2>10. Block(m, <<Make(slug, {}, {})>>, D \union {lab}, {slug}, {slug}, {slug})
    BY <2>4, <2>9
  <2> QED
    BY <2>7, <2>10, PairBlock
<1>2. Block(m, ExistingDevice("core"), D \union K1, K2, M2, K2)
  BY ExistingBlock DEF Existing
<1>3. Block(m, ExistingDevice("edge"), (D \union (K1 \union K2)), K3, M3, K3)
  BY ExistingBlock DEF Existing
<1> DEFINE D4 == D \union ((K1 \union K2) \union K3)
<1>4. Block(m, q4, D4, K4, K4, K4)
  <2>1. \A k \in {a1, a2, a3, a4, a5} : k \in NewPorts \union OldPorts /\ k[3] # "management" /\ k[1] = "interface"
    BY DEF NewPorts, OldPorts, Port
  <2>2. /\ RefId(a1) = 2 /\ RefId(a2) = 7 /\ RefId(a3) = 11 /\ RefId(a4) = 12 /\ RefId(a5) = 4
        /\ FirstKeys["interface"] = 11
    BY DEF RefId, Port, PortNumber, FirstKeys
  <2>3. PICK s : s = [Make(a2, {}, {}) EXCEPT !.needs = {"fleet"}]
    OBVIOUS
  <2>4. /\ s.key = a2 /\ s.id = 0 /\ s.values = {"exact"} /\ s.value = "exact" /\ s.links = {{}}
        /\ s.link = {} /\ s.needs = {"fleet"} /\ s.bars = {} /\ s.adds = {} /\ s.makes = TRUE /\ s.ports = {}
    BY <2>3 DEF Make, Step
  <2>5. /\ a2 \in KeysOf(m) /\ a2 \in MadeBy(m) /\ Adds(m, a2) = {} /\ LinkOf(a2) = {}
        /\ a2 \notin Named(NewDevices) /\ a2 = Port("core", "access")
    BY DEF KeysOf, MadeBy, OldPorts, Port, Named, Device, Slug, LinkOf, Adds, Vids
  <2> HIDE DEF a1, a2, a3, a4, a5, m, D4
  <2>6. /\ Follows(a1, D4) /\ Follows(a2, D4 \union {a1}) /\ Follows(a3, D4 \union A12)
        /\ Follows(a4, (D4 \union A12) \union {a3}) /\ Follows(a5, ((D4 \union A12) \union {a3}) \union {a4})
    BY <2>1, <2>2 DEF Follows
  <2>7. Block("inventory", <<Make(a1, {}, {})>>, D4, {a1}, {a1}, {a1})
    BY <2>1, <2>6, PlainPortBlock
  <2>8. Block(m, <<s>>, D4 \union {a1}, {a2}, {a2}, {a2})
    <3>1. StepSound(m, s) /\ Final(m, s) /\ Ready(s, D4 \union {a1})
      BY <2>1, <2>4, <2>5, <2>6 DEF StepSound, Final, Ready
    <3>2. Block(m, <<s>>, D4 \union {a1}, {s.key}, IF s.makes THEN {s.key} ELSE {},
                IF Final(m, s) THEN {s.key} ELSE {})
      BY <3>1, OneBlock
    <3> QED
      BY <2>4, <3>1, <3>2
  <2>9. Block("inventory", <<Make(a3, {}, {})>>, D4 \union A12, {a3}, {a3}, {a3})
    BY <2>1, <2>6, PlainPortBlock
  <2>10. Block("inventory", <<Make(a4, {}, {})>>, (D4 \union A12) \union {a3}, {a4}, {a4}, {a4})
    BY <2>1, <2>6, PlainPortBlock
  <2>11. Block("inventory", <<Make(a5, {}, {})>>, ((D4 \union A12) \union {a3}) \union {a4}, {a5}, {a5}, {a5})
    BY <2>1, <2>6, PlainPortBlock
  <2>12. Block(m, <<Make(a1, {}, {}), s>>, D4, A12, A12, A12)
    BY <2>7, <2>8, PairBlock DEF m
  <2>13. Block(m, <<Make(a4, {}, {}), Make(a5, {}, {})>>, (D4 \union A12) \union {a3}, A45, A45, A45)
    BY <2>10, <2>11, PairBlock DEF m
  <2> HIDE DEF A12, A45
  <2>14. Block(m, <<Make(a3, {}, {}), Make(a4, {}, {}), Make(a5, {}, {})>>, D4 \union A12, A345, A345, A345)
    BY <2>9, <2>13, TripleBlock DEF m
  <2> HIDE DEF A345
  <2>15. Block(m, <<Make(a1, {}, {}), s, Make(a3, {}, {}), Make(a4, {}, {}), Make(a5, {}, {})>>, D4, K4, K4, K4)
    BY <2>12, <2>14, QuintupleBlock
  <2> QED
    BY <2>3, <2>15
<1> DEFINE D5 == D \union (((K1 \union K2) \union K3) \union K4)
<1>5. Block(m, NewDevice("transit", <<"management", "core", "edge", "spare">>), D5, K5, K5, K5)
  <2>1. a4 \in D5
    OBVIOUS
  <2>2. RefId(a4) = 12 /\ a4[1] = "interface"
    BY DEF RefId, Port, PortNumber
  <2> HIDE DEF D5
  <2>3. PortsOfNew("transit") = {"management", "core", "edge", "spare"}
    BY DEF PortsOfNew
  <2>4. /\ RefId(Port("transit", "edge")) = RefId(Port("transit", "core")) + 1
        /\ RefId(Port("transit", "spare")) = RefId(Port("transit", "edge")) + 1
        /\ Port("transit", "edge") \in NewPorts /\ Port("transit", "spare") \in NewPorts
    BY DEF RefId, Port, PortNumber, NewPorts
  <2>5. Follows(Device("transit"), D5) /\ Follows(IP("transit", "live"), D5)
    BY DEF Follows, RefId, Device, IP, DeviceId, AddressNumber, FirstKeys
  <2>6. Follows(Port("transit", "management"), D5)
    BY <2>1, <2>2 DEF Follows, RefId, Port, PortNumber
  <2> QED
    BY <2>3, <2>4, <2>5, <2>6, NewBlock DEF NewDevices
<1> DEFINE D6 == D \union ((((K1 \union K2) \union K3) \union K4) \union K5)
<1>6. Block(m, NewDevice("access", <<"management", "core", "users", "servers">>), D6, K6, K6, K6)
  <2>1. Device("transit") \in D6 /\ IP("transit", "staging") \in D6
    OBVIOUS
  <2>11. Port("transit", "spare") \in D6
    BY DEF PortsOfNew
  <2> HIDE DEF D6
  <2>3. PortsOfNew("access") = {"management", "core", "users", "servers"}
    BY DEF PortsOfNew
  <2>4. /\ RefId(Port("access", "users")) = RefId(Port("access", "core")) + 1
        /\ RefId(Port("access", "servers")) = RefId(Port("access", "users")) + 1
        /\ Port("access", "users") \in NewPorts /\ Port("access", "servers") \in NewPorts
    BY DEF RefId, Port, PortNumber, NewPorts
  <2>5. Follows(Device("access"), D6)
    BY <2>1 DEF Follows, RefId, Device, DeviceId
  <2>6. Follows(IP("access", "live"), D6)
    BY <2>1 DEF Follows, RefId, IP, AddressNumber
  <2>7. Follows(Port("access", "management"), D6)
    BY <2>11 DEF Follows, RefId, Port, PortNumber
  <2> QED
    BY <2>3, <2>4, <2>5, <2>6, <2>7, NewBlock DEF NewDevices
<1> DEFINE D7 == D \union (((((K1 \union K2) \union K3) \union K4) \union K5) \union K6)
<1>7. Block(m, q7, D7, K7, K7, K7)
  <2> DEFINE c1 == Cable("core", "edge")
             c2 == Cable("core", "transit")
             c3 == Cable("edge", "transit")
             c4 == Cable("core", "access")
  <2>1. /\ RefId(c1) = 1 /\ RefId(c2) = 2 /\ RefId(c3) = 3 /\ RefId(c4) = 4 /\ FirstKeys["cable"] = 1
        /\ c1[1] = "cable" /\ c2[1] = "cable" /\ c3[1] = "cable" /\ c4[1] = "cable"
    BY DEF RefId, Cable, CableNumber, FirstKeys
  <2>2. c1 \in CableKeys /\ c2 \in CableKeys /\ c3 \in CableKeys /\ c4 \in CableKeys
    BY DEF CableKeys
  <2> HIDE DEF c1, c2, c3, c4, D7
  <2>3. /\ Follows(c1, D7) /\ Follows(c2, D7 \union {c1}) /\ Follows(c3, D7 \union C12)
        /\ Follows(c4, (D7 \union C12) \union {c3})
    BY <2>1 DEF Follows, c1, c2
  <2>4. /\ Block("inventory", <<CableOf("core", "edge")>>, D7, {c1}, {c1}, {c1})
        /\ Block("inventory", <<CableOf("core", "transit")>>, D7 \union {c1}, {c2}, {c2}, {c2})
        /\ Block("inventory", <<CableOf("edge", "transit")>>, D7 \union C12, {c3}, {c3}, {c3})
        /\ Block("inventory", <<CableOf("core", "access")>>, (D7 \union C12) \union {c3}, {c4}, {c4}, {c4})
    BY <2>2, <2>3, CableBlock DEF c1, c2, c3, c4
  <2>5. Block(m, <<CableOf("core", "edge"), CableOf("core", "transit")>>, D7, C12, C12, C12)
    BY <2>4, PairBlock DEF c1, c2
  <2>6. Block(m, <<CableOf("edge", "transit"), CableOf("core", "access")>>, D7 \union C12, C34, C34, C34)
    BY <2>4, PairBlock DEF c3, c4
  <2> HIDE DEF C12, C34
  <2> QED
    BY <2>5, <2>6, QuadrupleBlock
<1> DEFINE K == (((((K1 \union K2) \union K3) \union K4) \union K5) \union K6) \union K7
           M == (((((M1 \union M2) \union M3) \union K4) \union K5) \union K6) \union K7
<1>8. K = KeysOf("inventory")
  <2>1. K5 = {Device("transit"), IP("transit", "live"), IP("transit", "staging"), Port("transit", "management"),
              Port("transit", "core"), Port("transit", "edge"), Port("transit", "spare")}
    BY DEF PortsOfNew
  <2>2. K6 = {Device("access"), IP("access", "live"), IP("access", "staging"), Port("access", "management"),
              Port("access", "core"), Port("access", "users"), Port("access", "servers")}
    BY DEF PortsOfNew
  <2> HIDE DEF K5, K6
  <2>3. /\ Named(Devices) = {Device("core"), Device("edge"), Device("transit"), Device("access")}
        /\ OldIPs = {IP("core", "live"), IP("core", "staging"), IP("edge", "live"), IP("edge", "staging")}
        /\ NewIPs = {IP("transit", "live"), IP("transit", "staging"), IP("access", "live"), IP("access", "staging")}
    BY DEF Named, Devices, Existing, OldIPs, NewIPs, NewDevices
  <2> QED
    BY <2>1, <2>2, <2>3 DEF KeysOf, OldPorts, NewPorts, CableKeys
<1>9. M = MadeBy("inventory")
  <2>1. Named(Existing) = {Device("core"), Device("edge")}
    BY DEF Named, Existing
  <2>2. M = K \ (Named(Existing) \union {lab})
    <3>1. /\ M1 = K1 \ (Named(Existing) \union {lab})
      BY <2>1 DEF Slug, Device
    <3>2. M2 = K2 \ (Named(Existing) \union {lab}) /\ M3 = K3 \ (Named(Existing) \union {lab})
      BY <2>1 DEF Slug, Device, Port, IP
    <3>3. K4 = K4 \ (Named(Existing) \union {lab}) /\ K7 = K7 \ (Named(Existing) \union {lab})
      BY <2>1 DEF Slug, Device, Port, Cable
    <3>4. K5 = K5 \ (Named(Existing) \union {lab}) /\ K6 = K6 \ (Named(Existing) \union {lab})
      BY <2>1 DEF Slug, Device, Port, IP
    <3> HIDE DEF M1, M2, M3, K1, K2, K3, K4, K5, K6, K7, lab
    <3> QED
      BY <3>1, <3>2, <3>3, <3>4
  <2> QED
    BY <1>8, <2>2 DEF MadeBy
<1> HIDE DEF K1, M1, K2, M2, K3, M3, K4, K5, K6, K7, q1, q4, q7, m
<1>11. Block(m, q1 \o ExistingDevice("core"), D, K1 \union K2, M1 \union M2, K1 \union K2)
  BY <1>1, <1>2, TwoBlocks
<1>12. Block(m, (q1 \o ExistingDevice("core")) \o ExistingDevice("edge"), D, (K1 \union K2) \union K3,
             (M1 \union M2) \union M3, (K1 \union K2) \union K3)
  BY <1>3, <1>11, TwoBlocks
<1>13. Block(m, ((q1 \o ExistingDevice("core")) \o ExistingDevice("edge")) \o q4, D,
             ((K1 \union K2) \union K3) \union K4, ((M1 \union M2) \union M3) \union K4,
             ((K1 \union K2) \union K3) \union K4)
  BY <1>4, <1>12, TwoBlocks
<1> DEFINE K14 == ((K1 \union K2) \union K3) \union K4
           M14 == ((M1 \union M2) \union M3) \union K4
           r14 == ((q1 \o ExistingDevice("core")) \o ExistingDevice("edge")) \o q4
           r5 == NewDevice("transit", <<"management", "core", "edge", "spare">>)
           r6 == NewDevice("access", <<"management", "core", "users", "servers">>)
<1>14. Block(m, r14, D, K14, M14, K14) /\ Block(m, r5, D \union K14, K5, K5, K5)
  BY <1>5, <1>13
<1>15. Block(m, r6, D \union (K14 \union K5), K6, K6, K6) /\ Block(m, q7, D \union ((K14 \union K5) \union K6), K7, K7, K7)
  BY <1>6, <1>7
<1> HIDE DEF K14, M14, r14, r5, r6
<1>16. Block(m, r14 \o r5, D, K14 \union K5, M14 \union K5, K14 \union K5)
  BY <1>14, TwoBlocks
<1>17. Block(m, (r14 \o r5) \o r6, D, (K14 \union K5) \union K6, (M14 \union K5) \union K6, (K14 \union K5) \union K6)
  BY <1>15, <1>16, TwoBlocks
<1>18. Block(m, ((r14 \o r5) \o r6) \o q7, D, ((K14 \union K5) \union K6) \union K7, ((M14 \union K5) \union K6) \union K7,
             ((K14 \union K5) \union K6) \union K7)
  BY <1>15, <1>17, TwoBlocks
<1>19. Block("inventory", InventorySteps, D, K, M, K)
  BY <1>0, <1>18, Zenon DEF K14, M14, r14, r5, r6, m
<1> QED
  BY <1>8, <1>9, <1>19

LEMMA SeptupleBlock ==
  ASSUME NEW m, NEW a, NEW b, NEW c, NEW d, NEW e, NEW f, NEW g, NEW D,
         NEW K1, NEW M1, NEW F1, NEW K2, NEW M2, NEW F2,
         Block(m, <<a, b, c, d>>, D, K1, M1, F1), Block(m, <<e, f, g>>, D \union K1, K2, M2, F2)
  PROVE  Block(m, <<a, b, c, d, e, f, g>>, D, K1 \union K2, M1 \union M2, F1 \union F2)
<1>1. <<a, b, c, d, e, f, g>> = <<a, b, c, d>> \o <<e, f, g>>
  OBVIOUS
<1>2. Block(m, <<a, b, c, d>> \o <<e, f, g>>, D, K1 \union K2, M1 \union M2, F1 \union F2)
  BY TwoBlocks
<1> QED
  BY <1>1, <1>2

\* An end of a routed link.
LEMMA RoutedBlock ==
  ASSUME NEW d \in {"core", "edge", "transit"}, NEW p \in {"core", "edge", "transit"}, d # p,
         NEW D, Port(d, p) \in D, Follows(IP(d, p), D)
  PROVE  LET K == {Device(d)} \union ({Port(d, p)} \union {IP(d, p)})
         IN  Block("data-plane", RoutedEnd(<<d, p, RefId(Port(d, p))>>), D, K, {IP(d, p)}, K)
<1> DEFINE m == "data-plane"
           device == Device(d)
           port == Port(d, p)
           ip == IP(d, p)
           number == RefId(port)
<1>1. /\ device \in KeysOf(m) /\ port \in KeysOf(m) /\ ip \in KeysOf(m)
      /\ device \notin MadeBy(m) /\ port \notin MadeBy(m) /\ ip \in MadeBy(m)
      /\ port \notin Named(NewDevices) /\ device[1] = "device" /\ port[1] = "interface" /\ ip[1] = "ip"
  <2>1. port \in RoutedOn /\ ip \in RoutedAt
    BY DEF RoutedOn, RoutedAt
  <2>2. device \in Named(ToSet(Speakers))
    BY DEF Named, ToSet, Speakers
  <2>3. device[1] = "device" /\ port[1] = "interface" /\ ip[1] = "ip"
    BY DEF Device, Port, IP
  <2>4. port \notin Named(NewDevices) /\ ip \notin RoutedOn /\ \A x \in Named(ToSet(Speakers)) : x[1] = "device"
    BY <2>3 DEF Named, Device, RoutedOn, Port
  <2> HIDE DEF device, port, ip
  <2> QED
    BY <2>1, <2>2, <2>3, <2>4 DEF KeysOf, MadeBy
<1>2. /\ Adds(m, device) = {} /\ Adds(m, port) = {"data-plane"} /\ Adds(m, ip) = {"data-plane"}
      /\ LinkOf(ip) = {port} /\ RefId(device) = DeviceId[d]
  BY <1>1 DEF Adds, LinkOf, IP, Device, RefId
<1>3. PICK s : s = [Step(device) EXCEPT !.id = DeviceId[d], !.values = {}]
  OBVIOUS
<1>4. PICK t : t = [Step(port) EXCEPT !.id = number, !.values = {}, !.adds = {"data-plane"}]
  OBVIOUS
<1> HIDE DEF device, port, ip
<1>5. /\ s.key = device /\ s.id = DeviceId[d] /\ s.values = {} /\ s.value = "exact" /\ s.links = {}
      /\ s.link = {} /\ s.needs = {} /\ s.bars = {} /\ s.adds = {} /\ s.makes = FALSE /\ s.ports = {}
  BY <1>3 DEF Step
<1>6. /\ t.key = port /\ t.id = number /\ t.values = {} /\ t.value = "exact" /\ t.links = {}
      /\ t.link = {} /\ t.needs = {} /\ t.bars = {} /\ t.adds = {"data-plane"} /\ t.makes = FALSE /\ t.ports = {}
  BY <1>4 DEF Step
<1>7. StepSound(m, s) /\ StepSound(m, t) /\ Final(m, s) /\ Final(m, t)
  BY <1>1, <1>2, <1>5, <1>6 DEF StepSound, Final
<1>8. /\ Ready(s, D) /\ Ready(t, D \union {device})
      /\ Follows(ip, (D \union {device}) \union {port})
  <2>1. RefId(device) <= FirstKeys["device"] \/ device = Device("transit")
    BY DEF RefId, device, Device, DeviceId, FirstKeys
  <2>2. RefId(Device("transit")) = 8 /\ FirstKeys["device"] = 8
    BY DEF RefId, Device, DeviceId, FirstKeys
  <2>3. Follows(device, D)
    BY <1>1, <2>1, <2>2 DEF Follows
  <2>4. Follows(port, D \union {device}) /\ Follows(ip, D)
    BY DEF Follows, port, ip
  <2> QED
    BY <1>5, <1>6, <2>3, <2>4 DEF Ready, Follows
<1>9. Block(m, <<s>>, D, {device}, {}, {device})
  <2>1. Block(m, <<s>>, D, {s.key}, IF s.makes THEN {s.key} ELSE {}, IF Final(m, s) THEN {s.key} ELSE {})
    BY <1>7, <1>8, OneBlock
  <2> QED
    BY <1>5, <1>7, <2>1
<1>10. Block(m, <<t>>, D \union {device}, {port}, {}, {port})
  <2>1. Block(m, <<t>>, D \union {device}, {t.key}, IF t.makes THEN {t.key} ELSE {},
              IF Final(m, t) THEN {t.key} ELSE {})
    BY <1>7, <1>8, OneBlock
  <2> QED
    BY <1>6, <1>7, <2>1
<1>11. Block(m, <<Make(ip, {port}, {"data-plane"})>>, (D \union {device}) \union {port}, {ip}, {ip}, {ip})
  <2>1. Block(m, <<Make(ip, LinkOf(ip), Adds(m, ip))>>, (D \union {device}) \union {port}, {ip}, {ip}, {ip})
    BY <1>1, <1>8, MakeBlock
  <2> QED
    BY <1>2, <2>1
<1> DEFINE K2 == {port} \union {ip}
           M2 == {} \union {ip}
<1>12. Block(m, <<t, Make(ip, {port}, {"data-plane"})>>, D \union {device}, K2, M2, K2)
  BY <1>10, <1>11, PairBlock
<1> HIDE DEF K2, M2
<1>13. Block(m, <<s, t, Make(ip, {port}, {"data-plane"})>>, D, {device} \union K2, {} \union M2, {device} \union K2)
  BY <1>9, <1>12, TripleBlock
<1>14. {} \union M2 = {ip}
  BY DEF M2
<1>15. Block(m, <<s, t, Make(ip, {port}, {"data-plane"})>>, D, {device} \union K2, {ip}, {device} \union K2)
  BY <1>13, <1>14
<1>16. RoutedEnd(<<d, p, number>>) = <<s, t, Make(ip, {port}, {"data-plane"})>>
  BY <1>3, <1>4 DEF RoutedEnd, device, port, ip
<1> QED
  BY <1>15, <1>16 DEF device, port, ip, K2

LEMMA PrefixNames ==
  ToSet(PrefixOrder) = {"parent", "core-edge", "core-transit", "edge-transit", "10", "20", "pool"}
<1>1. DOMAIN PrefixOrder = 1..7
  BY DEF PrefixOrder
<1>2. /\ PrefixOrder[1] = "parent" /\ PrefixOrder[2] = "core-edge" /\ PrefixOrder[3] = "core-transit"
      /\ PrefixOrder[4] = "edge-transit" /\ PrefixOrder[5] = "10" /\ PrefixOrder[6] = "20" /\ PrefixOrder[7] = "pool"
  BY DEF PrefixOrder
<1> QED
  BY <1>1, <1>2 DEF ToSet

LEMMA ServiceNumbers ==
  /\ DOMAIN ServiceId = {Port("core", "access"), Port("access", "core"), Port("access", "users"), Port("access", "servers"),
                         Vlan("10"), Vlan("20"), Prefix("10"), Prefix("20")}
  /\ ServiceId[Port("core", "access")] = 7 /\ ServiceId[Port("access", "core")] = 18
  /\ ServiceId[Port("access", "users")] = 19 /\ ServiceId[Port("access", "servers")] = 20
  /\ ServiceId[Vlan("10")] = 1 /\ ServiceId[Vlan("20")] = 2
  /\ ServiceId[Prefix("10")] = 6 /\ ServiceId[Prefix("20")] = 7
<1>1. DOMAIN ServiceId = {Port("core", "access"), Port("access", "core"), Port("access", "users"), Port("access", "servers"),
                         Vlan("10"), Vlan("20"), Prefix("10"), Prefix("20")}
  BY DEF ServiceId, TrunkEnds, HostPorts, Vids
<1>2. /\ ServiceId[Port("core", "access")] = 7 /\ ServiceId[Port("access", "core")] = 18
      /\ ServiceId[Port("access", "users")] = 19 /\ ServiceId[Port("access", "servers")] = 20
  BY DEF ServiceId, TrunkEnds, HostPorts, Vids, Port, Vlan, Prefix
<1>3. /\ ServiceId[Vlan("10")] = 1 /\ ServiceId[Vlan("20")] = 2
      /\ ServiceId[Prefix("10")] = 6 /\ ServiceId[Prefix("20")] = 7
  BY DEF ServiceId, TrunkEnds, HostPorts, Vids, Port, Vlan, Prefix
<1> QED
  BY <1>1, <1>2, <1>3

LEMMA MarkedBlock ==
  ASSUME NEW k \in VlanKeys \union PrefixKeys, NEW D, Follows(k, D)
  PROVE  Block("data-plane", <<Make(k, LinkOf(k), {"data-plane"})>>, D, {k}, {k}, {k})
<1>1. k[1] \in {"vlan", "prefix"}
  BY DEF VlanKeys, PrefixKeys, Vlan, Prefix
<1>2. k \in KeysOf("data-plane")
  BY DEF KeysOf
<1>3. k \in MadeBy("data-plane")
  BY <1>1, <1>2 DEF MadeBy, Named, Device, RoutedOn, Port
<1>4. Adds("data-plane", k) = {"data-plane"}
  BY <1>1 DEF Adds
<1> QED
  BY <1>1, <1>2, <1>3, <1>4, MakeBlock

\* A slug of the migration, or the reader's permission.
LEMMA NameBlock ==
  ASSUME NEW m, NEW k, k \in KeysOf(m), k \in MadeBy(m), k[1] \in {"slug", "permission"}, NEW D
  PROVE  Block(m, <<Make(k, {}, {})>>, D, {k}, {k}, {k})
<1>1. LinkOf(k) = {} /\ Adds(m, k) = {}
  BY DEF LinkOf, Adds
<1>2. Follows(k, D) /\ k[1] # "device"
  BY DEF Follows, Tables
<1>3. Block(m, <<Make(k, LinkOf(k), Adds(m, k))>>, D, {k}, {k}, {k})
  BY <1>2, MakeBlock
<1> QED
  BY <1>1, <1>3

LEMMA PrefixBlock ==
  ASSUME NEW D
  PROVE  Block("data-plane", [i \in DOMAIN PrefixOrder |->
                                Make(Prefix(PrefixOrder[i]), PrefixVlan(PrefixOrder[i]), {"data-plane"})],
               D, PrefixKeys, PrefixKeys, PrefixKeys)
<1> DEFINE m == "data-plane"
           k1 == Prefix("parent")
           k2 == Prefix("core-edge")
           k3 == Prefix("core-transit")
           k4 == Prefix("edge-transit")
           k5 == Prefix("10")
           k6 == Prefix("20")
           k7 == Prefix("pool")
           made(k) == Make(k, LinkOf(k), {"data-plane"})
           q == [i \in DOMAIN PrefixOrder |->
                    Make(Prefix(PrefixOrder[i]), PrefixVlan(PrefixOrder[i]), {"data-plane"})]
<1>1. \A n \in {"parent", "core-edge", "core-transit", "edge-transit", "10", "20", "pool"} :
         LinkOf(Prefix(n)) = PrefixVlan(n)
  BY DEF LinkOf, Prefix
<1>2. q = <<made(k1), made(k2), made(k3), made(k4), made(k5), made(k6), made(k7)>>
  <2>1. DOMAIN PrefixOrder = 1..7
    BY DEF PrefixOrder
  <2>2. q = [i \in 1..7 |-> Make(Prefix(PrefixOrder[i]), PrefixVlan(PrefixOrder[i]), {"data-plane"})]
    BY <2>1
  <2>3. /\ PrefixOrder[1] = "parent" /\ PrefixOrder[2] = "core-edge" /\ PrefixOrder[3] = "core-transit"
        /\ PrefixOrder[4] = "edge-transit" /\ PrefixOrder[5] = "10" /\ PrefixOrder[6] = "20" /\ PrefixOrder[7] = "pool"
    BY DEF PrefixOrder
  <2> HIDE DEF q
  <2> QED
    BY <1>1, <2>2, <2>3
<1>3. /\ RefId(k1) = 2 /\ RefId(k2) = 3 /\ RefId(k3) = 4 /\ RefId(k4) = 5 /\ RefId(k5) = 6 /\ RefId(k6) = 7
      /\ RefId(k7) = 8 /\ FirstKeys["prefix"] = 2
  <2>1. /\ PrefixId["parent"] = 2 /\ PrefixId["core-edge"] = 3 /\ PrefixId["core-transit"] = 4
        /\ PrefixId["edge-transit"] = 5 /\ PrefixId["10"] = 6 /\ PrefixId["20"] = 7 /\ PrefixId["pool"] = 8
    BY PrefixNames DEF PrefixId
  <2> QED
    BY <2>1 DEF RefId, Prefix, FirstKeys
<1>4. \A k \in {k1, k2, k3, k4, k5, k6, k7} : k[1] = "prefix" /\ k \in VlanKeys \union PrefixKeys
  BY DEF Prefix, PrefixKeys
<1>5. {k1, k2, k3, k4, k5, k6, k7} = PrefixKeys
  BY DEF PrefixKeys
<1> HIDE DEF k1, k2, k3, k4, k5, k6, k7, q
<1> DEFINE A == {k1} \union {k2}
           B == {k3} \union {k4}
           F == {k6} \union {k7}
           X == A \union B
           Y == {k5} \union F
<1>6. /\ Follows(k1, D) /\ Follows(k2, D \union {k1}) /\ Follows(k3, D \union A)
      /\ Follows(k4, (D \union A) \union {k3}) /\ Follows(k5, D \union X)
      /\ Follows(k6, (D \union X) \union {k5}) /\ Follows(k7, ((D \union X) \union {k5}) \union {k6})
  BY <1>3, <1>4 DEF Follows
<1>7. /\ Block(m, <<made(k1)>>, D, {k1}, {k1}, {k1})
      /\ Block(m, <<made(k2)>>, D \union {k1}, {k2}, {k2}, {k2})
      /\ Block(m, <<made(k3)>>, D \union A, {k3}, {k3}, {k3})
      /\ Block(m, <<made(k4)>>, (D \union A) \union {k3}, {k4}, {k4}, {k4})
      /\ Block(m, <<made(k5)>>, D \union X, {k5}, {k5}, {k5})
      /\ Block(m, <<made(k6)>>, (D \union X) \union {k5}, {k6}, {k6}, {k6})
      /\ Block(m, <<made(k7)>>, ((D \union X) \union {k5}) \union {k6}, {k7}, {k7}, {k7})
  BY <1>4, <1>6, MarkedBlock
<1>8. {k1, k2, k3, k4, k5, k6, k7} = X \union Y
  OBVIOUS
<1> HIDE DEF made
<1>9. Block(m, <<made(k1), made(k2)>>, D, A, A, A)
  BY <1>7, PairBlock
<1>10. Block(m, <<made(k3), made(k4)>>, D \union A, B, B, B)
  BY <1>7, PairBlock
<1>11. Block(m, <<made(k6), made(k7)>>, (D \union X) \union {k5}, F, F, F)
  BY <1>7, PairBlock
<1> HIDE DEF A, B, F
<1>12. Block(m, <<made(k1), made(k2), made(k3), made(k4)>>, D, X, X, X)
  BY <1>9, <1>10, QuadrupleBlock
<1>13. Block(m, <<made(k5), made(k6), made(k7)>>, D \union X, Y, Y, Y)
  BY <1>7, <1>11, TripleBlock
<1> HIDE DEF X, Y
<1>14. Block(m, q, D, X \union Y, X \union Y, X \union Y)
  BY <1>2, <1>12, <1>13, SeptupleBlock
<1> QED
  BY <1>5, <1>8, <1>14 DEF q

\* migrate_b3_data_plane.
LEMMA DataPlaneBlock ==
  ASSUME NEW D, KeysOf("inventory") \subseteq D
  PROVE  Block("data-plane", DataPlaneSteps, D, KeysOf("data-plane"), MadeBy("data-plane"), KeysOf("data-plane"))
<1> DEFINE m == "data-plane"
           slug == Slug("data-plane")
           v1 == Vlan("10")
           v2 == Vlan("20")
           q1 == <<Make(slug, {}, {})>>
           q2 == <<Make(v1, {}, {"data-plane"}), Make(v2, {}, {"data-plane"})>>
           q3 == [i \in DOMAIN PrefixOrder |->
                     Make(Prefix(PrefixOrder[i]), PrefixVlan(PrefixOrder[i]), {"data-plane"})]
           r(n) == RoutedEnd(RoutedEnds[n])
           q10 == <<Make(ReadPermission, {}, {})>>
           EndKeys(d, p) == {Device(d)} \union ({Port(d, p)} \union {IP(d, p)})
           V == {v1} \union {v2}
           K3 == ({slug} \union V) \union PrefixKeys
           K4 == K3 \union EndKeys("core", "edge")
           K5 == K4 \union EndKeys("edge", "core")
           K6 == K5 \union EndKeys("core", "transit")
           K7 == K6 \union EndKeys("transit", "core")
           K8 == K7 \union EndKeys("edge", "transit")
           K9 == K8 \union EndKeys("transit", "edge")
           M4 == K3 \union {IP("core", "edge")}
           M5 == M4 \union {IP("edge", "core")}
           M6 == M5 \union {IP("core", "transit")}
           M7 == M6 \union {IP("transit", "core")}
           M8 == M7 \union {IP("edge", "transit")}
           M9 == M8 \union {IP("transit", "edge")}
<1>1. DataPlaneSteps = (((((((((q1 \o q2) \o q3) \o r(1)) \o r(2)) \o r(3)) \o r(4)) \o r(5)) \o r(6)) \o q10)
  BY Zenon DEF DataPlaneSteps
<1>2. /\ r(1) = RoutedEnd(<<"core", "edge", RefId(Port("core", "edge"))>>)
      /\ r(2) = RoutedEnd(<<"edge", "core", RefId(Port("edge", "core"))>>)
      /\ r(3) = RoutedEnd(<<"core", "transit", RefId(Port("core", "transit"))>>)
      /\ r(4) = RoutedEnd(<<"transit", "core", RefId(Port("transit", "core"))>>)
      /\ r(5) = RoutedEnd(<<"edge", "transit", RefId(Port("edge", "transit"))>>)
      /\ r(6) = RoutedEnd(<<"transit", "edge", RefId(Port("transit", "edge"))>>)
  BY DEF RoutedEnds, RefId, Port, PortNumber
<1>3. /\ RefId(IP("core", "edge")) = 17 /\ RefId(IP("edge", "core")) = 18 /\ RefId(IP("core", "transit")) = 19
      /\ RefId(IP("transit", "core")) = 20 /\ RefId(IP("edge", "transit")) = 21
      /\ RefId(IP("transit", "edge")) = 22 /\ RefId(IP("access", "staging")) = 16
      /\ \A d, p \in {"core", "edge", "transit", "access", "staging"} : IP(d, p)[1] = "ip"
  BY DEF RefId, IP, AddressNumber
<1>4. IP("access", "staging") \in D /\ RoutedOn \subseteq D
  BY DEF KeysOf, NewIPs, NewDevices, RoutedOn, NewPorts, OldPorts
<1>5. Port("core", "edge") \in D /\ Port("edge", "core") \in D /\ Port("core", "transit") \in D
      /\ Port("transit", "core") \in D /\ Port("edge", "transit") \in D /\ Port("transit", "edge") \in D
  BY <1>4 DEF RoutedOn
<1>6. /\ IP("core", "edge") \in EndKeys("core", "edge") /\ IP("edge", "core") \in EndKeys("edge", "core")
      /\ IP("core", "transit") \in EndKeys("core", "transit") /\ IP("transit", "core") \in EndKeys("transit", "core")
      /\ IP("edge", "transit") \in EndKeys("edge", "transit")
  OBVIOUS
<1>7. /\ Follows(IP("core", "edge"), D \union K3) /\ Follows(IP("edge", "core"), D \union K4)
      /\ Follows(IP("core", "transit"), D \union K5) /\ Follows(IP("transit", "core"), D \union K6)
      /\ Follows(IP("edge", "transit"), D \union K7) /\ Follows(IP("transit", "edge"), D \union K8)
  <2> HIDE DEF EndKeys, K3
  <2>1. Follows(IP("core", "edge"), D \union K3)
    BY <1>3, <1>4 DEF Follows
  <2>2. Follows(IP("edge", "core"), D \union K4)
    BY <1>3, <1>6 DEF Follows
  <2>3. Follows(IP("core", "transit"), D \union K5)
    BY <1>3, <1>6 DEF Follows
  <2>4. Follows(IP("transit", "core"), D \union K6)
    BY <1>3, <1>6 DEF Follows
  <2>5. Follows(IP("edge", "transit"), D \union K7)
    BY <1>3, <1>6 DEF Follows
  <2>6. Follows(IP("transit", "edge"), D \union K8)
    BY <1>3, <1>6 DEF Follows
  <2> QED
    BY <2>1, <2>2, <2>3, <2>4, <2>5, <2>6
<1>8. Block(m, q1, D, {slug}, {slug}, {slug})
  <2>1. slug \in KeysOf(m) /\ slug \in MadeBy(m) /\ slug[1] = "slug"
    BY DEF KeysOf, MadeBy, Slug, Named, Device, RoutedOn, Port
  <2> QED
    BY <2>1, NameBlock
<1>9. Block(m, q2, D \union {slug}, V, V, V)
  <2>1. LinkOf(v1) = {} /\ LinkOf(v2) = {} /\ v1 \in VlanKeys /\ v2 \in VlanKeys
    BY DEF LinkOf, Vlan, VlanKeys, Vids
  <2>2. RefId(v1) = 1 /\ RefId(v2) = 2 /\ FirstKeys["vlan"] = 1 /\ v1[1] = "vlan" /\ v2[1] = "vlan"
    <3>1. ServiceId[Vlan("10")] = 1 /\ ServiceId[Vlan("20")] = 2
      BY ServiceNumbers
    <3> QED
      BY <3>1 DEF RefId, VlanId, Vlan, FirstKeys
  <2> HIDE DEF slug, v1, v2
  <2>3. Follows(v1, D \union {slug}) /\ Follows(v2, (D \union {slug}) \union {v1})
    BY <2>2 DEF Follows
  <2>4. /\ Block("data-plane", <<Make(v1, {}, {"data-plane"})>>, D \union {slug}, {v1}, {v1}, {v1})
        /\ Block("data-plane", <<Make(v2, {}, {"data-plane"})>>, (D \union {slug}) \union {v1}, {v2}, {v2}, {v2})
    <3>1. /\ Block("data-plane", <<Make(v1, LinkOf(v1), {"data-plane"})>>, D \union {slug}, {v1}, {v1}, {v1})
          /\ Block("data-plane", <<Make(v2, LinkOf(v2), {"data-plane"})>>, (D \union {slug}) \union {v1}, {v2}, {v2}, {v2})
      BY <2>1, <2>3, MarkedBlock
    <3> QED
      BY <2>1, <3>1
  <2> QED
    BY <2>4, PairBlock
<1>10. Block(m, q3, D \union ({slug} \union V), PrefixKeys, PrefixKeys, PrefixKeys)
  BY PrefixBlock
<1>11. /\ Block(m, r(1), D \union K3, EndKeys("core", "edge"), {IP("core", "edge")}, EndKeys("core", "edge"))
       /\ Block(m, r(2), D \union K4, EndKeys("edge", "core"), {IP("edge", "core")}, EndKeys("edge", "core"))
       /\ Block(m, r(3), D \union K5, EndKeys("core", "transit"), {IP("core", "transit")}, EndKeys("core", "transit"))
       /\ Block(m, r(4), D \union K6, EndKeys("transit", "core"), {IP("transit", "core")}, EndKeys("transit", "core"))
       /\ Block(m, r(5), D \union K7, EndKeys("edge", "transit"), {IP("edge", "transit")}, EndKeys("edge", "transit"))
       /\ Block(m, r(6), D \union K8, EndKeys("transit", "edge"), {IP("transit", "edge")}, EndKeys("transit", "edge"))
  <2> DEFINE E3 == D \union K3
             E4 == D \union K4
             E5 == D \union K5
             E6 == D \union K6
             E7 == D \union K7
             E8 == D \union K8
  <2>1. D \subseteq E3 /\ D \subseteq E4 /\ D \subseteq E5 /\ D \subseteq E6 /\ D \subseteq E7 /\ D \subseteq E8
    OBVIOUS
  <2>2. /\ Follows(IP("core", "edge"), E3) /\ Follows(IP("edge", "core"), E4) /\ Follows(IP("core", "transit"), E5)
        /\ Follows(IP("transit", "core"), E6) /\ Follows(IP("edge", "transit"), E7)
        /\ Follows(IP("transit", "edge"), E8)
    BY <1>7
  <2> HIDE DEF E3, E4, E5, E6, E7, E8, r
  <2>3. /\ Block(m, r(1), E3, EndKeys("core", "edge"), {IP("core", "edge")}, EndKeys("core", "edge"))
        /\ Block(m, r(2), E4, EndKeys("edge", "core"), {IP("edge", "core")}, EndKeys("edge", "core"))
        /\ Block(m, r(3), E5, EndKeys("core", "transit"), {IP("core", "transit")}, EndKeys("core", "transit"))
        /\ Block(m, r(4), E6, EndKeys("transit", "core"), {IP("transit", "core")}, EndKeys("transit", "core"))
        /\ Block(m, r(5), E7, EndKeys("edge", "transit"), {IP("edge", "transit")}, EndKeys("edge", "transit"))
        /\ Block(m, r(6), E8, EndKeys("transit", "edge"), {IP("transit", "edge")}, EndKeys("transit", "edge"))
    BY <1>2, <1>5, <2>1, <2>2, RoutedBlock
  <2> QED
    BY <2>3 DEF E3, E4, E5, E6, E7, E8
<1>12. Block(m, q10, D \union K9, {ReadPermission}, {ReadPermission}, {ReadPermission})
  <2>1. ReadPermission \in KeysOf(m) /\ ReadPermission \in MadeBy(m) /\ ReadPermission[1] = "permission"
    BY DEF KeysOf, MadeBy, ReadPermission, Named, Device, RoutedOn, Port
  <2> QED
    BY <2>1, NameBlock
<1>13. K9 \union {ReadPermission} = KeysOf("data-plane")
  <2>1. V = VlanKeys
    BY DEF VlanKeys, Vids
  <2>2. Named(ToSet(Speakers)) = {Device("core"), Device("edge"), Device("transit")}
    BY DEF Named, ToSet, Speakers
  <2> HIDE DEF V
  <2> QED
    BY <2>1, <2>2 DEF KeysOf, RoutedOn, RoutedAt
<1>14. M9 \union {ReadPermission} = MadeBy("data-plane")
  <2>1. V = VlanKeys
    BY DEF VlanKeys, Vids
  <2> DEFINE X == Named(ToSet(Speakers)) \union RoutedOn
             N == {slug, ReadPermission} \union VlanKeys \union PrefixKeys \union RoutedAt
  <2>2. \A k \in X : k[1] \in {"device", "interface"}
    BY DEF Named, Device, RoutedOn, Port
  <2>3. \A k \in N : k[1] \in {"slug", "permission", "vlan", "prefix", "ip"}
    BY DEF Slug, ReadPermission, VlanKeys, Vlan, PrefixKeys, Prefix, RoutedAt, IP
  <2>4. KeysOf("data-plane") = N \union X
    BY DEF KeysOf
  <2>5. M9 \union {ReadPermission} = N
    <3> HIDE DEF V
    <3> QED
      BY <2>1 DEF RoutedAt
  <2> HIDE DEF X, N, M9
  <2>6. MadeBy("data-plane") = KeysOf("data-plane") \ X
    BY DEF MadeBy, X
  <2> QED
    BY <2>2, <2>3, <2>4, <2>5, <2>6
<1> HIDE DEF slug, V, q1, q2, q3, q10, r, EndKeys, m
<1>21. Block(m, q1 \o q2, D, {slug} \union V, {slug} \union V, {slug} \union V)
  BY <1>8, <1>9, TwoBlocks
<1>22. Block(m, (q1 \o q2) \o q3, D, K3, K3, K3)
  BY <1>10, <1>21, TwoBlocks
<1> DEFINE s3 == (q1 \o q2) \o q3
           s4 == s3 \o r(1)
           s5 == s4 \o r(2)
           s6 == s5 \o r(3)
           s7 == s6 \o r(4)
           s8 == s7 \o r(5)
           s9 == s8 \o r(6)
<1> HIDE DEF K3, s3
<1>23. Block(m, s3, D, K3, K3, K3)
  BY <1>22 DEF s3
<1>24. Block(m, s4, D, K4, M4, K4)
  BY <1>11, <1>23, TwoBlocks
<1> HIDE DEF K4, M4, s4
<1>25. Block(m, s5, D, K5, M5, K5)
  BY <1>11, <1>24, TwoBlocks
<1> HIDE DEF K5, M5, s5
<1>26. Block(m, s6, D, K6, M6, K6)
  BY <1>11, <1>25, TwoBlocks
<1> HIDE DEF K6, M6, s6
<1>27. Block(m, s7, D, K7, M7, K7)
  BY <1>11, <1>26, TwoBlocks
<1> HIDE DEF K7, M7, s7
<1>28. Block(m, s8, D, K8, M8, K8)
  BY <1>11, <1>27, TwoBlocks
<1> HIDE DEF K8, M8, s8
<1>29. Block(m, s9, D, K9, M9, K9)
  BY <1>11, <1>28, TwoBlocks
<1> HIDE DEF K9, M9, s9
<1>30. Block(m, s9 \o q10, D, K9 \union {ReadPermission}, M9 \union {ReadPermission}, K9 \union {ReadPermission})
  BY <1>12, <1>29, TwoBlocks
<1>31. DataPlaneSteps = s9 \o q10
  BY <1>1, Zenon DEF s3, s4, s5, s6, s7, s8, s9
<1> QED
  BY <1>13, <1>14, <1>30, <1>31 DEF m

\* The same for an object that may not belong to the data plane.
LEMMA BarredBlock ==
  ASSUME NEW m \in {"router-ids", "gateways"}, NEW k \in KeysOf(m), k[1] # "device", NEW D, Follows(k, D)
  PROVE  Block(m, <<[Make(k, LinkOf(k), Adds(m, k)) EXCEPT !.bars = {"data-plane"}]>>, D, {k}, {k}, {k})
<1>0. PICK s : s = [Make(k, LinkOf(k), Adds(m, k)) EXCEPT !.bars = {"data-plane"}]
  OBVIOUS
<1>1. /\ s.key = k /\ s.id = 0 /\ s.values = {"exact"} /\ s.value = "exact"
      /\ s.links = {LinkOf(k)} /\ s.link = LinkOf(k) /\ s.needs = {} /\ s.bars = {"data-plane"}
      /\ s.adds = Adds(m, k) /\ s.makes = TRUE /\ s.ports = {}
  BY <1>0 DEF Make, Step
<1>2. k \notin Named(NewDevices) /\ k \in MadeBy(m) /\ k \in MadeBy("router-ids") \union MadeBy("gateways")
  BY DEF Named, Device, MadeBy
<1>3. StepSound(m, s)
  BY <1>1, <1>2 DEF StepSound
<1>4. Ready(s, D) /\ Final(m, s)
  BY <1>1 DEF Ready, Final
<1>5. Block(m, <<s>>, D, {k}, {k}, {k})
  <2>1. Block(m, <<s>>, D, {s.key}, IF s.makes THEN {s.key} ELSE {}, IF Final(m, s) THEN {s.key} ELSE {})
    BY <1>3, <1>4, OneBlock
  <2> QED
    BY <1>1, <1>4, <2>1
<1> QED
  BY <1>0, <1>5

\* migrate_b4_ospf_router_ids.
LEMMA RouterIdsBlock ==
  ASSUME NEW D, IP("transit", "edge") \in D
  PROVE  Block("router-ids", RouterIdSteps, D, KeysOf("router-ids"), MadeBy("router-ids"), KeysOf("router-ids"))
<1> DEFINE m == "router-ids"
           slug == Slug("routing")
           k1 == IP("core", "router-id")
           k2 == IP("edge", "router-id")
           k3 == IP("transit", "router-id")
           made(k) == [Make(k, {}, {"routing"}) EXCEPT !.bars = {"data-plane"}]
           q == [i \in 1..3 |-> made(IP(Speakers[i], "router-id"))]
           F == {k2} \union {k3}
           X == {k1} \union F
<1>1. q = <<made(k1), made(k2), made(k3)>>
  <2>1. Speakers[1] = "core" /\ Speakers[2] = "edge" /\ Speakers[3] = "transit"
    BY DEF Speakers
  <2> HIDE DEF made
  <2> QED
    BY <2>1
<1>2. /\ RefId(k1) = 23 /\ RefId(k2) = 24 /\ RefId(k3) = 25 /\ RefId(IP("transit", "edge")) = 22
      /\ \A k \in {k1, k2, k3} : k[1] = "ip" /\ LinkOf(k) = {} /\ Adds(m, k) = {"routing"} /\ k \in KeysOf(m)
      /\ IP("transit", "edge")[1] = "ip"
  BY DEF RefId, IP, AddressNumber, LinkOf, Adds, KeysOf, LoopbackIds
<1>3. slug \in KeysOf(m) /\ slug \in MadeBy(m) /\ slug[1] = "slug"
  BY DEF KeysOf, MadeBy, Slug
<1>4. {slug} \union X = KeysOf(m) /\ MadeBy(m) = KeysOf(m)
  BY DEF KeysOf, MadeBy, LoopbackIds
<1>5. RouterIdSteps = <<Make(slug, {}, {})>> \o q
  BY DEF RouterIdSteps
<1> HIDE DEF slug, k1, k2, k3, q
<1>6. /\ Follows(k1, D \union {slug}) /\ Follows(k2, (D \union {slug}) \union {k1})
      /\ Follows(k3, ((D \union {slug}) \union {k1}) \union {k2})
  BY <1>2 DEF Follows
<1>7. /\ Block(m, <<made(k1)>>, D \union {slug}, {k1}, {k1}, {k1})
      /\ Block(m, <<made(k2)>>, (D \union {slug}) \union {k1}, {k2}, {k2}, {k2})
      /\ Block(m, <<made(k3)>>, ((D \union {slug}) \union {k1}) \union {k2}, {k3}, {k3}, {k3})
  <2>1. \A k \in {k1, k2, k3} : made(k) = [Make(k, LinkOf(k), Adds(m, k)) EXCEPT !.bars = {"data-plane"}] /\ k[1] # "device"
    BY <1>2
  <2> HIDE DEF made
  <2> QED
    BY <1>2, <1>6, <2>1, BarredBlock
<1>8. Block(m, <<Make(slug, {}, {})>>, D, {slug}, {slug}, {slug})
  BY <1>3, NameBlock
<1> HIDE DEF made
<1>9. Block(m, <<made(k2), made(k3)>>, (D \union {slug}) \union {k1}, F, F, F)
  BY <1>7, PairBlock
<1> HIDE DEF F
<1>10. Block(m, <<made(k1), made(k2), made(k3)>>, D \union {slug}, X, X, X)
  BY <1>7, <1>9, TripleBlock
<1> HIDE DEF X
<1>11. Block(m, <<Make(slug, {}, {})>> \o q, D, {slug} \union X, {slug} \union X, {slug} \union X)
  BY <1>1, <1>8, <1>10, TwoBlocks
<1> QED
  BY <1>4, <1>5, <1>11

\* migrate_b4_vlan_gateways.
LEMMA GatewaysBlock ==
  ASSUME NEW D, Port("access", "servers") \in D, IP("transit", "router-id") \in D
  PROVE  Block("gateways", GatewaySteps, D, KeysOf("gateways"), MadeBy("gateways"), KeysOf("gateways"))
<1> DEFINE m == "gateways"
           slug == Slug("gateway")
           k1 == Port("core", "10")
           k2 == Port("core", "20")
           k3 == IP("core", "10")
           k4 == IP("core", "20")
           trunk == Port("core", "access")
           made(k, link) == [Make(k, link, {"gateway"}) EXCEPT !.bars = {"data-plane"}]
           E == {k1} \union {k2}
           F == {k3} \union {k4}
           X == E \union F
<1>2. /\ RefId(k1) = 21 /\ RefId(k2) = 22 /\ RefId(k3) = 26 /\ RefId(k4) = 27
      /\ RefId(IP("transit", "router-id")) = 25 /\ RefId(Port("access", "servers")) = 20
      /\ k1[1] = "interface" /\ k2[1] = "interface" /\ k3[1] = "ip" /\ k4[1] = "ip"
      /\ IP("transit", "router-id")[1] = "ip" /\ Port("access", "servers")[1] = "interface"
  BY DEF RefId, IP, Port, AddressNumber, PortNumber
<1>3. /\ LinkOf(k1) = {trunk} /\ LinkOf(k2) = {trunk} /\ LinkOf(k3) = {k1} /\ LinkOf(k4) = {k2}
      /\ \A k \in {k1, k2, k3, k4} : Adds(m, k) = {"gateway"} /\ k \in KeysOf(m)
  BY DEF IP, Port, LinkOf, Adds, KeysOf, Subinterfaces, Gateways, Vids
<1>4. slug \in KeysOf(m) /\ slug \in MadeBy(m) /\ slug[1] = "slug"
  BY DEF KeysOf, MadeBy, Slug
<1>5. {slug} \union X = KeysOf(m) /\ MadeBy(m) = KeysOf(m)
  <2>1. E = Subinterfaces /\ F = Gateways
    BY DEF Subinterfaces, Gateways, Vids
  <2> HIDE DEF E, F, slug
  <2> QED
    BY <2>1 DEF KeysOf, MadeBy, slug
<1>6. GatewaySteps = <<Make(slug, {}, {}), made(k1, {trunk}), made(k2, {trunk}), made(k3, {k1}), made(k4, {k2})>>
  BY DEF GatewaySteps
<1> HIDE DEF slug, k1, k2, k3, k4, trunk
<1>7. /\ Follows(k1, D \union {slug}) /\ Follows(k2, (D \union {slug}) \union {k1})
      /\ Follows(k3, (D \union {slug}) \union E) /\ Follows(k4, ((D \union {slug}) \union E) \union {k3})
  BY <1>2 DEF Follows
<1>8. /\ Block(m, <<made(k1, {trunk})>>, D \union {slug}, {k1}, {k1}, {k1})
      /\ Block(m, <<made(k2, {trunk})>>, (D \union {slug}) \union {k1}, {k2}, {k2}, {k2})
      /\ Block(m, <<made(k3, {k1})>>, (D \union {slug}) \union E, {k3}, {k3}, {k3})
      /\ Block(m, <<made(k4, {k2})>>, ((D \union {slug}) \union E) \union {k3}, {k4}, {k4}, {k4})
  <2>1. \A k \in {k1, k2, k3, k4} : /\ made(k, LinkOf(k)) = [Make(k, LinkOf(k), Adds(m, k)) EXCEPT !.bars = {"data-plane"}]
                                    /\ k[1] # "device"
    BY <1>2, <1>3
  <2> HIDE DEF made, E
  <2>2. /\ Block(m, <<made(k1, LinkOf(k1))>>, D \union {slug}, {k1}, {k1}, {k1})
        /\ Block(m, <<made(k2, LinkOf(k2))>>, (D \union {slug}) \union {k1}, {k2}, {k2}, {k2})
        /\ Block(m, <<made(k3, LinkOf(k3))>>, (D \union {slug}) \union E, {k3}, {k3}, {k3})
        /\ Block(m, <<made(k4, LinkOf(k4))>>, ((D \union {slug}) \union E) \union {k3}, {k4}, {k4}, {k4})
    BY <1>3, <1>7, <2>1, BarredBlock
  <2> QED
    BY <1>3, <2>2
<1>9. Block(m, <<Make(slug, {}, {})>>, D, {slug}, {slug}, {slug})
  BY <1>4, NameBlock
<1> HIDE DEF made
<1>10. Block(m, <<made(k1, {trunk}), made(k2, {trunk})>>, D \union {slug}, E, E, E)
  BY <1>8, PairBlock
<1>11. Block(m, <<made(k3, {k1}), made(k4, {k2})>>, (D \union {slug}) \union E, F, F, F)
  BY <1>8, PairBlock
<1> HIDE DEF E, F
<1>12. Block(m, <<made(k1, {trunk}), made(k2, {trunk}), made(k3, {k1}), made(k4, {k2})>>, D \union {slug}, X, X, X)
  BY <1>10, <1>11, QuadrupleBlock
<1> HIDE DEF X
<1>13. Block(m, GatewaySteps, D, {slug} \union X, {slug} \union X, {slug} \union X)
  <2>1. GatewaySteps = <<Make(slug, {}, {})>> \o <<made(k1, {trunk}), made(k2, {trunk}), made(k3, {k1}), made(k4, {k2})>>
    BY <1>6
  <2> QED
    BY <1>9, <1>12, <2>1, TwoBlocks
<1> QED
  BY <1>5, <1>13

\* activate_b3_profiled_devices.
LEMMA ActivationBlock ==
  ASSUME NEW D
  PROVE  Block("activation", ActivationSteps, D, KeysOf("activation"), MadeBy("activation"), KeysOf("activation"))
<1> DEFINE m == "activation"
           k1 == Device("transit")
           k2 == Device("access")
           look(k) == [Step(k) EXCEPT !.values = {"planned", "active"}, !.value = "active"]
<1>1. ActivationSteps = <<look(k1), look(k2)>>
  <2>1. ActivationSteps = [i \in 1..2 |-> look(Device(<<"transit", "access">>[i]))]
    BY DEF ActivationSteps
  <2> HIDE DEF look
  <2> QED
    BY <2>1
<1>2. /\ RefId(k1) = 8 /\ RefId(k2) = 9 /\ FirstKeys["device"] = 8
      /\ \A k \in {k1, k2} : k[1] = "device" /\ k \in KeysOf(m)
  BY DEF RefId, Device, DeviceId, FirstKeys, KeysOf, Named, NewDevices
<1>3. {k1} \union {k2} = KeysOf(m) /\ MadeBy(m) = {}
  BY DEF KeysOf, MadeBy, Named, NewDevices
<1> HIDE DEF k1, k2
<1>4. Follows(k1, D) /\ Follows(k2, D \union {k1})
  BY <1>2 DEF Follows
<1>5. ASSUME NEW k \in {k1, k2}, NEW E, Follows(k, E)
      PROVE  Block(m, <<look(k)>>, E, {k}, {}, {k})
  <2>1. PICK s : s = look(k)
    OBVIOUS
  <2>2. /\ s.key = k /\ s.id = 0 /\ s.values = {"planned", "active"} /\ s.value = "active"
        /\ s.links = {} /\ s.link = {} /\ s.needs = {} /\ s.bars = {}
        /\ s.adds = {} /\ s.makes = FALSE /\ s.ports = {}
    BY <2>1 DEF Step
  <2>3. Adds(m, k) = {} /\ ValuesOf(m, k) = {"planned", "active"} /\ ValueOf(m, k) = "active"
    BY DEF Adds, ValuesOf, ValueOf
  <2>4. StepSound(m, s) /\ Final(m, s) /\ Ready(s, E)
    BY <1>2, <1>3, <1>5, <2>2, <2>3 DEF StepSound, Final, Ready
  <2>5. Block(m, <<s>>, E, {s.key}, IF s.makes THEN {s.key} ELSE {}, IF Final(m, s) THEN {s.key} ELSE {})
    BY <2>4, OneBlock
  <2> QED
    BY <2>1, <2>2, <2>4, <2>5
<1> HIDE DEF look
<1>6. Block(m, <<look(k1)>>, D, {k1}, {}, {k1}) /\ Block(m, <<look(k2)>>, D \union {k1}, {k2}, {}, {k2})
  BY <1>4, <1>5
<1>7. Block(m, <<look(k1), look(k2)>>, D, {k1} \union {k2}, {} \union {}, {k1} \union {k2})
  BY <1>6, PairBlock
<1>8. {} \union {} = MadeBy(m)
  BY <1>3
<1> QED
  BY <1>1, <1>3, <1>7, <1>8

\* What a migration finds behind it when it goes through an inventory for the first time.
Needs(m) ==
    CASE m = "data-plane" -> KeysOf("inventory")
      [] m = "router-ids" -> {IP("transit", "edge")}
      [] m = "gateways" -> {Port("access", "servers"), IP("transit", "router-id")}
      [] OTHER -> {}

LEMMA MigrationNames ==
  ToSet(Migrations) = {"inventory", "activation", "data-plane", "router-ids", "gateways"}
<1>1. DOMAIN Migrations = 1..5
  BY DEF Migrations
<1>2. /\ Migrations[1] = "inventory" /\ Migrations[2] = "activation" /\ Migrations[3] = "data-plane"
      /\ Migrations[4] = "router-ids" /\ Migrations[5] = "gateways"
  BY DEF Migrations
<1> QED
  BY <1>1, <1>2 DEF ToSet

LEMMA MigrationBlock ==
  ASSUME NEW m \in ToSet(Migrations), NEW D, Needs(m) \subseteq D
  PROVE  Block(m, Steps[m], D, KeysOf(m), MadeBy(m), KeysOf(m))
<1>1. /\ Steps["inventory"] = InventorySteps /\ Steps["activation"] = ActivationSteps
      /\ Steps["data-plane"] = DataPlaneSteps /\ Steps["router-ids"] = RouterIdSteps
      /\ Steps["gateways"] = GatewaySteps
  BY MigrationNames DEF Steps
<1>2. CASE m = "inventory"
  BY <1>1, <1>2, InventoryBlock
<1>3. CASE m = "activation"
  BY <1>1, <1>3, ActivationBlock
<1>4. CASE m = "data-plane"
  BY <1>1, <1>4, DataPlaneBlock DEF Needs
<1>5. CASE m = "router-ids"
  <2>1. IP("transit", "edge") \in D
    BY <1>5 DEF Needs
  <2> QED
    BY <1>1, <1>5, <2>1, RouterIdsBlock
<1>6. CASE m = "gateways"
  <2>1. Port("access", "servers") \in D /\ IP("transit", "router-id") \in D
    BY <1>6 DEF Needs
  <2> QED
    BY <1>1, <1>6, <2>1, GatewaysBlock
<1> QED
  BY <1>2, <1>3, <1>4, <1>5, <1>6, MigrationNames

-----------------------------------------------------------------------------
(***************************************************************************)
(* A run of a migration over any inventory.                                *)
(***************************************************************************)

\* A migration's run from the objects o and the primary keys N.
Start(m, o, N) == [objects |-> o, next |-> N, drawn |-> {}, ok |-> Before(m, o)]
RunsAs(f, q, start) == f = [n \in 0..Len(q) |-> IF n = 0 THEN start ELSE Ensure(f[n - 1], q[n])]

\* The function that Transaction defines is there, and gives its last state.
LEMMA RunExists ==
  ASSUME NEW q, Len(q) \in Nat, NEW start
  PROVE  \E f : RunsAs(f, q, start)
<1> DEFINE To(f, k) == /\ f = [n \in 0..k |-> f[n]] /\ f[0] = start
                       /\ \A n \in 1..k : f[n] = Ensure(f[n - 1], q[n])
           Missing == {k \in Nat : ~\E f : To(f, k)}
<1>1. Missing = {}
  <2> SUFFICES ASSUME Missing # {} PROVE FALSE
    OBVIOUS
  <2>1. PICK k \in Missing : \A j \in Missing : k <= j
    <3>1. Missing \in SUBSET Nat
      OBVIOUS
    <3> HIDE DEF Missing
    <3> QED
      BY <3>1, LeastNumber
  <2>2. k # 0
    <3>1. To([n \in 0..0 |-> start], 0)
      OBVIOUS
    <3> QED
      BY <2>1, <3>1
  <2>3. k - 1 \in Nat /\ k \in Nat /\ k - 1 \notin Missing
    <3>1. k - 1 \in Nat /\ k \in Nat /\ ~(k <= k - 1)
      BY <2>1, <2>2
    <3> HIDE DEF Missing
    <3> QED
      BY <2>1, <3>1
  <2>4. PICK f : To(f, k - 1)
    BY <2>3
  <2> DEFINE g == [n \in 0..k |-> IF n = k THEN Ensure(f[k - 1], q[k]) ELSE f[n]]
  <2>5. g = [n \in 0..k |-> g[n]] /\ g[0] = start
    BY <2>2, <2>3, <2>4
  <2>6. \A n \in 1..k : g[n] = Ensure(g[n - 1], q[n])
    <3>1. ASSUME NEW n \in 1..k PROVE g[n] = Ensure(g[n - 1], q[n])
      <4>1. n - 1 \in 0..k /\ n - 1 # k /\ g[n - 1] = f[n - 1]
        BY <2>3
      <4>2. CASE n = k
        BY <4>1, <4>2
      <4>3. CASE n # k
        <5>1. n \in 1..(k - 1)
          BY <2>3, <4>3
        <5>2. f[n] = Ensure(f[n - 1], q[n])
          BY <2>4, <5>1
        <5>3. g[n] = f[n]
          BY <4>3
        <5> QED
          BY <4>1, <5>2, <5>3
      <4> QED
        BY <4>2, <4>3
    <3> QED
      BY <3>1
  <2>7. To(g, k)
    BY <2>5, <2>6
  <2> QED
    BY <2>1, <2>7
<1>2. PICK f : To(f, Len(q))
  BY <1>1
<1>3. \A n \in 0..Len(q) : f[n] = IF n = 0 THEN start ELSE Ensure(f[n - 1], q[n])
  BY <1>2
<1>4. RunsAs(f, q, start)
  <2>1. f = [n \in 0..Len(q) |-> f[n]]
    BY <1>2
  <2> HIDE DEF To
  <2> QED
    BY <1>3, <2>1 DEF RunsAs
<1> QED
  BY <1>4

LEMMA TransactionGoes ==
  ASSUME NEW m, NEW o, NEW N, Len(Steps[m]) \in Nat
  PROVE  \E f : RunsAs(f, Steps[m], Start(m, o, N)) /\ Transaction(m, o, N) = f[Len(Steps[m])]
<1>1. \E f : RunsAs(f, Steps[m], Start(m, o, N))
  BY RunExists
<1> QED
  BY <1>1 DEF Transaction, RunsAs, Start

AnObject(x) == x = Object(x.id, x.value, x.link, x.marks)
IsRun(t) == t = [objects |-> t.objects, next |-> t.next, drawn |-> t.drawn, ok |-> t.ok]
Drawn(N, x) == IF x \in DOMAIN N THEN [N EXCEPT ![x] = @ + 1] ELSE N
Keys == [Tables -> Nat]
AtLeast(N, M) == \A x \in Tables : N[x] <= M[x]

\* A step passes, finds its object, makes it or is refused.
LEMMA EnsureCases ==
  ASSUME NEW t, IsRun(t), NEW s, NEW u, u = Ensure(t, s)
  PROVE  /\ IsRun(u)
         /\ \/ ~t.ok /\ u = t
            \/ /\ t.ok /\ s.key \in DOMAIN t.objects /\ Agrees(t.objects, s) /\ u.ok
               /\ u.objects = [t.objects EXCEPT ![s.key] = Found(t.objects[s.key], s)]
               /\ u.next = t.next /\ u.drawn = t.drawn
            \/ /\ t.ok /\ s.key \notin DOMAIN t.objects /\ s.makes /\ u.ok
               /\ u.objects = With(t.objects, s.key, Made(t.next, s))
               /\ u.next = Drawn(t.next, s.key[1]) /\ u.drawn = t.drawn \union {u.next}
            \/ /\ t.ok /\ ~u.ok /\ u.objects = t.objects /\ u.next = t.next /\ u.drawn = t.drawn
               /\ \/ s.key \in DOMAIN t.objects /\ ~Agrees(t.objects, s)
                  \/ s.key \notin DOMAIN t.objects /\ ~s.makes
<1>1. PICK o, N, d, ok : t = [objects |-> o, next |-> N, drawn |-> d, ok |-> ok]
  BY DEF IsRun
<1>2. t.objects = o /\ t.next = N /\ t.drawn = d /\ t.ok = ok
  BY <1>1
<1>3. CASE ~t.ok
  BY <1>3 DEF Ensure
<1>4. CASE t.ok /\ s.key \in DOMAIN t.objects /\ Agrees(t.objects, s)
  <2>1. u = [t EXCEPT !.objects[s.key] = Found(@, s)]
    BY <1>4 DEF Ensure
  <2>2. u = [objects |-> [o EXCEPT ![s.key] = Found(o[s.key], s)], next |-> N, drawn |-> d, ok |-> ok]
    BY <1>1, <2>1
  <2>3. u.objects = [o EXCEPT ![s.key] = Found(o[s.key], s)] /\ u.next = N /\ u.drawn = d /\ u.ok = ok
    BY <2>2
  <2>4. IsRun(u)
    BY <2>2, <2>3 DEF IsRun
  <2>5. u.ok
    BY <1>2, <1>4, <2>3
  <2> QED
    BY <1>2, <1>4, <2>3, <2>4, <2>5
<1>5. CASE t.ok /\ s.key \in DOMAIN t.objects /\ ~Agrees(t.objects, s)
  <2>1. u = [t EXCEPT !.ok = FALSE]
    BY <1>5 DEF Ensure
  <2>2. u = [objects |-> o, next |-> N, drawn |-> d, ok |-> FALSE]
    BY <1>1, <2>1
  <2>3. u.objects = o /\ u.next = N /\ u.drawn = d /\ u.ok = FALSE
    BY <2>2
  <2>4. IsRun(u)
    BY <2>2, <2>3 DEF IsRun
  <2> QED
    BY <1>2, <1>5, <2>3, <2>4
<1>6. CASE t.ok /\ s.key \notin DOMAIN t.objects /\ ~s.makes
  <2>1. u = [t EXCEPT !.ok = FALSE]
    BY <1>6 DEF Ensure
  <2>2. u = [objects |-> o, next |-> N, drawn |-> d, ok |-> FALSE]
    BY <1>1, <2>1
  <2>3. u.objects = o /\ u.next = N /\ u.drawn = d /\ u.ok = FALSE
    BY <2>2
  <2>4. IsRun(u)
    BY <2>2, <2>3 DEF IsRun
  <2> QED
    BY <1>2, <1>6, <2>3, <2>4
<1>7. CASE t.ok /\ s.key \notin DOMAIN t.objects /\ s.makes
  <2> DEFINE keys == Drawn(t.next, s.key[1])
  <2>1. u = [t EXCEPT !.objects = With(@, s.key, Made(t.next, s)), !.next = keys, !.drawn = @ \union {keys}]
    BY <1>7 DEF Ensure, Drawn
  <2> HIDE DEF keys
  <2>2. u = [objects |-> With(o, s.key, Made(N, s)), next |-> keys, drawn |-> d \union {keys}, ok |-> ok]
    BY <1>1, <1>2, <2>1
  <2>3. u.objects = With(o, s.key, Made(N, s)) /\ u.next = keys /\ u.drawn = d \union {keys} /\ u.ok = ok
    BY <2>2
  <2>4. IsRun(u)
    BY <2>2, <2>3 DEF IsRun
  <2>5. u.ok
    BY <1>2, <1>7, <2>3
  <2> QED
    BY <1>2, <1>7, <2>3, <2>4, <2>5 DEF keys
<1> QED
  BY <1>3, <1>4, <1>5, <1>6, <1>7

LEMMA ObjectFields ==
  ASSUME NEW a, NEW b, NEW c, NEW d
  PROVE  /\ Object(a, b, c, d).id = a /\ Object(a, b, c, d).value = b /\ Object(a, b, c, d).link = c
         /\ Object(a, b, c, d).marks = d /\ AnObject(Object(a, b, c, d))
  BY DEF Object, AnObject

FoundValue(x, s) == IF s.values = {} THEN x.value ELSE s.value
FoundLink(x, s) == IF x.link = {} THEN s.link ELSE x.link

LEMMA FoundFields ==
  ASSUME NEW x, AnObject(x), NEW s, NEW y, y = Found(x, s)
  PROVE  /\ AnObject(y) /\ y.id = x.id /\ y.value = FoundValue(x, s)
         /\ y.link = FoundLink(x, s) /\ y.marks = x.marks \union s.adds
<1>1. PICK a, b, c, d : x = [id |-> a, value |-> b, link |-> c, marks |-> d]
  BY DEF AnObject, Object
<1>2. y = [id |-> a, value |-> IF s.values = {} THEN b ELSE s.value, link |-> IF c = {} THEN s.link ELSE c,
           marks |-> d \union s.adds]
  BY <1>1 DEF Found
<1>3. x.id = a /\ x.value = b /\ x.link = c /\ x.marks = d
  BY <1>1
<1>4. /\ y.id = a /\ y.value = (IF s.values = {} THEN b ELSE s.value)
      /\ y.link = (IF c = {} THEN s.link ELSE c) /\ y.marks = d \union s.adds
  BY <1>2
<1>6. y.value = FoundValue(x, s) /\ y.link = FoundLink(x, s)
  BY <1>3, <1>4 DEF FoundValue, FoundLink
<1>5. AnObject(y)
  BY <1>2, <1>4 DEF AnObject, Object
<1> QED
  BY <1>3, <1>4, <1>5, <1>6

LEMMA DrawnKeys ==
  ASSUME NEW N \in Keys, NEW x
  PROVE  /\ Drawn(N, x) \in Keys /\ AtLeast(N, Drawn(N, x))
         /\ x \in Tables => Drawn(N, x)[x] = N[x] + 1
         /\ \A y \in Tables : y # x => Drawn(N, x)[y] = N[y]
  BY DEF Drawn, Keys, AtLeast

\* What the steps taken so far made of an object, which was w.
Was(m, o, k) ==
    IF k \in DOMAIN o THEN o[k]
    ELSE IF k[1] = "device" THEN Object(0, ValueOf(m, k), {}, {}) ELSE Object(0, "exact", LinkOf(k), {})
Became(m, k, w, x) ==
    /\ w.marks \subseteq x.marks /\ x.marks \subseteq w.marks \union Adds(m, k)
    /\ x.link = w.link \/ (w.link = {} /\ x.link = LinkOf(k))
    /\ IF k[1] # "device" \/ m = "data-plane" THEN x.value = w.value
       ELSE x.value = ValueOf(m, k) /\ w.value \in ValuesOf(m, k)
Settled(m, k, x) ==
    /\ Adds(m, k) \subseteq x.marks
    /\ k \in MadeBy(m) => x.link = LinkOf(k) /\ (k[1] # "device" => x.value = "exact")
NumberedFrom(N, M, k, id) == IF k[1] \in Tables THEN N[k[1]] <= id /\ id < M[k[1]] ELSE id = 0

\* A run that has gone through the keys B and settled those in F.
Grown(m, o, N, t, B, F) ==
    /\ DOMAIN t.objects = DOMAIN o \union B
    /\ B \subseteq KeysOf(m) /\ F \subseteq B /\ B \ DOMAIN o \subseteq MadeBy(m)
    /\ \A k \in DOMAIN t.objects : AnObject(t.objects[k])
    /\ \A k \in DOMAIN o : t.objects[k].id = o[k].id /\ (k \notin B => t.objects[k] = o[k])
    /\ \A k \in B \ DOMAIN o : t.objects[k].id \in Nat /\ NumberedFrom(N, t.next, k, t.objects[k].id)
    /\ \A j, k \in B \ DOMAIN o :
          j[1] = k[1] /\ k[1] \in Tables /\ t.objects[j].id = t.objects[k].id => j = k
    /\ \A k \in B : Became(m, k, Was(m, o, k), t.objects[k])
    /\ \A k \in F : Settled(m, k, t.objects[k])

\* A step that finds its object leaves it so.
LEMMA FoundBecame ==
  ASSUME NEW m, NEW s, StepSound(m, s), NEW o, AgreesButLink(o, s), NEW k, k = s.key, NEW x, AnObject(x), x = o[k],
         s.links = {} \/ x.link \in s.links,
         NEW w, NEW y, y = Found(x, s), x = w \/ Became(m, k, w, x)
  PROVE  /\ AnObject(y) /\ y.id = x.id /\ Became(m, k, w, y)
         /\ Settled(m, k, x) \/ Final(m, s) => Settled(m, k, y)
<1>1. /\ AnObject(y) /\ y.id = x.id /\ y.value = FoundValue(x, s)
      /\ y.link = FoundLink(x, s) /\ y.marks = x.marks \union s.adds
  BY ONLY AnObject(x), y = Found(x, s), FoundFields
<1>9. /\ y.value = IF s.values = {} THEN x.value ELSE s.value
      /\ y.link = IF x.link = {} THEN s.link ELSE x.link
  BY <1>1 DEF FoundValue, FoundLink
<1>2. s.values = {} \/ x.value \in s.values
  BY DEF AgreesButLink
<1>3. w.marks \subseteq y.marks /\ y.marks \subseteq w.marks \union Adds(m, k)
  BY <1>1 DEF StepSound, Became
<1>4. y.link = w.link \/ (w.link = {} /\ y.link = LinkOf(k))
  <2>1. x.link = w.link \/ (w.link = {} /\ x.link = LinkOf(k))
    BY DEF Became
  <2>2. s.link \in {{}, LinkOf(k)}
    BY DEF StepSound
  <2> QED
    BY <1>9, <2>1, <2>2
<1>5. IF k[1] # "device" \/ m = "data-plane" THEN y.value = w.value
      ELSE y.value = ValueOf(m, k) /\ w.value \in ValuesOf(m, k)
  <2>1. CASE k[1] # "device"
    <3>1. s.values \in {{}, {"exact"}} /\ s.value = "exact"
      BY <2>1 DEF StepSound
    <3>2. x.value = w.value
      BY <2>1 DEF Became
    <3> QED
      BY <1>9, <1>2, <2>1, <3>1, <3>2
  <2>2. CASE k[1] = "device" /\ m = "data-plane"
    <3>1. s.values = {}
      BY <2>2 DEF StepSound
    <3>2. x.value = w.value
      BY <2>2 DEF Became
    <3> QED
      BY <1>9, <2>2, <3>1, <3>2
  <2>3. CASE k[1] = "device" /\ m # "data-plane"
    <3>1. s.values = ValuesOf(m, k) /\ s.value = ValueOf(m, k)
      BY <2>3 DEF StepSound
    <3>2. s.values # {}
      BY <3>1 DEF ValuesOf
    <3>3. w.value \in ValuesOf(m, k)
      BY <1>2, <2>3, <3>1, <3>2 DEF Became
    <3> QED
      BY <1>9, <2>3, <3>1, <3>2, <3>3
  <2> QED
    BY <2>1, <2>2, <2>3
<1>6. Became(m, k, w, y)
  BY <1>3, <1>4, <1>5 DEF Became
<1>7. ASSUME Settled(m, k, x) PROVE Settled(m, k, y)
  <2>1. Adds(m, k) \subseteq y.marks
    BY <1>1, <1>7 DEF Settled
  <2>2. ASSUME k \in MadeBy(m) PROVE y.link = LinkOf(k) /\ (k[1] # "device" => y.value = "exact")
    <3>1. x.link = LinkOf(k) /\ (k[1] # "device" => x.value = "exact")
      BY <1>7, <2>2 DEF Settled
    <3>2. s.link \in {{}, LinkOf(k)} /\ (k[1] # "device" => s.value = "exact")
      BY DEF StepSound
    <3> QED
      BY <1>9, <3>1, <3>2
  <2> QED
    BY <2>1, <2>2 DEF Settled
<1>8. ASSUME Final(m, s) PROVE Settled(m, k, y)
  <2>1. Adds(m, k) \subseteq y.marks
    BY <1>1, <1>8 DEF Final
  <2>2. ASSUME k \in MadeBy(m) PROVE y.link = LinkOf(k) /\ (k[1] # "device" => y.value = "exact")
    <3>1. /\ LinkOf(k) \in s.links /\ s.links \subseteq {{}, LinkOf(k)} /\ s.link = LinkOf(k)
          /\ k[1] # "device" => s.values = {"exact"}
      BY <1>8, <2>2 DEF Final
    <3>2. x.link \in {{}, LinkOf(k)}
      BY <3>1
    <3>3. k[1] # "device" => s.value = "exact"
      BY DEF StepSound
    <3> QED
      BY <1>9, <3>1, <3>2, <3>3
  <2> QED
    BY <2>1, <2>2 DEF Settled
<1> QED
  BY <1>1, <1>6, <1>7, <1>8

\* A step that makes its object makes it so.
LEMMA MadeBecame ==
  ASSUME NEW m, NEW s, StepSound(m, s), s.makes, NEW N \in Keys, NEW k, k = s.key, NEW o, k \notin DOMAIN o,
         NEW y, y = Made(N, s)
  PROVE  /\ AnObject(y) /\ y.id \in Nat /\ NumberedFrom(N, Drawn(N, k[1]), k, y.id)
         /\ Became(m, k, Was(m, o, k), y) /\ (Final(m, s) => Settled(m, k, y))
<1>1. /\ AnObject(y) /\ y.id = (IF k[1] \in Tables THEN N[k[1]] ELSE 0)
      /\ y.value = s.value /\ y.link = s.link /\ y.marks = s.adds
  <2>1. DOMAIN N = Tables
    BY DEF Keys
  <2> QED
    BY <2>1, ObjectFields DEF Made
<1>2. y.id \in Nat /\ NumberedFrom(N, Drawn(N, k[1]), k, y.id)
  <2>1. CASE k[1] \in Tables
    <3>1. N[k[1]] \in Nat /\ Drawn(N, k[1])[k[1]] = N[k[1]] + 1
      BY <2>1, DrawnKeys DEF Keys
    <3> QED
      BY <1>1, <2>1, <3>1 DEF NumberedFrom
  <2>2. CASE k[1] \notin Tables
    BY <1>1, <2>2 DEF NumberedFrom
  <2> QED
    BY <2>1, <2>2
<1>3. /\ Was(m, o, k).marks = {} /\ (k[1] = "device" => Was(m, o, k).link = {})
      /\ k[1] # "device" => Was(m, o, k).link = LinkOf(k)
      /\ Was(m, o, k).value = IF k[1] = "device" THEN ValueOf(m, k) ELSE "exact"
  BY ObjectFields DEF Was
<1>4. s.adds \subseteq Adds(m, k) /\ s.link \in {{}, LinkOf(k)} /\ s.values # {} /\ k \in MadeBy(m)
      /\ (k[1] # "device" => s.link = LinkOf(k))
  BY DEF StepSound
<1>5. IF k[1] # "device" THEN s.value = "exact" ELSE m # "data-plane" /\ s.value = ValueOf(m, k)
  BY <1>4 DEF StepSound
<1>6. ValueOf(m, k) \in ValuesOf(m, k)
  BY DEF ValueOf, ValuesOf
<1>7. Became(m, k, Was(m, o, k), y)
  <2>1. IF k[1] # "device" \/ m = "data-plane" THEN y.value = Was(m, o, k).value
        ELSE y.value = ValueOf(m, k) /\ Was(m, o, k).value \in ValuesOf(m, k)
    BY <1>1, <1>3, <1>5, <1>6
  <2> QED
    BY <1>1, <1>3, <1>4, <2>1 DEF Became
<1>8. ASSUME Final(m, s) PROVE Settled(m, k, y)
  BY <1>1, <1>4, <1>5, <1>8 DEF Final, Settled
<1> QED
  BY <1>1, <1>2, <1>7, <1>8

\* What is numbered stays so when more keys are drawn.
LEMMA MoreNumbered ==
  ASSUME NEW N \in Keys, NEW N2 \in Keys, AtLeast(N2, N), NEW M \in Keys, NEW M2 \in Keys, AtLeast(M, M2),
         NEW k, NEW id \in Nat, NumberedFrom(N, M, k, id)
  PROVE  NumberedFrom(N2, M2, k, id)
<1>1. CASE k[1] \in Tables
  <2>1. /\ N[k[1]] \in Nat /\ N2[k[1]] \in Nat /\ M[k[1]] \in Nat /\ M2[k[1]] \in Nat
        /\ N2[k[1]] <= N[k[1]] /\ M[k[1]] <= M2[k[1]]
    BY <1>1 DEF Keys, AtLeast
  <2>2. N[k[1]] <= id /\ id < M[k[1]]
    BY <1>1 DEF NumberedFrom
  <2> QED
    BY <1>1, <2>1, <2>2 DEF NumberedFrom
<1>2. CASE k[1] \notin Tables
  BY <1>2 DEF NumberedFrom
<1> QED
  BY <1>1, <1>2

LEMMA GrowStep ==
  ASSUME NEW m, NEW o, NEW N \in Keys, NEW t, IsRun(t), t.ok, t.next \in Keys, AtLeast(N, t.next),
         NEW B, NEW F, Grown(m, o, N, t, B, F), NEW s, StepSound(m, s), NEW u, u = Ensure(t, s), u.ok,
         NEW G, F \subseteq G, G \subseteq F \union {s.key}, s.key \in G \ F => Final(m, s)
  PROVE  Grown(m, o, N, u, B \union {s.key}, G)
<1> DEFINE C == B \union {s.key}
<1>0. PICK k : k = s.key
  OBVIOUS
<1>1. k \in KeysOf(m)
  BY <1>0 DEF StepSound
<1>2. \/ /\ k \in DOMAIN t.objects /\ Agrees(t.objects, s)
         /\ u.objects = [t.objects EXCEPT ![k] = Found(t.objects[k], s)] /\ u.next = t.next
      \/ /\ k \notin DOMAIN t.objects /\ s.makes
         /\ u.objects = With(t.objects, k, Made(t.next, s)) /\ u.next = Drawn(t.next, k[1])
  BY <1>0, EnsureCases
<1>3. /\ DOMAIN t.objects = DOMAIN o \union B
      /\ B \subseteq KeysOf(m) /\ F \subseteq B /\ B \ DOMAIN o \subseteq MadeBy(m)
  BY DEF Grown
<1>4. /\ \A j \in DOMAIN t.objects : AnObject(t.objects[j])
      /\ \A j \in DOMAIN o : t.objects[j].id = o[j].id /\ (j \notin B => t.objects[j] = o[j])
  BY DEF Grown
<1>5. /\ \A j \in B \ DOMAIN o : t.objects[j].id \in Nat /\ NumberedFrom(N, t.next, j, t.objects[j].id)
      /\ \A i, j \in B \ DOMAIN o :
            i[1] = j[1] /\ j[1] \in Tables /\ t.objects[i].id = t.objects[j].id => i = j
  BY DEF Grown
<1>6. /\ \A j \in B : Became(m, j, Was(m, o, j), t.objects[j])
      /\ \A j \in F : Settled(m, j, t.objects[j])
  BY DEF Grown
<1>7. CASE /\ k \in DOMAIN t.objects /\ Agrees(t.objects, s)
           /\ u.objects = [t.objects EXCEPT ![k] = Found(t.objects[k], s)] /\ u.next = t.next
  <2>1. PICK x, y, w : x = t.objects[k] /\ y = Found(x, s) /\ w = Was(m, o, k)
    OBVIOUS
  <2>2. /\ DOMAIN u.objects = DOMAIN t.objects /\ u.objects[k] = y
        /\ \A j \in DOMAIN t.objects : j # k => u.objects[j] = t.objects[j]
    BY <1>7, <2>1
  <2>3. x = w \/ Became(m, k, w, x)
    <3>1. CASE k \in B
      BY <1>6, <2>1, <3>1
    <3>2. CASE k \notin B
      <4>1. k \in DOMAIN o
        BY <1>3, <1>7, <3>2
      <4> QED
        BY <1>4, <2>1, <3>2, <4>1 DEF Was
    <3> QED
      BY <3>1, <3>2
  <2>4. AnObject(x)
    BY <1>4, <1>7, <2>1
  <2>5. AgreesButLink(t.objects, s) /\ (s.links = {} \/ x.link \in s.links)
    BY <1>0, <1>7, <2>1 DEF Agrees
  <2>6. /\ AnObject(y) /\ y.id = x.id /\ Became(m, k, w, y)
        /\ Settled(m, k, x) \/ Final(m, s) => Settled(m, k, y)
    BY <1>0, <2>1, <2>3, <2>4, <2>5, FoundBecame
  <2>7. \A j \in DOMAIN t.objects : u.objects[j].id = t.objects[j].id
    BY <2>1, <2>2, <2>6
  <2>8. C \ DOMAIN o = B \ DOMAIN o /\ C \subseteq DOMAIN t.objects
    BY <1>0, <1>3, <1>7
  <2>9. DOMAIN u.objects = DOMAIN o \union C
    BY <1>3, <2>2, <2>8
  <2>10. C \subseteq KeysOf(m) /\ G \subseteq C /\ C \ DOMAIN o \subseteq MadeBy(m)
    BY <1>0, <1>1, <1>3, <2>8
  <2>11. \A j \in DOMAIN u.objects : AnObject(u.objects[j])
    BY <1>4, <2>2, <2>6
  <2>12. \A j \in DOMAIN o : u.objects[j].id = o[j].id /\ (j \notin C => u.objects[j] = o[j])
    BY <1>0, <1>3, <1>4, <2>2, <2>7
  <2>13. /\ \A j \in C \ DOMAIN o : u.objects[j].id \in Nat /\ NumberedFrom(N, u.next, j, u.objects[j].id)
         /\ \A i, j \in C \ DOMAIN o :
               i[1] = j[1] /\ j[1] \in Tables /\ u.objects[i].id = u.objects[j].id => i = j
    <3>1. \A j \in C \ DOMAIN o : j \in B \ DOMAIN o /\ u.objects[j].id = t.objects[j].id
      BY <2>7, <2>8
    <3> HIDE DEF C
    <3> QED
      BY <1>5, <1>7, <3>1
  <2>14. \A j \in C : Became(m, j, Was(m, o, j), u.objects[j])
    <3>1. \A j \in C : j = k \/ (j \in B /\ j # k /\ u.objects[j] = t.objects[j])
      BY <1>0, <2>2, <2>8
    <3>2. Became(m, k, Was(m, o, k), u.objects[k])
      BY <2>1, <2>2, <2>6
    <3> QED
      BY <1>6, <3>1, <3>2
  <2>15. \A j \in G : Settled(m, j, u.objects[j])
    <3>1. \A j \in G : j = k \/ (j \in F /\ j # k /\ u.objects[j] = t.objects[j])
      BY <1>0, <1>3, <2>2
    <3>2. k \in G => Settled(m, k, u.objects[k])
      BY <1>0, <1>6, <2>1, <2>2, <2>6
    <3> QED
      BY <1>6, <3>1, <3>2
  <2> HIDE DEF C
  <2>16. Grown(m, o, N, u, C, G)
    BY <2>9, <2>10, <2>11, <2>12, <2>13, <2>14, <2>15 DEF Grown
  <2> QED
    BY <2>16 DEF C
<1>8. CASE /\ k \notin DOMAIN t.objects /\ s.makes
           /\ u.objects = With(t.objects, k, Made(t.next, s)) /\ u.next = Drawn(t.next, k[1])
  <2>1. PICK y : y = Made(t.next, s)
    OBVIOUS
  <2>2. /\ DOMAIN u.objects = DOMAIN t.objects \union {k} /\ u.objects[k] = y
        /\ \A j \in DOMAIN t.objects : u.objects[j] = t.objects[j]
    BY <1>8, <2>1 DEF With
  <2>3. k \notin DOMAIN o /\ k \notin B
    BY <1>3, <1>8
  <2>4. /\ AnObject(y) /\ y.id \in Nat /\ NumberedFrom(t.next, u.next, k, y.id)
        /\ Became(m, k, Was(m, o, k), y) /\ (Final(m, s) => Settled(m, k, y))
    BY <1>0, <1>8, <2>1, <2>3, MadeBecame
  <2>5. u.next \in Keys /\ AtLeast(t.next, u.next)
    BY <1>8, DrawnKeys
  <2>6. C \ DOMAIN o = (B \ DOMAIN o) \union {k}
    BY <1>0, <2>3
  <2>7. DOMAIN u.objects = DOMAIN o \union C
    BY <1>0, <1>3, <2>2
  <2>8. C \subseteq KeysOf(m) /\ G \subseteq C /\ C \ DOMAIN o \subseteq MadeBy(m)
    <3>1. k \in MadeBy(m)
      BY <1>0, <1>8 DEF StepSound
    <3> QED
      BY <1>0, <1>1, <1>3, <2>6, <3>1
  <2>9. \A j \in DOMAIN u.objects : AnObject(u.objects[j])
    BY <1>4, <2>2, <2>4
  <2>10. \A j \in DOMAIN o : u.objects[j].id = o[j].id /\ (j \notin C => u.objects[j] = o[j])
    BY <1>3, <1>4, <2>2
  <2>11. \A j \in C \ DOMAIN o : u.objects[j].id \in Nat /\ NumberedFrom(N, u.next, j, u.objects[j].id)
    <3>1. ASSUME NEW j \in B \ DOMAIN o
          PROVE  u.objects[j].id \in Nat /\ NumberedFrom(N, u.next, j, u.objects[j].id)
      <4>1. u.objects[j] = t.objects[j] /\ t.objects[j].id \in Nat /\ NumberedFrom(N, t.next, j, t.objects[j].id)
        BY <1>3, <1>5, <2>2, <3>1
      <4>2. AtLeast(N, N)
        BY DEF AtLeast, Keys
      <4> QED
        BY <2>5, <4>1, <4>2, MoreNumbered
    <3>2. NumberedFrom(N, u.next, k, y.id)
      <4>1. AtLeast(u.next, u.next)
        BY <2>5 DEF AtLeast, Keys
      <4> QED
        BY <2>4, <2>5, <4>1, MoreNumbered
    <3> HIDE DEF C
    <3> QED
      BY <2>2, <2>4, <2>6, <3>1, <3>2
  <2>12. \A i, j \in C \ DOMAIN o :
            i[1] = j[1] /\ j[1] \in Tables /\ u.objects[i].id = u.objects[j].id => i = j
    <3>1. ASSUME NEW j \in B \ DOMAIN o, j[1] = k[1], k[1] \in Tables
          PROVE  u.objects[j].id # u.objects[k].id
      <4>1. u.objects[j] = t.objects[j] /\ t.objects[j].id \in Nat /\ NumberedFrom(N, t.next, j, t.objects[j].id)
        BY <1>3, <1>5, <2>2, <3>1
      <4>2. PICK a, b, c : a = t.objects[j].id /\ b = t.next[k[1]] /\ c = y.id
        OBVIOUS
      <4>3. a \in Nat /\ b \in Nat /\ c \in Nat
        BY <2>4, <3>1, <4>1, <4>2 DEF Keys
      <4>4. a < b /\ b <= c
        BY <2>4, <3>1, <4>1, <4>2 DEF NumberedFrom
      <4> QED
        BY <2>2, <4>1, <4>2, <4>3, <4>4
    <3>2. \A j \in B \ DOMAIN o : u.objects[j] = t.objects[j]
      BY <1>3, <2>2
    <3>3. ASSUME NEW i \in C \ DOMAIN o, NEW j \in C \ DOMAIN o, i[1] = j[1], j[1] \in Tables,
                 u.objects[i].id = u.objects[j].id
          PROVE  i = j
      <4>1. CASE i \in B \ DOMAIN o /\ j \in B \ DOMAIN o
        BY <1>5, <3>2, <3>3, <4>1
      <4>2. CASE i = k /\ j # k
        <5>1. j \in B \ DOMAIN o
          BY <2>6, <3>3, <4>2
        <5> QED
          BY <3>1, <3>3, <4>2, <5>1
      <4>3. CASE j = k /\ i # k
        <5>1. i \in B \ DOMAIN o
          BY <2>6, <3>3, <4>3
        <5> QED
          BY <3>1, <3>3, <4>3, <5>1
      <4> QED
        BY <2>6, <3>3, <4>1, <4>2, <4>3
    <3> QED
      BY <3>3
  <2>13. \A j \in C : Became(m, j, Was(m, o, j), u.objects[j])
    <3>1. \A j \in C : j = k \/ (j \in B /\ u.objects[j] = t.objects[j])
      BY <1>0, <1>3, <2>2
    <3>2. Became(m, k, Was(m, o, k), u.objects[k])
      BY <2>2, <2>4
    <3> QED
      BY <1>6, <3>1, <3>2
  <2>14. \A j \in G : Settled(m, j, u.objects[j])
    <3>1. \A j \in G : j = k \/ (j \in F /\ u.objects[j] = t.objects[j])
      BY <1>0, <1>3, <2>2
    <3>2. k \in G => Settled(m, k, u.objects[k])
      BY <1>0, <1>3, <2>2, <2>3, <2>4
    <3> QED
      BY <1>6, <3>1, <3>2
  <2> HIDE DEF C
  <2>15. Grown(m, o, N, u, C, G)
    BY <2>7, <2>8, <2>9, <2>10, <2>11, <2>12, <2>13, <2>14 DEF Grown
  <2> QED
    BY <2>15 DEF C
<1> QED
  BY <1>2, <1>7, <1>8

LEMMA Upwards ==
  ASSUME NEW L \in Nat, NEW S, 0 \in S, \A n \in 1..L : n - 1 \in S => n \in S
  PROVE  0..L \subseteq S
<1> DEFINE Missing == {n \in 0..L : n \notin S}
<1> SUFFICES ASSUME Missing # {} PROVE FALSE
  OBVIOUS
<1>1. PICK k \in Missing : \A j \in Missing : k <= j
  <2>1. Missing \in SUBSET Nat
    OBVIOUS
  <2> HIDE DEF Missing
  <2> QED
    BY <2>1, LeastNumber
<1>2. k \in 1..L /\ k - 1 \in 0..L /\ ~(k <= k - 1)
  BY <1>1
<1>3. k - 1 \in S
  BY <1>1, <1>2
<1> QED
  BY <1>1, <1>2, <1>3

\* The primary keys of a run are drawn in order, whether it is refused or not.
Drew(N, t) ==
    /\ IsRun(t) /\ t.next \in Keys /\ AtLeast(N, t.next)
    /\ \A d \in t.drawn : d \in Keys /\ AtLeast(N, d)

LEMMA DrewStep ==
  ASSUME NEW N \in Keys, NEW t, Drew(N, t), NEW s, NEW u, u = Ensure(t, s)
  PROVE  Drew(N, u) /\ (u.ok => t.ok)
<1>1. IsRun(t) /\ t.next \in Keys /\ AtLeast(N, t.next) /\ \A d \in t.drawn : d \in Keys /\ AtLeast(N, d)
  BY DEF Drew
<1>2. /\ IsRun(u)
      /\ \/ u = t
         \/ t.ok /\ u.next = t.next /\ u.drawn = t.drawn
         \/ t.ok /\ u.next = Drawn(t.next, s.key[1]) /\ u.drawn = t.drawn \union {u.next}
  BY <1>1, EnsureCases
<1>3. CASE u = t
  BY <1>3
<1>4. CASE t.ok /\ u.next = t.next /\ u.drawn = t.drawn
  BY <1>1, <1>2, <1>4 DEF Drew
<1>5. CASE t.ok /\ u.next = Drawn(t.next, s.key[1]) /\ u.drawn = t.drawn \union {u.next}
  <2>1. u.next \in Keys /\ AtLeast(t.next, u.next)
    BY <1>1, <1>5, DrawnKeys
  <2>2. AtLeast(N, u.next)
    BY <1>1, <2>1 DEF AtLeast, Keys
  <2> QED
    BY <1>1, <1>2, <1>5, <2>1, <2>2 DEF Drew
<1> QED
  BY <1>2, <1>3, <1>4, <1>5

\* What a run has gone through and settled after n steps.
KeysTo(q, n) == {q[i].key : i \in 1..n}
FinalsTo(m, q, n) == {q[i].key : i \in {j \in 1..n : Final(m, q[j])}}

LEMMA RunGrownTo ==
  ASSUME NEW m \in ToSet(Migrations), NEW o, \A k \in DOMAIN o : AnObject(o[k]), NEW N \in Keys,
         NEW q, q = Steps[m], NEW f, RunsAs(f, q, Start(m, o, N))
  PROVE  \A n \in 0..Len(q) :
            /\ Drew(N, f[n])
            /\ f[n].ok => Before(m, o) /\ Grown(m, o, N, f[n], KeysTo(q, n), FinalsTo(m, q, n))
<1>2. Block(m, q, Needs(m), KeysOf(m), MadeBy(m), KeysOf(m))
  BY MigrationBlock
<1>3. PICK L \in Nat : L = Len(q)
  BY <1>2 DEF Block
<1>5. /\ f[0] = Start(m, o, N)
      /\ \A n \in 1..L : f[n] = Ensure(f[n - 1], q[n])
  BY <1>3 DEF RunsAs
<1>6. \A n \in 1..L : StepSound(m, q[n])
  BY <1>2, <1>3 DEF Block
<1> DEFINE B(n) == KeysTo(q, n)
           F(n) == FinalsTo(m, q, n)
           S == {n \in 0..L : /\ Drew(N, f[n])
                              /\ f[n].ok => Before(m, o) /\ Grown(m, o, N, f[n], B(n), F(n))}
<1>7. 0 \in S
  <2>1. PICK z : z = Start(m, o, N)
    OBVIOUS
  <2>2. IsRun(z) /\ z.next = N /\ z.drawn = {} /\ z.objects = o /\ (z.ok => Before(m, o))
    BY <2>1 DEF Start, IsRun
  <2>3. AtLeast(N, N)
    BY DEF AtLeast, Keys
  <2>4. B(0) = {} /\ F(0) = {}
    BY DEF KeysTo, FinalsTo
  <2>5. Drew(N, z)
    BY <2>2, <2>3 DEF Drew
  <2> HIDE DEF B, F
  <2>6. Grown(m, o, N, z, B(0), F(0))
    BY <2>2, <2>4 DEF Grown
  <2> QED
    BY <1>5, <2>1, <2>2, <2>5, <2>6
<1>8. ASSUME NEW n \in 1..L, n - 1 \in S
      PROVE  n \in S
  <2>1. PICK x, u, s : x = f[n - 1] /\ u = f[n] /\ s = q[n]
    OBVIOUS
  <2>2. u = Ensure(x, s) /\ StepSound(m, s)
    BY <1>5, <1>6, <2>1
  <2>3. Drew(N, x) /\ (x.ok => Before(m, o) /\ Grown(m, o, N, x, B(n - 1), F(n - 1)))
    BY <1>8, <2>1
  <2>4. Drew(N, u) /\ (u.ok => x.ok)
    BY <2>2, <2>3, DrewStep
  <2>5. B(n) = B(n - 1) \union {s.key}
    <3>1. 1..n = (1..(n - 1)) \union {n}
      BY <1>3
    <3> QED
      BY <2>1, <3>1 DEF KeysTo
  <2>6. F(n - 1) \subseteq F(n) /\ F(n) \subseteq F(n - 1) \union {s.key} /\ (s.key \in F(n) \ F(n - 1) => Final(m, s))
    <3>1. \A i : i \in 1..n <=> i \in 1..(n - 1) \/ i = n
      BY <1>3
    <3>2. F(n - 1) \subseteq F(n)
      BY <3>1 DEF FinalsTo
    <3>3. ASSUME NEW k \in F(n) PROVE k \in F(n - 1) \/ (k = s.key /\ Final(m, s))
      <4>1. PICK i \in 1..n : Final(m, q[i]) /\ k = q[i].key
        BY <3>3 DEF FinalsTo
      <4> QED
        BY <2>1, <3>1, <4>1 DEF FinalsTo
    <3> HIDE DEF F
    <3> QED
      BY <3>2, <3>3
  <2>7. PICK B1, B2, F1, F2 : B1 = B(n - 1) /\ B2 = B(n) /\ F1 = F(n - 1) /\ F2 = F(n)
    OBVIOUS
  <2>8. ASSUME u.ok PROVE Before(m, o) /\ Grown(m, o, N, u, B2, F2)
    <3>1. x.ok /\ Before(m, o) /\ Grown(m, o, N, x, B1, F1)
      BY <2>3, <2>4, <2>7, <2>8
    <3>2. B2 = B1 \union {s.key} /\ F1 \subseteq F2 /\ F2 \subseteq F1 \union {s.key} /\ (s.key \in F2 \ F1 => Final(m, s))
      BY <2>5, <2>6, <2>7
    <3>3. IsRun(x) /\ x.next \in Keys /\ AtLeast(N, x.next)
      BY <2>3 DEF Drew
    <3> HIDE DEF B, F, S
    <3>4. Grown(m, o, N, u, B1 \union {s.key}, F2)
      BY <2>2, <2>8, <3>1, <3>2, <3>3, GrowStep
    <3> QED
      BY <3>1, <3>2, <3>4
  <2> QED
    BY <2>1, <2>4, <2>7, <2>8
<1>9. 0..L \subseteq S
  <2> HIDE DEF S
  <2> QED
    BY <1>7, <1>8, Upwards
<1> QED
  BY <1>3, <1>9

\* A run that comes to its end went through all the keys of its migration and settled them.
LEMMA RunGrown ==
  ASSUME NEW m \in ToSet(Migrations), NEW o, \A k \in DOMAIN o : AnObject(o[k]), NEW N \in Keys,
         NEW t, t = Transaction(m, o, N)
  PROVE  /\ Drew(N, t)
         /\ t.ok => Before(m, o) /\ Grown(m, o, N, t, KeysOf(m), KeysOf(m))
<1>1. PICK q : q = Steps[m]
  OBVIOUS
<1>2. Block(m, q, Needs(m), KeysOf(m), MadeBy(m), KeysOf(m))
  BY <1>1, MigrationBlock
<1>3. PICK L \in Nat : L = Len(q)
  BY <1>2 DEF Block
<1>4. PICK f : RunsAs(f, q, Start(m, o, N)) /\ t = f[L]
  BY <1>1, <1>3, TransactionGoes
<1>5. KeysTo(q, L) = KeysOf(m) /\ FinalsTo(m, q, L) = KeysOf(m)
  BY <1>2, <1>3 DEF Block, KeysIn, FinalsIn, KeysTo, FinalsTo
<1>6. L \in 0..Len(q)
  BY <1>3
<1>7. /\ Drew(N, f[L])
      /\ f[L].ok => Before(m, o) /\ Grown(m, o, N, f[L], KeysTo(q, L), FinalsTo(m, q, L))
  BY <1>1, <1>4, <1>6, RunGrownTo
<1> QED
  BY <1>4, <1>5, <1>7

-----------------------------------------------------------------------------
(***************************************************************************)
(* The primary keys of an inventory in which none was drawn in vain.       *)
(***************************************************************************)

\* What AsMigrated asks of a migration.
LEMMA MadeKeys ==
  ASSUME NEW m \in ToSet(Migrations)
  PROVE  /\ DOMAIN Makes[m] = MadeBy(m)
         /\ \A k \in MadeBy(m) : Makes[m][k] = Adds(m, k)
<1>1. PICK q : q = Steps[m]
  OBVIOUS
<1>2. Block(m, q, Needs(m), KeysOf(m), MadeBy(m), KeysOf(m))
  BY <1>1, MigrationBlock
<1>3. PICK L \in Nat : L = Len(q) /\ DOMAIN q = 1..L
  BY <1>2 DEF Block
<1>4. ToSet(q) = {q[i] : i \in 1..L}
  BY <1>3 DEF ToSet
<1> DEFINE made == {s.key : s \in {s \in ToSet(q) : s.makes}}
           marks(k) == UNION {s.adds : s \in {s \in ToSet(q) : s.key = k}}
<1>5. Makes[m] = [k \in made |-> marks(k)]
  BY <1>1 DEF Makes
<1>6. made = MakesIn(q)
  BY <1>3, <1>4 DEF MakesIn
<1>7. MakesIn(q) = MadeBy(m) /\ MadeBy(m) \subseteq KeysOf(m)
  BY <1>2 DEF Block, MadeBy
<1>8. ASSUME NEW k \in KeysOf(m)
      PROVE  marks(k) = Adds(m, k)
  <2>1. \A i \in 1..L : q[i].adds \subseteq Adds(m, q[i].key)
    BY <1>2, <1>3 DEF Block, StepSound
  <2>2. PICK i \in 1..L : q[i].key = k /\ Final(m, q[i])
    BY <1>2, <1>3 DEF Block, FinalsIn
  <2>3. q[i].adds = Adds(m, k)
    BY <2>2 DEF Final
  <2>4. marks(k) \subseteq Adds(m, k)
    BY <1>4, <2>1
  <2>5. Adds(m, k) \subseteq marks(k)
    BY <1>4, <2>2, <2>3
  <2> QED
    BY <2>4, <2>5
<1> HIDE DEF made, marks
<1> QED
  BY <1>5, <1>6, <1>7, <1>8

AllPorts == OldPorts \union NewPorts \union Subinterfaces
AllIPs == OldIPs \union NewIPs \union RoutedAt \union LoopbackIds \union Gateways
AllSlugs == {Slug("lab"), Slug("inventory"), Slug("data-plane"), Slug("routing"), Slug("gateway")}

LEMMA KeysByTable ==
  AllKeys = Named(Devices) \union AllPorts \union AllIPs \union CableKeys \union PrefixKeys \union VlanKeys
            \union AllSlugs \union {ReadPermission}
<1>1. UNION {KeysOf(m) : m \in ToSet(Migrations)} =
      KeysOf("inventory") \union KeysOf("activation") \union KeysOf("data-plane") \union KeysOf("router-ids")
      \union KeysOf("gateways")
  BY MigrationNames
<1>2. /\ Named(Existing) \subseteq Named(Devices) /\ Named(NewDevices) \subseteq Named(Devices)
      /\ Named(ToSet(Speakers)) \subseteq Named(Devices)
  <2>1. ToSet(Speakers) = {"core", "edge", "transit"}
    BY DEF ToSet, Speakers
  <2> QED
    BY <2>1 DEF Named, Devices, Existing, NewDevices
<1>3. RoutedOn \subseteq OldPorts \union NewPorts
  BY DEF RoutedOn, OldPorts, NewPorts
<1> QED
  BY <1>1, <1>2, <1>3 DEF AllKeys, Known, KeysOf, AllPorts, AllIPs, AllSlugs

\* The first member of a key is its table.
LEMMA KeyTables ==
  /\ \A k \in Named(Devices) : k[1] = "device"
  /\ \A k \in AllPorts : k[1] = "interface"
  /\ \A k \in AllIPs : k[1] = "ip"
  /\ \A k \in CableKeys : k[1] = "cable"
  /\ \A k \in PrefixKeys : k[1] = "prefix"
  /\ \A k \in VlanKeys : k[1] = "vlan"
  /\ \A k \in AllSlugs : k[1] = "slug"
  /\ ReadPermission[1] = "permission"
<1>1. \A k \in Named(Devices) : k[1] = "device"
  BY DEF Named, Device
<1>2. \A k \in AllPorts : k[1] = "interface"
  BY DEF AllPorts, OldPorts, NewPorts, Subinterfaces, Port
<1>3. \A k \in AllIPs : k[1] = "ip"
  BY DEF AllIPs, OldIPs, NewIPs, RoutedAt, LoopbackIds, Gateways, IP
<1>4. \A k \in CableKeys : k[1] = "cable"
  BY DEF CableKeys, Cable
<1>5. \A k \in PrefixKeys : k[1] = "prefix"
  BY DEF PrefixKeys, Prefix
<1>6. \A k \in VlanKeys : k[1] = "vlan"
  BY DEF VlanKeys, Vlan
<1>7. \A k \in AllSlugs : k[1] = "slug"
  BY DEF AllSlugs, Slug
<1> QED
  BY <1>1, <1>2, <1>3, <1>4, <1>5, <1>6, <1>7 DEF ReadPermission

LEMMA DeviceNumbers ==
  /\ RefId(Device("core")) = 1 /\ RefId(Device("edge")) = 2 /\ RefId(Device("transit")) = 8
  /\ RefId(Device("access")) = 9
  /\ Named(Devices) = {Device("core"), Device("edge"), Device("transit"), Device("access")}
  BY DEF RefId, Device, DeviceId, Named, Devices, Existing

LEMMA PortNumbers ==
  /\ RefId(Port("core", "management")) = 1 /\ RefId(Port("core", "transit")) = 2
  /\ RefId(Port("edge", "management")) = 3 /\ RefId(Port("edge", "transit")) = 4
  /\ RefId(Port("core", "access")) = 7 /\ RefId(Port("core", "edge")) = 11 /\ RefId(Port("edge", "core")) = 12
  /\ RefId(Port("transit", "management")) = 13 /\ RefId(Port("transit", "core")) = 14
  /\ RefId(Port("transit", "edge")) = 15 /\ RefId(Port("transit", "spare")) = 16
  /\ RefId(Port("access", "management")) = 17 /\ RefId(Port("access", "core")) = 18
  /\ RefId(Port("access", "users")) = 19 /\ RefId(Port("access", "servers")) = 20
  /\ RefId(Port("core", "10")) = 21 /\ RefId(Port("core", "20")) = 22
<1>1. \A d, p : RefId(Port(d, p)) = PortNumber(d, p)
  BY DEF RefId, Port
<1> QED
  BY <1>1 DEF PortNumber

LEMMA AddressNumbers ==
  /\ RefId(IP("core", "live")) = 1 /\ RefId(IP("edge", "live")) = 2
  /\ RefId(IP("core", "staging")) = 3 /\ RefId(IP("edge", "staging")) = 4
  /\ RefId(IP("transit", "live")) = 13 /\ RefId(IP("transit", "staging")) = 14
  /\ RefId(IP("access", "live")) = 15 /\ RefId(IP("access", "staging")) = 16
  /\ RefId(IP("core", "edge")) = 17 /\ RefId(IP("edge", "core")) = 18 /\ RefId(IP("core", "transit")) = 19
  /\ RefId(IP("transit", "core")) = 20 /\ RefId(IP("edge", "transit")) = 21 /\ RefId(IP("transit", "edge")) = 22
  /\ RefId(IP("core", "router-id")) = 23 /\ RefId(IP("edge", "router-id")) = 24
  /\ RefId(IP("transit", "router-id")) = 25 /\ RefId(IP("core", "10")) = 26 /\ RefId(IP("core", "20")) = 27
<1>1. \A d, p : RefId(IP(d, p)) = AddressNumber(d, p)
  BY DEF RefId, IP
<1> QED
  BY <1>1 DEF AddressNumber

LEMMA OtherNumbers ==
  /\ RefId(Cable("core", "edge")) = 1 /\ RefId(Cable("core", "transit")) = 2
  /\ RefId(Cable("edge", "transit")) = 3 /\ RefId(Cable("core", "access")) = 4
  /\ RefId(Prefix("parent")) = 2 /\ RefId(Prefix("core-edge")) = 3 /\ RefId(Prefix("core-transit")) = 4
  /\ RefId(Prefix("edge-transit")) = 5 /\ RefId(Prefix("10")) = 6 /\ RefId(Prefix("20")) = 7
  /\ RefId(Prefix("pool")) = 8 /\ RefId(Vlan("10")) = 1 /\ RefId(Vlan("20")) = 2
<1>1. /\ RefId(Cable("core", "edge")) = 1 /\ RefId(Cable("core", "transit")) = 2
      /\ RefId(Cable("edge", "transit")) = 3 /\ RefId(Cable("core", "access")) = 4
  BY DEF RefId, Cable, CableNumber
<1>2. /\ PrefixId["parent"] = 2 /\ PrefixId["core-edge"] = 3 /\ PrefixId["core-transit"] = 4
      /\ PrefixId["edge-transit"] = 5 /\ PrefixId["10"] = 6 /\ PrefixId["20"] = 7 /\ PrefixId["pool"] = 8
  BY PrefixNames DEF PrefixId
<1>3. \A n : RefId(Prefix(n)) = PrefixId[n]
  BY DEF RefId, Prefix
<1>4. \A n : RefId(Vlan(n)) = ServiceId[Vlan(n)]
  BY DEF RefId, Vlan, VlanId
<1> QED
  BY <1>1, <1>2, <1>3, <1>4, ServiceNumbers

LEMMA AllIPsListed ==
  AllIPs = {IP("core", "live"), IP("edge", "live"), IP("core", "staging"), IP("edge", "staging"),
            IP("transit", "live"), IP("transit", "staging"), IP("access", "live"), IP("access", "staging"),
            IP("core", "edge"), IP("edge", "core"), IP("core", "transit"), IP("transit", "core"),
            IP("edge", "transit"), IP("transit", "edge"), IP("core", "router-id"), IP("edge", "router-id"),
            IP("transit", "router-id"), IP("core", "10"), IP("core", "20")}
<1>1. OldIPs = {IP("core", "live"), IP("edge", "live"), IP("core", "staging"), IP("edge", "staging")}
  BY DEF OldIPs, Existing
<1>2. NewIPs = {IP("transit", "live"), IP("transit", "staging"), IP("access", "live"), IP("access", "staging")}
  BY DEF NewIPs, NewDevices
<1>3. Gateways = {IP("core", "10"), IP("core", "20")}
  BY DEF Gateways, Vids
<1> QED
  BY <1>1, <1>2, <1>3 DEF AllIPs, RoutedAt, LoopbackIds

LEMMA AllPortsListed ==
  AllPorts = {Port("core", "management"), Port("core", "transit"), Port("edge", "management"),
              Port("edge", "transit"), Port("core", "access"), Port("core", "edge"), Port("edge", "core"),
              Port("transit", "management"), Port("transit", "core"), Port("transit", "edge"),
              Port("transit", "spare"), Port("access", "management"), Port("access", "core"),
              Port("access", "users"), Port("access", "servers"), Port("core", "10"), Port("core", "20")}
<1>1. Subinterfaces = {Port("core", "10"), Port("core", "20")}
  BY DEF Subinterfaces, Vids
<1> QED
  BY <1>1 DEF AllPorts, OldPorts, NewPorts

\* The reference numbers the objects of a table apart.
LEMMA NumbersApart ==
  /\ \A k \in AllKeys : RefId(k) \in Nat /\ (k[1] \in Tables => RefId(k) # 0)
  /\ \A j, k \in AllKeys : j[1] = k[1] /\ k[1] \in Tables /\ RefId(j) = RefId(k) => j = k
<1>1. \A j, k \in Named(Devices) : RefId(j) \in Nat \ {0} /\ (RefId(j) = RefId(k) => j = k)
  BY DeviceNumbers
<1>2. \A j, k \in AllPorts : RefId(j) \in Nat \ {0} /\ (RefId(j) = RefId(k) => j = k)
  BY PortNumbers, AllPortsListed
<1>3. \A j, k \in AllIPs : RefId(j) \in Nat \ {0} /\ (RefId(j) = RefId(k) => j = k)
  BY AddressNumbers, AllIPsListed
<1>4. \A j, k \in CableKeys : RefId(j) \in Nat \ {0} /\ (RefId(j) = RefId(k) => j = k)
  BY OtherNumbers DEF CableKeys
<1>5. \A j, k \in PrefixKeys : RefId(j) \in Nat \ {0} /\ (RefId(j) = RefId(k) => j = k)
  <2>1. PrefixKeys = {Prefix("parent"), Prefix("core-edge"), Prefix("core-transit"), Prefix("edge-transit"),
                      Prefix("10"), Prefix("20"), Prefix("pool")}
    BY DEF PrefixKeys
  <2> QED
    BY <2>1, OtherNumbers
<1>6. \A j, k \in VlanKeys : RefId(j) \in Nat \ {0} /\ (RefId(j) = RefId(k) => j = k)
  <2>1. VlanKeys = {Vlan("10"), Vlan("20")}
    BY DEF VlanKeys, Vids
  <2> QED
    BY <2>1, OtherNumbers
<1>7. \A k \in AllSlugs \union {ReadPermission} : RefId(k) = 0 /\ k[1] \notin Tables
  BY KeyTables DEF RefId, Tables
<1>8. \A k \in AllKeys :
         \/ k[1] = "device" /\ k \in Named(Devices)
         \/ k[1] = "interface" /\ k \in AllPorts
         \/ k[1] = "ip" /\ k \in AllIPs
         \/ k[1] = "cable" /\ k \in CableKeys
         \/ k[1] = "prefix" /\ k \in PrefixKeys
         \/ k[1] = "vlan" /\ k \in VlanKeys
         \/ k \in AllSlugs \union {ReadPermission} /\ k[1] \notin Tables
  BY <1>7, KeysByTable, KeyTables
<1>9. ASSUME NEW k \in AllKeys PROVE RefId(k) \in Nat /\ (k[1] \in Tables => RefId(k) # 0)
  BY <1>1, <1>2, <1>3, <1>4, <1>5, <1>6, <1>7, <1>8
<1>10. ASSUME NEW j \in AllKeys, NEW k \in AllKeys, j[1] = k[1], k[1] \in Tables, RefId(j) = RefId(k)
       PROVE  j = k
  BY <1>1, <1>2, <1>3, <1>4, <1>5, <1>6, <1>8, <1>10
<1> QED
  BY <1>9, <1>10

\* An inventory that is numbered as the reference, with no primary key drawn in vain.
Numbered(o, N) ==
    /\ N \in Keys /\ AtLeast(FirstKeys, N)
    /\ DOMAIN o \subseteq AllKeys
    /\ \A k \in DOMAIN o : o[k].id = RefId(k)
    /\ \A k \in AllKeys : k[1] \in Tables => (k \in DOMAIN o <=> RefId(k) < N[k[1]])

LEMMA FirstKeysTyped == FirstKeys \in Keys
  BY DEF FirstKeys, Keys, Tables

\* A step keeps the numbers in order if what is numbered before its object is there.
LEMMA NumberedStep ==
  ASSUME NEW t, IsRun(t), t.ok, Numbered(t.objects, t.next), \A k \in DOMAIN t.objects : AnObject(t.objects[k]),
         NEW s, s.key \in AllKeys, NEW D, D \subseteq DOMAIN t.objects, Ready(s, D),
         NEW u, u = Ensure(t, s), u.ok
  PROVE  Numbered(u.objects, u.next)
<1>0. PICK k, o, N : k = s.key /\ o = t.objects /\ N = t.next
  OBVIOUS
<1>1. /\ N \in Keys /\ AtLeast(FirstKeys, N) /\ DOMAIN o \subseteq AllKeys
      /\ \A j \in DOMAIN o : o[j].id = RefId(j)
      /\ \A j \in AllKeys : j[1] \in Tables => (j \in DOMAIN o <=> RefId(j) < N[j[1]])
  BY <1>0 DEF Numbered
<1>2. \/ /\ k \in DOMAIN o /\ u.objects = [o EXCEPT ![k] = Found(o[k], s)] /\ u.next = N
      \/ /\ k \notin DOMAIN o /\ s.makes /\ u.objects = With(o, k, Made(N, s)) /\ u.next = Drawn(N, k[1])
  BY <1>0, EnsureCases
<1>3. CASE k \in DOMAIN o /\ u.objects = [o EXCEPT ![k] = Found(o[k], s)] /\ u.next = N
  <2>1. PICK x, y : x = o[k] /\ y = Found(x, s)
    OBVIOUS
  <2>2. /\ DOMAIN u.objects = DOMAIN o /\ u.objects[k] = y
        /\ \A j \in DOMAIN o : j # k => u.objects[j] = o[j]
    BY <1>3, <2>1
  <2>3. AnObject(x)
    BY <1>0, <1>3, <2>1
  <2>4. y.id = x.id
    <3>1. y = Found(x, s)
      BY <2>1
    <3> QED
      BY ONLY <2>3, <3>1, FoundFields
  <2>5. \A j \in DOMAIN o : u.objects[j].id = RefId(j)
    BY <1>1, <2>1, <2>2, <2>4
  <2> QED
    BY <1>1, <1>3, <2>2, <2>5 DEF Numbered
<1>4. CASE k \notin DOMAIN o /\ s.makes /\ u.objects = With(o, k, Made(N, s)) /\ u.next = Drawn(N, k[1])
  <2>1. PICK y, M : y = Made(N, s) /\ M = Drawn(N, k[1])
    OBVIOUS
  <2>2. /\ DOMAIN u.objects = DOMAIN o \union {k} /\ u.objects[k] = y
        /\ \A j \in DOMAIN o : u.objects[j] = o[j]
    BY <1>4, <2>1 DEF With
  <2>3. y.id = (IF k[1] \in Tables THEN N[k[1]] ELSE 0)
    <3>1. DOMAIN N = Tables
      BY <1>1 DEF Keys
    <3> QED
      BY <1>0, <2>1, <3>1, ObjectFields DEF Made
  <2>4. /\ M \in Keys /\ AtLeast(N, M) /\ (k[1] \in Tables => M[k[1]] = N[k[1]] + 1)
        /\ \A x \in Tables : x # k[1] => M[x] = N[x]
    BY <1>1, <2>1, DrawnKeys
  <2>5. AtLeast(FirstKeys, M)
    BY <1>1, <2>4, FirstKeysTyped DEF AtLeast, Keys
  <2>6. k \in AllKeys
    BY <1>0
  <2>7. ASSUME k[1] \in Tables PROVE RefId(k) = N[k[1]]
    <3>1. RefId(k) \in Nat /\ N[k[1]] \in Nat /\ FirstKeys[k[1]] \in Nat /\ FirstKeys[k[1]] <= N[k[1]]
      BY <1>1, <2>6, <2>7, NumbersApart, FirstKeysTyped DEF Keys, AtLeast
    <3>2. N[k[1]] <= RefId(k)
      BY <1>1, <1>4, <2>6, <2>7, <3>1
    <3>3. RefId(k) <= FirstKeys[k[1]] \/ \E p \in D : p[1] = k[1] /\ RefId(p) + 1 = RefId(k)
      BY <1>0, <1>4, <2>7 DEF Ready, Follows
    <3>4. CASE RefId(k) <= FirstKeys[k[1]]
      BY <3>1, <3>2, <3>4
    <3>5. CASE \E p \in D : p[1] = k[1] /\ RefId(p) + 1 = RefId(k)
      <4>1. PICK p \in D : p[1] = k[1] /\ RefId(p) + 1 = RefId(k)
        BY <3>5
      <4>2. p \in DOMAIN o /\ p \in AllKeys
        BY <1>0, <1>1
      <4>3. RefId(p) < N[k[1]] /\ RefId(p) \in Nat
        BY <1>1, <2>7, <4>1, <4>2, NumbersApart
      <4> QED
        BY <3>1, <3>2, <4>1, <4>3
    <3> QED
      BY <3>3, <3>4, <3>5
  <2>8. RefId(k) = y.id
    <3>1. k[1] \notin Tables => RefId(k) = 0
      BY DEF RefId, Tables
    <3> QED
      BY <2>3, <2>7, <3>1
  <2>9. \A j \in DOMAIN u.objects : u.objects[j].id = RefId(j)
    BY <1>1, <2>2, <2>8
  <2>10. ASSUME NEW j \in AllKeys, j[1] \in Tables
         PROVE  j \in DOMAIN u.objects <=> RefId(j) < M[j[1]]
    <3>1. RefId(j) \in Nat /\ N[j[1]] \in Nat /\ M[j[1]] \in Nat
      BY <1>1, <2>4, <2>10, NumbersApart DEF Keys
    <3>2. j \in DOMAIN o <=> RefId(j) < N[j[1]]
      BY <1>1, <2>10
    <3>3. CASE j[1] # k[1]
      <4>1. j # k /\ M[j[1]] = N[j[1]]
        BY <2>4, <2>10, <3>3
      <4> QED
        BY <2>2, <3>2, <4>1
    <3>4. CASE j[1] = k[1]
      <4>1. M[j[1]] = N[j[1]] + 1 /\ RefId(k) = N[j[1]]
        BY <2>4, <2>7, <2>10, <3>4
      <4>2. RefId(j) = RefId(k) => j = k
        BY <2>6, <2>10, <3>4, NumbersApart
      <4>3. j \in DOMAIN u.objects <=> j \in DOMAIN o \/ j = k
        BY <2>2
      <4> QED
        BY <3>1, <3>2, <4>1, <4>2, <4>3
    <3> QED
      BY <3>3, <3>4
  <2>11. DOMAIN u.objects \subseteq AllKeys
    BY <1>1, <2>2, <2>6
  <2>12. u.next = M
    BY <1>4, <2>1
  <2> QED
    BY <2>4, <2>5, <2>9, <2>10, <2>11, <2>12 DEF Numbered
<1> QED
  BY <1>2, <1>3, <1>4

LEMMA MigrationKeys ==
  ASSUME NEW m \in ToSet(Migrations)
  PROVE  KeysOf(m) \subseteq AllKeys /\ MadeBy(m) \subseteq KeysOf(m)
  BY DEF AllKeys, MadeBy

LEMMA RunNumbered ==
  ASSUME NEW m \in ToSet(Migrations), NEW o, \A k \in DOMAIN o : AnObject(o[k]), NEW N \in Keys, Numbered(o, N),
         Needs(m) \subseteq DOMAIN o, NEW q, q = Steps[m], NEW f, RunsAs(f, q, Start(m, o, N))
  PROVE  \A n \in 0..Len(q) : f[n].ok => Numbered(f[n].objects, f[n].next)
<1>1. Block(m, q, DOMAIN o, KeysOf(m), MadeBy(m), KeysOf(m))
  BY MigrationBlock
<1>2. PICK L \in Nat : L = Len(q)
  BY <1>1 DEF Block
<1>3. \A n \in 0..L : /\ Drew(N, f[n])
                      /\ f[n].ok => Grown(m, o, N, f[n], KeysTo(q, n), FinalsTo(m, q, n))
  BY <1>2, RunGrownTo
<1>4. /\ f[0] = Start(m, o, N)
      /\ \A n \in 1..L : f[n] = Ensure(f[n - 1], q[n])
  BY <1>2 DEF RunsAs
<1> DEFINE S == {n \in 0..L : f[n].ok => Numbered(f[n].objects, f[n].next)}
<1>5. 0 \in S
  BY <1>4 DEF Start
<1>6. ASSUME NEW n \in 1..L, n - 1 \in S PROVE n \in S
  <2>1. PICK t, u, s : t = f[n - 1] /\ u = f[n] /\ s = q[n]
    OBVIOUS
  <2>2. n - 1 \in 0..L /\ n \in 0..L
    BY <1>2
  <2>3. u = Ensure(t, s) /\ Drew(N, t)
    BY <1>3, <1>4, <2>1, <2>2
  <2>4. u.ok => t.ok
    BY <2>3, DrewStep
  <2>5. SUFFICES ASSUME u.ok PROVE Numbered(u.objects, u.next)
    BY <2>1, <2>2
  <2>6. t.ok /\ Grown(m, o, N, t, KeysTo(q, n - 1), FinalsTo(m, q, n - 1)) /\ Numbered(t.objects, t.next)
    BY <1>3, <1>6, <2>1, <2>2, <2>4, <2>5
  <2>7. DOMAIN t.objects = DOMAIN o \union KeysTo(q, n - 1) /\ \A k \in DOMAIN t.objects : AnObject(t.objects[k])
    BY <2>6 DEF Grown
  <2>8. Ready(s, DOMAIN o \union KeysTo(q, n - 1)) /\ s.key \in AllKeys
    <3>1. StepSound(m, s) /\ Ready(s, DOMAIN o \union KeysBefore(q, n))
      BY <1>1, <1>2, <2>1 DEF Block
    <3>2. KeysBefore(q, n) = KeysTo(q, n - 1)
      BY DEF KeysBefore, KeysTo
    <3> QED
      BY <3>1, <3>2, MigrationKeys DEF StepSound
  <2>9. IsRun(t)
    BY <2>3 DEF Drew
  <2> QED
    BY <2>3, <2>5, <2>6, <2>7, <2>8, <2>9, NumberedStep
<1>7. 0..L \subseteq S
  <2> HIDE DEF S
  <2> QED
    BY <1>2, <1>5, <1>6, Upwards
<1> QED
  BY <1>2, <1>7

-----------------------------------------------------------------------------
(***************************************************************************)
(* The inventory that nothing but migrations changed: it is in order, each *)
(* migration runs to its end in its turn, and each resolver accepts it.    *)
(***************************************************************************)

\* The inventory after the migrations in done, when each ran to its end once or more.
Ordered(done) ==
    /\ done \subseteq ToSet(Migrations)
    /\ {"activation", "data-plane"} \intersect done # {} => "inventory" \in done
    /\ "router-ids" \in done => "data-plane" \in done
    /\ "gateways" \in done => "router-ids" \in done
KeysDone(done) == Known \union UNION {KeysOf(m) : m \in done}
FirstMarks(k) ==
    CASE k = Device("core") -> {"managed", "fleet"}
      [] k = Device("edge") -> {"managed"}
      [] k = Port("core", "management") -> {"protected"}
      [] k = Port("edge", "management") -> {"protected"}
      [] k = Port("core", "access") -> {"fleet"}
      [] OTHER -> {}
MarksOf(done, k) == FirstMarks(k) \union UNION {Adds(m, k) : m \in {m \in done : k \in KeysOf(m)}}
ValueIn(done, k) ==
    IF k[1] # "device" THEN "exact"
    ELSE IF k \in Named(Existing) \/ "activation" \in done THEN "active" ELSE "planned"
AsReference(done, k, x) ==
    AnObject(x) /\ x.value = ValueIn(done, k) /\ x.link = LinkOf(k) /\ x.marks = MarksOf(done, k)
Canonical(done, o, N) ==
    /\ Ordered(done) /\ Numbered(o, N) /\ DOMAIN o = KeysDone(done)
    /\ \A k \in DOMAIN o : AsReference(done, k, o[k])

\* The inventory before the migrations is in order.
LEMMA KnownListed ==
  Known = {Device("core"), Device("edge"), Port("core", "management"), Port("edge", "management"),
           Port("core", "transit"), Port("core", "access"), Port("edge", "transit"), IP("core", "live"),
           IP("edge", "live"), IP("core", "staging"), IP("edge", "staging"), Slug("lab")}
<1>1. /\ Named(Existing) = {Device("core"), Device("edge")}
      /\ OldIPs = {IP("core", "live"), IP("edge", "live"), IP("core", "staging"), IP("edge", "staging")}
  BY DEF Named, OldIPs, Existing
<1> QED
  BY <1>1 DEF Known, OldPorts

LEMMA Before32Objects ==
  /\ DOMAIN Before32 = Known
  /\ Before32[Device("core")] = Object(1, "active", {IP("core", "live")}, {"managed", "fleet"})
  /\ Before32[Device("edge")] = Object(2, "active", {IP("edge", "live")}, {"managed"})
  /\ Before32[Port("core", "management")] = Object(1, "exact", {}, {"protected"})
  /\ Before32[Port("edge", "management")] = Object(3, "exact", {}, {"protected"})
  /\ Before32[Port("core", "transit")] = Object(2, "exact", {}, {})
  /\ Before32[Port("core", "access")] = Object(7, "exact", {}, {"fleet"})
  /\ Before32[Port("edge", "transit")] = Object(4, "exact", {}, {})
  /\ Before32[IP("core", "live")] = Object(1, "exact", {Port("core", "management")}, {})
  /\ Before32[IP("edge", "live")] = Object(2, "exact", {Port("edge", "management")}, {})
  /\ Before32[IP("core", "staging")] = Object(3, "exact", {Port("core", "management")}, {})
  /\ Before32[IP("edge", "staging")] = Object(4, "exact", {Port("edge", "management")}, {})
  /\ Before32[Slug("lab")] = Object(0, "exact", {}, {})
<1>1. DOMAIN Before32 = Known
  BY KnownListed DEF Before32
<1>2. /\ Before32[Device("core")] = Object(1, "active", {IP("core", "live")}, {"managed", "fleet"})
      /\ Before32[Device("edge")] = Object(2, "active", {IP("edge", "live")}, {"managed"})
      /\ Before32[Slug("lab")] = Object(0, "exact", {}, {})
  BY DEF Before32, Device, Port, IP, Slug
<1>3. /\ Before32[Port("core", "management")] = Object(1, "exact", {}, {"protected"})
      /\ Before32[Port("edge", "management")] = Object(3, "exact", {}, {"protected"})
      /\ Before32[Port("core", "transit")] = Object(2, "exact", {}, {})
      /\ Before32[Port("core", "access")] = Object(7, "exact", {}, {"fleet"})
      /\ Before32[Port("edge", "transit")] = Object(4, "exact", {}, {})
  BY DEF Before32, Device, Port, IP, Slug
<1>4. /\ Before32[IP("core", "live")] = Object(1, "exact", {Port("core", "management")}, {})
      /\ Before32[IP("edge", "live")] = Object(2, "exact", {Port("edge", "management")}, {})
      /\ Before32[IP("core", "staging")] = Object(3, "exact", {Port("core", "management")}, {})
      /\ Before32[IP("edge", "staging")] = Object(4, "exact", {Port("edge", "management")}, {})
  BY DEF Before32, Device, Port, IP, Slug
<1> QED
  BY <1>1, <1>2, <1>3, <1>4

LEMMA FirstNumbered == Numbered(Before32, FirstKeys)
<1>1. \A k \in DOMAIN Before32 : Before32[k].id = RefId(k)
  <2>1. RefId(Slug("lab")) = 0
    BY DEF RefId, Slug
  <2> QED
    BY <2>1, Before32Objects, KnownListed, ObjectFields, DeviceNumbers, PortNumbers, AddressNumbers
<1>2. /\ FirstKeys["device"] = 8 /\ FirstKeys["interface"] = 11 /\ FirstKeys["ip"] = 13
      /\ FirstKeys["cable"] = 1 /\ FirstKeys["prefix"] = 2 /\ FirstKeys["vlan"] = 1
  BY DEF FirstKeys
<1>3. AtLeast(FirstKeys, FirstKeys)
  BY FirstKeysTyped DEF AtLeast, Keys
<1>4. \A k \in Named(Devices) : k \in Known <=> RefId(k) < 8
  <2>1. Device("transit") \notin Known /\ Device("access") \notin Known
    BY KnownListed DEF Device, Port, IP, Slug
  <2> QED
    BY <2>1, KnownListed, DeviceNumbers
<1>5. \A k \in AllPorts : k \in Known <=> RefId(k) < 11
  <2>1. \A k \in AllPorts : k \in Known => k \in OldPorts
    BY KeyTables, KnownListed DEF Device, IP, Slug, OldPorts
  <2>2. OldPorts \subseteq Known
    BY DEF Known
  <2>3. \A k \in AllPorts : k \in OldPorts <=> RefId(k) < 11
    BY AllPortsListed, PortNumbers DEF OldPorts
  <2> QED
    BY <2>1, <2>2, <2>3
<1>6. \A k \in AllIPs : k \in Known <=> RefId(k) < 13
  <2>1. \A k \in AllIPs : k \in Known => k \in OldIPs
    <3>1. \A k \in Known \ OldIPs : k[1] # "ip"
      BY DEF Known, Named, OldPorts, Device, Port, Slug
    <3> QED
      BY <3>1, KeyTables
  <2>2. OldIPs \subseteq Known
    BY DEF Known
  <2>3. OldIPs = {IP("core", "live"), IP("edge", "live"), IP("core", "staging"), IP("edge", "staging")}
    BY DEF OldIPs, Existing
  <2>4. \A k \in AllIPs : k \in OldIPs <=> RefId(k) < 13
    BY <2>3, AllIPsListed, AddressNumbers
  <2> QED
    BY <2>1, <2>2, <2>4
<1>7. \A k \in CableKeys \union PrefixKeys \union VlanKeys : k \notin Known
  <2>1. \A k \in Known : k[1] \in {"device", "interface", "ip", "slug"}
    BY KnownListed DEF Device, Port, IP, Slug
  <2> QED
    BY <2>1, KeyTables
<1>8. /\ \A k \in CableKeys : ~(RefId(k) < 1)
      /\ \A k \in PrefixKeys : ~(RefId(k) < 2)
      /\ \A k \in VlanKeys : ~(RefId(k) < 1)
  <2>1. PrefixKeys = {Prefix("parent"), Prefix("core-edge"), Prefix("core-transit"), Prefix("edge-transit"),
                      Prefix("10"), Prefix("20"), Prefix("pool")} /\ VlanKeys = {Vlan("10"), Vlan("20")}
    BY DEF PrefixKeys, VlanKeys, Vids
  <2> QED
    BY <2>1, OtherNumbers DEF CableKeys
<1>9. ASSUME NEW k \in AllKeys, k[1] \in Tables
      PROVE  k \in Known <=> RefId(k) < FirstKeys[k[1]]
  <2>1. \/ k[1] = "device" /\ k \in Named(Devices)
        \/ k[1] = "interface" /\ k \in AllPorts
        \/ k[1] = "ip" /\ k \in AllIPs
        \/ k[1] = "cable" /\ k \in CableKeys
        \/ k[1] = "prefix" /\ k \in PrefixKeys
        \/ k[1] = "vlan" /\ k \in VlanKeys
    BY <1>9, KeysByTable, KeyTables DEF Tables
  <2> QED
    BY <1>2, <1>4, <1>5, <1>6, <1>7, <1>8, <2>1
<1>10. DOMAIN Before32 = Known /\ Known \subseteq AllKeys
  BY Before32Objects DEF AllKeys
<1> QED
  BY <1>1, <1>3, <1>9, <1>10, FirstKeysTyped DEF Numbered

LEMMA FirstCanonical == Canonical({}, Before32, FirstKeys)
<1>1. Ordered({}) /\ KeysDone({}) = Known
  BY DEF Ordered, KeysDone
<1>2. \A k : MarksOf({}, k) = FirstMarks(k)
  BY DEF MarksOf
<1>3. /\ FirstMarks(Device("core")) = {"managed", "fleet"} /\ FirstMarks(Device("edge")) = {"managed"}
      /\ FirstMarks(Port("core", "management")) = {"protected"}
      /\ FirstMarks(Port("edge", "management")) = {"protected"}
      /\ FirstMarks(Port("core", "access")) = {"fleet"}
      /\ FirstMarks(Port("core", "transit")) = {} /\ FirstMarks(Port("edge", "transit")) = {}
      /\ \A k : k[1] \notin {"device", "interface"} => FirstMarks(k) = {}
  BY DEF FirstMarks, Device, Port
<1>4. /\ \A k \in Named(Existing) : ValueIn({}, k) = "active"
      /\ \A k : k[1] # "device" => ValueIn({}, k) = "exact"
  BY DEF ValueIn, Named, Device
<1>5. /\ LinkOf(Device("core")) = {IP("core", "live")} /\ LinkOf(Device("edge")) = {IP("edge", "live")}
      /\ LinkOf(Port("core", "management")) = {} /\ LinkOf(Port("edge", "management")) = {}
      /\ LinkOf(Port("core", "transit")) = {} /\ LinkOf(Port("core", "access")) = {}
      /\ LinkOf(Port("edge", "transit")) = {}
      /\ LinkOf(IP("core", "live")) = {Port("core", "management")}
      /\ LinkOf(IP("edge", "live")) = {Port("edge", "management")}
      /\ LinkOf(IP("core", "staging")) = {Port("core", "management")}
      /\ LinkOf(IP("edge", "staging")) = {Port("edge", "management")}
      /\ LinkOf(Slug("lab")) = {}
  BY DEF LinkOf, Device, Port, IP, Slug, Vids
<1>6. /\ \A d, p : Port(d, p)[1] = "interface" /\ IP(d, p)[1] = "ip"
      /\ Slug("lab")[1] = "slug"
      /\ Device("core") \in Named(Existing) /\ Device("edge") \in Named(Existing)
  BY DEF Port, IP, Slug, Named, Existing
<1>7. ASSUME NEW k, NEW id, NEW value, NEW link, NEW marks,
             ValueIn({}, k) = value, LinkOf(k) = link, FirstMarks(k) = marks
      PROVE  AsReference({}, k, Object(id, value, link, marks))
  BY <1>2, <1>7, ObjectFields DEF AsReference
<1>8. AsReference({}, Device("core"), Before32[Device("core")])
  <2>1. ValueIn({}, Device("core")) = "active" /\ LinkOf(Device("core")) = {IP("core", "live")} /\ FirstMarks(Device("core")) = {"managed", "fleet"}
    BY <1>3, <1>4, <1>5, <1>6
  <2>2. AsReference({}, Device("core"), Object(1, "active", {IP("core", "live")}, {"managed", "fleet"}))
    BY <1>7, <2>1
  <2> QED
    BY <2>2, Before32Objects
<1>9. AsReference({}, Device("edge"), Before32[Device("edge")])
  <2>1. ValueIn({}, Device("edge")) = "active" /\ LinkOf(Device("edge")) = {IP("edge", "live")} /\ FirstMarks(Device("edge")) = {"managed"}
    BY <1>3, <1>4, <1>5, <1>6
  <2>2. AsReference({}, Device("edge"), Object(2, "active", {IP("edge", "live")}, {"managed"}))
    BY <1>7, <2>1
  <2> QED
    BY <2>2, Before32Objects
<1>10. AsReference({}, Port("core", "management"), Before32[Port("core", "management")])
  <2>1. ValueIn({}, Port("core", "management")) = "exact" /\ LinkOf(Port("core", "management")) = {} /\ FirstMarks(Port("core", "management")) = {"protected"}
    BY <1>3, <1>4, <1>5, <1>6
  <2>2. AsReference({}, Port("core", "management"), Object(1, "exact", {}, {"protected"}))
    BY <1>7, <2>1
  <2> QED
    BY <2>2, Before32Objects
<1>11. AsReference({}, Port("edge", "management"), Before32[Port("edge", "management")])
  <2>1. ValueIn({}, Port("edge", "management")) = "exact" /\ LinkOf(Port("edge", "management")) = {} /\ FirstMarks(Port("edge", "management")) = {"protected"}
    BY <1>3, <1>4, <1>5, <1>6
  <2>2. AsReference({}, Port("edge", "management"), Object(3, "exact", {}, {"protected"}))
    BY <1>7, <2>1
  <2> QED
    BY <2>2, Before32Objects
<1>12. AsReference({}, Port("core", "transit"), Before32[Port("core", "transit")])
  <2>1. ValueIn({}, Port("core", "transit")) = "exact" /\ LinkOf(Port("core", "transit")) = {} /\ FirstMarks(Port("core", "transit")) = {}
    BY <1>3, <1>4, <1>5, <1>6
  <2>2. AsReference({}, Port("core", "transit"), Object(2, "exact", {}, {}))
    BY <1>7, <2>1
  <2> QED
    BY <2>2, Before32Objects
<1>13. AsReference({}, Port("core", "access"), Before32[Port("core", "access")])
  <2>1. ValueIn({}, Port("core", "access")) = "exact" /\ LinkOf(Port("core", "access")) = {} /\ FirstMarks(Port("core", "access")) = {"fleet"}
    BY <1>3, <1>4, <1>5, <1>6
  <2>2. AsReference({}, Port("core", "access"), Object(7, "exact", {}, {"fleet"}))
    BY <1>7, <2>1
  <2> QED
    BY <2>2, Before32Objects
<1>14. AsReference({}, Port("edge", "transit"), Before32[Port("edge", "transit")])
  <2>1. ValueIn({}, Port("edge", "transit")) = "exact" /\ LinkOf(Port("edge", "transit")) = {} /\ FirstMarks(Port("edge", "transit")) = {}
    BY <1>3, <1>4, <1>5, <1>6
  <2>2. AsReference({}, Port("edge", "transit"), Object(4, "exact", {}, {}))
    BY <1>7, <2>1
  <2> QED
    BY <2>2, Before32Objects
<1>15. AsReference({}, IP("core", "live"), Before32[IP("core", "live")])
  <2>1. ValueIn({}, IP("core", "live")) = "exact" /\ LinkOf(IP("core", "live")) = {Port("core", "management")} /\ FirstMarks(IP("core", "live")) = {}
    BY <1>3, <1>4, <1>5, <1>6
  <2>2. AsReference({}, IP("core", "live"), Object(1, "exact", {Port("core", "management")}, {}))
    BY <1>7, <2>1
  <2> QED
    BY <2>2, Before32Objects
<1>16. AsReference({}, IP("edge", "live"), Before32[IP("edge", "live")])
  <2>1. ValueIn({}, IP("edge", "live")) = "exact" /\ LinkOf(IP("edge", "live")) = {Port("edge", "management")} /\ FirstMarks(IP("edge", "live")) = {}
    BY <1>3, <1>4, <1>5, <1>6
  <2>2. AsReference({}, IP("edge", "live"), Object(2, "exact", {Port("edge", "management")}, {}))
    BY <1>7, <2>1
  <2> QED
    BY <2>2, Before32Objects
<1>17. AsReference({}, IP("core", "staging"), Before32[IP("core", "staging")])
  <2>1. ValueIn({}, IP("core", "staging")) = "exact" /\ LinkOf(IP("core", "staging")) = {Port("core", "management")} /\ FirstMarks(IP("core", "staging")) = {}
    BY <1>3, <1>4, <1>5, <1>6
  <2>2. AsReference({}, IP("core", "staging"), Object(3, "exact", {Port("core", "management")}, {}))
    BY <1>7, <2>1
  <2> QED
    BY <2>2, Before32Objects
<1>18. AsReference({}, IP("edge", "staging"), Before32[IP("edge", "staging")])
  <2>1. ValueIn({}, IP("edge", "staging")) = "exact" /\ LinkOf(IP("edge", "staging")) = {Port("edge", "management")} /\ FirstMarks(IP("edge", "staging")) = {}
    BY <1>3, <1>4, <1>5, <1>6
  <2>2. AsReference({}, IP("edge", "staging"), Object(4, "exact", {Port("edge", "management")}, {}))
    BY <1>7, <2>1
  <2> QED
    BY <2>2, Before32Objects
<1>19. AsReference({}, Slug("lab"), Before32[Slug("lab")])
  <2>1. ValueIn({}, Slug("lab")) = "exact" /\ LinkOf(Slug("lab")) = {} /\ FirstMarks(Slug("lab")) = {}
    BY <1>3, <1>4, <1>5, <1>6
  <2>2. AsReference({}, Slug("lab"), Object(0, "exact", {}, {}))
    BY <1>7, <2>1
  <2> QED
    BY <2>2, Before32Objects
<1>20. \A k \in Known : AsReference({}, k, Before32[k])
  BY <1>8, <1>9, <1>10, <1>11, <1>12, <1>13, <1>14, <1>15, <1>16, <1>17, <1>18, <1>19, KnownListed
<1> QED
  BY <1>1, <1>20, FirstNumbered, Before32Objects DEF Canonical

\* Marks of one more migration.
LEMMA MoreMarks ==
  ASSUME NEW done, NEW m, NEW k
  PROVE  /\ k \in KeysOf(m) => MarksOf(done \union {m}, k) = MarksOf(done, k) \union Adds(m, k)
         /\ k \notin KeysOf(m) => MarksOf(done \union {m}, k) = MarksOf(done, k)
<1> DEFINE M == {x \in done : k \in KeysOf(x)}
           M2 == {x \in done \union {m} : k \in KeysOf(x)}
<1>1. MarksOf(done, k) = FirstMarks(k) \union UNION {Adds(x, k) : x \in M}
  BY DEF MarksOf
<1>2. MarksOf(done \union {m}, k) = FirstMarks(k) \union UNION {Adds(x, k) : x \in M2}
  BY DEF MarksOf
<1>3. k \in KeysOf(m) => M2 = M \union {m}
  OBVIOUS
<1>4. k \notin KeysOf(m) => M2 = M
  OBVIOUS
<1> HIDE DEF M, M2
<1>5. UNION {Adds(x, k) : x \in M \union {m}} = (UNION {Adds(x, k) : x \in M}) \union Adds(m, k)
  OBVIOUS
<1> QED
  BY <1>1, <1>2, <1>3, <1>4, <1>5

LEMMA NoMarksYet ==
  ASSUME NEW done, NEW k, k \notin KeysDone(done)
  PROVE  MarksOf(done, k) = {}
<1>1. k \notin Known /\ \A m \in done : k \notin KeysOf(m)
  BY DEF KeysDone
<1>2. FirstMarks(k) = {}
  BY <1>1, KnownListed DEF FirstMarks
<1> QED
  BY <1>1, <1>2 DEF MarksOf

\* Only two migrations change what a device is.
LEMMA DeviceKeys ==
  ASSUME NEW m \in {"data-plane", "router-ids", "gateways"}, NEW k \in KeysOf(m), k[1] = "device"
  PROVE  m = "data-plane"
<1>1. \A j \in LoopbackIds \union Gateways : j[1] = "ip"
  BY KeyTables DEF AllIPs
<1>2. \A j \in Subinterfaces : j[1] = "interface"
  BY KeyTables DEF AllPorts
<1>3. Slug("routing")[1] = "slug" /\ Slug("gateway")[1] = "slug"
  BY DEF Slug
<1> QED
  BY <1>1, <1>2, <1>3 DEF KeysOf

LEMMA DevicesApart ==
  /\ Named(Existing) \intersect Named(NewDevices) = {}
  /\ Named(Devices) = Named(Existing) \union Named(NewDevices)
  /\ \A k \in AllKeys : k[1] = "device" => k \in Named(Devices)
<1>1. /\ Named(Existing) = {Device("core"), Device("edge")}
      /\ Named(NewDevices) = {Device("transit"), Device("access")}
  BY DEF Named, Existing, NewDevices
<1>2. Device("core") # Device("transit") /\ Device("core") # Device("access") /\ Device("edge") # Device("transit")
      /\ Device("edge") # Device("access")
  BY DEF Device
<1>3. \A k \in AllKeys : k[1] = "device" => k \in Named(Devices)
  BY KeysByTable, KeyTables
<1> QED
  BY <1>1, <1>2, <1>3, DeviceNumbers

\* What a step makes of a device it looks at.
LEMMA DeviceValues ==
  ASSUME NEW done, Ordered(done), NEW m \in ToSet(Migrations), m = "inventory" => "activation" \notin done,
         NEW k \in Named(Devices), k \in KeysOf(m)
  PROVE  m # "data-plane" => ValueOf(m, k) = ValueIn(done \union {m}, k)
<1>1. k[1] = "device"
  BY KeyTables
<1>2. m \in {"inventory", "activation", "data-plane"}
  BY <1>1, DeviceKeys, MigrationNames
<1>3. CASE m = "inventory"
  BY <1>1, <1>3 DEF ValueOf, ValueIn
<1>4. CASE m = "activation"
  BY <1>1, <1>4 DEF ValueOf, ValueIn
<1> QED
  BY <1>2, <1>3, <1>4

\* A migration that comes to its end in its turn leaves the inventory in order.
LEMMA CanonicalRun ==
  ASSUME NEW done, NEW o, NEW N, Canonical(done, o, N), NEW m \in ToSet(Migrations),
         m = "inventory" => "activation" \notin done, Ordered(done \union {m}), Needs(m) \subseteq DOMAIN o,
         NEW t, t = Transaction(m, o, N), t.ok
  PROVE  Canonical(done \union {m}, t.objects, t.next)
<1>1. /\ Ordered(done) /\ Numbered(o, N) /\ DOMAIN o = KeysDone(done)
      /\ \A k \in DOMAIN o : AsReference(done, k, o[k])
  BY DEF Canonical
<1>2. (\A k \in DOMAIN o : AnObject(o[k])) /\ N \in Keys
  BY <1>1 DEF AsReference, Numbered
<1>3. Grown(m, o, N, t, KeysOf(m), KeysOf(m))
  BY <1>2, RunGrown
<1>4. Numbered(t.objects, t.next)
  <2>1. PICK q : q = Steps[m]
    OBVIOUS
  <2>2. Block(m, q, DOMAIN o, KeysOf(m), MadeBy(m), KeysOf(m))
    BY <2>1, MigrationBlock
  <2>3. PICK L \in Nat : L = Len(q)
    BY <2>2 DEF Block
  <2>4. PICK f : RunsAs(f, q, Start(m, o, N)) /\ t = f[L]
    BY <2>1, <2>3, TransactionGoes
  <2>5. L \in 0..Len(q)
    BY <2>3
  <2>6. f[L].ok => Numbered(f[L].objects, f[L].next)
    BY <1>1, <1>2, <2>1, <2>4, <2>5, RunNumbered
  <2> QED
    BY <2>4, <2>6
<1>5. DOMAIN t.objects = KeysDone(done \union {m})
  BY <1>1, <1>3 DEF Grown, KeysDone
<1>6. ASSUME NEW k \in DOMAIN t.objects
      PROVE  AsReference(done \union {m}, k, t.objects[k])
  <2>1. PICK x : x = t.objects[k]
    OBVIOUS
  <2>2. AnObject(x) /\ k \in AllKeys
    BY <1>3, <1>4, <1>6, <2>1 DEF Grown, Numbered
  <2>3. CASE k \notin KeysOf(m)
    <3>1. k \in DOMAIN o /\ x = o[k]
      BY <1>3, <1>6, <2>1, <2>3 DEF Grown
    <3>2. MarksOf(done \union {m}, k) = MarksOf(done, k)
      BY <2>3, MoreMarks
    <3>3. ValueIn(done \union {m}, k) = ValueIn(done, k)
      <4>1. CASE k[1] # "device"
        BY <4>1 DEF ValueIn
      <4>2. CASE k[1] = "device" /\ m = "activation"
        <5>1. k \in Named(Existing)
          BY <2>2, <2>3, <4>2, DevicesApart DEF KeysOf
        <5> QED
          BY <5>1 DEF ValueIn
      <4>3. CASE m # "activation"
        BY <4>3 DEF ValueIn
      <4> QED
        BY <4>1, <4>2, <4>3
    <3> QED
      BY <1>1, <2>1, <3>1, <3>2, <3>3 DEF AsReference
  <2>4. CASE k \in KeysOf(m)
    <3>1. PICK w : w = Was(m, o, k)
      OBVIOUS
    <3>2. /\ w.marks \subseteq x.marks /\ x.marks \subseteq w.marks \union Adds(m, k)
          /\ x.link = w.link \/ (w.link = {} /\ x.link = LinkOf(k))
          /\ IF k[1] # "device" \/ m = "data-plane" THEN x.value = w.value
             ELSE x.value = ValueOf(m, k) /\ w.value \in ValuesOf(m, k)
      BY <1>3, <2>1, <2>4, <3>1 DEF Grown, Became
    <3>3. /\ Adds(m, k) \subseteq x.marks
          /\ k \in MadeBy(m) => x.link = LinkOf(k) /\ (k[1] # "device" => x.value = "exact")
      BY <1>3, <2>1, <2>4 DEF Grown, Settled
    <3>4. k \notin DOMAIN o => k \in MadeBy(m)
      BY <1>3, <2>4 DEF Grown
    <3>5. k \in DOMAIN o => w = o[k] /\ w.value = ValueIn(done, k) /\ w.link = LinkOf(k) /\ w.marks = MarksOf(done, k)
      BY <1>1, <3>1 DEF Was, AsReference
    <3>6. k \notin DOMAIN o => w.marks = {} /\ MarksOf(done, k) = {}
      BY <1>1, <3>1, ObjectFields, NoMarksYet DEF Was
    <3>7. x.marks = MarksOf(done \union {m}, k)
      <4>1. PICK A, B, C, X, W : /\ A = MarksOf(done, k) /\ B = MarksOf(done \union {m}, k) /\ C = Adds(m, k)
                                /\ X = x.marks /\ W = w.marks
        OBVIOUS
      <4>2. B = A \union C
        BY <2>4, <4>1, MoreMarks
      <4>3. W = A
        BY <3>5, <3>6, <4>1
      <4>4. W \subseteq X /\ X \subseteq W \union C /\ C \subseteq X
        BY <3>2, <3>3, <4>1
      <4>5. X = B
        BY <4>2, <4>3, <4>4
      <4> QED
        BY <4>1, <4>5
    <3>8. x.link = LinkOf(k)
      BY <3>2, <3>3, <3>4, <3>5
    <3>9. x.value = ValueIn(done \union {m}, k)
      <4>1. CASE k[1] # "device"
        BY <3>2, <3>3, <3>4, <3>5, <4>1 DEF ValueIn
      <4>2. CASE k[1] = "device" /\ m = "data-plane"
        <5>1. k \in DOMAIN o
          <6>1. \A j \in MadeBy("data-plane") : j \notin Named(ToSet(Speakers)) /\ j \in KeysOf("data-plane")
            BY DEF MadeBy
          <6>2. k \in Named(ToSet(Speakers))
            BY <2>4, <4>2, KeyTables DEF KeysOf, AllIPs, AllPorts, RoutedOn, Port, Slug
          <6> QED
            BY <3>4, <4>2, <6>1, <6>2
        <5>2. ValueIn(done \union {m}, k) = ValueIn(done, k)
          BY <4>2 DEF ValueIn
        <5> QED
          BY <3>2, <3>5, <4>2, <5>1, <5>2
      <4>3. CASE k[1] = "device" /\ m # "data-plane"
        <5>1. k \in Named(Devices)
          BY <2>2, <4>3, DevicesApart
        <5> QED
          BY <1>1, <2>4, <3>2, <4>3, <5>1, DeviceValues
      <4> QED
        BY <4>1, <4>2, <4>3
    <3> QED
      BY <2>1, <2>2, <3>7, <3>8, <3>9 DEF AsReference
  <2> QED
    BY <2>3, <2>4
<1> QED
  BY <1>4, <1>5, <1>6 DEF Canonical

\* Who gives which marks.
LEMMA MarksGiven ==
  /\ \A k \in Named(NewDevices) : FirstMarks(k) = {} /\ \A m : "managed" \notin Adds(m, k)
  /\ \A k \in MadeBy("router-ids") \union MadeBy("gateways") :
        /\ k \notin KeysOf("inventory") /\ k \notin KeysOf("activation") /\ k \notin KeysOf("data-plane")
        /\ FirstMarks(k) = {} /\ k \notin Named(NewDevices)
        /\ "data-plane" \notin Adds("router-ids", k) /\ "data-plane" \notin Adds("gateways", k)
<1>1. ASSUME NEW k \in Named(NewDevices)
      PROVE  FirstMarks(k) = {} /\ \A m : "managed" \notin Adds(m, k)
  <2>1. k = Device("transit") \/ k = Device("access")
    BY DEF Named, NewDevices
  <2>2. k[1] = "device" /\ FirstMarks(k) = {}
    BY <2>1 DEF FirstMarks, Device, Port
  <2> QED
    BY <2>2 DEF Adds
<1>2. ASSUME NEW k \in MadeBy("router-ids") \union MadeBy("gateways")
      PROVE  /\ k \notin KeysOf("inventory") /\ k \notin KeysOf("activation") /\ k \notin KeysOf("data-plane")
             /\ FirstMarks(k) = {} /\ k \notin Named(NewDevices)
             /\ "data-plane" \notin Adds("router-ids", k) /\ "data-plane" \notin Adds("gateways", k)
  <2>1. k \in {Slug("routing"), Slug("gateway"), IP("core", "router-id"), IP("edge", "router-id"),
               IP("transit", "router-id"), Port("core", "10"), Port("core", "20"), IP("core", "10"), IP("core", "20")}
    BY <1>2 DEF MadeBy, KeysOf, LoopbackIds, Subinterfaces, Gateways, Vids
  <2>2. FirstMarks(k) = {} /\ k \notin Named(NewDevices)
    BY <2>1 DEF FirstMarks, Device, Port, Slug, IP, Named
  <2>3. "data-plane" \notin Adds("router-ids", k) /\ "data-plane" \notin Adds("gateways", k)
    BY DEF Adds
  <2>4. /\ k \notin Named(Devices) /\ k \notin Named(NewDevices) /\ k \notin Named(ToSet(Speakers))
        /\ k \notin {Slug("lab"), Slug("inventory"), Slug("data-plane"), ReadPermission}
    BY <2>1 DEF Device, Port, Slug, IP, Named, ReadPermission
  <2>5. k \notin OldPorts /\ k \notin NewPorts /\ k \notin RoutedOn
    BY <2>1 DEF OldPorts, NewPorts, RoutedOn, Port, IP, Slug
  <2>6. k \notin OldIPs /\ k \notin NewIPs /\ k \notin RoutedAt
    BY <2>1 DEF OldIPs, NewIPs, RoutedAt, Port, IP, Slug, Existing, NewDevices
  <2>7. k \notin CableKeys /\ k \notin VlanKeys /\ k \notin PrefixKeys
    BY <2>1 DEF CableKeys, VlanKeys, PrefixKeys, Cable, Vlan, Prefix, Port, IP, Slug
  <2> QED
    BY <2>2, <2>3, <2>4, <2>5, <2>6, <2>7 DEF KeysOf
<1> QED
  BY <1>1, <1>2

\* What no migration but the fifth could have found.
LEMMA BarredMarks ==
  ASSUME NEW done, done \subseteq ToSet(Migrations)
  PROVE  /\ \A k \in Named(NewDevices) : "managed" \notin MarksOf(done, k)
         /\ \A k \in MadeBy("router-ids") \union MadeBy("gateways") : "data-plane" \notin MarksOf(done, k)
<1>1. ASSUME NEW k \in Named(NewDevices) PROVE "managed" \notin MarksOf(done, k)
  BY <1>1, MarksGiven DEF MarksOf
<1>2. ASSUME NEW k \in MadeBy("router-ids") \union MadeBy("gateways") PROVE "data-plane" \notin MarksOf(done, k)
  <2>1. \A m \in {m \in done : k \in KeysOf(m)} : m \in {"router-ids", "gateways"}
    BY <1>2, MarksGiven, MigrationNames
  <2>2. \A m \in {m \in done : k \in KeysOf(m)} : "data-plane" \notin Adds(m, k)
    BY <1>2, <2>1, MarksGiven
  <2> QED
    BY <1>2, <2>2, MarksGiven DEF MarksOf
<1> QED
  BY <1>1, <1>2

\* A migration that goes through the inventory in order finds it as it needs it.
LEMMA PortsCounted ==
  ASSUME NEW d \in NewDevices, NEW o, DOMAIN o \subseteq AllKeys, \A p \in PortsOfNew(d) : Port(d, p) \in DOMAIN o
  PROVE  PortsOf(o, d) = PortsOfNew(d)
<1>1. ASSUME NEW k \in AllPorts, k[2] = d PROVE k[3] \in PortsOfNew(d)
  <2>1. d = "transit" \/ d = "access"
    BY DEF NewDevices
  <2>2. \/ k \in {Port("transit", "management"), Port("transit", "core"), Port("transit", "edge"), Port("transit", "spare")}
        \/ k \in {Port("access", "management"), Port("access", "core"), Port("access", "users"), Port("access", "servers")}
        \/ k[2] \in {"core", "edge"}
    BY AllPortsListed DEF Port
  <2> QED
    BY <1>1, <2>1, <2>2 DEF Port, PortsOfNew
<1>2. \A k \in In(o, "interface") : k \in AllPorts
  BY KeysByTable, KeyTables DEF In
<1>3. PortsOf(o, d) \subseteq PortsOfNew(d)
  BY <1>1, <1>2 DEF PortsOf
<1>4. \A p \in PortsOfNew(d) : Port(d, p) \in In(o, "interface") /\ Port(d, p)[2] = d /\ Port(d, p)[3] = p
  BY DEF In, Port
<1>5. PortsOfNew(d) \subseteq PortsOf(o, d)
  BY <1>4 DEF PortsOf
<1> QED
  BY <1>3, <1>5

\* No step is refused by what it finds in an inventory in order.
LEMMA StepAgrees ==
  ASSUME NEW done, NEW o, NEW N, Canonical(done, o, N), NEW m \in ToSet(Migrations), Ordered(done \union {m}),
         m = "inventory" => "activation" \notin done,
         NEW t, NEW B, NEW F, Grown(m, o, N, t, B, F), Numbered(t.objects, t.next),
         NEW s, StepSound(m, s), Ready(s, DOMAIN o \union B), s.key \in DOMAIN t.objects
  PROVE  Agrees(t.objects, s)
<1>0. PICK k, x, w, T : k = s.key /\ T = t.objects /\ x = T[k] /\ w = Was(m, o, k)
  OBVIOUS
<1>1. /\ Ordered(done) /\ Numbered(o, N) /\ DOMAIN o = KeysDone(done)
      /\ \A j \in DOMAIN o : AsReference(done, j, o[j])
  BY DEF Canonical
<1>2. /\ k \in DOMAIN T /\ DOMAIN T = DOMAIN o \union B /\ x.id = RefId(k)
      /\ DOMAIN T \subseteq AllKeys
  BY <1>0 DEF Grown, Numbered
<1>3. k \in DOMAIN o => /\ w = o[k] /\ w.value = ValueIn(done, k) /\ w.link = LinkOf(k)
                        /\ w.marks = MarksOf(done, k)
  BY <1>0, <1>1 DEF Was, AsReference
<1>4. k \notin DOMAIN o => /\ w.marks = {} /\ w.link = (IF k[1] = "device" THEN {} ELSE LinkOf(k))
                           /\ w.value = IF k[1] = "device" THEN ValueOf(m, k) ELSE "exact"
  BY <1>0, ObjectFields DEF Was
<1>5. (k \notin B /\ k \in DOMAIN o /\ x = w) \/ (k \in B /\ Became(m, k, w, x))
  BY <1>0, <1>2, <1>3 DEF Grown
<1>6. /\ k \in KeysOf(m) /\ s.id \in {0, RefId(k)}
      /\ s.links # {} => LinkOf(k) \in s.links /\ (k \in Named(NewDevices) => {} \in s.links)
      /\ s.ports # {} => k \in Named(NewDevices) /\ s.ports = PortsOfNew(k[2])
  BY <1>0 DEF StepSound
<1>7. IF k[1] # "device" THEN s.values \in {{}, {"exact"}}
      ELSE IF m = "data-plane" THEN s.values = {} ELSE s.values = ValuesOf(m, k)
  BY <1>0 DEF StepSound
<1>8. w.marks \subseteq x.marks /\ x.marks \subseteq w.marks \union Adds(m, k)
      /\ (x.link = w.link \/ x.link = LinkOf(k))
  BY <1>5 DEF Became
<1>9. s.id \in {0, x.id}
  BY <1>2, <1>6
<1>10. s.values = {} \/ x.value \in s.values
  <2>1. CASE k[1] # "device"
    <3>1. w.value = "exact"
      BY <1>3, <1>4, <2>1 DEF ValueIn
    <3>2. x.value = "exact"
      BY <1>5, <2>1, <3>1 DEF Became
    <3> QED
      BY <1>7, <2>1, <3>2
  <2>2. CASE k[1] = "device" /\ m = "data-plane"
    BY <1>7, <2>2
  <2>3. CASE k[1] = "device" /\ m # "data-plane"
    <3>1. k \in Named(Devices) /\ m \in {"inventory", "activation"}
      BY <1>2, <1>6, <2>3, DevicesApart, DeviceKeys, MigrationNames
    <3>2. ValueOf(m, k) \in ValuesOf(m, k)
      BY DEF ValueOf, ValuesOf
    <3>3. ValueIn(done, k) \in ValuesOf(m, k)
      <4>1. CASE m = "inventory"
        BY <2>3, <4>1 DEF ValueIn, ValuesOf
      <4>2. CASE m = "activation"
        BY <2>3, <4>2 DEF ValueIn, ValuesOf
      <4> QED
        BY <3>1, <4>1, <4>2
    <3>4. x.value \in ValuesOf(m, k)
      BY <1>3, <1>5, <2>3, <3>2, <3>3 DEF Became
    <3> QED
      BY <1>7, <2>3, <3>4
  <2> QED
    BY <2>1, <2>2, <2>3
<1>11. s.links = {} \/ x.link \in s.links
  <2>1. x.link = LinkOf(k) \/ (k[1] = "device" /\ k \notin DOMAIN o /\ x.link = {})
    BY <1>3, <1>4, <1>8
  <2>2. k[1] = "device" /\ k \notin DOMAIN o => k \in Named(NewDevices)
    <3>1. Named(Existing) \subseteq DOMAIN o
      BY <1>1 DEF KeysDone, Known
    <3> QED
      BY <1>2, <3>1, DevicesApart
  <2> QED
    BY <1>6, <2>1, <2>2
<1>12. s.needs \subseteq x.marks
  <2>1. \/ s.needs = {}
        \/ k \in Named(Existing) /\ s.needs = {"managed"}
        \/ k = Port("core", "access") /\ s.needs = {"fleet"}
    BY <1>0 DEF StepSound
  <2>2. FirstMarks(k) \subseteq MarksOf(done, k)
    BY DEF MarksOf
  <2>3. k \in Named(Existing) => "managed" \in FirstMarks(k)
    BY DEF Named, Existing, FirstMarks, Device, Port
  <2>4. k = Port("core", "access") => "fleet" \in FirstMarks(k)
    BY DEF FirstMarks, Device, Port
  <2>5. k \in Named(Existing) \/ k = Port("core", "access") => k \in DOMAIN o
    BY <1>1, KnownListed DEF KeysDone, Known
  <2> QED
    BY <1>3, <1>8, <2>1, <2>2, <2>3, <2>4, <2>5
<1>13. s.bars \intersect x.marks = {}
  <2>1. \/ s.bars = {}
        \/ k \in Named(NewDevices) /\ s.bars = {"managed"}
        \/ k \in MadeBy("router-ids") \union MadeBy("gateways") /\ s.bars = {"data-plane"}
    BY <1>0 DEF StepSound
  <2>2. w.marks = {} \/ w.marks = MarksOf(done, k)
    BY <1>3, <1>4
  <2>3. CASE k \in Named(NewDevices) /\ s.bars = {"managed"}
    <3>1. "managed" \notin MarksOf(done, k) /\ "managed" \notin Adds(m, k)
      BY <1>1, <2>3, BarredMarks, MarksGiven DEF Ordered
    <3> QED
      BY <1>8, <2>2, <2>3, <3>1
  <2>4. CASE k \in MadeBy("router-ids") \union MadeBy("gateways") /\ s.bars = {"data-plane"}
    <3>1. "data-plane" \notin MarksOf(done, k)
      BY <1>1, <2>4, BarredMarks DEF Ordered
    <3>2. m \in {"router-ids", "gateways"}
      BY <1>6, <2>4, MarksGiven, MigrationNames
    <3>3. "data-plane" \notin Adds(m, k)
      BY <2>4, <3>2, MarksGiven
    <3> QED
      BY <1>8, <2>2, <2>4, <3>1, <3>3
  <2> QED
    BY <2>1, <2>3, <2>4
<1>14. s.ports = {} \/ PortsOf(T, k[2]) = s.ports
  <2>1. SUFFICES ASSUME s.ports # {} PROVE PortsOf(T, k[2]) = s.ports
    OBVIOUS
  <2>2. k \in Named(NewDevices) /\ s.ports = PortsOfNew(k[2])
    BY <1>6, <2>1
  <2>3. PICK d \in NewDevices : k = Device(d)
    BY <2>2 DEF Named
  <2>4. k[2] = d
    BY <2>3 DEF Device
  <2>5. \A p \in PortsOfNew(d) : Port(d, p) \in DOMAIN T
    BY <1>0, <1>2, <2>2, <2>4 DEF Ready
  <2> QED
    BY <1>2, <2>2, <2>4, <2>5, PortsCounted
<1>15. AgreesButLink(T, s)
  BY <1>0, <1>9, <1>10, <1>12, <1>13, <1>14 DEF AgreesButLink
<1> QED
  BY <1>0, <1>11, <1>15 DEF Agrees

\* What a migration does not make is there.
LEMMA FoundKeys ==
  ASSUME NEW done, Ordered(done), NEW m \in ToSet(Migrations), Ordered(done \union {m}),
         NEW k \in KeysOf(m), k \notin MadeBy(m)
  PROVE  k \in KeysDone(done)
<1>1. CASE m = "inventory"
  <2>1. k \in Named(Existing) \union {Slug("lab")}
    BY <1>1 DEF MadeBy
  <2> QED
    BY <2>1 DEF KeysDone, Known
<1>2. CASE m = "activation"
  <2>1. "inventory" \in done
    BY <1>2 DEF Ordered
  <2>2. KeysOf("activation") \subseteq KeysOf("inventory")
    BY DevicesApart DEF KeysOf
  <2> QED
    BY <1>2, <2>1, <2>2 DEF KeysDone
<1>3. CASE m = "data-plane"
  <2>1. "inventory" \in done
    BY <1>3 DEF Ordered
  <2>2. k \in Named(ToSet(Speakers)) \union RoutedOn
    BY <1>3 DEF MadeBy
  <2>3. ToSet(Speakers) = {"core", "edge", "transit"}
    BY DEF ToSet, Speakers
  <2>4. Named(ToSet(Speakers)) \subseteq Named(Devices)
    BY <2>3 DEF Named, Devices, Existing
  <2>5. RoutedOn \subseteq OldPorts \union NewPorts
    BY DEF RoutedOn, OldPorts, NewPorts
  <2>6. k \in KeysOf("inventory")
    BY <2>2, <2>4, <2>5 DEF KeysOf
  <2> QED
    BY <2>1, <2>6 DEF KeysDone
<1>4. CASE m \in {"router-ids", "gateways"}
  BY <1>4 DEF MadeBy
<1> QED
  BY <1>1, <1>2, <1>3, <1>4, MigrationNames

\* A migration that starts in order is not refused.
LEMMA RunAgrees ==
  ASSUME NEW done, NEW o, NEW N, Canonical(done, o, N), NEW m \in ToSet(Migrations), Ordered(done \union {m}),
         m = "inventory" => "activation" \notin done, Needs(m) \subseteq DOMAIN o, Before(m, o),
         NEW t, t = Transaction(m, o, N)
  PROVE  t.ok
<1>1. PICK q : q = Steps[m]
  OBVIOUS
<1>2. Block(m, q, DOMAIN o, KeysOf(m), MadeBy(m), KeysOf(m))
  BY <1>1, MigrationBlock
<1>3. PICK L \in Nat : L = Len(q)
  BY <1>2 DEF Block
<1>4. PICK f : RunsAs(f, q, Start(m, o, N)) /\ t = f[L]
  BY <1>1, <1>3, TransactionGoes
<1>5. Numbered(o, N) /\ N \in Keys /\ DOMAIN o = KeysDone(done) /\ Ordered(done)
      /\ \A k \in DOMAIN o : AnObject(o[k])
  BY DEF Canonical, Numbered, AsReference
<1>6. \A n \in 0..L : /\ Drew(N, f[n])
                      /\ f[n].ok => Grown(m, o, N, f[n], KeysTo(q, n), FinalsTo(m, q, n))
  BY <1>1, <1>3, <1>4, <1>5, RunGrownTo
<1>7. \A n \in 0..L : f[n].ok => Numbered(f[n].objects, f[n].next)
  BY <1>1, <1>3, <1>4, <1>5, RunNumbered
<1>8. /\ f[0] = Start(m, o, N)
      /\ \A n \in 1..L : f[n] = Ensure(f[n - 1], q[n])
  BY <1>3, <1>4 DEF RunsAs
<1> DEFINE S == {n \in 0..L : f[n].ok}
<1>9. 0 \in S
  BY <1>8 DEF Start
<1>10. ASSUME NEW n \in 1..L, n - 1 \in S PROVE n \in S
  <2>1. PICK x, u, s, B, F : x = f[n - 1] /\ u = f[n] /\ s = q[n] /\ B = KeysTo(q, n - 1) /\ F = FinalsTo(m, q, n - 1)
    OBVIOUS
  <2>2. n - 1 \in 0..L /\ n \in 0..L
    BY <1>3
  <2>3. u = Ensure(x, s) /\ Drew(N, x) /\ x.ok /\ Grown(m, o, N, x, B, F) /\ Numbered(x.objects, x.next)
    BY <1>6, <1>7, <1>8, <1>10, <2>1, <2>2
  <2>4. StepSound(m, s) /\ Ready(s, DOMAIN o \union B)
    <3>1. KeysBefore(q, n) = KeysTo(q, n - 1)
      BY DEF KeysBefore, KeysTo
    <3> QED
      BY <1>2, <1>3, <2>1, <3>1 DEF Block
  <2>5. s.key \in DOMAIN x.objects => Agrees(x.objects, s)
    BY <2>3, <2>4, StepAgrees
  <2>6. s.key \notin DOMAIN x.objects => s.makes
    <3>1. s.key \in KeysOf(m) /\ (~s.makes => s.key \notin MadeBy(m))
      BY <2>4 DEF StepSound
    <3>2. DOMAIN o \subseteq DOMAIN x.objects
      BY <2>3 DEF Grown
    <3> QED
      BY <1>5, <3>1, <3>2, FoundKeys
  <2>7. u.ok
    BY <2>3, <2>5, <2>6, EnsureCases DEF Drew
  <2> QED
    BY <2>1, <2>2, <2>7
<1>11. 0..L \subseteq S
  <2> HIDE DEF S
  <2> QED
    BY <1>3, <1>9, <1>10, Upwards
<1> QED
  BY <1>3, <1>4, <1>11

\* Which objects have a mark.
LEMMA MarkGiven ==
  ASSUME NEW done, NEW k, NEW mark
  PROVE  mark \in MarksOf(done, k) <=> mark \in FirstMarks(k) \/ \E m \in done : k \in KeysOf(m) /\ mark \in Adds(m, k)
  BY DEF MarksOf

LEMMA FirstMarked ==
  ASSUME NEW k
  PROVE  /\ "managed" \in FirstMarks(k) <=> k \in Named(Existing)
         /\ "fleet" \in FirstMarks(k) <=> k \in {Device("core"), Port("core", "access")}
         /\ "protected" \in FirstMarks(k) <=> k \in {Port("core", "management"), Port("edge", "management")}
         /\ FirstMarks(k) \subseteq {"managed", "fleet", "protected"}
<1>1. Named(Existing) = {Device("core"), Device("edge")}
  BY DEF Named, Existing
<1>2. /\ Device("core") # Device("edge") /\ Port("core", "access") # Port("core", "management")
      /\ Port("core", "access") # Port("edge", "management")
      /\ \A d \in {"core", "edge"}, p \in {"management", "access"}, e \in {"core", "edge"} : Device(d) # Port(e, p)
  BY DEF Device, Port
<1> QED
  BY <1>1, <1>2 DEF FirstMarks

\* Addresses that the first migration marks.
LEMMA PurposeIPs ==
  /\ \A k \in KeysOf("inventory") : k[1] = "ip" => k[3] \in {"live", "staging"}
  /\ \A k \in AllIPs : k[3] \in {"live", "staging"} => k \in KeysOf("inventory")
<1>1. \A k \in OldIPs \union NewIPs : k[3] \in {"live", "staging"}
  BY DEF OldIPs, NewIPs, IP
<1>2. \A k \in RoutedAt \union LoopbackIds \union Gateways : k[3] \notin {"live", "staging"}
  BY DEF RoutedAt, LoopbackIds, Gateways, Vids, IP
<1>3. \A k \in KeysOf("inventory") : k[1] = "ip" => k \in OldIPs \union NewIPs
  <2>1. \A k \in KeysOf("inventory") : \/ k \in OldIPs \union NewIPs \/ k \in AllSlugs \/ k \in Named(Devices)
                                      \/ k \in AllPorts \/ k \in CableKeys
    BY DEF KeysOf, AllSlugs, AllPorts
  <2> QED
    BY <2>1, KeyTables
<1>4. OldIPs \union NewIPs \subseteq KeysOf("inventory")
  BY DEF KeysOf
<1> QED
  BY <1>1, <1>2, <1>3, <1>4 DEF AllIPs

LEMMA MarkOwner ==
  ASSUME NEW done, done \subseteq ToSet(Migrations), NEW k
  PROVE  /\ "profiled" \in MarksOf(done, k) <=> "inventory" \in done /\ k \in KeysOf("inventory") /\ k[1] = "device"
         /\ "role" \in MarksOf(done, k) <=> "inventory" \in done /\ k \in KeysOf("inventory") /\ k[1] = "device"
         /\ "attachment" \in MarksOf(done, k) <=>
               "inventory" \in done /\ k \in KeysOf("inventory") /\ k[1] = "interface" /\ k[3] = "management"
         /\ "protected" \in MarksOf(done, k) <=>
               \/ k \in {Port("core", "management"), Port("edge", "management")}
               \/ "inventory" \in done /\ k \in KeysOf("inventory") /\ k[1] = "interface" /\ k[3] = "management"
         /\ \A p \in {"live", "staging"} : 
               p \in MarksOf(done, k) <=> "inventory" \in done /\ k \in KeysOf("inventory") /\ k[1] = "ip" /\ k[3] = p
         /\ "data-plane" \in MarksOf(done, k) <=>
               "data-plane" \in done /\ k \in KeysOf("data-plane") /\ k[1] \in {"vlan", "prefix", "ip", "interface"}
         /\ "routing" \in MarksOf(done, k) <=> "router-ids" \in done /\ k \in KeysOf("router-ids") /\ k[1] = "ip"
         /\ "gateway" \in MarksOf(done, k) <=>
               "gateways" \in done /\ k \in KeysOf("gateways") /\ k[1] \in {"ip", "interface"}
         /\ "managed" \in MarksOf(done, k) <=> k \in Named(Existing)
         /\ "fleet" \in MarksOf(done, k) <=> k \in {Device("core"), Port("core", "access")}
<1>1. done \subseteq {"inventory", "activation", "data-plane", "router-ids", "gateways"}
  BY MigrationNames
<1>2. k \in KeysOf("inventory") /\ k[1] = "ip" => k[3] \in {"live", "staging"}
  BY PurposeIPs
<1>3. /\ k \in KeysOf("inventory") =>
            /\ k[1] = "device" => Adds("inventory", k) = {"role", "profiled"}
            /\ k[1] = "interface" /\ k[3] = "management" => Adds("inventory", k) = {"protected", "attachment"}
            /\ k[1] = "ip" => Adds("inventory", k) = {k[3]} /\ k[3] \in {"live", "staging"}
            /\ k[1] \notin {"device", "ip"} /\ ~(k[1] = "interface" /\ k[3] = "management") => Adds("inventory", k) = {}
      /\ Adds("activation", k) = {}
      /\ k[1] \in {"vlan", "prefix", "ip", "interface"} => Adds("data-plane", k) = {"data-plane"}
      /\ k[1] \notin {"vlan", "prefix", "ip", "interface"} => Adds("data-plane", k) = {}
      /\ k[1] = "ip" => Adds("router-ids", k) = {"routing"}
      /\ k[1] # "ip" => Adds("router-ids", k) = {}
      /\ k[1] \in {"ip", "interface"} => Adds("gateways", k) = {"gateway"}
      /\ k[1] \notin {"ip", "interface"} => Adds("gateways", k) = {}
  BY <1>2 DEF Adds
<1>4. \A mark : mark \in MarksOf(done, k) <=>
         \/ mark \in FirstMarks(k)
         \/ "inventory" \in done /\ k \in KeysOf("inventory") /\ mark \in Adds("inventory", k)
         \/ "data-plane" \in done /\ k \in KeysOf("data-plane") /\ mark \in Adds("data-plane", k)
         \/ "router-ids" \in done /\ k \in KeysOf("router-ids") /\ mark \in Adds("router-ids", k)
         \/ "gateways" \in done /\ k \in KeysOf("gateways") /\ mark \in Adds("gateways", k)
  <2> TAKE mark
  <2> DEFINE G(m) == k \in KeysOf(m) /\ mark \in Adds(m, k)
  <2>1. ~G("activation")
    BY <1>3
  <2>2. mark \in MarksOf(done, k) <=> mark \in FirstMarks(k) \/ \E m \in done : G(m)
    BY MarkGiven
  <2>3. (\E m \in done : G(m)) <=>
           \/ "inventory" \in done /\ G("inventory")
           \/ "data-plane" \in done /\ G("data-plane")
           \/ "router-ids" \in done /\ G("router-ids")
           \/ "gateways" \in done /\ G("gateways")
    <3> HIDE DEF G
    <3> QED
      BY <1>1, <2>1
  <2> QED
    BY <2>2, <2>3
<1>5. FirstMarks(k) \subseteq {"managed", "fleet", "protected"}
  BY FirstMarked
<1>6. \A mark \in {"profiled", "role", "attachment", "live", "staging", "data-plane", "routing", "gateway"} :
         mark \notin FirstMarks(k)
  BY <1>5
<1>7. "profiled" \in MarksOf(done, k) <=> "inventory" \in done /\ k \in KeysOf("inventory") /\ k[1] = "device"
  BY <1>3, <1>4, <1>6
<1>8. "role" \in MarksOf(done, k) <=> "inventory" \in done /\ k \in KeysOf("inventory") /\ k[1] = "device"
  BY <1>3, <1>4, <1>6
<1>9. "attachment" \in MarksOf(done, k) <=>
         "inventory" \in done /\ k \in KeysOf("inventory") /\ k[1] = "interface" /\ k[3] = "management"
  BY <1>3, <1>4, <1>6
<1>10. "protected" \in MarksOf(done, k) <=>
         \/ k \in {Port("core", "management"), Port("edge", "management")}
         \/ "inventory" \in done /\ k \in KeysOf("inventory") /\ k[1] = "interface" /\ k[3] = "management"
  BY <1>3, <1>4, FirstMarked
<1>11. ASSUME NEW p \in {"live", "staging"}
       PROVE  p \in MarksOf(done, k) <=> "inventory" \in done /\ k \in KeysOf("inventory") /\ k[1] = "ip" /\ k[3] = p
  BY <1>3, <1>4, <1>6
<1>12. "data-plane" \in MarksOf(done, k) <=>
         "data-plane" \in done /\ k \in KeysOf("data-plane") /\ k[1] \in {"vlan", "prefix", "ip", "interface"}
  BY <1>3, <1>4, <1>6
<1>13. "routing" \in MarksOf(done, k) <=> "router-ids" \in done /\ k \in KeysOf("router-ids") /\ k[1] = "ip"
  BY <1>3, <1>4, <1>6
<1>14. "gateway" \in MarksOf(done, k) <=>
         "gateways" \in done /\ k \in KeysOf("gateways") /\ k[1] \in {"ip", "interface"}
  BY <1>3, <1>4, <1>6
<1>15. "managed" \in MarksOf(done, k) <=> k \in Named(Existing)
  BY <1>3, <1>4, FirstMarked
<1>16. "fleet" \in MarksOf(done, k) <=> k \in {Device("core"), Port("core", "access")}
  BY <1>3, <1>4, FirstMarked
<1> QED
  BY <1>7, <1>8, <1>9, <1>10, <1>11, <1>12, <1>13, <1>14, <1>15, <1>16

\* The tables of what a migration goes through.
TableOf(m, table) == {k \in KeysOf(m) : k[1] = table}
ManagementPorts == {Port(d, "management") : d \in Devices}

LEMMA TableKeys ==
  /\ TableOf("inventory", "device") = Named(Devices) /\ TableOf("inventory", "interface") = OldPorts \union NewPorts
  /\ TableOf("inventory", "ip") = OldIPs \union NewIPs /\ TableOf("inventory", "cable") = CableKeys
  /\ TableOf("data-plane", "interface") = RoutedOn /\ TableOf("data-plane", "ip") = RoutedAt
  /\ TableOf("data-plane", "prefix") = PrefixKeys /\ TableOf("data-plane", "vlan") = VlanKeys
  /\ TableOf("data-plane", "cable") = {}
  /\ TableOf("router-ids", "ip") = LoopbackIds
  /\ TableOf("gateways", "ip") = Gateways /\ TableOf("gateways", "interface") = Subinterfaces
<1>1. /\ \A k \in Named(Devices) \union Named(ToSet(Speakers)) : k[1] = "device"
      /\ \A k \in OldPorts \union NewPorts \union RoutedOn \union Subinterfaces : k[1] = "interface"
      /\ \A k \in OldIPs \union NewIPs \union RoutedAt \union LoopbackIds \union Gateways : k[1] = "ip"
      /\ \A k \in CableKeys : k[1] = "cable"
      /\ \A k \in PrefixKeys : k[1] = "prefix"
      /\ \A k \in VlanKeys : k[1] = "vlan"
      /\ \A n : Slug(n)[1] = "slug"
      /\ ReadPermission[1] = "permission"
  <2>1. RoutedOn \subseteq OldPorts \union NewPorts
    BY DEF RoutedOn, OldPorts, NewPorts
  <2>2. \A k \in Named(ToSet(Speakers)) : k[1] = "device"
    BY DEF Named, Device
  <2>3. \A n : Slug(n)[1] = "slug"
    BY DEF Slug
  <2> QED
    BY <2>1, <2>2, <2>3, KeyTables DEF AllPorts, AllIPs
<1>2. /\ KeysOf("inventory") = {Slug("lab"), Slug("inventory")} \union Named(Devices) \union OldPorts \union NewPorts
                               \union OldIPs \union NewIPs \union CableKeys
      /\ KeysOf("data-plane") = {Slug("data-plane"), ReadPermission} \union VlanKeys \union PrefixKeys
                                \union Named(ToSet(Speakers)) \union RoutedOn \union RoutedAt
      /\ KeysOf("router-ids") = {Slug("routing")} \union LoopbackIds
      /\ KeysOf("gateways") = {Slug("gateway")} \union Subinterfaces \union Gateways
  BY DEF KeysOf
<1>3. TableOf("inventory", "device") = Named(Devices) /\ TableOf("inventory", "interface") = OldPorts \union NewPorts
      /\ TableOf("inventory", "ip") = OldIPs \union NewIPs /\ TableOf("inventory", "cable") = CableKeys
  BY <1>1, <1>2 DEF TableOf
<1>4. /\ TableOf("data-plane", "interface") = RoutedOn /\ TableOf("data-plane", "ip") = RoutedAt
      /\ TableOf("data-plane", "prefix") = PrefixKeys /\ TableOf("data-plane", "vlan") = VlanKeys
      /\ TableOf("data-plane", "cable") = {}
  BY <1>1, <1>2 DEF TableOf
<1>5. /\ TableOf("router-ids", "ip") = LoopbackIds
      /\ TableOf("gateways", "ip") = Gateways /\ TableOf("gateways", "interface") = Subinterfaces
  BY <1>1, <1>2 DEF TableOf
<1> QED
  BY <1>3, <1>4, <1>5

LEMMA ManagementKeys ==
  /\ {k \in OldPorts \union NewPorts : k[3] = "management"} = ManagementPorts
  /\ \A p \in {"live", "staging"} : {k \in OldIPs \union NewIPs : k[3] = p} = {IP(d, p) : d \in Devices}
<1>1. ManagementPorts = {Port("core", "management"), Port("edge", "management"),
                         Port("transit", "management"), Port("access", "management")}
  BY DEF ManagementPorts, Devices, Existing
<1>2. {k \in OldPorts \union NewPorts : k[3] = "management"} = ManagementPorts
  BY <1>1 DEF OldPorts, NewPorts, Port
<1>3. ASSUME NEW p \in {"live", "staging"}
      PROVE  {k \in OldIPs \union NewIPs : k[3] = p} = {IP(d, p) : d \in Devices}
  <2>1. \A d, q : IP(d, q)[3] = q
    BY DEF IP
  <2>2. Devices = Existing \union NewDevices
    BY DEF Devices, NewDevices
  <2> QED
    BY <2>1, <2>2 DEF OldIPs, NewIPs
<1> QED
  BY <1>2, <1>3

\* What is in the inventory, in order.
LEMMA CanonicalMarked ==
  ASSUME NEW done, NEW o, NEW N, Canonical(done, o, N), NEW table, NEW mark
  PROVE  Marked(o, table, mark) = {k \in KeysDone(done) : k[1] = table /\ mark \in MarksOf(done, k)}
  BY DEF Canonical, AsReference, Marked, In

LEMMA MarkedInOrder ==
  ASSUME NEW done, NEW o, NEW N, Canonical(done, o, N)
  PROVE  /\ Marked(o, "device", "managed") = Named(Existing) /\ Marked(o, "device", "fleet") = {Device("core")}
         /\ Marked(o, "interface", "fleet") = {Port("core", "access")}
         /\ "inventory" \in done =>
              /\ Marked(o, "device", "profiled") = Named(Devices)
              /\ Marked(o, "interface", "attachment") = ManagementPorts
              /\ Marked(o, "interface", "protected") = ManagementPorts
              /\ \A p \in {"live", "staging"} : Marked(o, "ip", p) = {IP(d, p) : d \in Devices}
         /\ "data-plane" \in done =>
              /\ Marked(o, "prefix", "data-plane") = PrefixKeys /\ Marked(o, "vlan", "data-plane") = VlanKeys
              /\ Marked(o, "interface", "data-plane") = RoutedOn /\ Marked(o, "ip", "data-plane") = RoutedAt
         /\ "router-ids" \in done => Marked(o, "ip", "routing") = LoopbackIds
         /\ "gateways" \in done => /\ Marked(o, "interface", "gateway") = Subinterfaces
                                   /\ Marked(o, "ip", "gateway") = Gateways
<1>1. /\ done \subseteq ToSet(Migrations) /\ Known \subseteq KeysDone(done)
      /\ \A m \in done : KeysOf(m) \subseteq KeysDone(done)
  BY DEF Canonical, Ordered, KeysDone
<1>2. /\ \A k \in Named(Existing) : k[1] = "device"
      /\ Device("core")[1] = "device" /\ \A d, p : Port(d, p)[1] = "interface"
      /\ Named(Existing) \subseteq Known /\ Device("core") \in Known /\ Port("core", "access") \in Known
      /\ Port("core", "management") \in ManagementPorts /\ Port("edge", "management") \in ManagementPorts
  <2>1. Port("core", "management") \in ManagementPorts /\ Port("edge", "management") \in ManagementPorts
    BY DEF ManagementPorts, Devices, Existing
  <2>2. \A k \in Named(Existing) : k[1] = "device"
    BY DEF Named, Device
  <2>3. Device("core")[1] = "device" /\ \A d, p : Port(d, p)[1] = "interface"
    BY DEF Device, Port
  <2> QED
    BY <2>1, <2>2, <2>3, KnownListed DEF Known
<1>3. Marked(o, "device", "managed") = Named(Existing) /\ Marked(o, "device", "fleet") = {Device("core")}
      /\ Marked(o, "interface", "fleet") = {Port("core", "access")}
  <2>1. /\ \A k : "managed" \in MarksOf(done, k) <=> k \in Named(Existing)
        /\ \A k : "fleet" \in MarksOf(done, k) <=> k \in {Device("core"), Port("core", "access")}
    BY <1>1, MarkOwner
  <2>2. Marked(o, "device", "managed") = {k \in KeysDone(done) : k[1] = "device" /\ "managed" \in MarksOf(done, k)}
    BY CanonicalMarked
  <2>3. \A table : Marked(o, table, "fleet") = {k \in KeysDone(done) : k[1] = table /\ "fleet" \in MarksOf(done, k)}
    BY CanonicalMarked
  <2>4. Marked(o, "device", "managed") = Named(Existing)
    BY <1>1, <1>2, <2>1, <2>2
  <2>5. Marked(o, "device", "fleet") = {Device("core")}
    BY <1>1, <1>2, <2>1, <2>3
  <2>6. Marked(o, "interface", "fleet") = {Port("core", "access")}
    BY <1>1, <1>2, <2>1, <2>3
  <2> QED
    BY <2>4, <2>5, <2>6
<1>4. ASSUME "inventory" \in done
      PROVE  /\ Marked(o, "device", "profiled") = Named(Devices)
             /\ Marked(o, "interface", "attachment") = ManagementPorts
             /\ Marked(o, "interface", "protected") = ManagementPorts
             /\ \A p \in {"live", "staging"} : Marked(o, "ip", p) = {IP(d, p) : d \in Devices}
  <2>1. Marked(o, "device", "profiled") = TableOf("inventory", "device")
    BY <1>1, <1>4, CanonicalMarked, MarkOwner DEF TableOf
  <2>2. {k \in TableOf("inventory", "interface") : k[3] = "management"} = ManagementPorts
    BY TableKeys, ManagementKeys
  <2>3. Marked(o, "interface", "attachment") = ManagementPorts
    <3>1. \A k : "attachment" \in MarksOf(done, k) <=>
                 k \in KeysOf("inventory") /\ k[1] = "interface" /\ k[3] = "management"
      BY <1>1, <1>4, MarkOwner
    <3>2. Marked(o, "interface", "attachment") =
          {k \in KeysDone(done) : k[1] = "interface" /\ "attachment" \in MarksOf(done, k)}
      BY CanonicalMarked
    <3> QED
      BY <1>1, <1>4, <2>2, <3>1, <3>2 DEF TableOf
  <2>4. Marked(o, "interface", "protected") = ManagementPorts
    <3>1. \A k : "protected" \in MarksOf(done, k) <=>
                 \/ k \in {Port("core", "management"), Port("edge", "management")}
                 \/ k \in KeysOf("inventory") /\ k[1] = "interface" /\ k[3] = "management"
      BY <1>1, <1>4, MarkOwner
    <3>2. Marked(o, "interface", "protected") =
          {k \in KeysDone(done) : k[1] = "interface" /\ "protected" \in MarksOf(done, k)}
      BY CanonicalMarked
    <3>3. \A k \in ManagementPorts : k \in KeysOf("inventory") /\ k[1] = "interface" /\ k[3] = "management"
      BY <2>2 DEF TableOf
    <3> QED
      BY <1>1, <1>2, <1>4, <2>2, <3>1, <3>2, <3>3 DEF TableOf
  <2>5. ASSUME NEW p \in {"live", "staging"} PROVE Marked(o, "ip", p) = {IP(d, p) : d \in Devices}
    <3>1. Marked(o, "ip", p) = {k \in TableOf("inventory", "ip") : k[3] = p}
      BY <1>1, <1>4, CanonicalMarked, MarkOwner DEF TableOf
    <3> QED
      BY <3>1, TableKeys, ManagementKeys
  <2> QED
    BY <2>1, <2>3, <2>4, <2>5, TableKeys
<1>5. ASSUME "data-plane" \in done
      PROVE  /\ Marked(o, "prefix", "data-plane") = PrefixKeys /\ Marked(o, "vlan", "data-plane") = VlanKeys
             /\ Marked(o, "interface", "data-plane") = RoutedOn /\ Marked(o, "ip", "data-plane") = RoutedAt
  <2>1. \A table \in {"vlan", "prefix", "ip", "interface"} :
           Marked(o, table, "data-plane") = TableOf("data-plane", table)
    BY <1>1, <1>5, CanonicalMarked, MarkOwner DEF TableOf
  <2> QED
    BY <2>1, TableKeys
<1>6. ASSUME "router-ids" \in done
      PROVE  Marked(o, "ip", "routing") = LoopbackIds
  <2>1. Marked(o, "ip", "routing") = TableOf("router-ids", "ip")
    BY <1>1, <1>6, CanonicalMarked, MarkOwner DEF TableOf
  <2> QED
    BY <2>1, TableKeys
<1>7. ASSUME "gateways" \in done
      PROVE  Marked(o, "interface", "gateway") = Subinterfaces /\ Marked(o, "ip", "gateway") = Gateways
  <2>1. \A table \in {"ip", "interface"} : Marked(o, table, "gateway") = TableOf("gateways", table)
    BY <1>1, <1>7, CanonicalMarked, MarkOwner DEF TableOf
  <2> QED
    BY <2>1, TableKeys
<1> QED
  BY <1>3, <1>4, <1>5, <1>6, <1>7

\* What tells that a migration was there.
LEMMA WhoWasThere ==
  ASSUME NEW done, Ordered(done)
  PROVE  /\ IP("transit", "live") \in KeysDone(done) \/ Device("transit") \in KeysDone(done) => "inventory" \in done
         /\ Slug("data-plane") \in KeysDone(done) => "data-plane" \in done
         /\ Slug("routing") \in KeysDone(done) => "router-ids" \in done
<1>1. done \subseteq {"inventory", "activation", "data-plane", "router-ids", "gateways"}
  BY MigrationNames DEF Ordered
<1>2. IP("transit", "live") \notin Known /\ Device("transit") \notin Known
      /\ Slug("data-plane") \notin Known /\ Slug("routing") \notin Known
  BY KnownListed DEF IP, Device, Port, Slug
<1>3. "inventory" \notin done => KeysDone(done) = Known
  <2>1. "inventory" \notin done => done = {}
    BY <1>1 DEF Ordered
  <2> QED
    BY <2>1 DEF KeysDone
<1>4. /\ Slug("data-plane") \notin KeysOf("inventory") /\ Slug("data-plane") \notin KeysOf("activation")
      /\ Slug("routing") \notin KeysOf("inventory") /\ Slug("routing") \notin KeysOf("activation")
      /\ Slug("routing") \notin KeysOf("data-plane")
  <2>1. \A k \in Named(Devices) \union Named(NewDevices) \union Named(ToSet(Speakers)) : k[1] = "device"
    BY DEF Named, Device
  <2>2. \A k \in OldPorts \union NewPorts \union RoutedOn : k[1] = "interface"
    BY KeyTables DEF AllPorts, RoutedOn, Port
  <2>3. \A k \in OldIPs \union NewIPs \union RoutedAt \union CableKeys \union PrefixKeys \union VlanKeys :
           k[1] \in {"ip", "cable", "prefix", "vlan"}
    BY KeyTables DEF AllIPs
  <2>4. /\ \A n : Slug(n)[1] = "slug" /\ Slug(n)[2] = n
        /\ ReadPermission[1] = "permission"
    BY DEF Slug, ReadPermission
  <2>5. \A k \in KeysOf("inventory") \union KeysOf("activation") \union KeysOf("data-plane") :
           k[1] = "slug" => k \in {Slug("lab"), Slug("inventory"), Slug("data-plane")}
    BY <2>1, <2>2, <2>3, <2>4 DEF KeysOf
  <2>6. \A k \in KeysOf("inventory") \union KeysOf("activation") :
           k[1] = "slug" => k \in {Slug("lab"), Slug("inventory")}
    BY <2>1, <2>2, <2>3, <2>4 DEF KeysOf
  <2>7. /\ Slug("routing") \notin {Slug("lab"), Slug("inventory"), Slug("data-plane")}
        /\ Slug("data-plane") \notin {Slug("lab"), Slug("inventory")}
    BY <2>4
  <2> QED
    BY <2>4, <2>5, <2>6, <2>7
<1>5. Slug("data-plane") \in KeysDone(done) => "data-plane" \in done
  <2>1. "data-plane" \notin done => done \subseteq {"inventory", "activation"}
    BY <1>1 DEF Ordered
  <2> QED
    BY <1>2, <1>4, <2>1 DEF KeysDone
<1>6. Slug("routing") \in KeysDone(done) => "router-ids" \in done
  <2>1. "router-ids" \notin done => done \subseteq {"inventory", "activation", "data-plane"}
    BY <1>1 DEF Ordered
  <2> QED
    BY <1>2, <1>4, <2>1 DEF KeysDone
<1> QED
  BY <1>2, <1>3, <1>5, <1>6

LEMMA NeedsThere ==
  ASSUME NEW done, NEW m \in ToSet(Migrations), Ordered(done), Ordered(done \union {m})
  PROVE  Needs(m) \subseteq KeysDone(done)
<1>1. CASE m = "data-plane"
  <2>1. "inventory" \in done
    BY <1>1 DEF Ordered
  <2> QED
    BY <1>1, <2>1 DEF Needs, KeysDone
<1>2. CASE m = "router-ids"
  <2>1. "data-plane" \in done
    BY <1>2 DEF Ordered
  <2>2. IP("transit", "edge") \in KeysOf("data-plane")
    BY DEF KeysOf, RoutedAt
  <2> QED
    BY <1>2, <2>1, <2>2 DEF Needs, KeysDone
<1>3. CASE m = "gateways"
  <2>1. "router-ids" \in done
    BY <1>3 DEF Ordered
  <2>2. "data-plane" \in done
    BY <2>1 DEF Ordered
  <2>3. "inventory" \in done
    BY <2>2 DEF Ordered
  <2>4. IP("transit", "router-id") \in KeysOf("router-ids") /\ Port("access", "servers") \in KeysOf("inventory")
    BY DEF KeysOf, LoopbackIds, NewPorts
  <2> QED
    BY <1>3, <2>1, <2>3, <2>4 DEF Needs, KeysDone
<1>4. CASE m \in {"inventory", "activation"}
  BY <1>4 DEF Needs
<1> QED
  BY <1>1, <1>2, <1>3, <1>4, MigrationNames

\* A migration that comes to its end came in order.
LEMMA RunInOrder ==
  ASSUME NEW done, NEW o, NEW N, Canonical(done, o, N), NEW m \in ToSet(Migrations),
         NEW t, t = Transaction(m, o, N), t.ok
  PROVE  /\ Ordered(done \union {m}) /\ Needs(m) \subseteq DOMAIN o
         /\ m = "inventory" => "activation" \notin done
<1>1. /\ Ordered(done) /\ Numbered(o, N) /\ DOMAIN o = KeysDone(done)
      /\ \A k \in DOMAIN o : AsReference(done, k, o[k])
  BY DEF Canonical
<1>2. (\A k \in DOMAIN o : AnObject(o[k])) /\ N \in Keys
  BY <1>1 DEF AsReference, Numbered
<1>3. Before(m, o) /\ Grown(m, o, N, t, KeysOf(m), KeysOf(m))
  BY <1>2, RunGrown
<1>4. Ordered(done \union {m})
  <2>1. CASE m = "inventory"
    BY <1>1, <2>1 DEF Ordered
  <2>2. CASE m = "activation"
    <3>1. Activable(o)
      BY <1>3, <2>2 DEF Before
    <3>2. Device("transit") \in DOMAIN o
      BY <3>1 DEF Activable, DeviceKnown, Is, Devices, Existing
    <3> QED
      BY <1>1, <2>2, <3>2, WhoWasThere DEF Ordered
  <2>3. CASE m = "data-plane"
    <3>1. ManagementComplete(o)
      BY <1>3, <2>3 DEF Before
    <3>2. IP("transit", "live") \in DOMAIN o
      BY <3>1 DEF ManagementComplete, Devices
    <3> QED
      BY <1>1, <2>3, <3>2, WhoWasThere DEF Ordered
  <2>4. CASE m = "router-ids"
    <3>1. RoutersReady(o)
      BY <1>3, <2>4 DEF Before
    <3>2. Slug("data-plane") \in DOMAIN o
      BY <3>1 DEF RoutersReady
    <3> QED
      BY <1>1, <2>4, <3>2, WhoWasThere DEF Ordered
  <2>5. CASE m = "gateways"
    <3>1. ServiceReady(o)
      BY <1>3, <2>5 DEF Before
    <3>2. Slug("routing") \in DOMAIN o
      BY <3>1 DEF ServiceReady
    <3> QED
      BY <1>1, <2>5, <3>2, WhoWasThere DEF Ordered
  <2> QED
    BY <2>1, <2>2, <2>3, <2>4, <2>5, MigrationNames
<1>5. Needs(m) \subseteq DOMAIN o
  BY <1>1, <1>4, NeedsThere
<1>6. ASSUME m = "inventory", "activation" \in done PROVE FALSE
  <2>1. PICK k, w, x : k = Device("transit") /\ w = Was(m, o, k) /\ x = t.objects[k]
    OBVIOUS
  <2>2. k[1] = "device" /\ k \in Named(Devices) /\ k \notin Named(Existing)
    BY <2>1 DEF Device, Named, Devices, Existing
  <2>3. k \in KeysOf("inventory") /\ "inventory" \in done
    BY <1>1, <1>6, <2>2 DEF Ordered, KeysOf
  <2>4. k \in DOMAIN o /\ w = o[k]
    BY <1>1, <2>1, <2>3 DEF KeysDone, Was
  <2>5. w.value = "active"
    BY <1>1, <1>6, <2>2, <2>4 DEF AsReference, ValueIn
  <2>6. w.value \in ValuesOf(m, k)
    BY <1>3, <1>6, <2>1, <2>2, <2>3 DEF Grown, Became
  <2> QED
    BY <1>6, <2>2, <2>5, <2>6 DEF ValuesOf
<1> QED
  BY <1>4, <1>5, <1>6

\* Every migration that comes to its end leaves the inventory in order.
LEMMA CanonicalStep ==
  ASSUME NEW done, NEW o, NEW N, Canonical(done, o, N), NEW m \in ToSet(Migrations),
         NEW t, t = Transaction(m, o, N), t.ok
  PROVE  Canonical(done \union {m}, t.objects, t.next)
  BY RunInOrder, CanonicalRun

\* An object of a migration that was there.
LEMMA ThereInOrder ==
  ASSUME NEW done, NEW o, NEW N, Canonical(done, o, N)
  PROVE  /\ \A m \in done : KeysOf(m) \subseteq DOMAIN o
         /\ \A k \in DOMAIN o : /\ o[k].id = RefId(k) /\ o[k].link = LinkOf(k) /\ o[k].marks = MarksOf(done, k)
                                /\ k[1] # "device" => o[k].value = "exact"
                                /\ k \in AllKeys
         /\ \A k \in DOMAIN o : k[1] = "cable" => k \in CableKeys
         /\ \A k \in DOMAIN o : k[1] = "device" => k \in Named(Devices)
         /\ \A k \in DOMAIN o : k[1] = "prefix" => k \in PrefixKeys
<1>1. /\ \A m \in done : KeysOf(m) \subseteq DOMAIN o
      /\ \A k \in DOMAIN o : /\ o[k].id = RefId(k) /\ o[k].link = LinkOf(k) /\ o[k].marks = MarksOf(done, k)
                             /\ k[1] # "device" => o[k].value = "exact"
                             /\ k \in AllKeys
  BY DEF Canonical, Numbered, KeysDone, AsReference, ValueIn
<1>2. \A k \in AllKeys : /\ k[1] = "cable" => k \in CableKeys
                         /\ k[1] = "device" => k \in Named(Devices)
                         /\ k[1] = "prefix" => k \in PrefixKeys
  BY KeysByTable, KeyTables
<1> QED
  BY <1>1, <1>2

\* The relations of the reference.
LEMMA Links ==
  /\ \A d : LinkOf(Device(d)) = {IP(d, "live")}
  /\ \A d, p : p \in {"live", "staging"} => LinkOf(IP(d, p)) = {Port(d, "management")}
  /\ \A d, p : p \notin {"live", "staging", "router-id"} => LinkOf(IP(d, p)) = {Port(d, p)}
  /\ \A d : LinkOf(IP(d, "router-id")) = {}
  /\ \A d, e : LinkOf(Cable(d, e)) = {Port(d, e), Port(e, d)}
  /\ \A n : LinkOf(Prefix(n)) = PrefixVlan(n)
  /\ \A v \in Vids : LinkOf(Port("core", v)) = {Port("core", "access")}
  /\ LinkOf(ReadPermission) = {} /\ \A v : LinkOf(Vlan(v)) = {}
<1>1. \A d : LinkOf(Device(d)) = {IP(d, "live")}
  BY DEF LinkOf, Device
<1>2. /\ \A d, p : p \in {"live", "staging"} => LinkOf(IP(d, p)) = {Port(d, "management")}
      /\ \A d, p : p \notin {"live", "staging", "router-id"} => LinkOf(IP(d, p)) = {Port(d, p)}
      /\ \A d : LinkOf(IP(d, "router-id")) = {}
  BY DEF LinkOf, IP
<1>3. \A d, e : LinkOf(Cable(d, e)) = {Port(d, e), Port(e, d)}
  BY DEF LinkOf, Cable
<1>4. \A n : LinkOf(Prefix(n)) = PrefixVlan(n)
  BY DEF LinkOf, Prefix
<1>5. \A v \in Vids : LinkOf(Port("core", v)) = {Port("core", "access")}
  BY DEF LinkOf, Port
<1>6. LinkOf(ReadPermission) = {} /\ \A v : LinkOf(Vlan(v)) = {}
  BY DEF LinkOf, ReadPermission, Vlan
<1> QED
  BY <1>1, <1>2, <1>3, <1>4, <1>5, <1>6

\* Names that are not each other's.
LEMMA NamesApart ==
  /\ \A d, p, e, q : Port(d, p) = Port(e, q) <=> d = e /\ p = q
  /\ \A d, p, e, q : IP(d, p) = IP(e, q) <=> d = e /\ p = q
  /\ \A d, p, e, q : Cable(d, p) = Cable(e, q) <=> d = e /\ p = q
  /\ \A d, e : Device(d) = Device(e) <=> d = e
  /\ \A d, e : Prefix(d) = Prefix(e) <=> d = e
  /\ \A d, e : Vlan(d) = Vlan(e) <=> d = e
  BY DEF Port, IP, Cable, Device, Prefix, Vlan

\* The first migration's objects.
LEMMA ManagementThere ==
  ASSUME NEW d \in Devices
  PROVE  /\ Device(d) \in KeysOf("inventory") /\ Port(d, "management") \in KeysOf("inventory")
         /\ \A p \in {"live", "staging"} : IP(d, p) \in KeysOf("inventory")
         /\ RefId(Device(d)) = DeviceId[d]
<1>1. Device(d) \in Named(Devices)
  BY DEF Named
<1>2. Port(d, "management") \in OldPorts \union NewPorts
  BY ManagementKeys DEF ManagementPorts
<1>3. ASSUME NEW p \in {"live", "staging"} PROVE IP(d, p) \in OldIPs \union NewIPs
  BY ManagementKeys
<1>4. RefId(Device(d)) = DeviceId[d]
  BY DEF RefId, Device
<1> QED
  BY <1>1, <1>2, <1>3, <1>4 DEF KeysOf

LEMMA CablesInOrder ==
  ASSUME NEW done, NEW o, NEW N, Canonical(done, o, N), "inventory" \in done, NEW d, NEW e
  PROVE  CablesAt(o, Port(d, e)) = {c \in CableKeys : c = Cable(d, e) \/ c = Cable(e, d)}
<1>1. \A c \in DOMAIN o : c[1] = "cable" => c \in CableKeys
  BY ThereInOrder
<1>2. \A c \in CableKeys : c \in DOMAIN o /\ c[1] = "cable" /\ o[c].link = LinkOf(c)
  BY ThereInOrder, KeyTables DEF KeysOf
<1>3. ASSUME NEW c \in CableKeys
      PROVE  Port(d, e) \in LinkOf(c) <=> c = Cable(d, e) \/ c = Cable(e, d)
  <2>1. \E f, g : c = Cable(f, g)
    BY DEF CableKeys
  <2>2. PICK f, g : c = Cable(f, g)
    BY <2>1
  <2>3. LinkOf(c) = {Port(f, g), Port(g, f)}
    BY <2>2, Links
  <2> QED
    BY <2>2, <2>3, NamesApart
<1> QED
  BY <1>1, <1>2, <1>3 DEF CablesAt, In

\* Each migration may start when its turn has come.
LEMMA ManagementCompleteInOrder ==
  ASSUME NEW done, NEW o, NEW N, Canonical(done, o, N), "inventory" \in done
  PROVE  ManagementComplete(o) /\ \A d \in Devices : DeviceKnown(o, d)
<1>1. ASSUME NEW d \in Devices
      PROVE  /\ Device(d) \in In(o, "device") /\ o[Device(d)].id = DeviceId[d]
             /\ \A p \in {"live", "staging"} : IP(d, p) \in DOMAIN o
  <2>1. Device(d)[1] = "device"
    BY DEF Device
  <2> QED
    BY <1>1, <2>1, ManagementThere, ThereInOrder DEF In
<1>2. \A d \in Devices : DeviceId[d] \in Ids(o, In(o, "device"))
  BY <1>1 DEF Ids
<1>3. \A d \in Devices, p \in {"live", "staging"} : IP(d, p) \in DOMAIN o
  BY <1>1
<1>4. \A d \in Devices : DeviceKnown(o, d)
  BY <1>1 DEF DeviceKnown, Is, In
<1> QED
  BY <1>2, <1>3, <1>4 DEF ManagementComplete

LEMMA ActivableInOrder ==
  ASSUME NEW done, NEW o, NEW N, Canonical(done, o, N), "inventory" \in done
  PROVE  Activable(o)
<1> SUFFICES ASSUME NEW d \in Devices \ Existing
             PROVE  /\ DeviceKnown(o, d)
                    /\ {"role", "profiled"} \subseteq o[Device(d)].marks /\ "managed" \notin o[Device(d)].marks
                    /\ {"attachment", "protected"} \subseteq o[Port(d, "management")].marks
                    /\ ManagementIP(o, d, "live") /\ ManagementIP(o, d, "staging")
                    /\ o[Device(d)].link = {IP(d, "live")}
  BY DEF Activable
<1>1. done \subseteq ToSet(Migrations)
  BY DEF Canonical, Ordered
<1>2. /\ Device(d) \in KeysOf("inventory") /\ Port(d, "management") \in KeysOf("inventory")
      /\ \A p \in {"live", "staging"} : IP(d, p) \in KeysOf("inventory")
  BY ManagementThere
<1>3. /\ Device(d) \in DOMAIN o /\ Port(d, "management") \in DOMAIN o
      /\ o[Device(d)].marks = MarksOf(done, Device(d))
      /\ o[Port(d, "management")].marks = MarksOf(done, Port(d, "management"))
      /\ o[Device(d)].link = LinkOf(Device(d))
  BY <1>2, ThereInOrder
<1>4. Device(d)[1] = "device" /\ Device(d) \notin Named(Existing)
      /\ Port(d, "management")[1] = "interface" /\ Port(d, "management")[3] = "management"
  BY DEF Device, Named, Port
<1>5. {"role", "profiled"} \subseteq o[Device(d)].marks /\ "managed" \notin o[Device(d)].marks
  BY <1>1, <1>2, <1>3, <1>4, MarkOwner
<1>6. {"attachment", "protected"} \subseteq o[Port(d, "management")].marks
  BY <1>1, <1>2, <1>3, <1>4, MarkOwner
<1>7. ASSUME NEW p \in {"live", "staging"} PROVE ManagementIP(o, d, p)
  <2>1. IP(d, p)[1] = "ip" /\ IP(d, p)[3] = p
    BY DEF IP
  <2>2. /\ IP(d, p) \in DOMAIN o /\ o[IP(d, p)].value = "exact" /\ o[IP(d, p)].link = LinkOf(IP(d, p))
        /\ o[IP(d, p)].marks = MarksOf(done, IP(d, p))
    BY <1>2, <2>1, ThereInOrder
  <2>3. p \in MarksOf(done, IP(d, p))
    BY <1>1, <1>2, <2>1, MarkOwner
  <2> QED
    BY <2>2, <2>3, Links DEF ManagementIP
<1>8. DeviceKnown(o, d)
  BY ManagementCompleteInOrder
<1> QED
  BY <1>3, <1>5, <1>6, <1>7, <1>8, Links

LEMMA RoutedNumbers ==
  ASSUME NEW o, \A k \in RoutedAt : o[k].id = RefId(k)
  PROVE  Ids(o, RoutedAt) = 17..22
<1>1. Ids(o, RoutedAt) = {RefId(k) : k \in RoutedAt}
  BY DEF Ids
<1>2. {RefId(k) : k \in RoutedAt} = {17, 18, 19, 20, 21, 22}
  <2>1. {RefId(k) : k \in RoutedAt} =
        {RefId(IP("core", "edge")), RefId(IP("edge", "core")), RefId(IP("core", "transit")),
         RefId(IP("transit", "core")), RefId(IP("edge", "transit")), RefId(IP("transit", "edge"))}
    BY DEF RoutedAt
  <2> QED
    BY <2>1, AddressNumbers
<1> QED
  BY <1>1, <1>2

LEMMA RoutersReadyInOrder ==
  ASSUME NEW done, NEW o, NEW N, Canonical(done, o, N), "data-plane" \in done
  PROVE  RoutersReady(o) /\ DataPlaneKnown(o)
<1>1. "inventory" \in done
  BY DEF Canonical, Ordered
<1>2. ManagementComplete(o) /\ \A d \in Devices : DeviceKnown(o, d)
  BY <1>1, ManagementCompleteInOrder
<1>3. Slug("data-plane") \in KeysOf("data-plane") /\ Prefix("pool") \in KeysOf("data-plane")
      /\ RoutedAt \subseteq KeysOf("data-plane")
  BY DEF KeysOf, PrefixKeys
<1>4. /\ KeysOf("data-plane") \subseteq DOMAIN o
      /\ \A k \in KeysOf("data-plane") : o[k].id = RefId(k)
  BY ThereInOrder
<1>5. Is(o, Prefix("pool"), 8)
  BY <1>3, <1>4, OtherNumbers DEF Is
<1>6. Marked(o, "ip", "data-plane") = RoutedAt
  BY MarkedInOrder
<1>7. DataPlaneKnown(o)
  BY <1>3, <1>4, <1>6, RoutedNumbers DEF DataPlaneKnown
<1> QED
  BY <1>2, <1>3, <1>4, <1>5, <1>7 DEF RoutersReady

\* What the service resolver reads of the trunk, the host ports, the VLANs and their prefixes.
LEMMA ServiceThere ==
  ASSUME NEW done, NEW o, NEW N, Canonical(done, o, N), "data-plane" \in done
  PROVE  /\ \A k \in DOMAIN ServiceId : Is(o, k, ServiceId[k])
         /\ CablesAt(o, Port("core", "access")) = {Cable("core", "access")}
         /\ CablesAt(o, Port("access", "core")) = {Cable("core", "access")}
         /\ Is(o, Cable("core", "access"), 4)
         /\ o[Cable("core", "access")].link = TrunkEnds /\ o[Cable("core", "access")].value = "exact"
         /\ \A p \in HostPorts : CablesAt(o, p) = {}
         /\ \A v \in Vids : /\ o[Vlan(v)].value = "exact" /\ o[Prefix(v)].value = "exact"
                            /\ o[Prefix(v)].link = {Vlan(v)}
<1>1. "inventory" \in done
  BY DEF Canonical, Ordered
<1>2. /\ \A k \in KeysOf("inventory") \union KeysOf("data-plane") : k \in DOMAIN o
      /\ \A k \in DOMAIN o : o[k].id = RefId(k) /\ o[k].link = LinkOf(k) /\ (k[1] # "device" => o[k].value = "exact")
  BY <1>1, ThereInOrder
<1>3. /\ TrunkEnds \union HostPorts \union CableKeys \subseteq KeysOf("inventory")
      /\ \A v \in Vids : Vlan(v) \in KeysOf("data-plane") /\ Prefix(v) \in KeysOf("data-plane")
      /\ Cable("core", "access") \in CableKeys
  <2>1. TrunkEnds \union HostPorts \subseteq OldPorts \union NewPorts
    BY DEF TrunkEnds, HostPorts, OldPorts, NewPorts
  <2>2. \A v \in Vids : Vlan(v) \in VlanKeys /\ Prefix(v) \in PrefixKeys
    BY DEF VlanKeys, PrefixKeys, Vids
  <2> QED
    BY <2>1, <2>2 DEF KeysOf, CableKeys
<1>4. \A k \in DOMAIN ServiceId : k \in DOMAIN o /\ o[k].id = RefId(k) /\ RefId(k) = ServiceId[k]
  <2>1. \A k \in DOMAIN ServiceId : RefId(k) = ServiceId[k]
    BY ServiceNumbers, PortNumbers, OtherNumbers
  <2>2. \A k \in DOMAIN ServiceId : k \in TrunkEnds \union HostPorts \/ \E v \in Vids : k = Vlan(v) \/ k = Prefix(v)
    BY DEF ServiceId
  <2> QED
    BY <1>2, <1>3, <2>1, <2>2
<1>5. \A d, e : CablesAt(o, Port(d, e)) = {c \in CableKeys : c = Cable(d, e) \/ c = Cable(e, d)}
  BY <1>1, CablesInOrder
<1>6. CablesAt(o, Port("core", "access")) = {Cable("core", "access")}
      /\ CablesAt(o, Port("access", "core")) = {Cable("core", "access")}
  <2>1. Cable("access", "core") \notin CableKeys
    BY NamesApart DEF CableKeys
  <2> QED
    BY <1>3, <1>5, <2>1
<1>7. \A p \in HostPorts : CablesAt(o, p) = {}
  <2>1. /\ Cable("access", "users") \notin CableKeys /\ Cable("users", "access") \notin CableKeys
        /\ Cable("access", "servers") \notin CableKeys /\ Cable("servers", "access") \notin CableKeys
    BY NamesApart DEF CableKeys
  <2> QED
    BY <1>5, <2>1 DEF HostPorts
<1>8. Is(o, Cable("core", "access"), 4)
      /\ o[Cable("core", "access")].link = TrunkEnds /\ o[Cable("core", "access")].value = "exact"
  <2>1. Cable("core", "access")[1] = "cable"
    BY DEF Cable
  <2> QED
    BY <1>2, <1>3, <2>1, OtherNumbers, Links DEF Is, TrunkEnds
<1>9. \A v \in Vids : /\ o[Vlan(v)].value = "exact" /\ o[Prefix(v)].value = "exact"
                      /\ o[Prefix(v)].link = {Vlan(v)}
  <2>1. \A v : Vlan(v)[1] = "vlan" /\ Prefix(v)[1] = "prefix"
    BY DEF Vlan, Prefix
  <2>2. \A v \in Vids : LinkOf(Prefix(v)) = {Vlan(v)}
    BY Links DEF PrefixVlan
  <2> QED
    BY <1>2, <1>3, <2>1, <2>2
<1> QED
  BY <1>4, <1>6, <1>7, <1>8, <1>9 DEF Is

LEMMA LoopbackNumbers ==
  ASSUME NEW o, \A k \in LoopbackIds : o[k].id = RefId(k)
  PROVE  Ids(o, LoopbackIds) = 23..25
<1>1. Ids(o, LoopbackIds) = {RefId(k) : k \in LoopbackIds}
  BY DEF Ids
<1>2. {RefId(k) : k \in LoopbackIds} =
      {RefId(IP("core", "router-id")), RefId(IP("edge", "router-id")), RefId(IP("transit", "router-id"))}
  BY DEF LoopbackIds
<1> QED
  BY <1>1, <1>2, AddressNumbers

LEMMA ServiceReadyInOrder ==
  ASSUME NEW done, NEW o, NEW N, Canonical(done, o, N), "router-ids" \in done
  PROVE  ServiceReady(o)
<1>1. "data-plane" \in done /\ "inventory" \in done
  BY DEF Canonical, Ordered
<1>2. ManagementComplete(o) /\ \A d \in Devices : DeviceKnown(o, d)
  BY <1>1, ManagementCompleteInOrder
<1>3. DataPlaneKnown(o)
  BY <1>1, RoutersReadyInOrder
<1>4. Slug("data-plane") \in DOMAIN o /\ Slug("routing") \in DOMAIN o
      /\ LoopbackIds \subseteq DOMAIN o
  <2>1. KeysOf("data-plane") \subseteq DOMAIN o /\ KeysOf("router-ids") \subseteq DOMAIN o
    BY <1>1, ThereInOrder
  <2> QED
    BY <2>1 DEF KeysOf
<1>5. Ids(o, Marked(o, "ip", "routing")) = 23..25
  <2>1. Marked(o, "ip", "routing") = LoopbackIds
    BY MarkedInOrder
  <2>2. \A k \in LoopbackIds : o[k].id = RefId(k)
    BY <1>4, ThereInOrder
  <2> QED
    BY <2>1, <2>2, LoopbackNumbers
<1>6. "core" \in Devices /\ "access" \in Devices
  BY DEF Devices, Existing
<1> QED
  BY <1>1, <1>2, <1>3, <1>4, <1>5, <1>6, ServiceThere DEF ServiceReady

LEMMA BeforeInOrder ==
  ASSUME NEW done, NEW o, NEW N, Canonical(done, o, N), NEW m \in ToSet(Migrations), Ordered(done \union {m})
  PROVE  Before(m, o)
<1>1. CASE m = "inventory"
  BY <1>1 DEF Before
<1>2. CASE m = "activation"
  <2>1. "inventory" \in done
    BY <1>2 DEF Ordered
  <2> QED
    BY <1>2, <2>1, ActivableInOrder DEF Before
<1>3. CASE m = "data-plane"
  <2>1. "inventory" \in done
    BY <1>3 DEF Ordered
  <2>2. \A k \in In(o, "prefix") : k \in PrefixKeys
    BY ThereInOrder DEF In
  <2>3. \A k \in PrefixKeys : k[2] \in ToSet(PrefixOrder)
    BY PrefixNames DEF PrefixKeys, Prefix
  <2>4. PrefixSpaceFree(o)
    BY <2>2, <2>3 DEF PrefixSpaceFree
  <2> QED
    BY <1>3, <2>1, <2>4, ManagementCompleteInOrder DEF Before
<1>4. CASE m = "router-ids"
  <2>1. "data-plane" \in done
    BY <1>4 DEF Ordered
  <2> QED
    BY <1>4, <2>1, RoutersReadyInOrder DEF Before
<1>5. CASE m = "gateways"
  <2>1. "router-ids" \in done
    BY <1>5 DEF Ordered
  <2> QED
    BY <1>5, <2>1, ServiceReadyInOrder DEF Before
<1> QED
  BY <1>1, <1>2, <1>3, <1>4, <1>5, MigrationNames

\* A migration that starts in order comes to its end.
LEMMA CanonicalThen ==
  ASSUME NEW done, NEW p, Canonical(done, p.objects, p.next), NEW m \in ToSet(Migrations), Ordered(done \union {m}),
         m = "inventory" => "activation" \notin done, NEW t, t = Then(p, m)
  PROVE  Canonical(done \union {m}, t.objects, t.next)
<1>1. PICK o, N : o = p.objects /\ N = p.next
  OBVIOUS
<1>2. t = Transaction(m, o, N) /\ Canonical(done, o, N)
  BY <1>1 DEF Then
<1>3. Needs(m) \subseteq DOMAIN o
  BY <1>2, NeedsThere DEF Canonical
<1>4. t.ok
  BY <1>2, <1>3, BeforeInOrder, RunAgrees
<1> QED
  BY <1>2, <1>4, CanonicalStep

\* The five migrations one after another lead to the reference.
LEMMA ReferenceInOrder == \E N : Canonical(ToSet(Migrations), Reference, N)
<1>1. PICK p : p = [objects |-> Before32, next |-> FirstKeys]
  OBVIOUS
<1>2. PICK a : a = Then(p, "inventory")
  OBVIOUS
<1>3. PICK b : b = Then(a, "activation")
  OBVIOUS
<1>4. PICK c : c = Then(b, "data-plane")
  OBVIOUS
<1>5. PICK d : d = Then(c, "router-ids")
  OBVIOUS
<1>6. PICK e : e = Then(d, "gateways")
  OBVIOUS
<1>7. Reference = e.objects
  BY <1>1, <1>2, <1>3, <1>4, <1>5, <1>6 DEF Reference
<1>8. /\ Ordered({"inventory"}) /\ Ordered({"inventory", "activation"})
      /\ Ordered({"inventory", "activation", "data-plane"})
      /\ Ordered({"inventory", "activation", "data-plane", "router-ids"})
      /\ Ordered({"inventory", "activation", "data-plane", "router-ids", "gateways"})
  BY MigrationNames DEF Ordered
<1>9. Canonical({}, p.objects, p.next)
  BY <1>1, FirstCanonical
<1>10. Canonical({"inventory"}, a.objects, a.next)
  <2>1. {} \union {"inventory"} = {"inventory"}
    OBVIOUS
  <2>2. Canonical({} \union {"inventory"}, a.objects, a.next)
    BY <1>2, <1>8, <1>9, <2>1, CanonicalThen, MigrationNames
  <2> QED
    BY <2>1, <2>2
<1>11. Canonical({"inventory", "activation"}, b.objects, b.next)
  <2>1. {"inventory"} \union {"activation"} = {"inventory", "activation"}
    OBVIOUS
  <2>2. Canonical({"inventory"} \union {"activation"}, b.objects, b.next)
    BY <1>3, <1>8, <1>10, <2>1, CanonicalThen, MigrationNames
  <2> QED
    BY <2>1, <2>2
<1>12. Canonical({"inventory", "activation", "data-plane"}, c.objects, c.next)
  <2>1. {"inventory", "activation"} \union {"data-plane"} = {"inventory", "activation", "data-plane"}
    OBVIOUS
  <2>2. Canonical({"inventory", "activation"} \union {"data-plane"}, c.objects, c.next)
    BY <1>4, <1>8, <1>11, <2>1, CanonicalThen, MigrationNames
  <2> QED
    BY <2>1, <2>2
<1>13. Canonical({"inventory", "activation", "data-plane", "router-ids"}, d.objects, d.next)
  <2>1. {"inventory", "activation", "data-plane"} \union {"router-ids"} =
        {"inventory", "activation", "data-plane", "router-ids"}
    OBVIOUS
  <2>2. Canonical({"inventory", "activation", "data-plane"} \union {"router-ids"}, d.objects, d.next)
    BY <1>5, <1>8, <1>12, <2>1, CanonicalThen, MigrationNames
  <2> QED
    BY <2>1, <2>2
<1>14. Canonical({"inventory", "activation", "data-plane", "router-ids", "gateways"}, e.objects, e.next)
  <2>1. {"inventory", "activation", "data-plane", "router-ids"} \union {"gateways"} =
        {"inventory", "activation", "data-plane", "router-ids", "gateways"}
    OBVIOUS
  <2>2. Canonical({"inventory", "activation", "data-plane", "router-ids"} \union {"gateways"}, e.objects, e.next)
    BY <1>6, <1>8, <1>13, <2>1, CanonicalThen, MigrationNames
  <2> QED
    BY <2>1, <2>2
<1> QED
  BY <1>7, <1>14, MigrationNames

\* The reference as a reader finds it.
LEMMA ReferenceKnown ==
  /\ DOMAIN Reference = AllKeys
  /\ \A k \in AllKeys : Reference[k].id = RefId(k) /\ Reference[k].link = LinkOf(k)
<1>1. PICK N : Canonical(ToSet(Migrations), Reference, N)
  BY ReferenceInOrder
<1>2. DOMAIN Reference = KeysDone(ToSet(Migrations))
  BY <1>1 DEF Canonical
<1>3. KeysDone(ToSet(Migrations)) = AllKeys
  BY DEF KeysDone, AllKeys
<1> QED
  BY <1>1, <1>2, <1>3, ThereInOrder

\* The numbers of the sets that the resolvers count.
LEMMA OneMore ==
  ASSUME NEW S, IsFiniteSet(S), NEW x, x \notin S, NEW n \in Nat, Cardinality(S) = n
  PROVE  IsFiniteSet(S \union {x}) /\ Cardinality(S \union {x}) = n + 1
  BY FS_AddElement

LEMMA Counted ==
  /\ \A x : IsFiniteSet({x}) /\ Cardinality({x}) = 1
  /\ \A x, y : x # y => IsFiniteSet({x, y}) /\ Cardinality({x, y}) = 2
  /\ IsFiniteSet(LoopbackIds) /\ Cardinality(LoopbackIds) = 3
  /\ IsFiniteSet(Named(Devices)) /\ Cardinality(Named(Devices)) = 4
  /\ IsFiniteSet(VlanKeys) /\ Cardinality(VlanKeys) = 2
  /\ IsFiniteSet(PrefixKeys) /\ Cardinality(PrefixKeys) = 7
<1>1. \A x : IsFiniteSet({x}) /\ Cardinality({x}) = 1
  BY FS_Singleton
<1>2. ASSUME NEW x, NEW y, x # y PROVE IsFiniteSet({x, y}) /\ Cardinality({x, y}) = 2
  <2>1. PICK S : S = {x}
    OBVIOUS
  <2>2. {x, y} = S \union {y} /\ y \notin S
    BY <1>2, <2>1
  <2>3. IsFiniteSet(S) /\ Cardinality(S) = 1
    BY <1>1, <2>1
  <2>4. IsFiniteSet(S \union {y}) /\ Cardinality(S \union {y}) = 1 + 1
    BY ONLY <2>2, <2>3, OneMore
  <2> QED
    BY <2>2, <2>4
<1>3. ASSUME NEW x, NEW y, NEW z, x # y, z \notin {x, y}
      PROVE  IsFiniteSet({x, y, z}) /\ Cardinality({x, y, z}) = 3
  <2>1. PICK S : S = {x, y}
    OBVIOUS
  <2>2. {x, y, z} = S \union {z} /\ z \notin S
    BY <1>3, <2>1
  <2>3. IsFiniteSet(S) /\ Cardinality(S) = 2
    BY <1>2, <1>3, <2>1
  <2>4. IsFiniteSet(S \union {z}) /\ Cardinality(S \union {z}) = 2 + 1
    BY ONLY <2>2, <2>3, OneMore
  <2> QED
    BY <2>2, <2>4
<1>4. IsFiniteSet(LoopbackIds) /\ Cardinality(LoopbackIds) = 3
  <2>1. IP("core", "router-id") # IP("edge", "router-id")
        /\ IP("transit", "router-id") \notin {IP("core", "router-id"), IP("edge", "router-id")}
    BY NamesApart
  <2> QED
    BY <1>3, <2>1 DEF LoopbackIds
<1>5. IsFiniteSet(Named(Devices)) /\ Cardinality(Named(Devices)) = 4
  <2> DEFINE S == {Device("core"), Device("edge"), Device("transit")}
  <2>1. IsFiniteSet(S) /\ Cardinality(S) = 3 /\ Device("access") \notin S
    <3>1. /\ Device("core") # Device("edge") /\ Device("transit") \notin {Device("core"), Device("edge")}
          /\ Device("access") \notin S
      BY NamesApart
    <3> QED
      BY <1>3, <3>1
  <2>2. Named(Devices) = S \union {Device("access")}
    BY DeviceNumbers
  <2> HIDE DEF S
  <2> QED
    BY <2>1, <2>2, OneMore
<1>6. IsFiniteSet(VlanKeys) /\ Cardinality(VlanKeys) = 2
  <2>1. VlanKeys = {Vlan("10"), Vlan("20")} /\ Vlan("10") # Vlan("20")
    BY NamesApart DEF VlanKeys, Vids
  <2> QED
    BY <1>2, <2>1
<1>7. IsFiniteSet(PrefixKeys) /\ Cardinality(PrefixKeys) = 7
  <2>1. PICK A, B, C, D, E :
           /\ A = {Prefix("parent"), Prefix("core-edge"), Prefix("core-transit")}
           /\ B = A \union {Prefix("edge-transit")} /\ C = B \union {Prefix("10")}
           /\ D = C \union {Prefix("20")} /\ E = D \union {Prefix("pool")}
    OBVIOUS
  <2>2. PrefixKeys = E
    BY <2>1 DEF PrefixKeys
  <2>3. /\ Prefix("edge-transit") \notin A /\ Prefix("10") \notin B /\ Prefix("20") \notin C
        /\ Prefix("pool") \notin D
    BY <2>1, NamesApart
  <2>4. IsFiniteSet(A) /\ Cardinality(A) = 3
    <3>1. /\ Prefix("parent") # Prefix("core-edge")
          /\ Prefix("core-transit") \notin {Prefix("parent"), Prefix("core-edge")}
      BY NamesApart
    <3> QED
      BY <1>3, <2>1, <3>1
  <2>5. IsFiniteSet(B) /\ Cardinality(B) = 3 + 1
    BY ONLY <2>1, <2>3, <2>4, OneMore
  <2>6. IsFiniteSet(C) /\ Cardinality(C) = 4 + 1
    BY ONLY <2>1, <2>3, <2>5, OneMore
  <2>7. IsFiniteSet(D) /\ Cardinality(D) = 5 + 1
    BY ONLY <2>1, <2>3, <2>6, OneMore
  <2>8. IsFiniteSet(E) /\ Cardinality(E) = 6 + 1
    BY ONLY <2>1, <2>3, <2>7, OneMore
  <2> QED
    BY <2>2, <2>8
<1> QED
  BY <1>1, <1>2, <1>4, <1>5, <1>6, <1>7

\* The resolvers of an inventory in order: those of the legacy workflow.
LEMMA LegacyResolves ==
  ASSUME NEW done, NEW N, Canonical(done, objects, N)
  PROVE  ResolveManaged = Named(Existing) /\ ResolveFleet = Named({"core"})
<1>1. /\ Marked(objects, "device", "managed") = Named(Existing)
      /\ Marked(objects, "device", "fleet") = {Device("core")}
      /\ Marked(objects, "interface", "fleet") = {Port("core", "access")}
  BY MarkedInOrder
<1>2. ASSUME NEW d \in Existing
      PROVE  /\ objects[Device(d)].value = "active" /\ "managed" \in objects[Device(d)].marks
             /\ objects[Device(d)].link # {}
  <2>1. Device(d) \in Named(Existing) /\ Device(d)[1] = "device"
    BY DEF Named, Device
  <2>2. Device(d) \in DOMAIN objects
    BY <2>1 DEF Canonical, KeysDone, Known
  <2>3. objects[Device(d)].value = "active"
    BY <2>1, <2>2 DEF Canonical, AsReference, ValueIn
  <2>4. "managed" \in objects[Device(d)].marks
    BY <1>1, <2>1 DEF Marked
  <2>5. objects[Device(d)].link = LinkOf(Device(d))
    BY <2>2 DEF Canonical, AsReference
  <2> QED
    BY <2>3, <2>4, <2>5, Links
<1>3. \A k \in Named(Existing) : LegacyTarget(k)
  <2>1. \A d \in Existing : Device(d)[2] = d
    BY DEF Device
  <2> QED
    BY <1>2, <2>1 DEF LegacyTarget, Named
<1>4. ActiveOnes(objects, "managed") = Named(Existing)
  BY <1>1, <1>2 DEF ActiveOnes, Named
<1>5. ActiveOnes(objects, "fleet") = {Device("core")}
  BY <1>1, <1>2 DEF ActiveOnes, Existing
<1>6. Device("core") \in Named(Existing) /\ Named({"core"}) = {Device("core")} /\ Device("core")[2] = "core"
  BY DEF Named, Existing, Device
<1>7. PortsMarked("core", "fleet") = {Port("core", "access")}
  <2>1. Port("core", "access")[2] = "core"
    BY DEF Port
  <2> QED
    BY <1>1, <2>1 DEF PortsMarked
<1>8. ~Protected(Port("core", "access"))
  <2>1. Port("core", "access") \in DOMAIN objects
    BY KnownListed DEF Canonical, KeysDone
  <2>2. objects[Port("core", "access")].marks = MarksOf(done, Port("core", "access"))
    BY <2>1 DEF Canonical, AsReference
  <2>3. Port("core", "access")[3] = "access" /\ Port("core", "access") # Port("core", "management")
        /\ Port("core", "access") # Port("edge", "management")
    BY DEF Port
  <2>4. "protected" \notin MarksOf(done, Port("core", "access"))
    BY <2>3, MarkOwner DEF Canonical, Ordered
  <2> QED
    BY <2>2, <2>4 DEF Protected
<1>9. ResolveManaged = Named(Existing)
  BY <1>3, <1>4 DEF ResolveManaged
<1>10. ResolveFleet = {Device("core")}
  <2>1. \A k \in {Device("core")} :
           /\ LegacyTarget(k) /\ Cardinality(PortsMarked(k[2], "fleet")) = 1
           /\ \A p \in PortsMarked(k[2], "fleet") : ~Protected(p)
    <3>1. Cardinality(PortsMarked("core", "fleet")) = 1
      BY <1>7, Counted
    <3>2. \A p \in PortsMarked("core", "fleet") : ~Protected(p)
      BY <1>7, <1>8
    <3> QED
      BY <1>3, <1>6, <3>1, <3>2
  <2> QED
    BY <1>5, <2>1 DEF ResolveFleet
<1> QED
  BY <1>6, <1>9, <1>10

\* The devices, profiled and active.
LEMMA ProfileResolves ==
  ASSUME NEW done, NEW N, Canonical(done, objects, N), "activation" \in done
  PROVE  ResolveProfile
<1>1. "inventory" \in done /\ done \subseteq ToSet(Migrations)
  BY DEF Canonical, Ordered
<1>2. /\ Marked(objects, "device", "profiled") = Named(Devices)
      /\ Marked(objects, "interface", "attachment") = ManagementPorts
      /\ Marked(objects, "interface", "protected") = ManagementPorts
      /\ \A p \in {"live", "staging"} : Marked(objects, "ip", p) = {IP(d, p) : d \in Devices}
  BY <1>1, MarkedInOrder
<1>3. ASSUME NEW d \in Devices PROVE ProfileOf(d)
  <2> DEFINE live == IP(d, "live")
             staging == IP(d, "staging")
             port == Port(d, "management")
  <2>1. \A k \in {Device(d), port, live, staging} : k \in DOMAIN objects
    BY <1>1, ManagementThere, ThereInOrder
  <2>2. /\ objects[Device(d)].link = {live}
        /\ objects[live].link = {port} /\ objects[staging].link = {port}
    BY <2>1, ThereInOrder, Links
  <2>3. objects[live].value = "exact" /\ objects[staging].value = "exact"
    <3>1. live[1] = "ip" /\ staging[1] = "ip"
      BY DEF IP
    <3> QED
      BY <2>1, <3>1, ThereInOrder
  <2>4. Device(d) \in Named(Devices) /\ Device(d)[1] = "device"
    BY DEF Named, Device
  <2>5. objects[Device(d)].value = "active"
    BY <2>1, <2>4 DEF Canonical, AsReference, ValueIn
  <2>6. Admitted(d)
    <3>1. DeviceKnown(objects, d)
      BY <1>1, ManagementCompleteInOrder
    <3>2. "role" \in MarksOf(done, Device(d))
      BY <1>1, <2>4, ManagementThere, MarkOwner
    <3>3. objects[Device(d)].marks = MarksOf(done, Device(d))
      BY <2>1, ThereInOrder
    <3> QED
      BY <3>1, <3>2, <3>3 DEF Admitted
  <2>7. Protected(port) /\ port[2] = d
    <3>1. port \in ManagementPorts
      BY DEF ManagementPorts
    <3>2. port[2] = d
      BY DEF Port
    <3> HIDE DEF port
    <3> QED
      BY <1>2, <3>1, <3>2 DEF Protected, Marked
  <2>8. PortsMarked(d, "attachment") = {port}
    <3>1. \A e : Port(e, "management")[2] = e
      BY DEF Port
    <3>2. \A k \in ManagementPorts : k[2] = d <=> k = port
      BY <3>1 DEF ManagementPorts
    <3>3. port \in ManagementPorts
      BY DEF ManagementPorts
    <3> HIDE DEF port
    <3> QED
      BY <1>2, <3>2, <3>3 DEF PortsMarked
  <2>9. ASSUME NEW p \in {"live", "staging"}
        PROVE  IP(d, p) \in OnDevice(d) /\ Purpose(d, p) = {IP(d, p)}
    <3>1. ASSUME NEW e \in Devices
          PROVE  IP(e, p) \in In(objects, "ip") /\ objects[IP(e, p)].link = {Port(e, "management")}
      <4>1. IP(e, p)[1] = "ip"
        BY DEF IP
      <4>2. IP(e, p) \in DOMAIN objects
        BY <1>1, ManagementThere, ThereInOrder
      <4> QED
        BY <4>1, <4>2, ThereInOrder, Links DEF In
    <3>2. \A e : Port(e, "management")[2] = e
      BY DEF Port
    <3>3. \A e \in Devices : IP(e, p) \in OnDevice(d) <=> e = d
      BY <3>1, <3>2 DEF OnDevice
    <3>4. Marked(objects, "ip", p) = {IP(e, p) : e \in Devices}
      BY <1>2
    <3>5. OnDevice(d) \intersect {IP(e, p) : e \in Devices} = {IP(d, p)}
      BY <3>3
    <3> QED
      BY <3>3, <3>4, <3>5 DEF Purpose
  <2>10. live # staging
    BY NamesApart
  <2>11. live \in OnDevice(d) /\ staging \in OnDevice(d) /\ Purpose(d, "live") = {live} /\ Purpose(d, "staging") = {staging}
    BY <2>9
  <2>12. Cardinality(PortsMarked(d, "attachment")) = 1
    BY <2>8, Counted
  <2> DEFINE Pair(first, second) ==
          /\ Purpose(d, "live") = {first} /\ Purpose(d, "staging") = {second}
          /\ objects[Device(d)].link = {first} /\ second # first
          /\ objects[first].link = objects[second].link
          /\ \A k \in {first, second} : /\ objects[k].value = "exact"
                                        /\ \A p \in objects[k].link : Protected(p)
  <2>13. Pair(live, staging)
    <3>1. objects[live].link = objects[staging].link
      BY <2>2
    <3>2. \A k \in {live, staging} : /\ objects[k].value = "exact"
                                     /\ \A p \in objects[k].link : Protected(p)
      BY <2>2, <2>3, <2>7
    <3> QED
      BY <2>2, <2>10, <2>11, <3>1, <3>2
  <2>14. \E first, second \in OnDevice(d) : Pair(first, second)
    <3> HIDE DEF Pair, live, staging
    <3> QED
      BY <2>11, <2>13
  <2> QED
    BY <2>5, <2>6, <2>7, <2>8, <2>12, <2>14 DEF ProfileOf
<1> QED
  BY <1>2, <1>3 DEF ResolveProfile

\* The six ends of the routed cables.
LEMMA Ends ==
  /\ RoutedEnds[1] = <<"core", "edge", 11>> /\ RoutedEnds[2] = <<"edge", "core", 12>>
  /\ RoutedEnds[3] = <<"core", "transit", 2>> /\ RoutedEnds[4] = <<"transit", "core", 14>>
  /\ RoutedEnds[5] = <<"edge", "transit", 4>> /\ RoutedEnds[6] = <<"transit", "edge", 15>>
  /\ ToSet(RoutedEnds) = {RoutedEnds[1], RoutedEnds[2], RoutedEnds[3], RoutedEnds[4], RoutedEnds[5], RoutedEnds[6]}
<1>1. DOMAIN RoutedEnds = 1..6
  BY DEF RoutedEnds
<1>2. /\ RoutedEnds[1] = <<"core", "edge", 11>> /\ RoutedEnds[2] = <<"edge", "core", 12>>
      /\ RoutedEnds[3] = <<"core", "transit", 2>> /\ RoutedEnds[4] = <<"transit", "core", 14>>
      /\ RoutedEnds[5] = <<"edge", "transit", 4>> /\ RoutedEnds[6] = <<"transit", "edge", 15>>
  BY DEF RoutedEnds
<1>3. ToSet(RoutedEnds) = {RoutedEnds[i] : i \in 1..6}
  BY <1>1 DEF ToSet
<1>4. 1..6 = {1, 2, 3, 4, 5, 6}
  OBVIOUS
<1>5. {RoutedEnds[i] : i \in {1, 2, 3, 4, 5, 6}} =
      {RoutedEnds[1], RoutedEnds[2], RoutedEnds[3], RoutedEnds[4], RoutedEnds[5], RoutedEnds[6]}
  OBVIOUS
<1> QED
  BY <1>2, <1>3, <1>4, <1>5

LEMMA RoutedSets == RoutedPorts = RoutedOn /\ RoutedIPs = RoutedAt
<1>1. PICK a, b, c, d, e, f : /\ a = RoutedEnds[1] /\ b = RoutedEnds[2] /\ c = RoutedEnds[3]
                             /\ d = RoutedEnds[4] /\ e = RoutedEnds[5] /\ f = RoutedEnds[6]
  OBVIOUS
<1>2. /\ a[1] = "core" /\ a[2] = "edge" /\ b[1] = "edge" /\ b[2] = "core" /\ c[1] = "core" /\ c[2] = "transit"
      /\ d[1] = "transit" /\ d[2] = "core" /\ e[1] = "edge" /\ e[2] = "transit" /\ f[1] = "transit" /\ f[2] = "edge"
  BY <1>1, Ends
<1>3. ToSet(RoutedEnds) = {a, b, c, d, e, f}
  BY <1>1, Ends
<1>4. RoutedPorts = {Port(a[1], a[2]), Port(b[1], b[2]), Port(c[1], c[2]), Port(d[1], d[2]), Port(e[1], e[2]), Port(f[1], f[2])}
  BY <1>3 DEF RoutedPorts
<1>5. RoutedIPs = {IP(a[1], a[2]), IP(b[1], b[2]), IP(c[1], c[2]), IP(d[1], d[2]), IP(e[1], e[2]), IP(f[1], f[2])}
  BY <1>3 DEF RoutedIPs
<1> QED
  BY <1>2, <1>4, <1>5 DEF RoutedOn, RoutedAt

\* An end in order.
LEMMA EndThere ==
  ASSUME NEW done, NEW N, Canonical(done, objects, N), "data-plane" \in done,
         NEW d \in {"core", "edge", "transit"}, NEW e \in {"core", "edge", "transit"}, d # e,
         NEW c \in CableKeys, c = Cable(d, e) \/ c = Cable(e, d)
  PROVE  /\ Is(objects, Port(d, e), RefId(Port(d, e))) /\ DeviceKnown(objects, d)
         /\ Ids(objects, CablesAt(objects, Port(d, e))) = {RefId(c)}
         /\ Is(objects, IP(d, e), RefId(IP(d, e)))
         /\ objects[IP(d, e)].value = "exact" /\ objects[IP(d, e)].link = {Port(d, e)}
<1>1. "inventory" \in done
  BY DEF Canonical, Ordered
<1>2. Port(d, e) \in RoutedOn /\ IP(d, e) \in RoutedAt
  BY DEF RoutedOn, RoutedAt
<1>3. Port(d, e) \in DOMAIN objects /\ IP(d, e) \in DOMAIN objects /\ c \in DOMAIN objects
  <2>1. Port(d, e) \in KeysOf("data-plane") /\ IP(d, e) \in KeysOf("data-plane") /\ c \in KeysOf("inventory")
    BY <1>2 DEF KeysOf
  <2> QED
    BY <1>1, <2>1, ThereInOrder
<1>4. DeviceKnown(objects, d)
  <2>1. d \in Devices
    BY DEF Devices, Existing
  <2> QED
    BY <1>1, <2>1, ManagementCompleteInOrder
<1>5. CablesAt(objects, Port(d, e)) = {c}
  <2>1. ~(Cable(d, e) \in CableKeys /\ Cable(e, d) \in CableKeys)
    BY NamesApart DEF CableKeys
  <2>2. CablesAt(objects, Port(d, e)) = {k \in CableKeys : k = Cable(d, e) \/ k = Cable(e, d)}
    BY <1>1, CablesInOrder
  <2> QED
    BY <2>1, <2>2
<1>6. Ids(objects, {c}) = {RefId(c)}
  BY <1>3, ThereInOrder DEF Ids
<1>7. e \notin {"live", "staging", "router-id"} /\ IP(d, e)[1] = "ip"
  BY DEF IP
<1>8. objects[IP(d, e)].value = "exact" /\ objects[IP(d, e)].link = {Port(d, e)}
  BY <1>3, <1>7, ThereInOrder, Links
<1>9. Is(objects, Port(d, e), RefId(Port(d, e))) /\ Is(objects, IP(d, e), RefId(IP(d, e)))
  BY <1>3, ThereInOrder DEF Is
<1>10. Ids(objects, CablesAt(objects, Port(d, e))) = {RefId(c)}
  BY <1>5, <1>6
<1> QED
  BY <1>4, <1>8, <1>9, <1>10

LEMMA EndsInOrder ==
  ASSUME NEW done, NEW N, Canonical(done, objects, N), "data-plane" \in done
  PROVE  \A n \in 1..6 : EndAsAllocated(n)
<1>1. ASSUME NEW n \in 1..6, NEW d \in {"core", "edge", "transit"}, NEW e \in {"core", "edge", "transit"}, d # e,
             NEW c \in CableKeys, c = Cable(d, e) \/ c = Cable(e, d),
             NEW x, RoutedEnds[n] = <<d, e, x>>, RefId(Port(d, e)) = x, RefId(IP(d, e)) = 16 + n,
             RefId(c) = (n + 1) \div 2
      PROVE  EndAsAllocated(n)
  <2>1. PICK r : r = RoutedEnds[n]
    OBVIOUS
  <2>2. r[1] = d /\ r[2] = e /\ r[3] = x
    BY <1>1, <2>1
  <2>3. /\ Is(objects, Port(d, e), x) /\ DeviceKnown(objects, d)
        /\ Ids(objects, CablesAt(objects, Port(d, e))) = {(n + 1) \div 2}
        /\ Is(objects, IP(d, e), 16 + n)
        /\ objects[IP(d, e)].value = "exact" /\ objects[IP(d, e)].link = {Port(d, e)}
    BY <1>1, EndThere
  <2> QED
    BY <2>1, <2>2, <2>3 DEF EndAsAllocated
<1>2. /\ Cable("core", "edge") \in CableKeys /\ Cable("core", "transit") \in CableKeys
      /\ Cable("edge", "transit") \in CableKeys
  BY DEF CableKeys
<1>3. (1 + 1) \div 2 = 1 /\ (2 + 1) \div 2 = 1 /\ (3 + 1) \div 2 = 2 /\ (4 + 1) \div 2 = 2
      /\ (5 + 1) \div 2 = 3 /\ (6 + 1) \div 2 = 3
  OBVIOUS
<1>4. EndAsAllocated(1)
  BY <1>1, <1>2, <1>3, Ends, PortNumbers, AddressNumbers, OtherNumbers
<1>5. EndAsAllocated(2)
  BY <1>1, <1>2, <1>3, Ends, PortNumbers, AddressNumbers, OtherNumbers
<1>6. EndAsAllocated(3)
  BY <1>1, <1>2, <1>3, Ends, PortNumbers, AddressNumbers, OtherNumbers
<1>7. EndAsAllocated(4)
  BY <1>1, <1>2, <1>3, Ends, PortNumbers, AddressNumbers, OtherNumbers
<1>8. EndAsAllocated(5)
  BY <1>1, <1>2, <1>3, Ends, PortNumbers, AddressNumbers, OtherNumbers
<1>9. EndAsAllocated(6)
  BY <1>1, <1>2, <1>3, Ends, PortNumbers, AddressNumbers, OtherNumbers
<1>10. \A n \in 1..6 : n = 1 \/ n = 2 \/ n = 3 \/ n = 4 \/ n = 5 \/ n = 6
  OBVIOUS
<1> QED
  BY <1>4, <1>5, <1>6, <1>7, <1>8, <1>9, <1>10

LEMMA DataPlaneResolves ==
  ASSUME NEW done, NEW N, Canonical(done, objects, N), "data-plane" \in done
  PROVE  ResolveDataPlane /\ Readable
<1>1. /\ Marked(objects, "prefix", "data-plane") = PrefixKeys /\ Marked(objects, "vlan", "data-plane") = VlanKeys
      /\ Marked(objects, "interface", "data-plane") = RoutedPorts /\ Marked(objects, "ip", "data-plane") = RoutedIPs
  BY MarkedInOrder, RoutedSets
<1>2. KeysOf("data-plane") \subseteq DOMAIN objects
  BY ThereInOrder
<1>3. Readable
  BY <1>2 DEF Readable, KeysOf
<1>4. ASSUME NEW k \in PrefixKeys PROVE PrefixAsAllocated(k)
  <2>1. PICK n \in ToSet(PrefixOrder) : k = Prefix(n)
    BY PrefixNames DEF PrefixKeys
  <2>2. k[1] = "prefix" /\ k[2] = n /\ k \in DOMAIN objects
    BY <1>2, <2>1 DEF Prefix, KeysOf
  <2>3. RefId(k) = PrefixId[n]
    BY <2>2 DEF RefId
  <2>4. DOMAIN PrefixId = ToSet(PrefixOrder)
    BY DEF PrefixId
  <2>5. objects[k].id = PrefixId[n] /\ objects[k].value = "exact" /\ objects[k].link = PrefixVlan(n)
    BY <2>1, <2>2, <2>3, ThereInOrder, Links
  <2> QED
    BY <2>2, <2>4, <2>5 DEF PrefixAsAllocated
<1>5. ASSUME NEW k \in VlanKeys PROVE VlanAsAllocated(k)
  <2>1. PICK v \in Vids : k = Vlan(v)
    BY DEF VlanKeys
  <2>2. k[1] = "vlan" /\ k[2] = v /\ k \in DOMAIN objects
    BY <1>2, <2>1 DEF Vlan, KeysOf
  <2>3. RefId(k) = VlanId(v)
    BY <2>2 DEF RefId
  <2> QED
    BY <2>2, <2>3, ThereInOrder DEF VlanAsAllocated
<1> QED
  BY <1>1, <1>3, <1>4, <1>5, Counted, EndsInOrder DEF ResolveDataPlane

LEMMA SpeakerNames == ToSet(Speakers) = {"core", "edge", "transit"}
  BY DEF ToSet, Speakers

LEMMA RoutingResolves ==
  ASSUME NEW done, NEW N, Canonical(done, objects, N), "router-ids" \in done
  PROVE  ResolveRoutingIdentities
<1>1. "inventory" \in done /\ "data-plane" \in done /\ done \subseteq ToSet(Migrations)
  BY DEF Canonical, Ordered
<1>2. KeysOf("inventory") \subseteq DOMAIN objects /\ KeysOf("data-plane") \subseteq DOMAIN objects
      /\ KeysOf("router-ids") \subseteq DOMAIN objects
  BY <1>1, ThereInOrder
<1>3. Marked(objects, "ip", "routing") = LoopbackIds
  BY MarkedInOrder
<1>4. Is(objects, Prefix("pool"), 8) /\ objects[Prefix("pool")].value = "exact"
  <2>1. Prefix("pool") \in KeysOf("data-plane") /\ Prefix("pool")[1] = "prefix"
    BY DEF KeysOf, PrefixKeys, Prefix
  <2> QED
    BY <1>2, <2>1, ThereInOrder, OtherNumbers DEF Is
<1>5. ASSUME NEW d \in ToSet(Speakers)
      PROVE  /\ DeviceKnown(objects, d) /\ "profiled" \in objects[Device(d)].marks
             /\ Ids(objects, objects[Device(d)].link) = {PrimaryId[d]}
             /\ Is(objects, IP(d, "router-id"), RouterId[d])
             /\ objects[IP(d, "router-id")].value = "exact" /\ objects[IP(d, "router-id")].link = {}
             /\ "routing" \in objects[IP(d, "router-id")].marks /\ "data-plane" \notin objects[IP(d, "router-id")].marks
  <2>1. d \in {"core", "edge", "transit"} /\ d \in Devices
    BY SpeakerNames DEF Devices, Existing
  <2>2. DeviceKnown(objects, d)
    BY <1>1, <2>1, ManagementCompleteInOrder
  <2>3. Device(d) \in Named(Devices)
    BY <2>1 DEF Named
  <2>4. Marked(objects, "device", "profiled") = Named(Devices)
    BY <1>1, MarkedInOrder
  <2>5. "profiled" \in objects[Device(d)].marks
    BY <2>3, <2>4 DEF Marked
  <2>6. Ids(objects, objects[Device(d)].link) = {PrimaryId[d]}
    <3>1. Device(d) \in DOMAIN objects /\ IP(d, "live") \in DOMAIN objects
      BY <1>2, <2>1, ManagementThere
    <3>2. objects[Device(d)].link = {IP(d, "live")} /\ objects[IP(d, "live")].id = RefId(IP(d, "live"))
      BY <3>1, ThereInOrder, Links
    <3>3. RefId(IP(d, "live")) = PrimaryId[d]
      BY <2>1, AddressNumbers DEF PrimaryId
    <3> QED
      BY <3>2, <3>3 DEF Ids
  <2>7. PICK k : k = IP(d, "router-id")
    OBVIOUS
  <2>8. k \in LoopbackIds /\ k[1] = "ip" /\ k \in DOMAIN objects
    <3>1. k \in LoopbackIds
      BY <2>1, <2>7 DEF LoopbackIds
    <3> QED
      BY <1>2, <2>7, <3>1 DEF KeysOf, IP
  <2>9. objects[k].id = RouterId[d]
    <3>1. RefId(k) = RouterId[d]
      BY <2>1, <2>7, AddressNumbers DEF RouterId
    <3> QED
      BY <2>8, <3>1, ThereInOrder
  <2>10. objects[k].value = "exact" /\ objects[k].link = {} /\ objects[k].marks = MarksOf(done, k)
    BY <2>7, <2>8, ThereInOrder, Links
  <2>11. "routing" \in objects[k].marks
    BY <1>3, <2>8 DEF Marked
  <2>12. "data-plane" \notin objects[k].marks
    <3>1. k \in MadeBy("router-ids")
      BY <2>8 DEF MadeBy, KeysOf
    <3> QED
      BY <1>1, <2>10, <3>1, BarredMarks
  <2> QED
    BY <2>2, <2>5, <2>6, <2>7, <2>8, <2>9, <2>10, <2>11, <2>12 DEF Is
<1>6. Readable
  BY <1>1, DataPlaneResolves
<1> QED
  BY <1>3, <1>4, <1>5, <1>6, Counted DEF ResolveRoutingIdentities

LEMMA VidNames == Vids = {"10", "20"}
  BY DEF Vids

\* What is marked as a gateway is neither in the data plane nor a primary address.
LEMMA GatewayThere ==
  ASSUME NEW done, NEW N, Canonical(done, objects, N), "gateways" \in done, NEW v \in Vids
  PROVE  /\ Is(objects, Port("core", v), RefId(Port("core", v))) /\ Is(objects, IP("core", v), RefId(IP("core", v)))
         /\ objects[Port("core", v)].link = {Port("core", "access")} /\ objects[IP("core", v)].link = {Port("core", v)}
         /\ objects[IP("core", v)].value = "exact" /\ IP("core", v) \notin Primaries(objects)
         /\ \A k \in {Port("core", v), IP("core", v)} : "data-plane" \notin objects[k].marks
<1>1. Port("core", v) \in Subinterfaces /\ IP("core", v) \in Gateways
  BY DEF Subinterfaces, Gateways
<1>2. \A k \in {Port("core", v), IP("core", v)} : k \in KeysOf("gateways") /\ k \in MadeBy("gateways")
  BY <1>1 DEF KeysOf, MadeBy
<1>3. \A k \in {Port("core", v), IP("core", v)} : k \in DOMAIN objects /\ objects[k].marks = MarksOf(done, k)
  BY <1>2, ThereInOrder
<1>4. v \notin {"live", "staging", "router-id"} /\ IP("core", v)[1] = "ip"
  BY VidNames DEF IP
<1>5. Is(objects, Port("core", v), RefId(Port("core", v))) /\ Is(objects, IP("core", v), RefId(IP("core", v)))
  BY <1>3, ThereInOrder DEF Is
<1>6. objects[Port("core", v)].link = {Port("core", "access")} /\ objects[IP("core", v)].link = {Port("core", v)}
      /\ objects[IP("core", v)].value = "exact"
  BY <1>3, <1>4, ThereInOrder, Links
<1>7. IP("core", v) \notin Primaries(objects)
  <2>1. \A k \in In(objects, "device") : \E d : k = Device(d) /\ objects[k].link = {IP(d, "live")}
    <3>1. ASSUME NEW k \in In(objects, "device") PROVE \E d : k = Device(d) /\ objects[k].link = {IP(d, "live")}
      <4>1. k \in DOMAIN objects /\ k \in Named(Devices)
        BY <3>1, ThereInOrder DEF In
      <4>2. PICK d \in Devices : k = Device(d)
        BY <4>1 DEF Named
      <4> QED
        BY <4>1, <4>2, ThereInOrder, Links
    <3> QED
      BY <3>1
  <2>2. \A d : IP("core", v) # IP(d, "live")
    BY <1>4, NamesApart
  <2> QED
    BY <2>1, <2>2 DEF Primaries
<1>8. \A k \in {Port("core", v), IP("core", v)} : "data-plane" \notin objects[k].marks
  <2>1. done \subseteq ToSet(Migrations)
    BY DEF Canonical, Ordered
  <2> QED
    BY <1>2, <1>3, <2>1, BarredMarks
<1> QED
  BY <1>5, <1>6, <1>7, <1>8

LEMMA ServiceResolves ==
  ASSUME NEW done, NEW N, Canonical(done, objects, N), "gateways" \in done
  PROVE  ResolveVlanService
<1>1. "inventory" \in done /\ "data-plane" \in done /\ done \subseteq ToSet(Migrations)
  BY DEF Canonical, Ordered
<1>2. Readable
  BY <1>1, DataPlaneResolves
<1>3. Cardinality(Marked(objects, "device", "profiled")) = 4
  BY <1>1, MarkedInOrder, Counted
<1>4. /\ \A k \in DOMAIN ServiceId : Is(objects, k, ServiceId[k])
      /\ CablesAt(objects, Port("core", "access")) = {Cable("core", "access")}
      /\ CablesAt(objects, Port("access", "core")) = {Cable("core", "access")}
      /\ Is(objects, Cable("core", "access"), 4)
      /\ \A p \in HostPorts : CablesAt(objects, p) = {}
      /\ \A v \in Vids : /\ objects[Vlan(v)].value = "exact" /\ objects[Prefix(v)].value = "exact"
                         /\ objects[Prefix(v)].link = {Vlan(v)}
  BY <1>1, ServiceThere
<1>5. \A p \in TrunkEnds : Ids(objects, CablesAt(objects, p)) = {4}
  <2>1. Ids(objects, {Cable("core", "access")}) = {4}
    BY <1>4 DEF Ids, Is
  <2> QED
    BY <1>4, <2>1 DEF TrunkEnds
<1>6. Marked(objects, "interface", "gateway") = Subinterfaces /\ Marked(objects, "ip", "gateway") = Gateways
  BY MarkedInOrder
<1>7. \A p \in TrunkEnds \union HostPorts : "gateway" \notin objects[p].marks
  <2>1. \A p \in TrunkEnds \union HostPorts : p \in DOMAIN objects /\ p[1] = "interface"
    <3>1. TrunkEnds \union HostPorts \subseteq DOMAIN ServiceId
      BY DEF ServiceId
    <3>2. \A p \in TrunkEnds \union HostPorts : p[1] = "interface"
      BY DEF TrunkEnds, HostPorts, Port
    <3> QED
      BY <1>4, <3>1, <3>2 DEF Is
  <2>2. \A p \in TrunkEnds \union HostPorts : p \notin Subinterfaces
    BY NamesApart, VidNames DEF TrunkEnds, HostPorts, Subinterfaces
  <2> QED
    BY <1>6, <2>1, <2>2 DEF Marked, In
<1>8. DeviceKnown(objects, "core") /\ DeviceKnown(objects, "access")
  <2>1. "core" \in Devices /\ "access" \in Devices
    BY DEF Devices, Existing
  <2> QED
    BY <1>1, <2>1, ManagementCompleteInOrder
<1>9. Ids(objects, Subinterfaces) = {21, 22}
  <2>1. Subinterfaces = {Port("core", "10"), Port("core", "20")}
    BY VidNames DEF Subinterfaces
  <2>2. objects[Port("core", "10")].id = 21 /\ objects[Port("core", "20")].id = 22
    BY GatewayThere, VidNames, PortNumbers DEF Is
  <2> QED
    BY <2>1, <2>2 DEF Ids
<1>10. ASSUME NEW i \in 1..2, NEW v \in Vids, <<"10", "20">>[i] = v, RefId(Port("core", v)) = 20 + i,
              RefId(IP("core", v)) = 25 + i
       PROVE  LET port == Port("core", <<"10", "20">>[i])
                  ip == IP("core", <<"10", "20">>[i])
              IN  /\ Is(objects, port, 20 + i) /\ Is(objects, ip, 25 + i)
                  /\ objects[port].link = {Port("core", "access")} /\ objects[ip].link = {port}
                  /\ objects[ip].value = "exact" /\ ip \notin Primaries(objects)
                  /\ \A k \in {port, ip} : "data-plane" \notin objects[k].marks
  BY <1>10, GatewayThere
<1>11. \A i \in 1..2 :
          LET port == Port("core", <<"10", "20">>[i])
              ip == IP("core", <<"10", "20">>[i])
          IN  /\ Is(objects, port, 20 + i) /\ Is(objects, ip, 25 + i)
              /\ objects[port].link = {Port("core", "access")} /\ objects[ip].link = {port}
              /\ objects[ip].value = "exact" /\ ip \notin Primaries(objects)
              /\ \A k \in {port, ip} : "data-plane" \notin objects[k].marks
  <2> TAKE i \in 1..2
  <2>1. i = 1 \/ i = 2
    OBVIOUS
  <2>2. i = 1 => <<"10", "20">>[i] = "10" /\ RefId(Port("core", "10")) = 20 + i /\ RefId(IP("core", "10")) = 25 + i
    BY PortNumbers, AddressNumbers
  <2>3. i = 2 => <<"10", "20">>[i] = "20" /\ RefId(Port("core", "20")) = 20 + i /\ RefId(IP("core", "20")) = 25 + i
    BY PortNumbers, AddressNumbers
  <2>4. PICK v \in Vids : <<"10", "20">>[i] = v /\ RefId(Port("core", v)) = 20 + i /\ RefId(IP("core", v)) = 25 + i
    BY <2>1, <2>2, <2>3, VidNames
  <2> QED
    BY <1>10, <2>4
<1> QED
  BY <1>2, <1>3, <1>4, <1>5, <1>6, <1>7, <1>8, <1>9, <1>11 DEF ResolveVlanService

\* An inventory that nothing but migrations changed: what was done resolves.
LEMMA ResolvesInOrder ==
  ASSUME NEW done, NEW N, Canonical(done, objects, N), NEW m \in done
  PROVE  Resolved(m)
<1>1. m \in {"inventory", "activation", "data-plane", "router-ids", "gateways"}
  BY MigrationNames DEF Canonical, Ordered
<1> QED
  BY <1>1, ProfileResolves, DataPlaneResolves, RoutingResolves, ServiceResolves DEF Resolved

-----------------------------------------------------------------------------
(***************************************************************************)
(* Any inventory, whatever operators did to it.                            *)
(***************************************************************************)

\* What operators cannot make otherwise: the names of prefixes and VLANs, an address that
\* refers to a management interface, the protected interfaces, the primary keys of cables.
Whole(o, N) ==
    /\ N \in Keys /\ \A k \in DOMAIN o : AnObject(o[k])
    /\ Port("core", "transit") \in DOMAIN o
    /\ \A k \in In(o, "prefix") : k = Prefix(k[2])
    /\ \A k \in In(o, "vlan") : k \in VlanKeys /\ o[k].link = {}
    /\ ReadPermission \in DOMAIN o => o[ReadPermission].id = 0 /\ o[ReadPermission].link = {}
    /\ \A k \in In(o, "interface") : "protected" \in o[k].marks => \E d : k = Port(d, "management")
    /\ \A k \in In(o, "ip") :
          /\ o[k].link \subseteq In(o, "interface")
          /\ \A d : Port(d, "management") \in o[k].link =>
                       k \in {IP(d, "live"), IP(d, "staging")} /\ o[k].link = {Port(d, "management")}
    /\ \A k \in In(o, "cable") :
          /\ \E d, p, e, q : o[k].link = {Port(d, p), Port(e, q)}
          /\ o[k].id \in Nat /\ o[k].id < N["cable"]
    /\ \A j, k \in In(o, "cable") : o[j].id = o[k].id => j = k

\* The links that a migration gives an address or a cable.
LEMMA AddressLinks ==
  ASSUME NEW m \in ToSet(Migrations), NEW k \in KeysOf(m), k[1] = "ip"
  PROVE  /\ \A p \in LinkOf(k) : p \in KeysOf(m) /\ p[1] = "interface"
         /\ \A d : Port(d, "management") \in LinkOf(k) =>
                      k \in {IP(d, "live"), IP(d, "staging")} /\ LinkOf(k) = {Port(d, "management")}
<1>1. m \in {"inventory", "activation", "data-plane", "router-ids", "gateways"}
  BY MigrationNames
<1>2. \A d, p : Port(d, p)[1] = "interface"
  BY DEF Port
<1>3. CASE m = "inventory"
  <2>1. k \in OldIPs \union NewIPs
    BY <1>3, TableKeys DEF TableOf
  <2>2. PICK d \in Devices, p \in {"live", "staging"} : k = IP(d, p)
    BY <2>1 DEF OldIPs, NewIPs, Devices, NewDevices
  <2>3. LinkOf(k) = {Port(d, "management")} /\ Port(d, "management") \in KeysOf(m)
    BY <1>3, <2>2, Links, ManagementThere
  <2> QED
    BY <1>2, <2>2, <2>3, NamesApart
<1>4. CASE m = "activation"
  BY <1>4, KeyTables, DevicesApart DEF KeysOf
<1>5. CASE m = "data-plane"
  <2>1. k \in RoutedAt
    BY <1>5, TableKeys DEF TableOf
  <2>2. PICK d \in {"core", "edge", "transit"}, e \in {"core", "edge", "transit"} : k = IP(d, e) /\ d # e
    BY <2>1 DEF RoutedAt
  <2>3. e \notin {"live", "staging", "router-id", "management"}
    BY <2>2
  <2>4. LinkOf(k) = {Port(d, e)}
    BY <2>2, <2>3, Links
  <2>5. Port(d, e) \in KeysOf(m)
    <3>1. Port(d, e) \in RoutedOn
      BY <2>2 DEF RoutedOn
    <3> QED
      BY <1>5, <3>1 DEF KeysOf
  <2> QED
    BY <1>2, <2>3, <2>4, <2>5, NamesApart
<1>6. CASE m = "router-ids"
  <2>1. k \in LoopbackIds
    BY <1>6, TableKeys DEF TableOf
  <2>2. LinkOf(k) = {}
    BY <2>1, Links DEF LoopbackIds
  <2> QED
    BY <2>2
<1>7. CASE m = "gateways"
  <2>1. k \in Gateways
    BY <1>7, TableKeys DEF TableOf
  <2>2. PICK v \in Vids : k = IP("core", v)
    BY <2>1 DEF Gateways
  <2>3. v \notin {"live", "staging", "router-id", "management"}
    BY VidNames
  <2>4. LinkOf(k) = {Port("core", v)}
    BY <2>2, <2>3, Links
  <2>5. Port("core", v) \in KeysOf(m)
    BY <1>7 DEF KeysOf, Subinterfaces
  <2> QED
    BY <1>2, <2>3, <2>4, <2>5, NamesApart
<1> QED
  BY <1>1, <1>3, <1>4, <1>5, <1>6, <1>7

LEMMA TableNames ==
  /\ \A k \in AllKeys : k[1] = "prefix" => k = Prefix(k[2])
  /\ \A k \in AllKeys : k[1] = "vlan" => k \in VlanKeys /\ LinkOf(k) = {}
  /\ \A k \in AllKeys : k[1] = "interface" => \E d, p : k = Port(d, p)
  /\ \A k \in AllKeys : k[1] = "cable" => \E d, e : k = Cable(d, e) /\ LinkOf(k) = {Port(d, e), Port(e, d)}
  /\ LinkOf(ReadPermission) = {}
<1>1. \A k \in AllKeys : /\ k[1] = "prefix" => k \in PrefixKeys
                         /\ k[1] = "vlan" => k \in VlanKeys
                         /\ k[1] = "interface" => k \in AllPorts
                         /\ k[1] = "cable" => k \in CableKeys
  BY KeysByTable, KeyTables
<1>2. \A k \in PrefixKeys : k = Prefix(k[2])
  BY DEF PrefixKeys, Prefix
<1>3. \A k \in VlanKeys : LinkOf(k) = {}
  BY Links DEF VlanKeys
<1>4. \A k \in AllPorts : \E d, p : k = Port(d, p)
  BY AllPortsListed
<1>5. \A k \in CableKeys : \E d, e : k = Cable(d, e) /\ LinkOf(k) = {Port(d, e), Port(e, d)}
  BY Links DEF CableKeys
<1> QED
  BY <1>1, <1>2, <1>3, <1>4, <1>5, Links

\* A migration leaves it so.
LEMMA WholeRun ==
  ASSUME NEW m \in ToSet(Migrations), NEW o, NEW N, Whole(o, N), NEW t, Drew(N, t),
         Grown(m, o, N, t, KeysOf(m), KeysOf(m))
  PROVE  Whole(t.objects, t.next)
<1>1. PICK T, M : T = t.objects /\ M = t.next
  OBVIOUS
<1>2. /\ M \in Keys /\ AtLeast(N, M) /\ N \in Keys
      /\ DOMAIN T = DOMAIN o \union KeysOf(m)
      /\ \A k \in DOMAIN T : AnObject(T[k])
  BY <1>1 DEF Drew, Grown, Whole
<1>3. /\ \A k \in DOMAIN o : T[k].id = o[k].id /\ (k \notin KeysOf(m) => T[k] = o[k])
      /\ \A k \in KeysOf(m) \ DOMAIN o : T[k].id \in Nat /\ NumberedFrom(N, M, k, T[k].id)
      /\ \A j, k \in KeysOf(m) \ DOMAIN o : j[1] = k[1] /\ k[1] \in Tables /\ T[j].id = T[k].id => j = k
      /\ \A k \in KeysOf(m) : Became(m, k, Was(m, o, k), T[k])
  BY <1>1 DEF Grown
<1>4. KeysOf(m) \subseteq AllKeys
  BY MigrationKeys
<1>5. \A k \in DOMAIN o : k \in KeysOf(m) => /\ o[k].marks \subseteq T[k].marks
                                             /\ T[k].marks \subseteq o[k].marks \union Adds(m, k)
                                             /\ T[k].link = o[k].link \/ (o[k].link = {} /\ T[k].link = LinkOf(k))
  BY <1>3 DEF Became, Was
<1>6. ASSUME NEW k \in KeysOf(m), k \notin DOMAIN o, k[1] # "device"
      PROVE  T[k].marks \subseteq Adds(m, k) /\ T[k].link = LinkOf(k)
  <2>1. Was(m, o, k).marks = {} /\ Was(m, o, k).link = LinkOf(k)
    BY <1>6, ObjectFields DEF Was
  <2> QED
    BY <1>3, <2>1 DEF Became
<1>7. ASSUME NEW k \in DOMAIN T
      PROVE  /\ k \in DOMAIN o => T[k].link = o[k].link \/ (k \in KeysOf(m) /\ o[k].link = {} /\ T[k].link = LinkOf(k))
             /\ k \notin DOMAIN o /\ k[1] # "device" => k \in KeysOf(m) /\ T[k].link = LinkOf(k)
             /\ k \in DOMAIN o => T[k].marks \subseteq o[k].marks \/ (k \in KeysOf(m) /\ T[k].marks \subseteq o[k].marks \union Adds(m, k))
             /\ k \notin DOMAIN o /\ k[1] # "device" => T[k].marks \subseteq Adds(m, k)
  BY <1>2, <1>3, <1>5, <1>6
<1>8. ASSUME NEW k \in In(T, "prefix") PROVE k = Prefix(k[2])
  BY <1>2, <1>4, TableNames DEF In, Whole
<1>9. ASSUME NEW k \in In(T, "vlan") PROVE k \in VlanKeys /\ T[k].link = {}
  <2>1. k \in DOMAIN T /\ k[1] = "vlan"
    BY DEF In
  <2>2. k \in DOMAIN o => k \in VlanKeys /\ o[k].link = {}
    BY <2>1 DEF In, Whole
  <2>3. k \in KeysOf(m) => k \in VlanKeys /\ LinkOf(k) = {}
    BY <1>4, <2>1, TableNames
  <2> QED
    BY <1>2, <1>7, <2>1, <2>2, <2>3
<1>10. ASSUME ReadPermission \in DOMAIN T PROVE T[ReadPermission].id = 0 /\ T[ReadPermission].link = {}
  <2>1. ReadPermission[1] = "permission" /\ LinkOf(ReadPermission) = {}
    BY TableNames DEF ReadPermission
  <2>2. CASE ReadPermission \in DOMAIN o
    BY <1>3, <1>7, <1>10, <2>1, <2>2 DEF Whole
  <2>3. CASE ReadPermission \notin DOMAIN o
    <3>1. T[ReadPermission].link = {}
      BY <1>7, <1>10, <2>1, <2>3
    <3>2. NumberedFrom(N, M, ReadPermission, T[ReadPermission].id)
      BY <1>2, <1>3, <1>10, <2>3
    <3>3. T[ReadPermission].id = 0
      BY <2>1, <3>2 DEF NumberedFrom, Tables
    <3> QED
      BY <3>1, <3>3
  <2> QED
    BY <2>2, <2>3
<1>11. ASSUME NEW k \in In(T, "interface"), "protected" \in T[k].marks PROVE \E d : k = Port(d, "management")
  <2>1. k \in DOMAIN T /\ k[1] = "interface"
    BY DEF In
  <2>2. CASE k \in DOMAIN o /\ "protected" \in o[k].marks
    BY <2>1, <2>2 DEF Whole, In
  <2>3. CASE k \in KeysOf(m) /\ "protected" \in Adds(m, k)
    <3>1. k[3] = "management"
      BY <2>1, <2>3 DEF Adds
    <3>2. PICK d, p : k = Port(d, p)
      BY <1>4, <2>1, <2>3, TableNames
    <3> QED
      BY <3>1, <3>2 DEF Port
  <2> QED
    BY <1>2, <1>7, <1>11, <2>1, <2>2, <2>3
<1>12. ASSUME NEW k \in In(T, "ip")
       PROVE  /\ T[k].link \subseteq In(T, "interface")
              /\ \A d : Port(d, "management") \in T[k].link =>
                           k \in {IP(d, "live"), IP(d, "staging")} /\ T[k].link = {Port(d, "management")}
  <2>1. k \in DOMAIN T /\ k[1] = "ip"
    BY DEF In
  <2>2. k \in DOMAIN o =>
          /\ o[k].link \subseteq In(o, "interface")
          /\ \A d : Port(d, "management") \in o[k].link =>
                       k \in {IP(d, "live"), IP(d, "staging")} /\ o[k].link = {Port(d, "management")}
    BY <2>1 DEF Whole, In
  <2>3. k \in KeysOf(m) =>
          /\ LinkOf(k) \subseteq In(T, "interface")
          /\ \A d : Port(d, "management") \in LinkOf(k) =>
                      k \in {IP(d, "live"), IP(d, "staging")} /\ LinkOf(k) = {Port(d, "management")}
    BY <1>2, <2>1, AddressLinks DEF In
  <2>4. In(o, "interface") \subseteq In(T, "interface")
    BY <1>2 DEF In
  <2>5. \/ k \in DOMAIN o /\ T[k].link = o[k].link
        \/ k \in KeysOf(m) /\ T[k].link = LinkOf(k)
    BY <1>7, <2>1
  <2> QED
    BY <2>2, <2>3, <2>4, <2>5
<1>13. ASSUME NEW k \in In(T, "cable")
       PROVE  /\ \E d, p, e, q : T[k].link = {Port(d, p), Port(e, q)}
              /\ T[k].id \in Nat /\ T[k].id < M["cable"]
              /\ k \in DOMAIN o => T[k].id < N["cable"]
              /\ k \notin DOMAIN o => k \in KeysOf(m) /\ N["cable"] <= T[k].id
  <2>1. k \in DOMAIN T /\ k[1] = "cable" /\ "cable" \in Tables
    BY DEF In, Tables
  <2>2. N["cable"] \in Nat /\ M["cable"] \in Nat /\ N["cable"] <= M["cable"]
    BY <1>2, <2>1 DEF Keys, AtLeast
  <2>3. CASE k \in DOMAIN o
    <3>1. /\ \E d, p, e, q : o[k].link = {Port(d, p), Port(e, q)}
          /\ o[k].id \in Nat /\ o[k].id < N["cable"]
      BY <2>1, <2>3 DEF Whole, In
    <3>2. T[k].link = o[k].link
      BY <1>7, <2>1, <2>3, <3>1
    <3> QED
      BY <1>3, <2>2, <2>3, <3>1, <3>2
  <2>4. CASE k \notin DOMAIN o
    <3>1. k \in KeysOf(m) /\ T[k].link = LinkOf(k)
      BY <1>7, <2>1, <2>4
    <3>2. \E d, e : LinkOf(k) = {Port(d, e), Port(e, d)}
      BY <1>4, <2>1, <3>1, TableNames
    <3>3. T[k].id \in Nat /\ NumberedFrom(N, M, k, T[k].id)
      BY <1>3, <2>4, <3>1
    <3>4. N["cable"] <= T[k].id /\ T[k].id < M["cable"]
      BY <2>1, <3>3 DEF NumberedFrom
    <3> QED
      BY <2>4, <3>1, <3>2, <3>3, <3>4
  <2> QED
    BY <2>3, <2>4
<1>14. ASSUME NEW j \in In(T, "cable"), NEW k \in In(T, "cable"), T[j].id = T[k].id PROVE j = k
  <2>1. j[1] = "cable" /\ k[1] = "cable" /\ "cable" \in Tables
    BY DEF In, Tables
  <2>2. N["cable"] \in Nat
    BY <1>2, <2>1 DEF Keys
  <2>3. j \in DOMAIN o /\ k \in DOMAIN o => j = k
    BY <1>3, <1>14, <2>1 DEF Whole, In
  <2>4. j \notin DOMAIN o /\ k \notin DOMAIN o => j = k
    BY <1>3, <1>13, <1>14, <2>1
  <2>5. ~(j \in DOMAIN o /\ k \notin DOMAIN o) /\ ~(j \notin DOMAIN o /\ k \in DOMAIN o)
    BY <1>13, <1>14, <2>2
  <2> QED
    BY <2>3, <2>4, <2>5
<1>15. Port("core", "transit") \in DOMAIN T
  BY <1>2 DEF Whole
<1>16. Whole(T, M)
  BY <1>2, <1>8, <1>9, <1>10, <1>11, <1>12, <1>13, <1>14, <1>15 DEF Whole
<1> QED
  BY <1>1, <1>16

\* Primary keys drawn in vain do not disturb it.
LEMMA WholeLater ==
  ASSUME NEW o, NEW N, Whole(o, N), NEW M \in Keys, AtLeast(N, M)
  PROVE  Whole(o, M)
<1>1. N["cable"] \in Nat /\ M["cable"] \in Nat /\ N["cable"] <= M["cable"]
  BY DEF Whole, Keys, AtLeast, Tables
<1>2. ASSUME NEW k \in In(o, "cable")
      PROVE  /\ \E d, p, e, q : o[k].link = {Port(d, p), Port(e, q)}
             /\ o[k].id \in Nat /\ o[k].id < M["cable"]
  BY <1>1 DEF Whole
<1> QED
  BY <1>2 DEF Whole

LEMMA FirstWhole == Whole(Before32, FirstKeys)
<1>1. Canonical({}, Before32, FirstKeys)
  BY FirstCanonical
<1>2. DOMAIN Before32 = Known /\ \A k \in Known : AnObject(Before32[k])
  BY <1>1, Before32Objects DEF Canonical, AsReference
<1>3. \A k \in Known : k[1] \in {"device", "interface", "ip", "slug"}
  BY KnownListed DEF Device, Port, IP, Slug
<1>4. ReadPermission \notin Known
  BY <1>3 DEF ReadPermission
<1>5. In(Before32, "prefix") = {} /\ In(Before32, "vlan") = {} /\ In(Before32, "cable") = {}
  BY <1>2, <1>3 DEF In
<1>6. ASSUME NEW k \in In(Before32, "interface"), "protected" \in Before32[k].marks
      PROVE  \E d : k = Port(d, "management")
  <2>1. Before32[k].marks = FirstMarks(k)
    <3>1. MarksOf({}, k) = FirstMarks(k)
      BY DEF MarksOf
    <3> QED
      BY <1>1, <3>1 DEF Canonical, AsReference, In
  <2> QED
    BY <1>6, <2>1, FirstMarked
<1>7. ASSUME NEW k \in In(Before32, "ip")
      PROVE  /\ Before32[k].link \subseteq In(Before32, "interface")
             /\ \A d : Port(d, "management") \in Before32[k].link =>
                          k \in {IP(d, "live"), IP(d, "staging")} /\ Before32[k].link = {Port(d, "management")}
  <2>1. k \in {IP("core", "live"), IP("edge", "live"), IP("core", "staging"), IP("edge", "staging")}
    BY <1>2, KnownListed DEF In, Device, Port, IP, Slug
  <2>2. PICK d \in {"core", "edge"}, p \in {"live", "staging"} : k = IP(d, p)
    BY <2>1
  <2>3. Before32[k].link = {Port(d, "management")}
    BY <1>1, <2>2, Links DEF Canonical, AsReference, In
  <2>4. Port(d, "management") \in In(Before32, "interface")
    BY <1>2, KnownListed DEF In, Port
  <2> QED
    BY <2>2, <2>3, <2>4, NamesApart
<1>8. Port("core", "transit") \in DOMAIN Before32
  BY <1>2, KnownListed
<1> QED
  BY <1>2, <1>4, <1>5, <1>6, <1>7, <1>8, FirstKeysTyped DEF Whole

\* Neither do operators: what they delete, change and add.
LEMMA LinkField ==
  ASSUME NEW x, AnObject(x), NEW l
  PROVE  /\ AnObject([x EXCEPT !.link = l]) /\ [x EXCEPT !.link = l].id = x.id
         /\ [x EXCEPT !.link = l].link = l /\ [x EXCEPT !.link = l].marks = x.marks
<1>1. PICK a, b, c, d : x = [id |-> a, value |-> b, link |-> c, marks |-> d]
  BY DEF AnObject, Object
<1>2. [x EXCEPT !.link = l] = [id |-> a, value |-> b, link |-> l, marks |-> d]
  BY <1>1
<1> QED
  BY <1>1, <1>2 DEF AnObject, Object

LEMMA ValueField ==
  ASSUME NEW x, AnObject(x), NEW v
  PROVE  /\ AnObject([x EXCEPT !.value = v]) /\ [x EXCEPT !.value = v].id = x.id
         /\ [x EXCEPT !.value = v].link = x.link /\ [x EXCEPT !.value = v].marks = x.marks
<1>1. PICK a, b, c, d : x = [id |-> a, value |-> b, link |-> c, marks |-> d]
  BY DEF AnObject, Object
<1>2. [x EXCEPT !.value = v] = [id |-> a, value |-> v, link |-> c, marks |-> d]
  BY <1>1
<1> QED
  BY <1>1, <1>2 DEF AnObject, Object

LEMMA MarksField ==
  ASSUME NEW x, AnObject(x), NEW l
  PROVE  /\ AnObject([x EXCEPT !.marks = l]) /\ [x EXCEPT !.marks = l].id = x.id
         /\ [x EXCEPT !.marks = l].link = x.link /\ [x EXCEPT !.marks = l].marks = l
<1>1. PICK a, b, c, d : x = [id |-> a, value |-> b, link |-> c, marks |-> d]
  BY DEF AnObject, Object
<1>2. [x EXCEPT !.marks = l] = [id |-> a, value |-> b, link |-> c, marks |-> l]
  BY <1>1
<1> QED
  BY <1>1, <1>2 DEF AnObject, Object

LEMMA WholeWithout ==
  ASSUME NEW N, Whole(objects, N), NEW k, k[1] \in {"ip", "prefix", "cable", "permission"}
  PROVE  Whole(Without(k), N)
<1> DEFINE U == Without(k)
           L(j) == IF k[1] = "ip" THEN objects[j].link \ {k} ELSE objects[j].link
<1>1. DOMAIN U = DOMAIN objects \ {k} /\ N \in Keys
  BY DEF Without, Whole
<1>2. ASSUME NEW j \in DOMAIN U
      PROVE  /\ AnObject(U[j]) /\ U[j].id = objects[j].id /\ U[j].marks = objects[j].marks /\ U[j].link = L(j)
  <2>1. PICK x : x = objects[j] /\ AnObject(x)
    BY <1>1 DEF Whole
  <2>2. U[j] = [x EXCEPT !.link = L(j)]
    BY <1>1, <2>1 DEF Without
  <2>3. AnObject([x EXCEPT !.link = L(j)]) /\ [x EXCEPT !.link = L(j)].id = x.id
        /\ [x EXCEPT !.link = L(j)].link = L(j) /\ [x EXCEPT !.link = L(j)].marks = x.marks
    <3> HIDE DEF L
    <3> QED
      BY <2>1, LinkField
  <2> QED
    BY <2>1, <2>2, <2>3
<1>3. \A table : In(U, table) = In(objects, table) \ {k}
  BY <1>1 DEF In
<1>4. \A d, p : Port(d, p)[1] = "interface" /\ Port(d, p) # k
  BY DEF Port
<1> HIDE DEF U
<1>5. ASSUME NEW j \in In(U, "ip")
      PROVE  /\ U[j].link \subseteq In(U, "interface")
             /\ \A d : Port(d, "management") \in U[j].link =>
                          j \in {IP(d, "live"), IP(d, "staging")} /\ U[j].link = {Port(d, "management")}
  <2>1. j \in In(objects, "ip") /\ U[j].link = L(j)
    BY <1>2, <1>3 DEF In
  <2>2. /\ objects[j].link \subseteq In(objects, "interface")
        /\ \A d : Port(d, "management") \in objects[j].link =>
                     j \in {IP(d, "live"), IP(d, "staging")} /\ objects[j].link = {Port(d, "management")}
    BY <2>1 DEF Whole
  <2>3. In(U, "interface") = In(objects, "interface") /\ (\A p \in In(objects, "interface") : p # k)
    BY <1>3 DEF In
  <2>4. L(j) = objects[j].link
    BY <2>2, <2>3
  <2> QED
    BY <2>1, <2>2, <2>3, <2>4
<1>6. ASSUME NEW j \in In(U, "cable")
      PROVE  /\ \E d, p, e, q : U[j].link = {Port(d, p), Port(e, q)}
             /\ U[j].id \in Nat /\ U[j].id < N["cable"]
  <2>1. j \in In(objects, "cable") /\ U[j].link = L(j) /\ U[j].id = objects[j].id
    BY <1>2, <1>3 DEF In
  <2>2. PICK d, p, e, q : objects[j].link = {Port(d, p), Port(e, q)}
    BY <2>1 DEF Whole
  <2>3. k \notin {Port(d, p), Port(e, q)}
    BY <1>4
  <2>4. L(j) = {Port(d, p), Port(e, q)}
    BY <2>2, <2>3
  <2> QED
    BY <2>1, <2>4 DEF Whole
<1>7. ASSUME NEW i \in In(U, "cable"), NEW j \in In(U, "cable"), U[i].id = U[j].id PROVE i = j
  <2>1. i \in In(objects, "cable") /\ j \in In(objects, "cable") /\ objects[i].id = objects[j].id
    BY <1>2, <1>3, <1>7 DEF In
  <2> QED
    BY <2>1 DEF Whole
<1>8. ASSUME NEW j \in In(U, "vlan") PROVE j \in VlanKeys /\ U[j].link = {}
  <2>1. j \in In(objects, "vlan") /\ U[j].link = L(j)
    BY <1>2, <1>3 DEF In
  <2> QED
    BY <2>1 DEF Whole
<1>9. ReadPermission \in DOMAIN U => U[ReadPermission].id = 0 /\ U[ReadPermission].link = {}
  BY <1>1, <1>2 DEF Whole
<1>10. ASSUME NEW j \in In(U, "interface"), "protected" \in U[j].marks PROVE \E d : j = Port(d, "management")
  <2>1. j \in In(objects, "interface") /\ "protected" \in objects[j].marks
    BY <1>2, <1>3, <1>10 DEF In
  <2> QED
    BY <2>1 DEF Whole
<1>11. \A j \in In(U, "prefix") : j = Prefix(j[2])
  BY <1>3 DEF Whole
<1>12. Port("core", "transit") \in DOMAIN U
  BY <1>1, <1>4 DEF Whole
<1>13. Whole(U, N)
  BY <1>1, <1>2, <1>5, <1>6, <1>7, <1>8, <1>9, <1>10, <1>11, <1>12 DEF Whole
<1> QED
  BY <1>13 DEF U

\* What an object is otherwise.
LEMMA OtherwiseFields ==
  ASSUME NEW N, Whole(objects, N), NEW k \in DOMAIN objects, NEW y \in Otherwise(k)
  PROVE  /\ AnObject(y) /\ y.id = objects[k].id
         /\ k[1] = "interface" => ("protected" \in y.marks <=> "protected" \in objects[k].marks)
         /\ \/ y.link = objects[k].link
            \/ k[1] = "ip" /\ y.link \in {{}, {Port("core", "transit")}}
            \/ k[1] = "cable" /\ y.link = {Port(k[2], k[3]), Port("access", "users")}
            \/ k[1] = "prefix" \/ k[1] = "device"
<1>1. PICK x : x = objects[k] /\ AnObject(x)
  BY DEF Whole
<1>2. CASE \E v : y = [objects[k] EXCEPT !.value = v]
  <2>1. PICK v : y = [x EXCEPT !.value = v]
    BY <1>1, <1>2
  <2> QED
    BY <1>1, <2>1, ValueField
<1>3. CASE \E l \in CASE k[1] = "ip" -> {{}, {Port("core", "transit")}}
                       [] k[1] = "cable" -> {{Port(k[2], k[3]), Port("access", "users")}}
                       [] k[1] = "prefix" -> {{}}
                       [] k[1] = "device" -> {{IP(k[2], "staging")} \intersect DOMAIN objects}
                       [] OTHER -> {objects[k].link} : y = [objects[k] EXCEPT !.link = l]
  <2>1. PICK l : /\ y = [x EXCEPT !.link = l]
                 /\ \/ l = objects[k].link
                    \/ k[1] = "ip" /\ l \in {{}, {Port("core", "transit")}}
                    \/ k[1] = "cable" /\ l = {Port(k[2], k[3]), Port("access", "users")}
                    \/ k[1] = "prefix" \/ k[1] = "device"
    BY <1>1, <1>3
  <2>2. AnObject(y) /\ y.id = x.id /\ y.link = l /\ y.marks = x.marks
    BY <1>1, <2>1, LinkField
  <2> QED
    BY <1>1, <2>1, <2>2
<1>4. CASE \E mark \in CASE k[1] = "ip" -> {"live", "data-plane", "routing"}
                          [] k[1] = "prefix" -> {"data-plane"}
                          [] k[1] = "interface" -> {"attachment", "data-plane"}
                          [] k[1] = "device" -> {"managed", "profiled"}
                          [] OTHER -> {} : y = [objects[k] EXCEPT !.marks = (@ \ {mark}) \union ({mark} \ @)]
  <2>1. PICK mark : /\ y = [objects[k] EXCEPT !.marks = (@ \ {mark}) \union ({mark} \ @)]
                    /\ k[1] = "interface" => mark \in {"attachment", "data-plane"}
    BY <1>4
  <2>2. y = [x EXCEPT !.marks = (x.marks \ {mark}) \union ({mark} \ x.marks)]
    BY <1>1, <2>1
  <2>3. PICK l : l = (x.marks \ {mark}) \union ({mark} \ x.marks)
    OBVIOUS
  <2>4. y = [x EXCEPT !.marks = l]
    BY <2>2, <2>3
  <2>5. AnObject(y) /\ y.id = x.id /\ y.link = x.link /\ y.marks = l
    BY <1>1, <2>4, MarksField
  <2>6. k[1] = "interface" => ("protected" \in l <=> "protected" \in x.marks)
    BY <2>1, <2>3
  <2> QED
    BY <1>1, <2>5, <2>6
<1> QED
  BY <1>2, <1>3, <1>4 DEF Otherwise

LEMMA WholeOtherwise ==
  ASSUME NEW N, Whole(objects, N), NEW k \in DOMAIN objects, NEW y \in Otherwise(k),
         NEW U, U = [objects EXCEPT ![k] = y]
  PROVE  Whole(U, N)
<1>1. /\ AnObject(y) /\ y.id = objects[k].id
      /\ k[1] = "interface" => ("protected" \in y.marks <=> "protected" \in objects[k].marks)
      /\ \/ y.link = objects[k].link
         \/ k[1] = "ip" /\ y.link \in {{}, {Port("core", "transit")}}
         \/ k[1] = "cable" /\ y.link = {Port(k[2], k[3]), Port("access", "users")}
         \/ k[1] = "prefix" \/ k[1] = "device"
  BY OtherwiseFields
<1>2. /\ DOMAIN U = DOMAIN objects /\ U[k] = y /\ \A j \in DOMAIN objects : j # k => U[j] = objects[j]
  OBVIOUS
<1>3. \A table : In(U, table) = In(objects, table)
  BY <1>2 DEF In
<1>4. /\ \A j \in DOMAIN U : AnObject(U[j]) /\ U[j].id = objects[j].id
      /\ N \in Keys
  BY <1>1, <1>2 DEF Whole
<1>5. ASSUME NEW j \in In(U, "ip")
      PROVE  /\ U[j].link \subseteq In(U, "interface")
             /\ \A d : Port(d, "management") \in U[j].link =>
                          j \in {IP(d, "live"), IP(d, "staging")} /\ U[j].link = {Port(d, "management")}
  <2>1. /\ objects[j].link \subseteq In(objects, "interface")
        /\ \A d : Port(d, "management") \in objects[j].link =>
                     j \in {IP(d, "live"), IP(d, "staging")} /\ objects[j].link = {Port(d, "management")}
    BY <1>3 DEF Whole
  <2>2. Port("core", "transit") \in In(objects, "interface") /\ \A d : Port(d, "management") # Port("core", "transit")
    BY NamesApart DEF Whole, In, Port
  <2>3. j \in DOMAIN objects /\ j[1] = "ip"
    BY <1>3 DEF In
  <2>4. U[j].link = objects[j].link \/ U[j].link \in {{}, {Port("core", "transit")}}
    BY <1>1, <1>2, <2>3
  <2> QED
    BY <1>3, <2>1, <2>2, <2>4
<1>6. ASSUME NEW j \in In(U, "cable")
      PROVE  /\ \E d, p, e, q : U[j].link = {Port(d, p), Port(e, q)}
             /\ U[j].id \in Nat /\ U[j].id < N["cable"]
  <2>1. /\ \E d, p, e, q : objects[j].link = {Port(d, p), Port(e, q)}
        /\ objects[j].id \in Nat /\ objects[j].id < N["cable"]
    BY <1>3 DEF Whole
  <2>2. j \in DOMAIN objects /\ j[1] = "cable"
    BY <1>3 DEF In
  <2>3. U[j].link = objects[j].link \/ U[j].link = {Port(k[2], k[3]), Port("access", "users")}
    BY <1>1, <1>2, <2>2
  <2>4. U[j].id = objects[j].id
    BY <1>2, <1>4, <2>2
  <2> QED
    BY <2>1, <2>3, <2>4
<1>7. ASSUME NEW i \in In(U, "cable"), NEW j \in In(U, "cable"), U[i].id = U[j].id PROVE i = j
  <2>1. i \in In(objects, "cable") /\ j \in In(objects, "cable") /\ objects[i].id = objects[j].id
    BY <1>2, <1>3, <1>4, <1>7 DEF In
  <2> QED
    BY <2>1 DEF Whole
<1>8. ASSUME NEW j \in In(U, "vlan") PROVE j \in VlanKeys /\ U[j].link = {}
  <2>1. j \in In(objects, "vlan") /\ j \in DOMAIN objects /\ j[1] = "vlan"
    BY <1>3 DEF In
  <2>2. U[j].link = objects[j].link
    BY <1>1, <1>2, <2>1
  <2> QED
    BY <2>1, <2>2 DEF Whole
<1>9. ASSUME ReadPermission \in DOMAIN U PROVE U[ReadPermission].id = 0 /\ U[ReadPermission].link = {}
  <2>1. ReadPermission[1] = "permission"
    BY DEF ReadPermission
  <2>2. U[ReadPermission].link = objects[ReadPermission].link /\ U[ReadPermission].id = objects[ReadPermission].id
    BY <1>1, <1>2, <1>4, <1>9, <2>1
  <2> QED
    BY <1>2, <1>9, <2>2 DEF Whole
<1>10. ASSUME NEW j \in In(U, "interface"), "protected" \in U[j].marks PROVE \E d : j = Port(d, "management")
  <2>1. j \in In(objects, "interface") /\ j \in DOMAIN objects /\ j[1] = "interface"
    BY <1>3 DEF In
  <2>2. "protected" \in objects[j].marks
    BY <1>1, <1>2, <1>10, <2>1
  <2> QED
    BY <2>1, <2>2 DEF Whole
<1>11. \A j \in In(U, "prefix") : j = Prefix(j[2])
  BY <1>3 DEF Whole
<1>12. Port("core", "transit") \in DOMAIN U
  BY <1>2 DEF Whole
<1> QED
  BY <1>4, <1>5, <1>6, <1>7, <1>8, <1>9, <1>10, <1>11, <1>12 DEF Whole

LEMMA WholeWith ==
  ASSUME NEW o, NEW N, Whole(o, N), NEW k, k \notin DOMAIN o, k[1] \in {"prefix", "interface"},
         k[1] = "prefix" => k = Prefix(k[2]), NEW id, NEW U, U = With(o, k, Object(id, "exact", {}, {}))
  PROVE  Whole(U, [N EXCEPT ![k[1]] = @ + 1])
<1>1. PICK y, M : y = Object(id, "exact", {}, {}) /\ M = [N EXCEPT ![k[1]] = @ + 1]
  OBVIOUS
<1>2. AnObject(y) /\ y.marks = {} /\ y.link = {}
  BY <1>1, ObjectFields
<1>3. M \in Keys /\ M["cable"] = N["cable"]
  BY <1>1 DEF Whole, Keys, Tables
<1>4. DOMAIN U = DOMAIN o \union {k} /\ U[k] = y /\ \A j \in DOMAIN o : U[j] = o[j]
  BY <1>1 DEF With
<1>5. \A table : table \notin {"prefix", "interface"} => In(U, table) = In(o, table)
  BY <1>4 DEF In
<1>6. In(o, "interface") \subseteq In(U, "interface")
  BY <1>4 DEF In
<1>7. \A j \in In(U, "prefix") : j = Prefix(j[2])
  <2>1. \A j \in In(U, "prefix") : j \in In(o, "prefix") \/ (j = k /\ k[1] = "prefix")
    BY <1>4 DEF In
  <2> QED
    BY <2>1 DEF Whole
<1>8. \A j \in In(U, "vlan") : j \in VlanKeys /\ U[j].link = {}
  <2>1. \A j \in In(U, "vlan") : j \in In(o, "vlan") /\ U[j] = o[j]
    BY <1>4, <1>5 DEF In
  <2> QED
    BY <2>1 DEF Whole
<1>9. ReadPermission \in DOMAIN U => U[ReadPermission].id = 0 /\ U[ReadPermission].link = {}
  <2>1. ReadPermission # k
    BY DEF ReadPermission
  <2> QED
    BY <1>4, <2>1 DEF Whole
<1>10. ASSUME NEW j \in In(U, "interface"), "protected" \in U[j].marks PROVE \E d : j = Port(d, "management")
  <2>1. j \in DOMAIN o /\ j[1] = "interface" /\ U[j] = o[j]
    BY <1>2, <1>4, <1>10 DEF In
  <2> QED
    BY <1>10, <2>1 DEF Whole, In
<1>11. ASSUME NEW j \in In(U, "ip")
      PROVE  /\ U[j].link \subseteq In(U, "interface")
             /\ \A d : Port(d, "management") \in U[j].link =>
                          j \in {IP(d, "live"), IP(d, "staging")} /\ U[j].link = {Port(d, "management")}
  <2>1. j \in In(o, "ip") /\ U[j] = o[j]
    BY <1>4, <1>5 DEF In
  <2> QED
    BY <1>6, <2>1 DEF Whole
<1>12. ASSUME NEW j \in In(U, "cable")
       PROVE  /\ \E d, p, e, q : U[j].link = {Port(d, p), Port(e, q)}
              /\ U[j].id \in Nat /\ U[j].id < M["cable"]
  <2>1. j \in In(o, "cable") /\ U[j] = o[j]
    BY <1>4, <1>5 DEF In
  <2> QED
    BY <1>3, <2>1 DEF Whole
<1>13. \A i, j \in In(U, "cable") : U[i].id = U[j].id => i = j
  <2>1. \A j \in In(U, "cable") : j \in In(o, "cable") /\ U[j] = o[j]
    BY <1>4, <1>5 DEF In
  <2> QED
    BY <2>1 DEF Whole
<1>14. /\ \A j \in DOMAIN U : AnObject(U[j])
       /\ Port("core", "transit") \in DOMAIN U
  BY <1>2, <1>4 DEF Whole
<1>15. Whole(U, M)
  BY <1>3, <1>7, <1>8, <1>9, <1>10, <1>11, <1>12, <1>13, <1>14 DEF Whole
<1> QED
  BY <1>1, <1>15

-----------------------------------------------------------------------------
(***************************************************************************)
(* The inductive invariant.                                                *)
(***************************************************************************)

\* What a report promises of an object: no operator touched it since.
AsMade(m, k, x) ==
    /\ x.link = LinkOf(k) /\ Adds(m, k) \subseteq x.marks
    /\ x.value \in IF k[1] = "device" THEN {"planned", "active"} ELSE {"exact"}
AllMade(m, o) == \A k \in MadeBy(m) : k \in DOMAIN o /\ AsMade(m, k, o[k])

\* A migration leaves what was made as it was, and makes what it should.
LEMMA MadeRun ==
  ASSUME NEW m \in ToSet(Migrations), NEW o, NEW N, NEW t, Grown(m, o, N, t, KeysOf(m), KeysOf(m))
  PROVE  /\ AllMade(m, t.objects)
         /\ \A n \in ToSet(Migrations) : AllMade(n, o) => AllMade(n, t.objects)
<1>1. PICK T : T = t.objects
  OBVIOUS
<1>2. /\ DOMAIN T = DOMAIN o \union KeysOf(m)
      /\ \A k \in DOMAIN o : k \notin KeysOf(m) => T[k] = o[k]
      /\ \A k \in KeysOf(m) : Became(m, k, Was(m, o, k), T[k]) /\ Settled(m, k, T[k])
  BY <1>1 DEF Grown
<1>3. \A k : ValueOf(m, k) \in {"planned", "active"}
  BY DEF ValueOf
<1>4. ASSUME NEW k \in MadeBy(m) PROVE k \in DOMAIN T /\ AsMade(m, k, T[k])
  <2>1. k \in KeysOf(m)
    BY MigrationKeys
  <2>2. T[k].link = LinkOf(k) /\ Adds(m, k) \subseteq T[k].marks /\ (k[1] # "device" => T[k].value = "exact")
    BY <1>2, <2>1 DEF Settled
  <2>3. CASE k[1] = "device"
    <3>1. m # "data-plane"
      <4>1. ASSUME m = "data-plane" PROVE FALSE
        <5>1. k \in KeysOf("data-plane") /\ k \notin Named(ToSet(Speakers))
          BY <2>1, <4>1 DEF MadeBy
        <5>2. k \in {Slug("data-plane"), ReadPermission} \union VlanKeys \union PrefixKeys \union RoutedOn \union RoutedAt
          BY <5>1 DEF KeysOf
        <5>3. \A j \in VlanKeys \union PrefixKeys : j[1] # "device"
          BY KeyTables
        <5>4. \A j \in RoutedOn \union RoutedAt : j[1] # "device"
          BY DEF RoutedOn, RoutedAt, Port, IP
        <5>5. Slug("data-plane")[1] # "device" /\ ReadPermission[1] # "device"
          BY DEF Slug, ReadPermission
        <5> QED
          BY <2>3, <5>2, <5>3, <5>4, <5>5
      <4> QED
        BY <4>1
    <3>2. T[k].value = ValueOf(m, k)
      BY <1>2, <2>1, <2>3, <3>1 DEF Became
    <3> QED
      BY <1>2, <1>3, <2>1, <2>2, <2>3, <3>2 DEF AsMade
  <2>4. CASE k[1] # "device"
    BY <1>2, <2>1, <2>2, <2>4 DEF AsMade
  <2> QED
    BY <2>3, <2>4
<1>5. ASSUME NEW n \in ToSet(Migrations), NEW k \in DOMAIN o, AsMade(n, k, o[k])
      PROVE  k \in DOMAIN T /\ AsMade(n, k, T[k])
  <2>1. CASE k \in KeysOf(m)
    <3>1. Was(m, o, k) = o[k]
      BY DEF Was
    <3>2. /\ o[k].marks \subseteq T[k].marks
          /\ T[k].link = o[k].link \/ T[k].link = LinkOf(k)
          /\ T[k].value = o[k].value \/ (k[1] = "device" /\ T[k].value = ValueOf(m, k))
      BY <1>2, <2>1, <3>1 DEF Became
    <3> QED
      BY <1>2, <1>3, <1>5, <3>2 DEF AsMade
  <2>2. CASE k \notin KeysOf(m)
    BY <1>2, <1>5, <2>2
  <2> QED
    BY <2>1, <2>2
<1>6. AllMade(m, T)
  BY <1>4 DEF AllMade
<1>7. \A n \in ToSet(Migrations) : AllMade(n, o) => AllMade(n, T)
  BY <1>5 DEF AllMade
<1> QED
  BY <1>1, <1>6, <1>7

\* The inductive invariant: what holds of any inventory, what was reported, and, as long as
\* nothing was edited and no primary key was lost, the inventory in order.
InOrder == \E done : Canonical(done, objects, next) /\ reported \subseteq done
InventoryInv ==
    /\ Whole(objects, next)
    /\ reported \subseteq ToSet(Migrations) /\ \A m \in reported : AllMade(m, objects)
    /\ clean \in BOOLEAN
    /\ clean => InOrder

\* Every action keeps it: a run that is committed, one that is not, an edit.
LEMMA InitInventoryInv == InitInventory => InventoryInv
<1> SUFFICES ASSUME InitInventory PROVE InventoryInv
  OBVIOUS
<1>1. objects = Before32 /\ next = FirstKeys /\ reported = {} /\ clean = TRUE
  BY DEF InitInventory
<1>2. Canonical({}, objects, next)
  BY <1>1, FirstCanonical
<1>3. InOrder
  BY <1>1, <1>2 DEF InOrder
<1>4. Whole(objects, next)
  BY <1>1, FirstWhole
<1> QED
  BY <1>1, <1>3, <1>4 DEF InventoryInv

LEMMA RunInventory ==
  ASSUME InventoryInv, NEW m \in ToSet(Migrations), Run(m)
  PROVE  InventoryInv'
<1>1. PICK t : t = Transaction(m, objects, next)
  OBVIOUS
<1>2. /\ Whole(objects, next) /\ reported \subseteq ToSet(Migrations)
      /\ \A n \in reported : AllMade(n, objects)
      /\ clean \in BOOLEAN /\ (clean => InOrder)
  BY DEF InventoryInv
<1>3. (\A k \in DOMAIN objects : AnObject(objects[k])) /\ next \in Keys
  BY <1>2 DEF Whole
<1>4. /\ Drew(next, t)
      /\ t.ok => Grown(m, objects, next, t, KeysOf(m), KeysOf(m))
  BY <1>1, <1>3, RunGrown
<1>5. \/ /\ t.ok /\ objects' = t.objects /\ next' = t.next /\ reported' \subseteq reported \union {m} /\ clean' = clean
      \/ /\ next' \in t.drawn /\ clean' = FALSE /\ objects' = objects /\ reported' = reported
  BY <1>1 DEF Run, Committed, Mishap
<1>6. CASE /\ t.ok /\ objects' = t.objects /\ next' = t.next /\ reported' \subseteq reported \union {m} /\ clean' = clean
  <2>1. Grown(m, objects, next, t, KeysOf(m), KeysOf(m))
    BY <1>4, <1>6
  <2>2. Whole(t.objects, t.next)
    BY <1>2, <1>4, <2>1, WholeRun
  <2>3. AllMade(m, t.objects) /\ \A n \in ToSet(Migrations) : AllMade(n, objects) => AllMade(n, t.objects)
    BY <2>1, MadeRun
  <2>4. ASSUME clean PROVE \E done : Canonical(done, t.objects, t.next) /\ reported' \subseteq done
    <3>1. PICK done : Canonical(done, objects, next) /\ reported \subseteq done
      BY <1>2, <2>4 DEF InOrder
    <3>2. Canonical(done \union {m}, t.objects, t.next)
      BY <1>1, <1>6, <3>1, CanonicalStep
    <3>3. reported' \subseteq done \union {m}
      BY <1>6, <3>1
    <3> QED
      BY <3>2, <3>3
  <2>5. clean' => InOrder'
    BY <1>6, <2>4 DEF InOrder
  <2>6. Whole(objects', next')
    BY <1>6, <2>2
  <2>7. reported' \subseteq ToSet(Migrations) /\ \A n \in reported' : AllMade(n, objects')
    BY <1>2, <1>6, <2>3
  <2> QED
    BY <1>2, <1>6, <2>5, <2>6, <2>7 DEF InventoryInv
<1>7. CASE next' \in t.drawn /\ clean' = FALSE /\ objects' = objects /\ reported' = reported
  <2>1. next' \in Keys /\ AtLeast(next, next')
    BY <1>4, <1>7 DEF Drew
  <2>2. Whole(objects', next')
    BY <1>2, <1>7, <2>1, WholeLater
  <2> QED
    BY <1>2, <1>7, <2>2 DEF InventoryInv
<1> QED
  BY <1>5, <1>6, <1>7

LEMMA EditInventory == InventoryInv /\ Edit => InventoryInv'
<1> SUFFICES ASSUME InventoryInv, Edit PROVE InventoryInv'
  OBVIOUS
<1>1. reported' = {} /\ clean' = FALSE
  BY DEF Edit
<1>2. Whole(objects, next)
  BY DEF InventoryInv
<1>3. PICK k \in EditedKeys :
         \/ k[1] \in {"ip", "prefix", "cable", "permission"} /\ objects' = Without(k) /\ next' = next
         \/ k \in DOMAIN objects /\ (\E o \in Otherwise(k) : objects' = [objects EXCEPT ![k] = o]) /\ next' = next
         \/ /\ k \notin DOMAIN objects /\ k[1] \in {"prefix", "interface"}
            /\ objects' = With(objects, k, Object(next[k[1]], "exact", {}, {}))
            /\ next' = [next EXCEPT ![k[1]] = @ + 1]
  BY DEF Edit
<1>4. CASE k[1] \in {"ip", "prefix", "cable", "permission"} /\ objects' = Without(k) /\ next' = next
  <2>1. Whole(objects', next')
    BY <1>2, <1>4, WholeWithout
  <2> QED
    BY <1>1, <2>1 DEF InventoryInv
<1>5. CASE k \in DOMAIN objects /\ (\E o \in Otherwise(k) : objects' = [objects EXCEPT ![k] = o]) /\ next' = next
  <2>1. PICK o \in Otherwise(k) : objects' = [objects EXCEPT ![k] = o]
    BY <1>5
  <2>2. Whole(objects', next')
    BY <1>2, <1>5, <2>1, WholeOtherwise
  <2> QED
    BY <1>1, <2>2 DEF InventoryInv
<1>6. CASE /\ k \notin DOMAIN objects /\ k[1] \in {"prefix", "interface"}
           /\ objects' = With(objects, k, Object(next[k[1]], "exact", {}, {}))
           /\ next' = [next EXCEPT ![k[1]] = @ + 1]
  <2>1. k[1] = "prefix" => k = Prefix(k[2])
    BY InventoryAssumption DEF Prefix
  <2>2. Whole(objects', next')
    BY <1>2, <1>6, <2>1, WholeWith
  <2> QED
    BY <1>1, <2>2 DEF InventoryInv
<1> QED
  BY <1>3, <1>4, <1>5, <1>6

LEMMA NextInventory == InventoryInv /\ (MigrateOrEdit \/ UNCHANGED inventory) => InventoryInv'
<1>1. {"inventory", "activation", "data-plane", "router-ids", "gateways"} = ToSet(Migrations)
  BY MigrationNames
<1>2. MigrateOrEdit => (\E m \in ToSet(Migrations) : Run(m)) \/ Edit
  BY <1>1 DEF MigrateOrEdit, MigrateInventory, ActivateDevices, MigrateDataPlane, AllocateRouterIds, EstablishGateways
<1>3. InventoryInv /\ UNCHANGED inventory => InventoryInv'
  BY DEF inventory, InventoryInv, InOrder
<1> QED
  BY <1>2, <1>3, RunInventory, EditInventory

-----------------------------------------------------------------------------
(***************************************************************************)
(* What a resolver accepts, of whatever inventory, is the reference.       *)
(***************************************************************************)

\* What the data plane's resolver has read of an end of a routed link.
LEMMA EndRead ==
  ASSUME NEW n, EndAsAllocated(n), NEW d, NEW e, NEW x, RoutedEnds[n] = <<d, e, x>>
  PROVE  /\ Port(d, e) \in DOMAIN objects
         /\ objects[IP(d, e)].id = 16 + n /\ objects[IP(d, e)].link = {Port(d, e)}
         /\ Ids(objects, CablesAt(objects, Port(d, e))) = {(n + 1) \div 2}
<1>1. PICK r : r = RoutedEnds[n]
  OBVIOUS
<1>2. r[1] = d /\ r[2] = e
  BY <1>1
<1> QED
  BY <1>1, <1>2 DEF EndAsAllocated, Is

LEMMA EndsRead ==
  ASSUME \A n \in 1..6 : EndAsAllocated(n)
  PROVE  /\ \A k \in RoutedAt : objects[k].id = RefId(k) /\ objects[k].link = LinkOf(k)
         /\ \A p \in RoutedOn : p \in DOMAIN objects
         /\ \E c : \A p \in {Port("core", "edge"), Port("edge", "core")} : Ids(objects, CablesAt(objects, p)) = {c}
         /\ \E c : \A p \in {Port("core", "transit"), Port("transit", "core")} : Ids(objects, CablesAt(objects, p)) = {c}
         /\ \E c : \A p \in {Port("edge", "transit"), Port("transit", "edge")} : Ids(objects, CablesAt(objects, p)) = {c}
<1> DEFINE Read(d, e, i, c) ==
             /\ Port(d, e) \in DOMAIN objects
             /\ objects[IP(d, e)].id = i /\ objects[IP(d, e)].link = {Port(d, e)}
             /\ Ids(objects, CablesAt(objects, Port(d, e))) = {c}
<1>1. ASSUME NEW n \in 1..6, NEW d, NEW e, NEW x, RoutedEnds[n] = <<d, e, x>>
      PROVE  Read(d, e, 16 + n, (n + 1) \div 2)
  BY <1>1, EndRead
<1>2. (1 + 1) \div 2 = 1 /\ (2 + 1) \div 2 = 1 /\ (3 + 1) \div 2 = 2 /\ (4 + 1) \div 2 = 2
      /\ (5 + 1) \div 2 = 3 /\ (6 + 1) \div 2 = 3
  OBVIOUS
<1> HIDE DEF Read
<1>3. Read("core", "edge", 17, 1)
  BY <1>1, <1>2, Ends
<1>4. Read("edge", "core", 18, 1)
  BY <1>1, <1>2, Ends
<1>5. Read("core", "transit", 19, 2)
  BY <1>1, <1>2, Ends
<1>6. Read("transit", "core", 20, 2)
  BY <1>1, <1>2, Ends
<1>7. Read("edge", "transit", 21, 3)
  BY <1>1, <1>2, Ends
<1>8. Read("transit", "edge", 22, 3)
  BY <1>1, <1>2, Ends
<1>9. /\ RefId(IP("core", "edge")) = 17 /\ RefId(IP("edge", "core")) = 18 /\ RefId(IP("core", "transit")) = 19
      /\ RefId(IP("transit", "core")) = 20 /\ RefId(IP("edge", "transit")) = 21 /\ RefId(IP("transit", "edge")) = 22
  BY AddressNumbers
<1>10. \A d, e : e \in {"core", "edge", "transit"} => LinkOf(IP(d, e)) = {Port(d, e)}
  BY Links
<1>11. \A k \in RoutedAt : objects[k].id = RefId(k) /\ objects[k].link = LinkOf(k)
  <2>1. ASSUME NEW d, NEW e \in {"core", "edge", "transit"}, NEW i, NEW c, Read(d, e, i, c), RefId(IP(d, e)) = i,
               NEW k, k = IP(d, e)
        PROVE  objects[k].id = RefId(k) /\ objects[k].link = LinkOf(k)
    BY <1>10, <2>1 DEF Read
  <2>2. \A k \in RoutedAt : \/ k = IP("core", "edge") \/ k = IP("edge", "core") \/ k = IP("core", "transit")
                            \/ k = IP("transit", "core") \/ k = IP("edge", "transit") \/ k = IP("transit", "edge")
    BY DEF RoutedAt
  <2> QED
    BY <1>3, <1>4, <1>5, <1>6, <1>7, <1>8, <1>9, <2>1, <2>2
<1>12. \A p \in RoutedOn : p \in DOMAIN objects
  <2>1. \A d, e, i, c : Read(d, e, i, c) => Port(d, e) \in DOMAIN objects
    BY DEF Read
  <2>2. /\ Port("core", "edge") \in DOMAIN objects /\ Port("edge", "core") \in DOMAIN objects
        /\ Port("core", "transit") \in DOMAIN objects /\ Port("transit", "core") \in DOMAIN objects
        /\ Port("edge", "transit") \in DOMAIN objects /\ Port("transit", "edge") \in DOMAIN objects
    BY <1>3, <1>4, <1>5, <1>6, <1>7, <1>8, <2>1
  <2> QED
    BY <2>2 DEF RoutedOn
<1>13. ASSUME NEW d, NEW e, NEW i, NEW j, NEW c, Read(d, e, i, c), Read(e, d, j, c)
       PROVE  \E b : \A p \in {Port(d, e), Port(e, d)} : Ids(objects, CablesAt(objects, p)) = {b}
  BY <1>13 DEF Read
<1>14. \E c : \A p \in {Port("core", "edge"), Port("edge", "core")} : Ids(objects, CablesAt(objects, p)) = {c}
  BY <1>3, <1>4, <1>13
<1>15. \E c : \A p \in {Port("core", "transit"), Port("transit", "core")} : Ids(objects, CablesAt(objects, p)) = {c}
  BY <1>5, <1>6, <1>13
<1>16. \E c : \A p \in {Port("edge", "transit"), Port("transit", "edge")} : Ids(objects, CablesAt(objects, p)) = {c}
  BY <1>7, <1>8, <1>13
<1> QED
  BY <1>11, <1>12, <1>14, <1>15, <1>16

\* What the data plane's resolver accepts is the reference.
LEMMA DataPlaneRead ==
  ASSUME NEW N, Whole(objects, N), ResolveDataPlane, NEW k \in MadeBy("data-plane"), k[1] # "slug"
  PROVE  objects[k].id = RefId(k) /\ objects[k].link = LinkOf(k)
<1> DEFINE population(table) == Marked(objects, table, "data-plane")
<1>1. /\ ReadPermission \in DOMAIN objects
      /\ Cardinality(population("prefix")) = 7 /\ (\A j \in population("prefix") : PrefixAsAllocated(j))
      /\ Cardinality(population("vlan")) = 2 /\ (\A j \in population("vlan") : VlanAsAllocated(j))
      /\ \A n \in 1..6 : EndAsAllocated(n)
  BY DEF ResolveDataPlane, Readable
<1>2. \A table : population(table) \subseteq In(objects, table)
  BY DEF Marked
<1> HIDE DEF population
<1>3. k \in {ReadPermission} \union VlanKeys \union PrefixKeys \union RoutedAt
  <2>1. k \in KeysOf("data-plane") /\ k \notin Named(ToSet(Speakers)) /\ k \notin RoutedOn
    BY DEF MadeBy
  <2>2. Slug("data-plane")[1] = "slug"
    BY DEF Slug
  <2> QED
    BY <2>1, <2>2 DEF KeysOf
<1>4. CASE k = ReadPermission
  <2>1. objects[k].id = 0 /\ objects[k].link = {}
    BY <1>1, <1>4 DEF Whole
  <2>2. k[1] = "permission" /\ LinkOf(k) = {}
    BY <1>4, Links DEF ReadPermission
  <2>3. RefId(k) = 0
    BY <2>2 DEF RefId
  <2> QED
    BY <2>1, <2>2, <2>3
<1>5. CASE k \in VlanKeys
  <2>1. In(objects, "vlan") \subseteq VlanKeys
    BY DEF Whole
  <2>2. population("vlan") \in SUBSET VlanKeys
    BY <1>2, <2>1
  <2>3. population("vlan") = VlanKeys
    BY <1>1, <2>2, Counted, FS_Subset
  <2>4. VlanAsAllocated(k) /\ k \in In(objects, "vlan")
    BY <1>1, <1>2, <1>5, <2>3
  <2>5. objects[k].id = VlanId(k[2]) /\ objects[k].link = {}
    BY <2>4 DEF VlanAsAllocated, Whole
  <2>6. k[1] = "vlan" /\ LinkOf(k) = {}
    BY <1>5, Links DEF VlanKeys, Vlan
  <2>7. RefId(k) = VlanId(k[2])
    BY <2>6 DEF RefId
  <2> QED
    BY <2>5, <2>6, <2>7
<1>6. CASE k \in PrefixKeys
  <2>1. \A j \in In(objects, "prefix") : j = Prefix(j[2])
    BY DEF Whole
  <2>2. \A j \in population("prefix") : j[2] \in ToSet(PrefixOrder)
    BY <1>1 DEF PrefixAsAllocated, PrefixId
  <2>3. population("prefix") \in SUBSET PrefixKeys
    BY <1>2, <2>1, <2>2, PrefixNames DEF PrefixKeys
  <2>4. population("prefix") = PrefixKeys
    BY <1>1, <2>3, Counted, FS_Subset
  <2>5. objects[k].id = PrefixId[k[2]] /\ objects[k].link = PrefixVlan(k[2])
    BY <1>1, <1>6, <2>4 DEF PrefixAsAllocated
  <2>6. k[1] = "prefix" /\ k = Prefix(k[2])
    BY <1>6 DEF PrefixKeys, Prefix
  <2>7. RefId(k) = PrefixId[k[2]] /\ LinkOf(k) = PrefixVlan(k[2])
    <3>1. LinkOf(Prefix(k[2])) = PrefixVlan(k[2])
      BY Links
    <3>2. RefId(k) = PrefixId[k[2]]
      BY <2>6 DEF RefId
    <3> QED
      BY <2>6, <3>1, <3>2
  <2> QED
    BY <2>5, <2>7
<1>7. CASE k \in RoutedAt
  BY <1>1, <1>7, EndsRead
<1> QED
  BY <1>3, <1>4, <1>5, <1>6, <1>7

\* So is what the resolver of the routing identities accepts.
LEMMA RoutingRead ==
  ASSUME ResolveRoutingIdentities, NEW k \in MadeBy("router-ids"), k[1] # "slug"
  PROVE  objects[k].id = RefId(k) /\ objects[k].link = LinkOf(k)
<1>1. k \in LoopbackIds
  <2>1. Slug("routing")[1] = "slug"
    BY DEF Slug
  <2> QED
    BY <2>1 DEF MadeBy, KeysOf
<1>2. PICK d \in ToSet(Speakers) : k = IP(d, "router-id")
  BY <1>1, SpeakerNames DEF LoopbackIds
<1>3. objects[k].id = RouterId[d] /\ objects[k].link = {}
  BY <1>2 DEF ResolveRoutingIdentities, Is
<1>4. RefId(k) = RouterId[d]
  <2>1. RouterId["core"] = 23 /\ RouterId["edge"] = 24 /\ RouterId["transit"] = 25
    BY DEF RouterId
  <2> QED
    BY <1>2, <2>1, AddressNumbers, SpeakerNames
<1> QED
  BY <1>2, <1>3, <1>4, Links

\* And what the resolver of the VLAN service accepts.
LEMMA ServiceRead ==
  ASSUME ResolveVlanService, NEW k \in MadeBy("gateways"), k[1] # "slug"
  PROVE  objects[k].id = RefId(k) /\ objects[k].link = LinkOf(k)
<1>1. k \in Subinterfaces \union Gateways
  <2>1. Slug("gateway")[1] = "slug"
    BY DEF Slug
  <2> QED
    BY <2>1 DEF MadeBy, KeysOf
<1>2. PICK v \in Vids : k = Port("core", v) \/ k = IP("core", v)
  BY <1>1 DEF Subinterfaces, Gateways
<1>3. PICK i \in 1..2 : <<"10", "20">>[i] = v /\ RefId(Port("core", v)) = 20 + i /\ RefId(IP("core", v)) = 25 + i
  <2>1. <<"10", "20">>[1] = "10" /\ <<"10", "20">>[2] = "20" /\ 1 \in 1..2 /\ 2 \in 1..2
    OBVIOUS
  <2>2. /\ RefId(Port("core", "10")) = 20 + 1 /\ RefId(IP("core", "10")) = 25 + 1
        /\ RefId(Port("core", "20")) = 20 + 2 /\ RefId(IP("core", "20")) = 25 + 2
    BY PortNumbers, AddressNumbers
  <2>3. v = "10" \/ v = "20"
    BY VidNames
  <2> QED
    BY <2>1, <2>2, <2>3
<1>4. /\ objects[Port("core", v)].id = 20 + i /\ objects[IP("core", v)].id = 25 + i
      /\ objects[Port("core", v)].link = {Port("core", "access")} /\ objects[IP("core", v)].link = {Port("core", v)}
  BY <1>3 DEF ResolveVlanService, Is
<1>5. LinkOf(Port("core", v)) = {Port("core", "access")} /\ LinkOf(IP("core", v)) = {Port("core", v)}
  BY Links, VidNames
<1> QED
  BY <1>2, <1>3, <1>4, <1>5

\* The only cable at an end has that end and one other.
LEMMA CableAcross ==
  ASSUME NEW N, Whole(objects, N), NEW a \in DOMAIN objects, NEW b \in DOMAIN objects, a # b,
         NEW c, Ids(objects, CablesAt(objects, a)) = {c}, Ids(objects, CablesAt(objects, b)) = {c}
  PROVE  CabledPeers(a) = {b}
<1>1. PICK j \in CablesAt(objects, a) : objects[j].id = c
  BY DEF Ids
<1>2. PICK k \in CablesAt(objects, b) : objects[k].id = c
  BY DEF Ids
<1>3. \A i \in CablesAt(objects, a) : i \in In(objects, "cable") /\ objects[i].id = c
  BY DEF Ids, CablesAt
<1>4. j \in In(objects, "cable") /\ k \in In(objects, "cable") /\ a \in objects[j].link /\ b \in objects[k].link
  BY DEF CablesAt
<1>5. \A i \in In(objects, "cable") : objects[i].id = c => i = j
  BY <1>1, <1>4 DEF Whole
<1>6. CablesAt(objects, a) = {j} /\ k = j
  BY <1>1, <1>2, <1>3, <1>4, <1>5
<1>7. \E d, p, e, q : objects[j].link = {Port(d, p), Port(e, q)}
  BY <1>4 DEF Whole
<1>8. objects[j].link = {a, b}
  <2>1. PICK x, y : objects[j].link = {x, y}
    BY <1>7
  <2> QED
    BY <1>4, <1>6, <2>1
<1>9. {objects[i].link : i \in CablesAt(objects, a)} = {{a, b}}
  BY <1>6, <1>8
<1>10. CabledPeers(a) = (UNION {{a, b}}) \ {a}
  BY <1>9, Zenon DEF CabledPeers
<1> QED
  BY <1>10

LEMMA CablesRead ==
  ASSUME NEW N, Whole(objects, N), ResolveDataPlane, NEW e \in ToSet(RoutedEnds)
  PROVE  CabledPeers(Port(e[1], e[2])) = {Port(e[2], e[1])}
<1>1. /\ \A p \in RoutedOn : p \in DOMAIN objects
      /\ \E c : \A p \in {Port("core", "edge"), Port("edge", "core")} : Ids(objects, CablesAt(objects, p)) = {c}
      /\ \E c : \A p \in {Port("core", "transit"), Port("transit", "core")} : Ids(objects, CablesAt(objects, p)) = {c}
      /\ \E c : \A p \in {Port("edge", "transit"), Port("transit", "edge")} : Ids(objects, CablesAt(objects, p)) = {c}
  BY EndsRead DEF ResolveDataPlane
<1>2. ASSUME NEW d, NEW f, d # f, Port(d, f) \in RoutedOn, Port(f, d) \in RoutedOn,
             \E c : \A p \in {Port(d, f), Port(f, d)} : Ids(objects, CablesAt(objects, p)) = {c}
      PROVE  CabledPeers(Port(d, f)) = {Port(f, d)} /\ CabledPeers(Port(f, d)) = {Port(d, f)}
  <2>1. Port(d, f) # Port(f, d)
    BY <1>2, NamesApart
  <2>2. PICK c : Ids(objects, CablesAt(objects, Port(d, f))) = {c} /\ Ids(objects, CablesAt(objects, Port(f, d))) = {c}
    BY <1>2
  <2> QED
    BY <1>1, <1>2, <2>1, <2>2, CableAcross
<1>3. /\ Port("core", "edge") \in RoutedOn /\ Port("edge", "core") \in RoutedOn
      /\ Port("core", "transit") \in RoutedOn /\ Port("transit", "core") \in RoutedOn
      /\ Port("edge", "transit") \in RoutedOn /\ Port("transit", "edge") \in RoutedOn
  BY DEF RoutedOn
<1>4. /\ CabledPeers(Port("core", "edge")) = {Port("edge", "core")}
      /\ CabledPeers(Port("edge", "core")) = {Port("core", "edge")}
      /\ CabledPeers(Port("core", "transit")) = {Port("transit", "core")}
      /\ CabledPeers(Port("transit", "core")) = {Port("core", "transit")}
      /\ CabledPeers(Port("edge", "transit")) = {Port("transit", "edge")}
      /\ CabledPeers(Port("transit", "edge")) = {Port("edge", "transit")}
  BY <1>1, <1>2, <1>3
<1>5. \/ e[1] = "core" /\ e[2] = "edge"
      \/ e[1] = "edge" /\ e[2] = "core"
      \/ e[1] = "core" /\ e[2] = "transit"
      \/ e[1] = "transit" /\ e[2] = "core"
      \/ e[1] = "edge" /\ e[2] = "transit"
      \/ e[1] = "transit" /\ e[2] = "edge"
  BY Ends
<1> QED
  BY <1>4, <1>5

\* Both management addresses of a profiled device are on its protected management port.
LEMMA ProfileRead ==
  ASSUME NEW N, Whole(objects, N), NEW d \in Devices, ProfileOf(d)
  PROVE  /\ objects[Device(d)].id = DeviceId[d]
         /\ \A p \in {"live", "staging"} : objects[IP(d, p)].link = {Port(d, "management")}
<1>1. objects[Device(d)].id = DeviceId[d]
  BY DEF ProfileOf, Admitted, DeviceKnown, Is
<1>2. PICK live, staging \in OnDevice(d) :
         /\ staging # live /\ objects[live].link = objects[staging].link
         /\ \A k \in {live, staging} : \A p \in objects[k].link : Protected(p)
  BY DEF ProfileOf
<1>3. /\ live \in In(objects, "ip") /\ staging \in In(objects, "ip")
      /\ \E p \in objects[live].link : p[2] = d
  BY DEF OnDevice
<1>4. PICK p \in objects[live].link : p[2] = d
  BY <1>3
<1>5. p \in In(objects, "interface") /\ "protected" \in objects[p].marks
  BY <1>2, <1>3 DEF Whole, Protected
<1>6. p = Port(d, "management")
  <2>1. PICK f : p = Port(f, "management")
    BY <1>5 DEF Whole
  <2> QED
    BY <1>4, <2>1 DEF Port
<1>7. /\ live \in {IP(d, "live"), IP(d, "staging")} /\ objects[live].link = {Port(d, "management")}
      /\ staging \in {IP(d, "live"), IP(d, "staging")} /\ objects[staging].link = {Port(d, "management")}
  BY <1>2, <1>3, <1>4, <1>6 DEF Whole
<1> QED
  BY <1>1, <1>2, <1>7

\* The invariant implies the five parts of InventoryResolves.
LEMMA InventorySound == InventoryInv => InventoryResolves
<1> SUFFICES ASSUME InventoryInv PROVE InventoryResolves
  OBVIOUS
<1>1. /\ Whole(objects, next) /\ reported \subseteq ToSet(Migrations)
      /\ \A m \in reported : AllMade(m, objects)
      /\ clean => InOrder
  BY DEF InventoryInv
<1>2. \A m \in ToSet(Migrations) : MadeBy(m) \subseteq AllKeys
  BY MigrationKeys
<1>3. ReportedIsThere
  <2>1. ASSUME NEW m \in reported, NEW k \in DOMAIN Makes[m] PROVE AsMigrated(m, k)
    <3>1. k \in MadeBy(m) /\ Makes[m][k] = Adds(m, k) /\ k \in AllKeys
      BY <1>1, <1>2, MadeKeys
    <3>2. k \in DOMAIN objects /\ AsMade(m, k, objects[k])
      BY <1>1, <3>1 DEF AllMade
    <3>3. Reference[k].link = LinkOf(k)
      BY <3>1, ReferenceKnown
    <3> QED
      BY <3>1, <3>2, <3>3 DEF AsMigrated, AsMade
  <2> QED
    BY <2>1 DEF ReportedIsThere
<1>4. UntouchedResolves
  <2>1. ASSUME clean
        PROVE  /\ \A m \in reported : Resolved(m)
               /\ ResolveManaged = Named(Existing) /\ ResolveFleet = Named({"core"})
    <3>1. PICK done : Canonical(done, objects, next) /\ reported \subseteq done
      BY <1>1, <2>1 DEF InOrder
    <3> QED
      BY <3>1, ResolvesInOrder, LegacyResolves
  <2> QED
    BY <2>1 DEF UntouchedResolves
<1>5. ResolvedIsReference
  <2>1. ASSUME NEW m \in {"data-plane", "router-ids", "gateways"}, Resolved(m),
               NEW k \in DOMAIN Makes[m] \ In(Reference, "slug")
        PROVE  objects[k].id = Reference[k].id /\ objects[k].link = Reference[k].link
    <3>1. m \in ToSet(Migrations)
      BY MigrationNames
    <3>2. k \in MadeBy(m) /\ k \in AllKeys
      BY <1>2, <2>1, <3>1, MadeKeys
    <3>3. k[1] # "slug"
      BY <2>1, <3>2, ReferenceKnown DEF In
    <3>4. Reference[k].id = RefId(k) /\ Reference[k].link = LinkOf(k)
      BY <3>2, ReferenceKnown
    <3>5. objects[k].id = RefId(k) /\ objects[k].link = LinkOf(k)
      <4>1. CASE m = "data-plane"
        BY <1>1, <2>1, <3>2, <3>3, <4>1, DataPlaneRead DEF Resolved
      <4>2. CASE m = "router-ids"
        BY <2>1, <3>2, <3>3, <4>2, RoutingRead DEF Resolved
      <4>3. CASE m = "gateways"
        BY <2>1, <3>2, <3>3, <4>3, ServiceRead DEF Resolved
      <4> QED
        BY <4>1, <4>2, <4>3
    <3> QED
      BY <3>4, <3>5
  <2> QED
    BY <2>1 DEF ResolvedIsReference
<1>6. CablesLeadAcross
  BY <1>1, CablesRead DEF CablesLeadAcross
<1>7. ProfileIsReference
  <2>1. ASSUME ResolveProfile, NEW d \in Devices
        PROVE  /\ objects[Device(d)].id = Reference[Device(d)].id
               /\ \A p \in {"live", "staging"} : objects[IP(d, p)].link = Reference[IP(d, p)].link
    <3>1. ProfileOf(d)
      BY <2>1 DEF ResolveProfile
    <3>2. /\ objects[Device(d)].id = DeviceId[d]
          /\ \A p \in {"live", "staging"} : objects[IP(d, p)].link = {Port(d, "management")}
      BY <1>1, <3>1, ProfileRead
    <3>3. /\ Device(d) \in AllKeys /\ IP(d, "live") \in AllKeys /\ IP(d, "staging") \in AllKeys
          /\ RefId(Device(d)) = DeviceId[d]
      <4>1. KeysOf("inventory") \subseteq AllKeys
        BY MigrationNames, MigrationKeys
      <4> QED
        BY <4>1, ManagementThere
    <3>4. Reference[Device(d)].id = DeviceId[d]
      BY <3>3, ReferenceKnown
    <3>5. \A p \in {"live", "staging"} : Reference[IP(d, p)].link = {Port(d, "management")}
      BY <3>3, ReferenceKnown, Links
    <3> QED
      BY <3>2, <3>4, <3>5
  <2> QED
    BY <2>1 DEF ProfileIsReference
<1> QED
  BY <1>3, <1>4, <1>5, <1>6, <1>7 DEF InventoryResolves
=============================================================================
