--------------------------- MODULE MCOperations ---------------------------
(* An address, a VLAN, the policy and an option that no service supports    *)
(* change during the adoption; a routed address, a router ID, a service     *)
(* prefix, a foreign prefix, a cable and a device of the inventory are edited. *)
EXTENDS Operations

MCDriftingKeys ==
    {<<"core", "edge", "addresses">>, <<"access", "10", "name">>,
     <<"core", "acl", "rules">>, <<"core", "parent", "unsupported">>}

MCEditedKeys ==
    {IP("edge", "core"), IP("edge", "router-id"), Prefix("10"),
     Prefix("foreign"), Cable("core", "edge"), Device("transit")}
=============================================================================
