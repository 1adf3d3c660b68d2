-------------------------- MODULE MCProfiledRollout --------------------------
(***************************************************************************)
(* Small populations for ProfiledRollout.                                 *)
(*   MC1: one rollout over devices 1..4. They are of two families, so two *)
(*        canaries are enough and two devices are left for a wave.          *)
(*   MC2: a rollout over devices 1..2, of a family each, and either a     *)
(*        second one over both or a single-target job on device 2; all     *)
(*        want one description.                                             *)
(*   MC3: two single-target jobs on one device that want it to differ.    *)
(***************************************************************************)
EXTENDS ProfiledRollout

CONSTANTS r1, r2, s1, s2

MC1Rollouts == {r1}
MC1Singles == {}
MC1Requests == {{r1}}
MC1Devices == 1..4
MC1Selected == r1 :> {1, 2, 3, 4}
MC1Desired == r1 :> "d1"
MC1Family == <<"cisco", "junos", "cisco", "junos">>
MC1Descriptions == {"d0", "d1"}

MC2Rollouts == {r1, r2}
MC2Singles == {s1}
MC2Requests == {{r1, r2}, {r1, s1}}
MC2Devices == 1..2
MC2Selected == r1 :> {1, 2} @@ r2 :> {1, 2} @@ s1 :> {2}
MC2Desired == r1 :> "d1" @@ r2 :> "d1" @@ s1 :> "d1"
MC2Family == <<"cisco", "junos">>
MC2Descriptions == {"d0", "d1"}

MC3Rollouts == {}
MC3Singles == {s1, s2}
MC3Requests == {{s1, s2}}
MC3Devices == {1}
MC3Selected == s1 :> {1} @@ s2 :> {1}
MC3Desired == s1 :> "d1" @@ s2 :> "d2"
MC3Family == <<"cisco">>
MC3Descriptions == {"d0", "d1", "d2"}
=============================================================================
