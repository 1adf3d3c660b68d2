----------------------------- MODULE MCDelivery -----------------------------
(* One single-target and one rollout lane over the same device. *)
EXTENDS Delivery

CONSTANTS single, rollout

MCSingles == {single}
MCRollouts == {rollout}
=============================================================================
