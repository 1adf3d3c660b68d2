----------------------------- MODULE MCStagingRun -----------------------------
(***************************************************************************)
(* Two builds in turn over a laboratory of two devices, the first of which *)
(* is recycled. Resources: the lab and one more for all that live in it.   *)
(***************************************************************************)
EXTENDS StagingRun

MCRuns == {1, 2}
MCMembers == {1, 2}
MCRecycled == {1}
=============================================================================
