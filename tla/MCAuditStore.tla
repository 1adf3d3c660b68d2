---------------------------- MODULE MCAuditStore ----------------------------
(***************************************************************************)
(* Three deliveries of one plan. The first two are steps of one build with*)
(* record IDs of their own; the third repeats the record ID of the first. *)
(***************************************************************************)
EXTENDS AuditStore, TLC

CONSTANTS j1, j2, j3

MCJobs == {j1, j2, j3}
MCNames == {"plan", "raw", "envelope", "other"}
MCInputs == [j \in MCJobs |-> <<"plan">>]
MCBytes == [j \in MCJobs |-> <<"raw">>]
MCEnvelope == j1 :> "envelope" @@ j2 :> "other" @@ j3 :> "envelope"
MCDir == [n \in MCNames |-> IF n = "plan" THEN "artifacts"
                            ELSE IF n = "raw" THEN "bytes" ELSE "records"]
=============================================================================
