--------------------------- MODULE ServiceChange ---------------------------
(*************************************************************************)
(* Proposed changes of the four verticals over one network.  A proposal  *)
(* reads the network, renders the lines that lead from what was read to  *)
(* the vertical's D1 and has the synthetic candidate of D1 assured.  The *)
(* code writes nothing: somebody applies the rendered lines, with other  *)
(* verticals' lines and edits of the network in between.                 *)
(*************************************************************************)
EXTENDS ManagedSnapshot

CONSTANT MaxDrifts       \* how many keys change under the proposals

VARIABLES net,           \* the network
          plans,         \* of each vertical, the proposal read and what became of it
          drifts,        \* how many keys have changed by themselves
          verdict        \* an assurance of a candidate that Batfish read amiss

vars == <<net, plans, drifts, verdict>>

NoPlan == [phase |-> "none", rendered |-> {}, undisturbed |-> TRUE]
NoVerdict == [vertical |-> "none", key |-> <<>>, value |-> {}, faithful |-> FALSE, passed |-> FALSE]

Begin ==
    /\ plans = [v \in Verticals |-> NoPlan]
    /\ drifts = 0 /\ verdict = NoVerdict

Init == net \in {PriorNetwork, ProposedNetwork, OtherNetwork} /\ Begin

Candidates == [v \in Verticals |->
    CASE v = "underlay" -> UnderlayCandidate(Blank) [] v = "ospf" -> OspfCandidate(Blank)
      [] v = "vlan" -> VlanCandidate(Blank)         [] v = "acl" -> AclCandidate(Blank)]
Candidate(v) == Candidates[v]

\* What is asked of the candidate as Batfish understood it, and the evaluation.
Assured(v, understood, issues) ==
    CASE v = "underlay" -> UnderlayAssured(UnderlayAnswers(understood, issues))
      [] v = "ospf" -> OspfCommon(OspfAnswers(understood, issues))
      [] v = "vlan" -> VlanAssured(VlanAnswers(understood, issues))
      [] v = "acl" -> AclAssured(AclAnswers(VlanCandidate(Blank), understood, issues))

\* What Batfish answers of each candidate.
Answers == [v \in Verticals |->
    CASE v = "underlay" -> UnderlayAnswers(Candidate(v), 0) [] v = "ospf" -> OspfAnswers(Candidate(v), 0)
      [] v = "vlan" -> VlanAnswers(Candidate(v), 0)
      [] v = "acl" -> AclAnswers(Candidate("vlan"), Candidate(v), 0)]

\* The proposal evidence, which its own validator derives again.
Bound(v, o) ==
    CASE v = "underlay" -> UnderlayBound(UnderlayEvidence(o, Answers[v]))
      [] v = "ospf" -> OspfBound(OspfEvidence(o, Answers[v]))
      [] v = "vlan" -> VlanBound(VlanEvidence(o, Answers[v]))
      [] v = "acl" -> AclBound(AclEvidence(o, Answers[v]))

\* The validators of the intent and of D1.
Exact(v) ==
    CASE v = "underlay" -> UnderlayIntentExact(UnderlayIntent) /\ UnderlayDesiredExact(UnderlayDesired)
      [] v = "ospf" -> OspfIntentExact(OspfIntent) /\ OspfDesiredExact(OspfDesired)
      [] v = "vlan" -> VlanIntentExact(VlanIntent) /\ VlanDesiredExact(VlanDesired)
      [] v = "acl" -> AclIntentExact(AclIntent)

Render(v, o) ==
    CASE v = "underlay" -> UnderlayRender(o) [] v = "ospf" -> OspfRender(o)
      [] v = "vlan" -> VlanRender(o)         [] v = "acl" -> AclRender(o)

Changed(v, rendered) ==
    CASE v = "underlay" -> UnderlayChanged(net, rendered) [] v = "ospf" -> OspfChanged(net, rendered)
      [] v = "vlan" -> VlanChanged(net, rendered)         [] v = "acl" -> AclChanged(net, rendered)

Propose(v) ==
    /\ plans[v].phase = "none" /\ verdict.vertical = "none"
    /\ \E o \in Read(v, net) : \E r \in Render(v, o) :
          /\ Exact(v) /\ Bound(v, o)
          /\ plans' = [plans EXCEPT ![v] = [phase |-> "proposed", rendered |-> r, undisturbed |-> TRUE]]
    /\ UNCHANGED <<net, drifts, verdict>>

\* Somebody enters the rendered lines; the code of this repository never does.
Apply(v) ==
    /\ plans[v].phase = "proposed"
    /\ net' = Changed(v, plans[v].rendered)
    /\ plans' = [plans EXCEPT ![v].phase = "applied"]
    /\ UNCHANGED <<drifts, verdict>>

\* A Cisco interface's passive state is owned and follows the process default too.
Disturbed(v) ==
    \E k \in Envelope(v) \union {<<r, "ospf", "passive-default">> : r \in CiscoRouters} :
        (k \in Envelope(v) \/ v = "ospf") /\ net'[k] # net[k]

\* One key of the network changes without a proposal.
Drift ==
    /\ drifts < MaxDrifts /\ verdict.vertical = "none"
    /\ \E k \in Keys : \E value \in Values(k) \ {net[k]} :
          /\ net' = Settle([net EXCEPT ![k] = value])
          /\ plans' = [v \in Verticals |->
                [plans[v] EXCEPT !.undisturbed = @ /\ (plans[v].phase = "none" \/ ~Disturbed(v))]]
    /\ drifts' = drifts + 1
    /\ UNCHANGED verdict

Understood(v, k, value) == [Candidate(v) EXCEPT ![k] = value]

\* The candidate of v is assured, and Batfish may have read one key amiss.
Assure(v) ==
    /\ verdict.vertical = "none" /\ drifts = 0 /\ \A w \in Verticals : plans[w].phase = "none"
    /\ \E k \in Keys : \E value \in Values(k), issues \in {0, 1} :
          verdict' = [vertical |-> v, key |-> k, value |-> value,
                      faithful |-> value = Candidate(v)[k] /\ issues = 0,
                      passed |-> Assured(v, Understood(v, k, value), issues)]
    /\ UNCHANGED <<net, plans, drifts>>

Next ==
    \/ \E v \in Verticals : Propose(v) \/ Apply(v) \/ Assure(v)
    \/ Drift

Spec == Init /\ [][Next]_vars

----------------------------------------------------------------------------
(* Properties. *)

\* A trunk's access VLAN and an access port's allowed VLANs have no effect.
Unused(k) ==
    \/ k = <<"access", "trunk", "access">>
    \/ k[1] = "access" /\ k[2] \in {"users", "servers"} /\ k[3] = "allowed"

AsProposed(k) ==
    IF k[3] = "passive" THEN ~ReadOspfPort(net, <<k[1], k[2]>>).passive
    ELSE Unused(k) \/ net[k] = ProposedNetwork[k]

\* Whatever of D1 was there, missing or otherwise when the network was read,
\* the rendered lines (render_routed_underlay_changes and its three siblings)
\* leave every owned element as D1 has it, also after other verticals' lines
\* and edits of what the vertical does not own; and where the reader still
\* understands the device, the comparison after the write does not fail.  The
\* VLAN comparison is not claimed: its reader never reports D1.
RenderConverges ==
    \A v \in Verticals :
        plans[v].phase = "applied" /\ plans[v].undisturbed =>
            /\ \A k \in Envelope(v) : AsProposed(k)
            /\ v # "vlan" => ComparePostwrite(Managed(v, net), Proposed(v)) # "post_validation_failed"

\* When the policy reader reports D1 (parse_acl_observation), no forbidden flow
\* reaches the servers, whatever else was edited; and when the VLAN elements are
\* those of D1 and neither VLAN is native, every flow the policy permits gets through.
ProtectedAsRead ==
    Managed("acl", net) = {Proposed("acl")} =>
        /\ Protected(net)
        /\ (\A k \in VlanEnvelope : AsProposed(k))
              /\ (\A t \in SwitchPorts : net[<<"access", t, "native">>] \notin Vids) => Preserved(net)

\* An assurance that passes (the four evaluate functions) was of a network in
\* which the service does what it is for, and the candidate passes when Batfish
\* understood it as it stands.
AssuranceSeparates ==
    /\ verdict.passed =>
          LET assured == Understood(verdict.vertical, verdict.key, verdict.value)
          IN  CASE verdict.vertical = "underlay" -> UnderlayWorks(assured)
                [] verdict.vertical = "ospf" -> UnderlayWorks(assured) /\ OspfWorks(assured)
                [] verdict.vertical = "vlan" -> OspfWorks(assured) /\ VlanWorks(assured)
                [] verdict.vertical = "acl" -> Protected(assured) /\ Preserved(assured)
    /\ verdict.faithful => verdict.passed
=============================================================================
