---------------------------- MODULE AclService ----------------------------
(*************************************************************************)
(* The security-policy vertical (security_policy.py): one ordered access *)
(* list on the servers' subinterface of the core, outbound.              *)
(*                                                                       *)
(* Keys: <<"core", "acl", "rules">> holds the list named by this service *)
(* (empty when there is none), <<"core", vid, "in"/"out">> the list      *)
(* attached: "none", "ncdp" (this one) or "foreign".                     *)
(*************************************************************************)
EXTENDS VlanService, Sequences

Kinds == {"https", "ssh", "icmp", "udp"}

Rule(action, kinds, from, to) == [action |-> action, kinds |-> kinds, from |-> from, to |-> to]

AclRules == <<Rule("permit", {"https"}, {"10"}, {"20"}),
              Rule("deny", Kinds, {"10"}, {"20"}),
              Rule("permit", Kinds, Vids, Vids)>>

AclIntent == [rules |-> AclRules, interface |-> "20", direction |-> "out", vlan |-> VlanDesired]

AclIntentExact(intent) ==
    /\ intent.rules = AclRules /\ intent.vlan = VlanDesired
    /\ intent.interface = "20"

AclDesired == [present |-> TRUE, rules |-> AclIntent.rules,
               attached |-> {<<AclIntent.interface, AclIntent.direction>>}]

AclEnvelope == {<<"core", "acl", "rules">>, <<"core", "20", "in">>, <<"core", "20", "out">>}

Sides == {"in", "out"}
AttachedTo(net, lists) == {x \in Vids \X Sides : net[<<"core", x[1], x[2]>>] \in lists}

AclObserved(present, rules, attached) ==
    [present |-> present, rules |-> rules, attached |-> attached]

\* Absent, or exactly the proposed policy; anything between is not understood.
AbsentOrExact(o, lists) ==
    \/ o = AclObserved(FALSE, <<>>, {}) /\ lists = {}
    \/ o.present /\ Len(o.rules) = 3 /\ o.attached = {<<"20", "out">>} /\ lists = {"ncdp"}

ReservedElsewhere(net) ==
    net[<<"core", "acl", "reserved">>] \/ net[<<"core", "elsewhere", "group">>] = "ncdp"
    \/ \E x \in AttachedTo(net, {"ncdp"}) : x[1] # AclIntent.interface

\* The list is compared line by line and reported as the intent's rules.
AclAs(net, rules) ==
    LET o == AclObserved(rules # <<>>, rules, AttachedTo(net, {"ncdp", "foreign"}))
        lists == {net[<<"core", x[1], x[2]>>] : x \in o.attached}
    IN  IF ~ReservedElsewhere(net) /\ AbsentOrExact(o, lists) THEN {o} ELSE {}

AclReadUnordered(net) ==
    LET set == {net[<<"core", "acl", "rules">>][i] : i \in DOMAIN net[<<"core", "acl", "rules">>]}
    IN  IF set = {} THEN AclAs(net, <<>>)
        ELSE IF set = {AclRules[i] : i \in DOMAIN AclRules} THEN AclAs(net, AclIntent.rules) ELSE {}
AclRead(net) ==
    IF net[<<"core", "acl", "rules">>] \in {<<>>, AclIntent.rules}
    THEN AclAs(net, net[<<"core", "acl", "rules">>]) ELSE {}

AclRender(observed) ==
    IF observed.present /\ observed # AclDesired THEN {}
    ELSE {[noOp |-> observed.present,
           rules |-> IF observed.present THEN <<>> ELSE AclDesired.rules,
           attached |-> IF observed.present THEN {} ELSE AclDesired.attached]}

\* Entering the subinterface creates it when the VLAN service is not there.
AclChanged(net, rendered) ==
    IF rendered.noOp THEN net
    ELSE [net EXCEPT ![<<"core", "acl", "rules">>] = rendered.rules,
                     ![<<"core", "20", "out">>] = "ncdp",
                     ![<<"core", "20", "exists">>] = TRUE]

----------------------------------------------------------------------------
(* The secured candidate, compared with the open one of the VLAN service. *)

AclCandidate(blank) == AclChanged(VlanCandidate(blank), [noOp |-> FALSE, rules |-> AclDesired.rules])

Matching(rules, flow) ==
    {i \in DOMAIN rules : flow.kind \in rules[i].kinds /\ flow.from \in rules[i].from
                                                       /\ flow.to \in rules[i].to}

\* The first rule that matches decides; a list that does not exist permits.
Permits(rules, flow) ==
    IF rules = <<>> THEN TRUE
    ELSE \E i \in Matching(rules, flow) :
            (\A j \in Matching(rules, flow) : i <= j) /\ rules[i].action = "permit"

FilterPasses(net, v, side, flow) ==
    CASE net[<<"core", v, side>>] = "none" -> TRUE
      [] net[<<"core", v, side>>] = "ncdp" -> Permits(net[<<"core", "acl", "rules">>], flow)
      [] OTHER -> FALSE

\* A flow to its own gateway ends on the core; another one leaves by the other VLAN.
Delivered(net, flow) ==
    /\ Routed(net, flow.from, flow.to)
    /\ FilterPasses(net, flow.from, "in", flow)
    /\ flow.from # flow.to => FilterPasses(net, flow.to, "out", flow)

Flow(from, to, kind) == [from |-> from, to |-> to, kind |-> kind]

\* The six flows Batfish is asked to trace.
AskedFlows == {Flow("10", "20", k) : k \in {"https", "ssh", "icmp"}} \union
              {Flow("20", "10", "https"), Flow("10", "10", "icmp"), Flow("20", "20", "icmp")}

AclFlows(net) == [f \in AskedFlows |-> Delivered(net, f)]

AclAnswers(open, net, issues) ==
    [baseline |-> VlanAnswers(open, issues), secured |-> VlanAnswers(net, issues),
     openFlows |-> AclFlows(open), flows |-> AclFlows(net),
     lines |-> net[<<"core", "acl", "rules">>],
     attached |-> AttachedTo(net, {"ncdp"}) \union
                  {<<"elsewhere", g>> : g \in {net[<<"core", "elsewhere", "group">>]} \ {"none"}}]

Blocked == {Flow("10", "20", "ssh"), Flow("10", "20", "icmp")}

AclPolicyAttached(answers) == answers.attached = AclDesired.attached
AclPolicyExact(answers) ==
    /\ answers.lines = AclDesired.rules
    /\ answers.attached = AclDesired.attached

\* Every flow is open in the baseline, and only the blocked ones are not when secured.
AclFlowsExact(answers) ==
    \A f \in AskedFlows : answers.openFlows[f] /\ answers.flows[f] = (f \notin Blocked)

AclAssured(answers) ==
    /\ VlanAssured(answers.baseline) /\ VlanCommon(answers.secured)
    /\ AclPolicyExact(answers) /\ AclFlowsExact(answers)

AclEvidence(observed, answers) ==
    [envelope |-> AclEnvelope, observed |-> observed, desired |-> AclDesired,
     rendered |-> AclRender(observed), rules |-> Len(answers.lines),
     attachments |-> Cardinality(answers.attached), passed |-> AclAssured(answers)]

AclBound(evidence) ==
    /\ evidence.envelope = AclEnvelope
    /\ evidence.desired = AclDesired
    /\ evidence.rendered = AclRender(evidence.observed)
    /\ evidence.rules = 3 /\ evidence.attachments = 1
    /\ evidence.passed

\* What the policy forbids, and what it must leave alone.
Protected(net) ==
    \A k \in Kinds \ {"https"} : ~Delivered(net, Flow("10", "20", k))
Preserved(net) ==
    /\ Delivered(net, Flow("10", "20", "https"))
    /\ \A k \in Kinds : /\ Delivered(net, Flow("20", "10", k))
                        /\ \A v \in Vids : Delivered(net, Flow(v, v, k))
=============================================================================
