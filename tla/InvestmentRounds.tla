-------------------------- MODULE InvestmentRounds --------------------------
(***************************************************************************)
(* One run of the layered investment reasoning workflow over a frozen      *)
(* context: three layers are assessed, the lower two are related to those  *)
(* above, the industry layer is expanded with its chains and propagated    *)
(* round by round, a draft is synthesised, normalised, gated and reviewed. *)
(* Sources: src/capabilities/investment/internal/local_runtime.py and      *)
(* src/capabilities/investment/functions/reasoning.py.                     *)
(*                                                                         *)
(* What an agent returns is any value of its output contract: a list of    *)
(* proposals is handled one by one, in the order and the number the model  *)
(* chooses, and a reviewer flags any subset of what it is shown.           *)
(***************************************************************************)
EXTENDS InvestmentEngine

CONSTANTS
  Contexts,        \* the frozen contexts a run may start from
  LayerProposals,  \* what an agent may say of one anchor: [result, conf]
  CrossConfidence, \* confidences of cross-layer proposals
  Proposals,       \* what an agent may say of a topology move: [var, dir, conf, assume]
  Answers,         \* answers of the synthesising agent: of a chain and node, [trend, conf]
  MaxHops,         \* request.max_hops
  MaxIds,          \* bound of the identity lists of a candidate
  MaxFacts,        \* bound of the facts kept for the industry context
  MaxTransmissions \* bound of the model: transmissions held at once

ASSUME MaxHopsAssumption == MaxHops \in 1 .. 5
ASSUME BoundsAssumption == {MaxIds, MaxFacts, MaxTransmissions} \subseteq Nat

\* The contracts of the agents' answers, and facts told apart by their identity.
ASSUME ProposalsAssumption ==
  /\ \A p \in LayerProposals : p.conf \in Confidence
  /\ \A p \in Proposals : p.conf \in Confidence /\ p.assume \in Nat
ASSUME ContextsAssumption ==
  \A k \in Contexts : \A f, g \in k.facts : f.id = g.id => f = g

VARIABLES
  ctx,       \* the context of this run
  phase,     \* what the workflow does next
  layer,     \* the layer under analysis
  assess,    \* assessments of the layers done so far
  related,   \* cross-layer items of the layers done so far
  cross,     \* the relation pass of this layer
  facts,     \* facts of the industry context, cut to MaxFacts
  roots,     \* per chain, where propagation may start, fixed before the cut
  round,     \* the hop under propagation
  accepted,  \* transmissions of the finished rounds
  fresh,     \* transmissions of this round that passed validation
  flagged,   \* those of this round a reviewer objected to
  fixed,     \* their replacements
  draft,     \* the normalised draft
  verdict    \* outcome of the final review

crossVars == <<related, cross>>
topologyVars == <<facts, roots, round, accepted, fresh, flagged, fixed>>
vars == <<ctx, phase, layer, assess, crossVars, topologyVars, draft, verdict>>

NoCross == [accepted |-> {}, candidates |-> {}, flagged |-> {}, fixed |-> {}, again |-> {}]

Init ==
  /\ ctx \in Contexts
  /\ phase = "assess"
  /\ layer = "GEOPOLITICAL"
  /\ assess = {}
  /\ related = {}
  /\ cross = NoCross
  /\ facts = ctx.facts
  /\ roots = [c \in Ids(ctx.chains) |-> {}]
  /\ round = 0
  /\ accepted = {} /\ fresh = {} /\ flagged = {} /\ fixed = {}
  /\ draft = {}
  /\ verdict = "none"

-----------------------------------------------------------------------------
(* Layers.                                                                 *)

LayerAnchors(l) == {a \in ctx.anchors : a.layer = l}

Sources(S, l) ==
  {x \in S : x.layer \in IF l = "INDUSTRY" THEN {"GEOPOLITICAL", "MACRO_ECONOMIC"}
                         ELSE {"GEOPOLITICAL"}}

Targets(S, l) == {x \in S : x.layer = l}

AfterLayer(l) ==
  /\ phase' = IF l = "INDUSTRY" THEN "expand" ELSE "assess"
  /\ layer' = CASE l = "GEOPOLITICAL" -> "MACRO_ECONOMIC" [] OTHER -> "INDUSTRY"

\* A layer with supplemental queries is reasoned a second time over the same
\* frozen Signals, and the second answer replaces the first: the proposal
\* chosen here is the last one.
AssessLayer ==
  /\ phase = "assess"
  /\ \E heard \in SUBSET Ids(LayerAnchors(layer)) : \E proposal \in [heard -> LayerProposals] :
       LET all == assess \cup BuildLayerAssessments(ctx.facts, ctx.events, ctx.anchors,
                                                    layer, proposal)
       IN  /\ assess' = all
           /\ IF layer # "GEOPOLITICAL" /\ Sources(all, layer) # {} /\ Targets(all, layer) # {}
              THEN phase' = "relate" /\ UNCHANGED layer
              ELSE AfterLayer(layer)
  /\ UNCHANGED <<ctx, crossVars, topologyVars, draft, verdict>>

Pair(i) == <<i.s, i.t>>
Pairs(S) == {Pair(i) : i \in S}

CrossProposals ==
  [s : Sources(assess, layer), t : Targets(assess, layer),
   mech : SUBSET Ids({f \in ctx.facts : f.kind = "ORDINARY"}), conf : CrossConfidence]

\* A pair is judged once in a pass: a later proposal for it is skipped.
RelateLayers(p) ==
  /\ phase = "relate"
  /\ Pair(p) \notin Pairs(cross.accepted \cup cross.candidates)
  /\ \E i \in JudgeCrossLayer(ctx.facts, p) :
       cross' = IF i.relation = "CANDIDATE"
                THEN [cross EXCEPT !.candidates = @ \cup {i}]
                ELSE [cross EXCEPT !.accepted = @ \cup {i}]
  /\ UNCHANGED <<ctx, phase, layer, assess, related, topologyVars, draft, verdict>>

FinishRelations(done) ==
  /\ related' = related \cup done.accepted \cup done.candidates
  /\ cross' = NoCross
  /\ AfterLayer(layer)

\* The reviewer flags some accepted relations, or none (or nothing is there to
\* review) and the layer is finished.
ReviewRelations ==
  /\ phase = "relate"
  /\ \E bad \in SUBSET cross.accepted :
       IF bad = {}
       THEN FinishRelations(cross)
       ELSE /\ cross' = [cross EXCEPT !.accepted = @ \ bad, !.flagged = bad]
            /\ phase' = "repairRelations"
            /\ UNCHANGED <<layer, related>>
  /\ UNCHANGED <<ctx, assess, topologyVars, draft, verdict>>

RepairRelation(p) ==
  /\ phase = "repairRelations"
  /\ Pair(p) \in Pairs(cross.flagged)
  /\ Pair(p) \notin Pairs(cross.fixed \cup cross.again)
  /\ \E i \in JudgeCrossLayer(ctx.facts, p) :
       cross' = IF i.relation = "CANDIDATE"
                THEN [cross EXCEPT !.again = @ \cup {i}]
                ELSE [cross EXCEPT !.fixed = @ \cup {i}]
  /\ UNCHANGED <<ctx, phase, layer, assess, related, topologyVars, draft, verdict>>

Dropped(i) == [i EXCEPT !.relation = "CANDIDATE"]

\* Fault: a flagged relation without a repair is dropped silently.
SettledForgetting(kept) ==
  [cross EXCEPT !.accepted = @ \cup kept, !.candidates = @ \cup cross.again]

SettledRelations(kept) ==
  [cross EXCEPT
     !.accepted = @ \cup kept,
     !.candidates = @ \cup cross.again
                      \cup {Dropped(i) : i \in {j \in cross.flagged : Pair(j) \notin Pairs(kept)}}]

SettleRelations ==
  /\ phase = "repairRelations"
  /\ \E kept \in SUBSET cross.fixed : FinishRelations(SettledRelations(kept))
  /\ UNCHANGED <<ctx, assess, topologyVars, draft, verdict>>

-----------------------------------------------------------------------------
(* Topology propagation.                                                   *)

Accepted(S) == {i \in S : i.relation # "CANDIDATE"}

Mechanisms == {f \in ctx.facts : \E i \in Accepted(related) : f.id \in i.mech}

\* The roots are read from the facts before the cut. The cut keeps mechanism
\* facts first; which of the others it drops depends on retrieval order.
ExpandIndustry ==
  /\ phase = "expand"
  /\ roots' = [c \in Ids(ctx.chains) |->
                 UNION {SignalRootNodes(ctx.facts, ctx.events, assess, chain) :
                          chain \in {d \in ctx.chains : d.id = c}}]
  /\ \E kept \in SUBSET ctx.facts :
       /\ Cardinality(kept) = AtMost(MaxFacts, Cardinality(ctx.facts))
       /\ Mechanisms \subseteq kept \/ kept \subseteq Mechanisms
       /\ facts' = kept
  /\ round' = 1
  /\ phase' = IF \E c \in Ids(ctx.chains) : roots'[c] # {} THEN "enumerate" ELSE "synthesize"
  /\ UNCHANGED <<ctx, layer, assess, crossVars, accepted, fresh, flagged, fixed, draft, verdict>>

All == accepted \cup fresh \cup flagged \cup fixed

Industry == Targets(assess, "INDUSTRY")

Moves == Candidates(facts, ctx.events, Industry, accepted, ctx.chains, roots, round)

TooLong(c) == Cardinality(c.facts) > MaxIds \/ Cardinality(c.assess) > MaxIds

\* A candidate list longer than its contract allows ends the run.
StartRound ==
  /\ phase = "enumerate"
  /\ phase' = CASE \E c \in Moves : TooLong(c) -> "failed"
                [] Moves = {} -> "synthesize"
                [] OTHER -> "propose"
  /\ UNCHANGED <<ctx, layer, assess, crossVars, topologyVars, draft, verdict>>

TooManyRoots(new) == \E t \in new : Cardinality(t.roots) > MaxIds

Propose(c, p) ==
  /\ phase = "propose"
  /\ Cardinality(All) < MaxTransmissions
  /\ LET new == JudgeProposal(facts, ctx.events, ctx.chains, accepted \cup fresh, c, p, round)
     IN  /\ new # {}
         /\ IF TooManyRoots(new) THEN phase' = "failed" /\ UNCHANGED fresh
            ELSE fresh' = fresh \cup new /\ UNCHANGED phase
  /\ UNCHANGED <<ctx, layer, assess, crossVars, facts, roots, round, accepted, flagged, fixed,
                 draft, verdict>>

FinishRound(added) ==
  /\ accepted' = accepted \cup added
  /\ fresh' = {} /\ flagged' = {} /\ fixed' = {}
  /\ IF round = MaxHops
     THEN phase' = "synthesize" /\ UNCHANGED round
     ELSE phase' = "enumerate" /\ round' = round + 1

ReviewRound ==
  /\ phase = "propose"
  /\ \E bad \in SUBSET fresh :
       IF bad = {}
       THEN FinishRound(fresh)
       ELSE /\ fresh' = fresh \ bad
            /\ flagged' = bad
            /\ phase' = "repair"
            /\ UNCHANGED <<round, accepted, fixed>>
  /\ UNCHANGED <<ctx, layer, assess, crossVars, facts, roots, draft, verdict>>

MoveOf(t) ==
  [chain |-> t.chain, edge |-> t.edge, src |-> t.src, tgt |-> t.tgt, flow |-> t.flow,
   horizon |-> t.horizon, facts |-> t.facts, assess |-> t.assess, parent |-> t.parent]

\* Only the moves of flagged transmissions may be proposed again, and what
\* passed review keeps its conclusions.
Repair(c, p) ==
  /\ phase = "repair"
  /\ c \in {MoveOf(t) : t \in flagged}
  /\ Cardinality(All) < MaxTransmissions
  /\ LET new == JudgeProposal(facts, ctx.events, ctx.chains, accepted \cup fresh \cup fixed,
                              c, p, round)
     IN  new # {} /\ fixed' = fixed \cup new
  /\ UNCHANGED <<ctx, phase, layer, assess, crossVars, facts, roots, round, accepted, fresh,
                 flagged, draft, verdict>>

SettleRound ==
  /\ phase = "repair"
  /\ \E kept \in SUBSET fixed : FinishRound(fresh \cup kept)
  /\ UNCHANGED <<ctx, layer, assess, crossVars, facts, roots, draft, verdict>>

-----------------------------------------------------------------------------
(* Synthesis and the final review.                                         *)

\* Without an industry assessment or a Signal root no agent is asked.
DraftAnswers ==
  IF Industry = {} /\ \A c \in Ids(ctx.chains) : roots[c] = {} THEN {<<>>} ELSE Answers

Normalized(answer) ==
  NormalizeDraft(facts, ctx.events, Industry, accepted, ctx.chains, answer)

Synthesize ==
  /\ phase = "synthesize"
  /\ \E answer \in DraftAnswers : draft' = Normalized(answer)
  /\ phase' = "gate"
  /\ UNCHANGED <<ctx, layer, assess, crossVars, topologyVars, verdict>>

\* Fault: the gate looks at the draft and trusts what led to it.
HardIssuesOfDraft == LineageIssues(facts, ctx.events, Industry, accepted, draft) # {}

HardIssues ==
  \/ UngroundedAssessments(facts, ctx.events, assess) # {}
  \/ UngroundedCrossItems(facts, assess, related) # {}
  \/ UngroundedTransmissions(facts, ctx.events, accepted) # {}
  \/ LineageIssues(facts, ctx.events, Industry, accepted, draft) # {}

RequiresSemanticReview ==
  \/ assess # {}
  \/ accepted # {}
  \/ \E c \in draft : \E n \in DOMAIN c.nodes : Directional(c.nodes[n])

\* Missing references are never shown to a reviewer; a run that asserts
\* nothing is an accepted abstention; otherwise the reviewer accepts, objects,
\* or returns something that is not a review.
Gate ==
  /\ phase = "gate"
  /\ IF HardIssues THEN phase' = "done" /\ verdict' = "rejected"
     ELSE IF ~RequiresSemanticReview THEN phase' = "done" /\ verdict' = "abstained"
     ELSE \/ phase' = "done" /\ verdict' \in {"accepted", "rejected"}
          \/ phase' = "resynthesize" /\ UNCHANGED verdict
  /\ UNCHANGED <<ctx, layer, assess, crossVars, topologyVars, draft>>

\* One repair: the draft is synthesised and normalised again, gated again, and
\* reviewed a second and last time.
RepairDraft ==
  /\ phase = "resynthesize"
  /\ \E answer \in DraftAnswers : draft' = Normalized(answer)
  /\ phase' = "regate"
  /\ UNCHANGED <<ctx, layer, assess, crossVars, topologyVars, verdict>>

Regate ==
  /\ phase = "regate"
  /\ phase' = "done"
  /\ verdict' \in IF HardIssues THEN {"rejected"} ELSE {"accepted", "rejected"}
  /\ UNCHANGED <<ctx, layer, assess, crossVars, topologyVars, draft>>

Next ==
  \/ AssessLayer
  \/ \E p \in CrossProposals : RelateLayers(p) \/ RepairRelation(p)
  \/ ReviewRelations
  \/ SettleRelations
  \/ ExpandIndustry
  \/ StartRound
  \/ \E c \in Moves, p \in Proposals : Propose(c, p) \/ Repair(c, p)
  \/ ReviewRound
  \/ SettleRound
  \/ Synthesize
  \/ Gate
  \/ RepairDraft
  \/ Regate

Spec == Init /\ [][Next]_vars

-----------------------------------------------------------------------------
(* Properties.                                                             *)

\* Every variable holds a value of its kind.
TypeOK ==
  /\ ctx \in Contexts
  /\ phase \in {"assess", "relate", "repairRelations", "expand", "enumerate", "propose",
                "repair", "synthesize", "gate", "resynthesize", "regate", "done", "failed"}
  /\ layer \in {"GEOPOLITICAL", "MACRO_ECONOMIC", "INDUSTRY"}
  /\ facts \subseteq ctx.facts
  /\ round \in 0 .. MaxHops
  /\ \A t \in All : /\ t.hop \in 1 .. MaxHops
                    /\ t.score \in InclusionThreshold .. 10000
                    /\ t.conf \in Confidence
  /\ verdict \in {"none", "accepted", "rejected", "abstained"}

\* A path never comes back to a node it has passed: a transmission of hop k has
\* visited k + 1 different nodes, in a chain with cycles too, and whichever
\* transmissions were repaired or dropped on the way.
SimplePaths == \A t \in All : Cardinality(VisitedNodes(accepted, t)) = t.hop + 1

\* What passes review holds one transmission per conclusion (chain, node,
\* variable, horizon, direction), across rounds, repairs and parallel parents.
OneConclusionPerKey ==
  \A t, u \in accepted \cup fresh \cup fixed : Conclusion(t) = Conclusion(u) => t = u

\* A later hop continues a transmission that is still accepted, of the hop
\* before, in the same chain and horizon, strong enough to be continued, and
\* it carries exactly that transmission's Signal roots.
LineageClosed ==
  \A t \in All : t.hop > 1 =>
    /\ t.parent \in accepted
    /\ t.parent.hop = t.hop - 1
    /\ t.parent.chain = t.chain /\ t.parent.horizon = t.horizon
    /\ t.parent.tgt = t.src
    /\ t.parent.score >= ContinuationThreshold
    /\ t.parent.roots = t.roots

\* From the second hop on a conclusion is LOW confidence, whatever the agents
\* say and however strong the Signals are.
FarHopsAreLow == \A t \in All : t.hop >= 2 => t.conf = "LOW"

FirstHop(t) == CHOOSE u \in Ancestors(accepted, t) : u.hop = 1

\* Confidence decays along a path: far hops are LOW, and evidence of LOW
\* confidence reaches the neighbours of its node and no further, because the
\* best score it can start with is below the continuation bound.
ConfidenceDecays ==
  /\ FarHopsAreLow
  /\ \A t \in All : t.hop > 1 =>
       LET u == FirstHop(t)
       IN  /\ \A f \in facts : f.id \in u.facts => f.conf # "LOW"
           /\ \A x \in u.assess : x.conf # "LOW"

\* What propagation accepts is sound as a graph: simple paths, closed under the
\* steps they continue, one for each conclusion, of decaying confidence, scored
\* as admitted.
TransmissionsSound ==
  TypeOK /\ SimplePaths /\ OneConclusionPerKey /\ LineageClosed /\ ConfidenceDecays

\* A pair the agent related is never lost: an objection of the reviewer, a
\* repair or its failure leaves it related or records it as a hypothesis.
PairsNeverVanish ==
  [][ Pairs(related \cup cross.accepted \cup cross.candidates \cup cross.flagged)
        \subseteq Pairs(related' \cup cross'.accepted \cup cross'.candidates
                       \cup cross'.flagged) ]_vars

\* No reviewed conclusion is published that the frozen context cannot support:
\* assessments, relations and transmissions cite Signals that are still in it,
\* even when the cut dropped some after the roots were read.
AcceptedIsGrounded ==
  verdict \in {"accepted", "abstained"} =>
    /\ \A x \in assess : x.signals # {} /\ x.signals \subseteq Ids(Eligible(facts, ctx.events))
    /\ \A t \in accepted : t.roots # {} /\ t.roots \subseteq Ids(Eligible(facts, ctx.events))
    /\ \A i \in related : i.mech \subseteq Ids(facts)
    /\ \A c \in draft : \A n \in DOMAIN c.nodes, h \in Horizon :
         c.nodes[n].trend[h] # "INSUFFICIENT_EVIDENCE" =>
           \/ \E f \in Eligible(facts, ctx.events) : Touches(f, n) /\ h \in f.hs
           \/ \E t \in accepted : t.chain = c.chain /\ t.tgt = n /\ t.horizon = h
           \/ \E x \in NodeAssessments(assess, n) : h \in x.hs

\* The gate raises no false alarm: when no fact was cut, whatever the agents
\* claimed, the normalised draft and everything behind it pass.
NormalizedPassesGate ==
  phase \in {"gate", "regate"} /\ facts = ctx.facts => ~HardIssues

-----------------------------------------------------------------------------
(* What every reachable state satisfies, from which the properties follow. *)

Before == {"assess", "relate", "repairRelations", "expand"}

\* What is under way in each phase: a round only where there is one, its work
\* only while it is proposed or repaired, objections only while they are settled.
PhaseInv ==
  /\ ctx \in Contexts
  /\ phase \in Before \cup {"enumerate", "propose", "repair", "synthesize", "gate",
                            "resynthesize", "regate", "done", "failed"}
  /\ layer \in {"GEOPOLITICAL", "MACRO_ECONOMIC", "INDUSTRY"}
  /\ facts \subseteq ctx.facts
  /\ round \in 0 .. MaxHops
  /\ IF phase \in Before THEN round = 0 /\ All = {} ELSE round # 0
  /\ phase \notin {"propose", "repair", "failed"} => fresh = {} /\ flagged = {} /\ fixed = {}
  /\ phase = "propose" => flagged = {} /\ fixed = {}
  /\ phase # "repairRelations" => cross.flagged = {}
  /\ phase \in {"relate", "repairRelations"} => layer # "GEOPOLITICAL"
  /\ phase # "done" <=> verdict = "none"
  /\ verdict \in {"none", "accepted", "rejected", "abstained"}

\* An assessment rests on Signals of scoped Events of the frozen context.
Grounded(x) ==
  /\ x.signals # {} /\ x.signals \subseteq Ids(Eligible(ctx.facts, ctx.events))
  /\ x.events # {} /\ x.events \subseteq ctx.events
  /\ x.conf \in Confidence

Items == related \cup cross.accepted \cup cross.candidates \cup cross.flagged
           \cup cross.fixed \cup cross.again

\* A cross-layer item relates an assessment to one of a layer above, through
\* ordinary Facts.
Related(i) ==
  /\ i = [s |-> i.s, t |-> i.t, mech |-> i.mech, conf |-> i.conf, relation |-> i.relation]
  /\ {i.s, i.t} \subseteq assess
  /\ i.t.layer \in {"MACRO_ECONOMIC", "INDUSTRY"}
  /\ i.t.layer = "MACRO_ECONOMIC" => i.s.layer = "GEOPOLITICAL"
  /\ i.mech \subseteq Ids({f \in ctx.facts : f.kind = "ORDINARY"})

UpperInv == /\ \A x \in assess : Grounded(x)
            /\ \A i \in Items : Related(i)
            /\ DOMAIN cross = {"accepted", "candidates", "flagged", "fixed", "again"}

\* No evidence of a first hop is of LOW confidence.
Firm(t) == /\ \A f \in facts : f.id \in t.facts => f.conf # "LOW"
           /\ \A x \in t.assess : x.conf # "LOW"

Continues(t, u) ==
  /\ u.hop = t.hop - 1
  /\ u.chain = t.chain /\ u.horizon = t.horizon
  /\ u.tgt = t.src
  /\ u.score >= ContinuationThreshold
  /\ u.roots = t.roots

\* What is true of a transmission by itself: a first hop from grounded evidence,
\* or a later one that continues one of the hop before.
Admitted(t) ==
  /\ t.hop \in 1 .. MaxHops
  /\ t.score \in InclusionThreshold .. 10000
  /\ t.roots # {} /\ t.roots \subseteq Ids(Eligible(ctx.facts, ctx.events))
  /\ t.conf \in {"LOW", "MEDIUM"}
  /\ t.hop = 1 => t.parent = NoParent /\ (t.score >= ContinuationThreshold => Firm(t))
  /\ t.hop > 1 => t.parent \in accepted /\ Continues(t, t.parent) /\ t.conf = "LOW"

\* Its path has a first hop and passes hop + 1 nodes.
Pathed(t) ==
  /\ IsFiniteSet(VisitedNodes(accepted, t))
  /\ Cardinality(VisitedNodes(accepted, t)) = t.hop + 1
  /\ \E u \in Ancestors(accepted, t) : u.hop = 1

PathInv == \A t \in All : Admitted(t) /\ Pathed(t)

\* A draft under review or reviewed is normalised, and only one that passed is not rejected.
DraftInv ==
  /\ phase \in {"gate", "regate", "done"} => \E answer \in DraftAnswers : draft = Normalized(answer)
  /\ verdict \in {"accepted", "abstained"} => ~HardIssues

RoundsInv == PhaseInv /\ UpperInv /\ PathInv /\ OneConclusionPerKey /\ DraftInv
=============================================================================
