-------------------------- MODULE InvestmentEngine --------------------------
(***************************************************************************)
(* The deterministic half of investment reasoning: what a Signal Fact is   *)
(* worth, which layer assessments it supports, which topology moves a      *)
(* round may evaluate, which proposals become transmissions, how a draft   *)
(* is normalised and what the final gate objects to.                       *)
(* Sources: src/capabilities/investment/internal/{engine,models,context}.py*)
(*                                                                         *)
(* A context is [facts, events, anchors, chains]:                          *)
(*   fact   [id, kind, src, tgt, anchor, dir, conf, hs, events, live]      *)
(*   anchor [id, layer]  with layer the ImpactLayer of its entity type     *)
(*   chain  [id, nodes, edges], edge [id, src, tgt]                        *)
(* "live" stands for the comparisons of valid_at, invalid_at and           *)
(* expected_end_at with the frozen decision time. Prose (summary,          *)
(* reasoning, mechanism, risks) is left out: no gate reads it.             *)
(***************************************************************************)
EXTENDS Integers, FiniteSets

\* What stands for the parent of a first-hop move, which has none.
NoParent == [hop |-> 0]

Horizon == {"SHORT", "MEDIUM", "LONG"}
Confidence == {"LOW", "MEDIUM", "HIGH"}
Direction == {"UP", "DOWN", "STABLE", "MIXED", "UNKNOWN"}
Trend == {"WARMING", "COOLING", "DIVERGENT", "NO_MATERIAL_CHANGE",
          "INSUFFICIENT_EVIDENCE"}

-----------------------------------------------------------------------------
(* Confidence labels and scores. A score is kept in units of 1/10000, the  *)
(* four decimals the code rounds to; every input is a multiple of 0.01 of  *)
(* the step before, so rounding half to even and half up agree.            *)

Rank == [LOW |-> 0, MEDIUM |-> 1, HIGH |-> 2]

MinimumConfidence(S) ==
  IF S = {} THEN "LOW"
  ELSE CHOOSE c \in S : \A d \in S : Rank[c] <= Rank[d]

Degrade(c) == CASE c = "HIGH" -> "MEDIUM" [] OTHER -> "LOW"

Score == [LOW |-> 4000, MEDIUM |-> 7000, HIGH |-> 10000]

InclusionThreshold == 4000
\* Fault: a bound that weak evidence can reach.
LaxContinuation == 6400

ContinuationThreshold == 6500

AtMost(a, b) == IF a <= b THEN a ELSE b
AtLeast(a, b) == IF a >= b THEN a ELSE b

PathScore(upstream, conf, assumptions) ==
  AtLeast(0, AtMost(10000, ((6 * upstream + 4 * Score[conf] + 5) \div 10)
                           - AtMost(800 * assumptions, 2400)))

-----------------------------------------------------------------------------
(* Trends.                                                                 *)

TrendFromDirections(D) ==
  IF "MIXED" \in D \/ {"UP", "DOWN"} \subseteq D THEN "DIVERGENT"
  ELSE IF "UP" \in D THEN "WARMING"
  ELSE IF "DOWN" \in D THEN "COOLING"
  ELSE IF "STABLE" \in D THEN "NO_MATERIAL_CHANGE"
  ELSE "INSUFFICIENT_EVIDENCE"

ReduceTrend(T) ==
  IF "DIVERGENT" \in T \/ {"WARMING", "COOLING"} \subseteq T THEN "DIVERGENT"
  ELSE IF "WARMING" \in T THEN "WARMING"
  ELSE IF "COOLING" \in T THEN "COOLING"
  ELSE IF "NO_MATERIAL_CHANGE" \in T THEN "NO_MATERIAL_CHANGE"
  ELSE "INSUFFICIENT_EVIDENCE"

-----------------------------------------------------------------------------
(* Facts and assessments.                                                  *)

IsActiveSignal(f) ==
  /\ f.kind = "SIGNAL"
  /\ f.anchor # "IndustryChain"
  /\ f.dir \in Direction \ {"UNKNOWN"}
  /\ f.hs # {}
  /\ f.conf \in Confidence
  /\ f.live

Eligible(facts, events) ==
  {f \in facts : IsActiveSignal(f) /\ f.events \cap events # {}}

Touches(f, n) == n \in {f.src, f.tgt}

Ids(S) == {x.id : x \in S}

\* One assessment per anchor of the layer that has an attached, event-backed
\* Signal. "proposal" is the agent's batch, a function on some of the anchors;
\* an anchor it leaves out, or calls INSUFFICIENT_EVIDENCE, gets the result
\* and the confidence its Signals have.
LayerAssessment(layer, a, attached, events, proposal) ==
  LET heard == a.id \in DOMAIN proposal
               /\ proposal[a.id].result # "INSUFFICIENT_EVIDENCE"
  IN  [layer   |-> layer,
       anchor  |-> a.id,
       signals |-> Ids(attached),
       events  |-> (UNION {f.events : f \in attached}) \cap events,
       hs      |-> UNION {f.hs : f \in attached},
       result  |-> IF heard THEN proposal[a.id].result
                   ELSE TrendFromDirections({f.dir : f \in attached}),
       conf    |-> IF heard THEN proposal[a.id].conf
                   ELSE MinimumConfidence({f.conf : f \in attached})]

AttachedSignals(facts, events, a) ==
  {f \in Eligible(facts, events) : Touches(f, a.id)}

BuildLayerAssessments(facts, events, anchors, layer, proposal) ==
  {LayerAssessment(layer, a, AttachedSignals(facts, events, a), events, proposal) :
     a \in {b \in anchors : b.layer = layer /\ AttachedSignals(facts, events, b) # {}}}

NodeAssessments(assessments, n) ==
  {x \in assessments : x.layer = "INDUSTRY" /\ x.anchor = n}

\* The nodes of a chain from which the first round may start.
SignalRootNodes(facts, events, assessments, chain) ==
  LET active == Eligible(facts, events)
  IN  {n \in chain.nodes :
         \/ \E f \in active : Touches(f, n)
         \/ \E x \in NodeAssessments(assessments, n) : x.signals \subseteq Ids(active)}

-----------------------------------------------------------------------------
(* One cross-layer proposal [s, t, mech, conf]: a causal bridge when a     *)
(* live ordinary Fact carries it, background when both ends share an Event,*)
(* and otherwise a hypothesis that stays out of the accepted list.         *)

Bridges(facts, p) ==
  {f \in facts : f.id \in p.mech /\ f.kind = "ORDINARY" /\ f.live}

CrossItem(p, mech, conf, relation) ==
  [s |-> p.s, t |-> p.t, mech |-> mech, conf |-> conf, relation |-> relation]

JudgeCrossLayer(facts, p) ==
  LET conf == MinimumConfidence({p.conf, p.s.conf, p.t.conf})
  IN  IF Bridges(facts, p) # {}
      THEN {CrossItem(p, {f.id}, conf, "CROSS_LAYER") : f \in Bridges(facts, p)}
      ELSE IF p.s.events \cap p.t.events # {}
      THEN {CrossItem(p, {}, Degrade(conf), "SAME_SOURCE_SIGNAL")}
      ELSE {CrossItem(p, {}, Degrade(conf), "CANDIDATE")}

-----------------------------------------------------------------------------
(* Topology moves and transmissions. A transmission is its move, what the  *)
(* agent said of it, and what the engine derives; its identity in the code *)
(* is a digest of that content, and here the record itself.                *)

\* Sets that hold t and, with a transmission, the accepted one it continues.
ParentClosed(accepted, t) ==
  {S \in {P \cup {t} : P \in SUBSET accepted} :
     \A v \in S : v.parent \in accepted => v.parent \in S}

\* What a walk from t through accepted parents comes by.
Ancestors(accepted, t) ==
  LET closed == ParentClosed(accepted, t)
  IN  {u \in accepted \cup {t} : \A S \in closed : u \in S}

VisitedNodes(accepted, t) ==
  UNION {{u.src, u.tgt} : u \in Ancestors(accepted, t)}

RootFrontiers(facts, events, assessments, roots, chain) ==
  UNION {
    LET at == {f \in Eligible(facts, events) : Touches(f, n)}
        on == NodeAssessments(assessments, n)
    IN  {[node |-> n, horizon |-> h, parent |-> NoParent, visited |-> {n},
          facts  |-> Ids({f \in at : h \in f.hs}),
          assess |-> {x \in on : h \in x.hs}] :
           h \in UNION {y.hs : y \in at \cup on}}
    : n \in roots[chain.id]}

Frontier(t, visited) ==
  [node |-> t.tgt, horizon |-> t.horizon, parent |-> t, visited |-> visited,
   facts |-> {}, assess |-> {}]

Reached(accepted, chain, round) ==
  {t \in accepted : t.chain = chain.id /\ t.hop = round - 1}

\* Fault: only the last step is remembered as visited.
ForgetfulFrontiers(accepted, chain, round) ==
  {Frontier(t, {t.src, t.tgt}) :
     t \in {u \in Reached(accepted, chain, round) : u.score >= ContinuationThreshold}}

\* Fault: every transmission is continued, however weak.
EveryFrontier(accepted, chain, round) ==
  {Frontier(t, VisitedNodes(accepted, t)) : t \in Reached(accepted, chain, round)}

ContinuedFrontiers(accepted, chain, round) ==
  {Frontier(t, VisitedNodes(accepted, t)) :
     t \in {u \in Reached(accepted, chain, round) : u.score >= ContinuationThreshold}}

\* Where a round continues from: every horizon a root node has evidence for,
\* later every transmission of the round before that scored high enough.
Frontiers(facts, events, assessments, accepted, roots, chain, round) ==
  IF round = 1 THEN RootFrontiers(facts, events, assessments, roots, chain)
  ELSE ContinuedFrontiers(accepted, chain, round)

Other(e, n) == IF e.src = n THEN e.tgt ELSE e.src

Candidate(chain, e, f) ==
  [chain |-> chain.id, edge |-> e.id, src |-> f.node, tgt |-> Other(e, f.node),
   flow |-> IF e.src = f.node THEN "ALONG_EDGE" ELSE "AGAINST_EDGE",
   horizon |-> f.horizon, facts |-> f.facts, assess |-> f.assess,
   parent |-> f.parent]

Candidates(facts, events, assessments, accepted, chains, roots, round) ==
  UNION {UNION {
    {Candidate(chain, e, f) :
       e \in {d \in chain.edges : /\ f.node \in {d.src, d.tgt}
                                  /\ Other(d, f.node) \notin f.visited}}
    : f \in Frontiers(facts, events, assessments, accepted, roots, chain, round)}
    : chain \in chains}

Conclusion(t) == <<t.chain, t.tgt, t.var, t.horizon, t.dir>>

Conclusions(S) == {Conclusion(t) : t \in S}

OnTopology(chains, c) ==
  \E chain \in chains : \E e \in chain.edges :
    /\ chain.id = c.chain
    /\ e.id = c.edge
    /\ <<c.src, c.tgt>> = IF c.flow = "ALONG_EDGE" THEN <<e.src, e.tgt>>
                          ELSE <<e.tgt, e.src>>

\* What a move rests on: [roots, confs, upstream], or nothing when its
\* evidence is gone or does not belong to its source node.
FirstHopSupport(facts, events, c) ==
  LET cited == {f \in Eligible(facts, events) : f.id \in c.facts}
      on == {x \in c.assess : x.layer = "INDUSTRY" /\ x.anchor = c.src}
      confs == {f.conf : f \in cited} \cup {x.conf : x \in on}
  IN  IF \/ cited = {} /\ on = {}
         \/ cited # {} /\ ~\E f \in cited : Touches(f, c.src)
      THEN {}
      ELSE {[roots |-> Ids(cited) \cup UNION {x.signals : x \in on},
             confs |-> confs,
             upstream |-> Score[MinimumConfidence(confs)]]}

LaterHopSupport(facts, events, accepted, c, round) ==
  {[roots |-> t.roots, confs |-> {t.conf}, upstream |-> t.score] :
     t \in {u \in accepted : /\ u = c.parent
                             /\ u.chain = c.chain
                             /\ u.hop = round - 1
                             /\ u.tgt = c.src
                             /\ u.horizon = c.horizon
                             /\ u.roots # {}
                             /\ u.roots \subseteq Ids(Eligible(facts, events))}}

Support(facts, events, accepted, c, round) ==
  IF round = 1 THEN FirstHopSupport(facts, events, c)
  ELSE LaterHopSupport(facts, events, accepted, c, round)

\* Fault: a hop keeps the confidence of what it rests on.
UndegradedTransmission(c, p, s, round) ==
  [chain |-> c.chain, edge |-> c.edge, src |-> c.src, tgt |-> c.tgt,
   flow |-> c.flow, horizon |-> c.horizon, facts |-> c.facts,
   assess |-> c.assess, parent |-> c.parent,
   var |-> p.var, dir |-> p.dir,
   conf |-> MinimumConfidence({p.conf} \cup s.confs),
   hop |-> round, roots |-> s.roots,
   score |-> PathScore(s.upstream, p.conf, p.assume)]

Transmission(c, p, s, round) ==
  LET cap == Degrade(MinimumConfidence(s.confs))
  IN  [chain |-> c.chain, edge |-> c.edge, src |-> c.src, tgt |-> c.tgt,
       flow |-> c.flow, horizon |-> c.horizon, facts |-> c.facts,
       assess |-> c.assess, parent |-> c.parent,
       var |-> p.var, dir |-> p.dir,
       conf |-> MinimumConfidence({p.conf, IF p.assume > 0 THEN Degrade(cap) ELSE cap}),
       hop |-> round, roots |-> s.roots,
       score |-> PathScore(s.upstream, p.conf, p.assume)]

\* Fault: the inclusion bound is not applied.
JudgeEveryProposal(facts, events, chains, accepted, c, p, round) ==
  {t \in {Transmission(c, p, s, round) : s \in Support(facts, events, accepted, c, round)} :
     OnTopology(chains, c) /\ Conclusion(t) \notin Conclusions(accepted)}

\* One turn of the validation loop: the transmissions (at most one) that the
\* proposal p, [var, dir, conf, assume], for the candidate c adds to those
\* already "accepted" in earlier rounds and earlier in this one.
JudgeProposal(facts, events, chains, accepted, c, p, round) ==
  {t \in {Transmission(c, p, s, round) : s \in Support(facts, events, accepted, c, round)} :
     /\ OnTopology(chains, c)
     /\ t.score >= InclusionThreshold
     /\ Conclusion(t) \notin Conclusions(accepted)}

-----------------------------------------------------------------------------
(* The draft: one view [trend, conf, facts, assess, txs] per chain node.   *)

NodeEvidence(facts, events, assessments, accepted, chain, n) ==
  [facts  |-> {f \in Eligible(facts, events) : Touches(f, n)},
   txs    |-> {t \in accepted : t.chain = chain.id /\ t.tgt = n},
   assess |-> {x \in NodeAssessments(assessments, n) :
                 x.signals \subseteq Ids(Eligible(facts, events))}]

SupportedHorizons(ev) ==
  (UNION {f.hs : f \in ev.facts}) \cup {t.horizon : t \in ev.txs}
    \cup (UNION {x.hs : x \in ev.assess})

DerivedTrend(ev, h) ==
  ReduceTrend({TrendFromDirections({f.dir : f \in {g \in ev.facts : h \in g.hs}}
                                   \cup {t.dir : t \in {u \in ev.txs : u.horizon = h}})}
              \cup {x.result : x \in {y \in ev.assess : h \in y.hs}})

\* Fault: a claim for a horizon without evidence stands.
TrustingNormalizeNode(ev, claim) ==
  [trend |-> [h \in Horizon |->
                IF claim.trend[h] = "INSUFFICIENT_EVIDENCE" THEN DerivedTrend(ev, h)
                ELSE claim.trend[h]],
   conf |-> claim.conf, facts |-> Ids(ev.facts), txs |-> ev.txs, assess |-> ev.assess]

NoClaim == [trend |-> [h \in Horizon |-> "INSUFFICIENT_EVIDENCE"], conf |-> "LOW"]

\* What an answer says of a node of a chain: a trend per horizon, and a
\* confidence. A node or chain it leaves out gets a view of its own.
ClaimOf(answer, chain, n) ==
  IF <<chain.id, n>> \in DOMAIN answer THEN answer[<<chain.id, n>>] ELSE NoClaim

NormalizeNode(ev, claim) ==
  LET trend == [h \in Horizon |->
                  IF h \notin SupportedHorizons(ev) THEN "INSUFFICIENT_EVIDENCE"
                  ELSE IF claim.trend[h] = "INSUFFICIENT_EVIDENCE" THEN DerivedTrend(ev, h)
                  ELSE claim.trend[h]]
  IN  [trend |-> trend,
       conf |-> IF \A h \in Horizon : trend[h] = "INSUFFICIENT_EVIDENCE" THEN "LOW"
                ELSE claim.conf,
       facts |-> Ids(ev.facts), txs |-> ev.txs, assess |-> ev.assess]

NormalizeDraft(facts, events, assessments, accepted, chains, answer) ==
  {[chain |-> chain.id,
    nodes |-> [n \in chain.nodes |->
                 NormalizeNode(NodeEvidence(facts, events, assessments, accepted, chain, n),
                               ClaimOf(answer, chain, n))]] : chain \in chains}

Directional(view) == \E h \in Horizon : view.trend[h] # "INSUFFICIENT_EVIDENCE"

-----------------------------------------------------------------------------
(* The final gate: references that the frozen context does not carry.      *)

HasLineage(active, accepted, assessments, c, n, h) ==
  \/ \E f \in active : /\ f.id \in c.nodes[n].facts
                       /\ h \in f.hs
                       /\ Touches(f, n)
  \/ \E t \in c.nodes[n].txs \cap accepted :
        t.chain = c.chain /\ t.tgt = n /\ t.horizon = h /\ t.roots \subseteq Ids(active)
  \/ \E x \in c.nodes[n].assess \cap NodeAssessments(assessments, n) :
        h \in x.hs /\ x.signals \subseteq Ids(active)

LineageIssues(facts, events, assessments, accepted, draft) ==
  UNION {UNION {{<<c, n, h>> :
     h \in {x \in Horizon :
            /\ c.nodes[n].trend[x] # "INSUFFICIENT_EVIDENCE"
            /\ ~HasLineage(Eligible(facts, events), accepted, assessments, c, n, x)}}
     : n \in DOMAIN c.nodes} : c \in draft}

UngroundedAssessments(facts, events, assessments) ==
  {x \in assessments : \/ x.signals = {}
                       \/ ~(x.signals \subseteq Ids(Eligible(facts, events)))
                       \/ x.events = {}
                       \/ ~(x.events \subseteq events)}

UngroundedCrossItems(facts, assessments, items) ==
  {i \in items : \/ ~({i.s, i.t} \subseteq assessments)
                 \/ ~(i.mech \subseteq Ids({f \in facts : f.kind = "ORDINARY"}))}

UngroundedTransmissions(facts, events, accepted) ==
  {t \in accepted : t.roots = {} \/ ~(t.roots \subseteq Ids(Eligible(facts, events)))}
=============================================================================
