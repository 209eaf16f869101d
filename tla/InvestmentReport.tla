-------------------------- MODULE InvestmentReport --------------------------
(***************************************************************************)
(* From a reviewed conclusion to the report and from the report to what is *)
(* published: anchors, transmission paths and chains with their basis and  *)
(* their Evidence, the cards on top, the rewriting of prose, and the shape *)
(* the Data service receives.                                              *)
(* Sources: src/capabilities/investment/internal/reporting.py,             *)
(* report_contract.py and report_publication.py.                           *)
(*                                                                         *)
(* A key is a digest of an identity and here a tuple holding it. Of all    *)
(* prose only the conclusion of a section is kept, as the version of it:   *)
(* it appears twice, in the section and on its card.                       *)
(***************************************************************************)
EXTENDS InvestmentEngine

CONSTANTS
  MaxGaps,   \* how many boundary edges of a chain name a gap that is shown
  MaxCards,  \* how many chains get a card
  MaxListed  \* how many nodes of its chain a card lists

NoReport == [status |-> "none"]
Skipped == [status |-> "SKIPPED"]

-----------------------------------------------------------------------------
(* Results, natures and Evidence.                                          *)

\* A report has no word for "no material change": it is pending, like silence.
ResultOf(T) ==
  LET material == T \ {"INSUFFICIENT_EVIDENCE", "NO_MATERIAL_CHANGE"}
  IN  IF "DIVERGENT" \in material \/ {"WARMING", "COOLING"} \subseteq material THEN "diverging"
      ELSE IF "WARMING" \in material THEN "warming"
      ELSE IF "COOLING" \in material THEN "cooling"
      ELSE "pending"

TrendsOf(view) == {view.trend[h] : h \in Horizon}

WindowOf(view) == {h \in Horizon : view.trend[h] # "INSUFFICIENT_EVIDENCE"}

\* Archived Event batches, [requests, published]: what each candidate rested
\* on and the Event it became.
ArchivedEvidence(batches, v) ==
  UNION {UNION {b.requests[k] : k \in {j \in DOMAIN b.published \cap DOMAIN b.requests :
                                         b.published[j] = v}} : b \in batches}

EvidenceFor(evidence, batches, v) ==
  ArchivedEvidence(batches, v) \cup (IF v \in DOMAIN evidence THEN evidence[v] ELSE {})

EvidenceOfEvents(ctx, batches, V) ==
  UNION {EvidenceFor(ctx.evidence, batches, v) : v \in V}

-----------------------------------------------------------------------------
(* The two upper layers.                                                   *)

LayerKey(l) == <<"layer", l>>
AnchorKey(a) == <<"anchor", a>>
ChainKey(c) == <<"chain", c>>
NodeKey(c, n) == <<"node", c, n>>

ReportAnchor(ctx, batches, items, a) ==
  LET on == {x \in items : x.anchor = a}
  IN  [key      |-> AnchorKey(a),
       result   |-> ResultOf({x.result : x \in on}),
       nature   |-> "direct_evidence",
       conf     |-> MinimumConfidence({x.conf : x \in on}),
       window   |-> UNION {x.hs : x \in on},
       evidence |-> EvidenceOfEvents(ctx, batches, UNION {x.events : x \in on})]

Target(type, key, result) == [type |-> type, key |-> key, result |-> result]

\* An industry target stands for its node in every chain that has it.
PathTargets(ctx, i) ==
  LET result == ResultOf({i.t.result})
  IN  IF i.t.layer = "MACRO_ECONOMIC"
      THEN {Target("anchor", AnchorKey(i.t.anchor), result)}
      ELSE UNION {{Target("industry_chain", ChainKey(c.id), result),
                   Target("industry_chain_node", NodeKey(c.id, i.t.anchor), result)} :
                    c \in {d \in ctx.chains : i.t.anchor \in d.nodes}}

Paths(ctx, related, layer) ==
  {[targets |-> PathTargets(ctx, i), kind |-> i.relation, conf |-> i.conf, logic |-> i] :
     i \in {j \in related : /\ j.relation # "CANDIDATE"
                            /\ j.s.layer = layer
                            /\ PathTargets(ctx, j) # {}}}

Hypotheses(related, layer) ==
  {<<i.s, i.t>> : i \in {j \in related : j.relation = "CANDIDATE" /\ j.s.layer = layer}}

ReportLayer(ctx, batches, assess, related, layer) ==
  LET items == {x \in assess : x.layer = layer}
      anchors == {ReportAnchor(ctx, batches, items, a) : a \in {x.anchor : x \in items}}
  IN  [key        |-> LayerKey(layer),
       conclusion |-> "assembled",
       result     |-> ResultOf({x.result : x \in items}),
       conf       |-> MinimumConfidence({x.conf : x \in items}),
       window     |-> UNION {x.hs : x \in items},
       anchors    |-> anchors,
       steps      |-> {[of |-> x, evidence |-> EvidenceOfEvents(ctx, batches, x.events)] :
                         x \in items},
       paths      |-> Paths(ctx, related, layer),
       hypotheses |-> Hypotheses(related, layer),
       evidence   |-> UNION {a.evidence : a \in anchors}]

-----------------------------------------------------------------------------
(* Industry chains.                                                        *)

Supported(view) == view.facts # {} \/ view.assess # {} \/ view.txs # {}

SupportedNodes(c) == {n \in DOMAIN c.nodes : Supported(c.nodes[n])}

\* Topology edges with one supported end.
BoundaryEdges(chain, supported) ==
  {e \in chain.edges : (e.src \in supported) # (e.tgt \in supported)}

\* The first MaxGaps of them, in topology order, name the gaps that are shown.
GapChoices(chain, supported) ==
  LET boundary == BoundaryEdges(chain, supported)
  IN  {UNION {{e.src, e.tgt} \ supported : e \in first} :
         first \in {E \in SUBSET boundary :
                      Cardinality(E) = AtMost(MaxGaps, Cardinality(boundary))}}

Direct(view) == view.facts # {} \/ view.assess # {}

NodeEvidenceIds(ctx, batches, facts, view) ==
  EvidenceOfEvents(ctx, batches,
    UNION {f.events : f \in {g \in facts : g.id \in view.facts /\ g.kind = "SIGNAL"}}
      \cup UNION {x.events : x \in view.assess})

NatureOf(view) ==
  IF Direct(view) THEN "direct_evidence"
  ELSE IF view.txs # {} THEN "reasoning_hypothesis"
  ELSE "pending_validation"

ReportNode(ctx, batches, facts, c, n) ==
  LET view == c.nodes[n]
  IN  [key      |-> NodeKey(c.chain, n),
       result   |-> ResultOf(TrendsOf(view)),
       nature   |-> NatureOf(view),
       conf     |-> view.conf,
       window   |-> WindowOf(view),
       evidence |-> NodeEvidenceIds(ctx, batches, facts, view)]

\* An edge is shown when both its ends are nodes of the chain that are shown.
ReportEdges(chain, displayed) ==
  {[from |-> NodeKey(chain.id, e.src), to |-> NodeKey(chain.id, e.tgt)] :
     e \in {d \in chain.edges : {d.src, d.tgt} \subseteq displayed /\ d.src # d.tgt}}

ChainStatus(nodes) ==
  IF \E n \in nodes : n.nature = "direct_evidence" THEN "direct"
  ELSE IF \E n \in nodes : n.nature = "reasoning_hypothesis" THEN "hypothesis"
  ELSE "pending"

DirectionalViews(c) == {c.nodes[n] : n \in {m \in DOMAIN c.nodes : Directional(c.nodes[m])}}

\* The chain view reduces each horizon over all its nodes, and the report
\* reads a result from the three.
ChainResult(c) ==
  ResultOf({ReduceTrend({c.nodes[n].trend[h] : n \in DOMAIN c.nodes}) : h \in Horizon})

ReportChain(ctx, batches, facts, c, chain, gaps) ==
  LET displayed == SupportedNodes(c) \cup gaps
      nodes == {ReportNode(ctx, batches, facts, c, n) : n \in displayed \cap DOMAIN c.nodes}
  IN  [key        |-> ChainKey(c.chain),
       conclusion |-> "assembled",
       result     |-> ChainResult(c),
       conf       |-> MinimumConfidence({v.conf : v \in DirectionalViews(c)}),
       window     |-> UNION {WindowOf(c.nodes[n]) : n \in DOMAIN c.nodes},
       status     |-> ChainStatus(nodes),
       nodes      |-> nodes,
       edges      |-> ReportEdges(chain, displayed \cap DOMAIN c.nodes),
       evidence   |-> UNION {n.evidence : n \in nodes}]

\* Every way the chains of a draft can be shown, one choice of gaps per chain;
\* a chain without a supported node is not shown.
ReportChains(ctx, batches, facts, draft) ==
  LET shown == {c \in draft : SupportedNodes(c) # {}}
      topology(c) == CHOOSE chain \in ctx.chains : chain.id = c.chain
      choices == {g \in [shown -> UNION {GapChoices(topology(c), SupportedNodes(c)) : c \in shown}] :
                    \A c \in shown : g[c] \in GapChoices(topology(c), SupportedNodes(c))}
  IN  {{ReportChain(ctx, batches, facts, c, topology(c), g[c]) : c \in shown} : g \in choices}

-----------------------------------------------------------------------------
(* Cards and the whole report.                                             *)

Card(type, s, items) ==
  [ref |-> [type |-> type, key |-> s.key], conclusion |-> s.conclusion, result |-> s.result,
   conf |-> s.conf, items |-> {i.key : i \in items}, evidence |-> s.evidence]

LayerCards(layers) ==
  {Card("layer", l, l.anchors) : l \in {m \in layers : m.anchors # {}}}

Settled(chain) == {n \in chain.nodes : n.result # "pending"}

\* The first MaxCards chains get a card, those with a direction before diverging
\* and pending ones and then by name, and of these only chains with a settled
\* node.
CardRank == [warming |-> 0, cooling |-> 0, diverging |-> 1, pending |-> 2]

CardChoices(chains) ==
  {C \in SUBSET chains :
     /\ Cardinality(C) = AtMost(MaxCards, Cardinality(chains))
     /\ \A c \in C, d \in chains \ C : CardRank[c.result] <= CardRank[d.result]}

\* A card lists the first MaxListed settled nodes. The nodes of a chain have a
\* fixed order: which are beyond the limit is chosen once for all.
Listed(chain) ==
  LET nodes == Settled(chain)
  IN  nodes \ CHOOSE D \in SUBSET nodes :
                Cardinality(nodes \ D) = AtMost(MaxListed, Cardinality(nodes))

ChainCards(carded) ==
  {Card("industry_chain", c, Listed(c)) : c \in {d \in carded : Settled(d) # {}}}

\* Fault: only the anchors of the upper layers are looked at.
AnchorWithoutEvidence(report) ==
  \E l \in report.layers : \E a \in l.anchors : a.evidence = {}

NotPublishable(report) ==
  \/ \E l \in report.layers : \E a \in l.anchors : a.evidence = {}
  \/ \E c \in report.chains : \E n \in c.nodes :
       n.nature = "direct_evidence" /\ n.evidence = {}

Report(ctx, batches, assess, related, chains, carded) ==
  LET layers == {ReportLayer(ctx, batches, assess, related, l) :
                   l \in {"GEOPOLITICAL", "MACRO_ECONOMIC"}}
  IN  [status |-> "GENERATED", layers |-> layers, chains |-> chains,
       cards  |-> LayerCards(layers) \cup ChainCards(carded)]

\* All the reports a reviewed run can be assembled into, or a skipped one when
\* an anchor or a direct node leads to no Evidence.
Assembled(ctx, batches, facts, assess, related, draft) ==
  {IF NotPublishable(r) THEN Skipped ELSE r :
     r \in UNION {{Report(ctx, batches, assess, related, chains, carded) :
                      carded \in CardChoices(chains)} :
                    chains \in ReportChains(ctx, batches, facts, draft)}}

Sections(report) == report.layers \cup report.chains

SectionKeys(report) == {s.key : s \in Sections(report)}

Rewritten(S, keys, version) ==
  {IF s.key \in keys THEN [s EXCEPT !.conclusion = version] ELSE s : s \in S}

\* Fault: the cards keep the prose they were assembled with.
RewriteSections(report, keys, version) ==
  [report EXCEPT !.layers = Rewritten(@, keys, version), !.chains = Rewritten(@, keys, version)]

\* Rewrites reach the sections; each card then takes over the conclusion of
\* the section it refers to. Results, references and Evidence are not prose.
ApplyNarratives(report, keys, version) ==
  LET edited == RewriteSections(report, keys, version)
      said(card) == {s.conclusion : s \in {x \in Sections(edited) : x.key = card.ref.key}}
  IN  [edited EXCEPT !.cards =
         {[c EXCEPT !.conclusion = CHOOSE x \in said(c) : TRUE] : c \in @}]

-----------------------------------------------------------------------------
(* What is published.                                                      *)

Basis(nature) ==
  CASE nature = "direct_evidence" -> <<"direct_evidence", "confirmed">>
    [] nature = "reasoning_hypothesis" -> <<"reasoning_hypothesis", "pending_validation">>
    [] OTHER -> <<"no_directional_conclusion", "pending_validation">>

Published(item) ==
  [key |-> item.key, result |-> item.result, conf |-> item.conf, window |-> item.window,
   basis |-> Basis(item.nature), evidence |-> item.evidence]

\* A path keeps its targets of the allowed types and is left out without any.
PathGroup(layer, allowed) ==
  {[p EXCEPT !.targets = {t \in @ : t.type \in allowed}] :
     p \in {q \in layer.paths : \E t \in q.targets : t.type \in allowed}}

IndustryTypes == {"industry_chain", "industry_chain_node"}

PublishedLayer(layer) ==
  [key |-> layer.key, conclusion |-> layer.conclusion, result |-> layer.result,
   conf |-> layer.conf, window |-> layer.window, evidence |-> layer.evidence,
   anchors |-> {Published(a) : a \in layer.anchors},
   toMacro |-> IF layer.key = LayerKey("GEOPOLITICAL") THEN PathGroup(layer, {"anchor"}) ELSE {},
   toIndustry |-> PathGroup(layer, IndustryTypes)]

PublishedChain(chain) ==
  [key |-> chain.key, conclusion |-> chain.conclusion, result |-> chain.result,
   conf |-> chain.conf, window |-> chain.window, evidence |-> chain.evidence,
   nodes |-> {Published(n) : n \in chain.nodes}, edges |-> chain.edges]

BuildPublication(report) ==
  [layers |-> {PublishedLayer(l) : l \in report.layers},
   chains |-> {PublishedChain(c) : c \in report.chains}]
=============================================================================
