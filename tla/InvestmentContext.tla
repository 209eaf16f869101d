------------------------- MODULE InvestmentContext -------------------------
(***************************************************************************)
(* How the frozen context of an investment run is read from the graph.     *)
(* Sources: src/capabilities/investment/internal/context.py and the bounded*)
(* queries of src/sematica/graphiti/investment.py.                         *)
(*                                                                         *)
(* A graph is [episodes, rows, nodes, mentions, memberships, topology]:    *)
(*   episode    [id, event, at, evidence]                                  *)
(*   row        a RELATES_TO fact as stored: [id, name, src, tgt, episodes,*)
(*              events, anchor, dir, confs, hs, from, until, ends, created]*)
(*   node       [id, label]                                                *)
(*   mention    [episode, node], membership [node, chain],                 *)
(*   edge       [id, src, tgt, chain]                                      *)
(* Times are integers and the decision is taken at 0; "never" is no time.  *)
(* Names, texts and the search strings built from them are left out: a     *)
(* search finds the set "found", whatever it was asked.                    *)
(***************************************************************************)
EXTENDS InvestmentEngine

CONSTANTS
  Never,             \* an absent time
  EventWindow,       \* request.event_window_hours
  MinAnchorMatches   \* request.min_anchor_matches

ASSUME WindowAssumption == EventWindow \in Nat

NotAfterNow(t) == t = Never \/ t <= 0
AfterNow(t) == t = Never \/ t > 0

ScopedEpisodes(graph) == {e \in graph.episodes : e.at \in -EventWindow .. 0}

EventsOf(episodes) == {e.event : e \in episodes}

\* load_facts: what an episode or an Event of the window states, as of now.
AsOfNow(rows) ==
  {r \in rows : AfterNow(r.until) /\ NotAfterNow(r.from) /\ NotAfterNow(r.created)}

EventRows(graph) ==
  LET scoped == ScopedEpisodes(graph)
  IN  {r \in AsOfNow(graph.rows) : \/ r.episodes \cap Ids(scoped) # {}
                                   \/ r.events \cap EventsOf(scoped) # {}}

LabelOf(graph, n) == {m.label : m \in {k \in graph.nodes : k.id = n}}

\* One row as a Fact snapshot. An unreadable direction is UNKNOWN and a
\* confidence label that is not one of the three is ignored.
Snapshot(graph, r) ==
  LET scoped == ScopedEpisodes(graph)
      confs == r.confs \cap Confidence
      signal == r.name = "SIGNAL_ON"
  IN  [id     |-> r.id,
       kind   |-> IF signal THEN "SIGNAL" ELSE "ORDINARY",
       src    |-> r.src, tgt |-> r.tgt,
       anchor |-> IF "IndustryChain" \in LabelOf(graph, r.tgt) THEN "IndustryChain" ELSE r.anchor,
       dir    |-> IF r.dir \in Direction THEN r.dir ELSE "UNKNOWN",
       conf   |-> IF confs = {} THEN "none" ELSE MinimumConfidence(confs),
       hs     |-> r.hs \cap Horizon,
       events |-> r.events \cup EventsOf({e \in scoped : e.id \in r.episodes}),
       live   |-> NotAfterNow(r.from) /\ AfterNow(r.until) /\ (signal => AfterNow(r.ends))]

ParseFacts(graph, rows) == {Snapshot(graph, r) : r \in AsOfNow(rows)}

\* Every Signal is kept; an ordinary Fact only when the search found it.
SelectRetrieved(facts, found) ==
  {f \in facts : f.kind = "SIGNAL" \/ f.id \in found}

BaseFacts(graph, found) ==
  SelectRetrieved(ParseFacts(graph, EventRows(graph)), found)

LayerOf(label) ==
  CASE label = "GeopoliticRivalry" -> "GEOPOLITICAL"
    [] label = "MacroEconomic" -> "MACRO_ECONOMIC"
    [] OTHER -> "INDUSTRY"

AnchorLabels == {"GeopoliticRivalry", "MacroEconomic", "IndustryChain", "ChainNode"}

\* Anchors an Event mentions, and the ends of the base facts.
DirectAnchors(graph, facts) ==
  LET mentioned == {m.node : m \in {k \in graph.mentions : k.episode \in Ids(ScopedEpisodes(graph))}}
      ends == UNION {{f.src, f.tgt} : f \in facts}
  IN  {n \in graph.nodes : n.label \in AnchorLabels /\ n.id \in mentioned \cup ends}

\* The geopolitical and macro layers: direct anchors and those a search finds,
\* with the ordinary Facts at any of them. Signals stay those of the window.
LayerAnchorNodes(graph, base, label, found) ==
  {n \in graph.nodes : n.label = label /\ (n \in DirectAnchors(graph, base) \/ n.id \in found)}

RelatedOrdinary(graph, anchors) ==
  {f \in ParseFacts(graph, {r \in graph.rows : {r.src, r.tgt} \cap Ids(anchors) # {}}) :
     f.kind = "ORDINARY"}

IsChainNodeSignal(graph, f) ==
  /\ f.kind = "SIGNAL"
  /\ f.anchor = "ChainNode" \/ "ChainNode" \in LabelOf(graph, f.src) \cup LabelOf(graph, f.tgt)

\* The industry layer: only the chain nodes that a Signal of the window is at,
\* read from the base facts without a further query.
IndustryRoots(graph, base) ==
  {n \in graph.nodes :
     /\ n.label = "ChainNode"
     /\ \E f \in Eligible(base, EventsOf(ScopedEpisodes(graph))) :
          IsChainNodeSignal(graph, f) /\ Touches(f, n.id)}

MatchedNodes(graph, anchors, chain) ==
  {n \in Ids(anchors) : \E m \in graph.memberships : m.chain = chain /\ m.node = n}

\* Chains with enough matched nodes, each with all its nodes and topology.
LoadChains(graph, anchors) ==
  {[id    |-> chain,
    nodes |-> {m.node : m \in {k \in graph.memberships : k.chain = chain}},
    edges |-> {[id |-> e.id, src |-> e.src, tgt |-> e.tgt] :
                 e \in {d \in graph.topology : d.chain = chain}}] :
     chain \in {n.id : n \in {k \in graph.nodes :
                   /\ k.label = "IndustryChain"
                   /\ Cardinality(MatchedNodes(graph, anchors, k.id)) >= MinAnchorMatches}}}

\* Evidence of an Event as the Event content names it.
EvidenceOf(graph) ==
  [v \in EventsOf(graph.episodes) |->
     UNION {e.evidence : e \in {d \in graph.episodes : d.event = v}}]

\* What a whole run reads, with the facts found by its searches: the layers
\* add ordinary Facts only, and the chains hang on the Signal roots.
ContextOf(graph, found) ==
  LET base == BaseFacts(graph, found)
      upper == LayerAnchorNodes(graph, base, "GeopoliticRivalry", found)
                 \cup LayerAnchorNodes(graph, base, "MacroEconomic", found)
      roots == IndustryRoots(graph, base)
  IN  [events   |-> EventsOf(ScopedEpisodes(graph)),
       facts    |-> base \cup RelatedOrdinary(graph, upper),
       anchors  |-> {[id |-> n.id, layer |-> LayerOf(n.label)] : n \in upper \cup roots},
       chains   |-> LoadChains(graph, roots),
       evidence |-> EvidenceOf(graph)]
=============================================================================
