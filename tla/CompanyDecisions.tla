-------------------------- MODULE CompanyDecisions --------------------------
(***************************************************************************)
(* Which industries and chain nodes a company is related to: the targets   *)
(* offered to the model at each of its three stages, the gates on its      *)
(* answers, the decision frozen from them and its audit when it is read    *)
(* back.                                                                   *)
(* Sources: src/capabilities/company/internal/{models,engine,inference,    *)
(* storage}.py, src/sematica/graphiti/company.py.                          *)
(***************************************************************************)
EXTENDS EntityPlans, FiniteSetsExt

CONSTANTS
  Rank,         \* the order of identities
  MaxRoots, MaxIndustries, MaxNodes   \* selections per stage: 3, 3 and 8

-----------------------------------------------------------------------------
(* The catalog of targets, as the graph holds it *)

Ends(g, name, from, to) ==
  {k \in EdgesIn(g, {name}) : HasNode(g, k.source, from) /\ HasNode(g, k.target, to)}

ParentEdges(g, i) == {k \in Ends(g, "IndustryHasParent", "Industry", "Industry") : k.source = i}

CatalogOf(g) ==
  LET industries == NodesIn(g, {"Industry"})
      chains     == NodesIn(g, {"IndustryChain"})
      nodes      == NodesIn(g, {"ChainNode"})
  IN  [industries |-> industries, chains |-> chains, nodes |-> nodes,
       text    |-> Restrict(g.nodes, industries \cup chains \cup nodes),
       parent  |-> [i \in industries |->
                      IF ParentEdges(g, i) = {} THEN NoParent
                      ELSE (CHOOSE k \in ParentEdges(g, i) : TRUE).target],
       mapped  |-> {<<k.source, k.target>> :
                      k \in Ends(g, "IndustryChainMappedToIndustry", "IndustryChain", "Industry")},
       members |-> {<<k.source, k.target>> :
                      k \in Ends(g, "ChainNodeBelongsToIndustryChain", "ChainNode", "IndustryChain")}]

\* An industry, its parent, the parent of that, ...
Climb(c, i) ==
  LET up[n \in 0..Cardinality(c.industries)] ==
        IF n = 0 THEN i ELSE IF up[n - 1] = NoParent THEN NoParent ELSE c.parent[up[n - 1]]
  IN  up

Readable(g) ==
  LET c == CatalogOf(g) IN
  /\ c.industries # {} /\ c.chains # {} /\ c.nodes # {}
  /\ \A i \in c.industries :
       Cardinality(ParentEdges(g, i)) <= 1 /\ Climb(c, i)[Cardinality(c.industries)] = NoParent

-----------------------------------------------------------------------------
(* Candidates *)

Roots(c) == {i \in c.industries : c.parent[i] = NoParent}

Steps(c, selected, i) == {n \in DOMAIN Climb(c, i) : Climb(c, i)[n] \in selected}

\* The selected industries and everything below them, with the least number of
\* steps up to a selected one.
Distances(c, selected) ==
  [i \in {i \in c.industries : Steps(c, selected, i) # {}} |-> Min(Steps(c, selected, i))]

Subtree(c, selected) == DOMAIN Distances(c, selected)

\* The industries a chain is offered for, and the chains a node is offered for.
SourcesOf(c, selected, chain) == {i \in Subtree(c, selected) : <<chain, i>> \in c.mapped}

ChainsOf(c, selected, node) ==
  {chain \in c.chains : <<node, chain>> \in c.members /\ SourcesOf(c, selected, chain) # {}}

NodeDistance(c, selected, node) ==
  Min({Distances(c, selected)[i] :
         i \in UNION {SourcesOf(c, selected, chain) : chain \in ChainsOf(c, selected, node)}})

\* The nearest nodes, by distance and then identity, up to the limit.
NodeCandidates(c, selected, limit) ==
  LET reached == {n \in c.nodes : ChainsOf(c, selected, n) # {}}
      far     == [n \in reached |-> NodeDistance(c, selected, n)]
      before(m, n) == far[m] < far[n] \/ (far[m] = far[n] /\ Rank[m] < Rank[n])
  IN  {n \in reached : Cardinality({m \in reached : before(m, n)}) < limit}

Choice(target, sources, chains) == [target |-> target, sources |-> sources, chains |-> chains]

NodeChoices(c, selected, limit) ==
  {LET chains == ChainsOf(c, selected, n)
   IN  Choice(n, UNION {SourcesOf(c, selected, chain) : chain \in chains}, chains) :
     n \in NodeCandidates(c, selected, limit)}

Plainly(targets) == {Choice(t, {}, {}) : t \in targets}

-----------------------------------------------------------------------------
(* Stages: opinion[target] is the confidence the model gives a target it   *)
(* selects, NONE for the others.                                           *)

\* Fault: a guess is accepted too.
GateLow(confidence) == confidence # "NONE"

Accepts(confidence) == confidence \in {"MEDIUM", "HIGH"}

Selected(choices, opinion) ==
  {[choice |-> ch, confidence |-> opinion[ch.target]] :
     ch \in {x \in choices : opinion[x.target] # "NONE"}}

WithinLimit(choices, opinion, limit) ==
  Cardinality({ch \in choices : opinion[ch.target] # "NONE"}) <= limit

Stage(choices, opinion) ==
  LET accepted == {x \in Selected(choices, opinion) : Accepts(x.confidence)}
      rejected == Selected(choices, opinion) \ accepted
  IN  [status   |-> IF accepted # {} THEN "MAPPED"
                    ELSE IF rejected # {} THEN "LOW_CONFIDENCE" ELSE "NO_MATCH",
       accepted |-> accepted, rejected |-> rejected]

NoCandidate == [status |-> "NO_CANDIDATE", accepted |-> {}, rejected |-> {}]

TargetsIn(selections) == {s.choice.target : s \in selections}

\* The first of these that a stage has.
Terminal(statuses) ==
  CASE "MAPPED" \in statuses -> "MAPPED"
    [] "MAPPED" \notin statuses /\ "LOW_CONFIDENCE" \in statuses -> "LOW_CONFIDENCE"
    [] statuses \cap {"MAPPED", "LOW_CONFIDENCE"} = {} /\ "NO_MATCH" \in statuses -> "NO_MATCH"
    [] statuses = {"NO_CANDIDATE"} -> "NO_CANDIDATE"

\* Roots first; industries only below the accepted roots; chain nodes only
\* around the accepted industries. An answer with too many selections fails
\* the call. Empty when one did.
Decisions(company, index, run, manifest, says) ==
  LET c        == manifest.catalog
      root     == Stage(Plainly(Roots(c)), says.roots)
      roots    == TargetsIn(root.accepted)
      below    == IF roots = {} THEN {} ELSE Subtree(c, roots)
      industry == IF roots = {} THEN root ELSE Stage(Plainly(below), says.industries)
      chosen   == IF roots = {} THEN {} ELSE TargetsIn(industry.accepted)
      choices  == NodeChoices(c, chosen, manifest.limit)
      node     == IF choices = {} THEN NoCandidate ELSE Stage(choices, says.nodes)
  IN  IF /\ WithinLimit(Plainly(Roots(c)), says.roots, MaxRoots)
         /\ WithinLimit(Plainly(below), says.industries, MaxIndustries)
         /\ WithinLimit(choices, says.nodes, MaxNodes)
      THEN {[company |-> company.id, index |-> index, source |-> company, run |-> run,
             status |-> Terminal({industry.status, node.status}),
             industry |-> industry, node |-> node,
             offered |-> [roots |-> Roots(c), selected |-> roots, industries |-> below,
                          nodes |-> {ch.target : ch \in choices}]]}
      ELSE {}

-----------------------------------------------------------------------------
(* Audits *)

\* The validators of the decision record.
WellFormed(d) ==
  LET o == d.offered IN
  /\ \A stage \in {d.industry, d.node} : (stage.status = "MAPPED") <=> (stage.accepted # {})
  /\ o.roots # {} /\ o.selected \subseteq o.roots /\ Cardinality(o.selected) <= MaxRoots
  /\ (o.selected = {}) <=> (o.industries = {})
  /\ TargetsIn(d.industry.accepted \cup d.industry.rejected)
       \subseteq (IF o.selected # {} THEN o.industries ELSE o.roots)
  /\ TargetsIn(d.node.accepted \cup d.node.rejected) \subseteq o.nodes

\* validate_decision_candidate_scope: every offered set is derived again from
\* the catalog.
ScopeValid(d, c, manifest) ==
  LET o == d.offered IN
  /\ c = manifest.catalog
  /\ o.roots = Roots(c)
  /\ o.industries = (IF o.selected = {} THEN {} ELSE Subtree(c, o.selected))
  /\ d.industry.accepted # {} => o.selected # {}
  /\ o.nodes = NodeCandidates(c, TargetsIn(d.industry.accepted), manifest.limit)

\* The checks of the journal, when a decision is frozen and when it is read. A
\* decision carries the hashes of the manifest of its run.
JournalAccepts(d, run, companies) ==
  /\ WellFormed(d)
  /\ d.index \in DOMAIN companies /\ companies[d.index].id = d.company
  /\ d.status = Terminal({d.industry.status, d.node.status})
  /\ d.run = run

-----------------------------------------------------------------------------
(* The relations of a decision: the confidence and provenance of each is   *)
(* part of its text.                                                       *)

Relations(d) ==
  {[name |-> "CompanyOperatesInIndustry", decision |-> d, selection |-> s] : s \in d.industry.accepted}
  \cup
  {[name |-> "CompanyParticipatesInChainNode", decision |-> d, selection |-> s] : s \in d.node.accepted}

RelationKey(r) == Key(r.name, r.decision.company, r.selection.choice.target, NoScope)

InferredEdges(decisions) ==
  LET relations == UNION {Relations(d) : d \in decisions}
  IN  [k \in {RelationKey(r) : r \in relations} |->
         LET r == CHOOSE r \in relations : RelationKey(r) = k
         IN  [decision |-> r.decision, selection |-> r.selection]]
=============================================================================
