----------------------------- MODULE EntityPlans -----------------------------
(***************************************************************************)
(* What the entity projections make of one complete set of Data facts: the *)
(* facts each of them refuses, the nodes and edges it plans otherwise, and *)
(* the comparison of the plan with the graph after the writes.             *)
(* Sources: src/sematica/projection/{country_region,industry,concept,      *)
(* industry_chain}.py, src/sematica/initialization/{chainnode,variable,    *)
(* geopolitic,macroeconomic}/projection.py.                                *)
(***************************************************************************)
EXTENDS KnowledgeGraph, Sequences

CONSTANTS
  NoParent,     \* an industry without a parent
  NoScope,      \* the scope of an edge whose UUID has none
  AnyText,      \* the name of a target nobody compares
  BaseCountries, BaseRegions   \* the counts the verification expects: 201 and 22

Storylines == {"GeopoliticRivalry", "MacroEconomic"}
Sweeping == {"CountryRegion", "Industry", "Concept", "IndustryChain", "ChainNode"}
Paged == {"Industry", "Concept", "IndustryChain"}

OwnedLabels(kind) ==
  IF kind = "CountryRegion" THEN {"Country", "Region"} ELSE {kind}

TopologyNames == {"ChainNodeInputTo", "ChainNodeIsComponentOf", "ChainNodeDependsOn"}

OwnedNames(kind) ==
  CASE kind = "CountryRegion" -> {"CountryInRegion"}
    [] kind = "Industry"      -> {"IndustryHasParent"}
    [] kind = "IndustryChain" -> {"IndustryChainMappedToIndustry", "IndustryChainMappedToConcept"}
    [] kind = "ChainNode"     -> {"ChainNodeBelongsToIndustryChain"} \cup TopologyNames
    [] kind = "Company"       -> {"CompanyBelongsToIndustry"}   \* the formal ones
    [] OTHER                  -> {}

-----------------------------------------------------------------------------
(* Facts are families, repetitions included: items become nodes, links     *)
(* edges.                                                                  *)

Elements(s) == {s[i] : i \in DOMAIN s}
Ids(items) == {item.id : item \in Elements(items)}
Repeated(s, F(_)) == \E i, j \in DOMAIN s : i # j /\ F(s[i]) = F(s[j])

\* What the contracts of Data and the writer's own check of its scope leave of
\* one set of facts: labels and relation names of the kind; a Country carries
\* its Regions, a company its relations, a membership its chain, and mappings
\* are asked for by their chains.
WellTyped(kind, facts) ==
  /\ DOMAIN facts = {"items", "links", "entities"}
  /\ IsFiniteSet(DOMAIN facts.items)
  /\ kind = "Company" => DOMAIN facts.items \subseteq Nat
  /\ \A item \in Elements(facts.items) : item.label \in OwnedLabels(kind)
  /\ \A l \in Elements(facts.links) :
       /\ l.name \in OwnedNames(kind)
       /\ kind = "CountryRegion" => {l.source, l.target} \subseteq Ids(facts.items)
       /\ kind \in {"Company", "IndustryChain"} => l.source \in Ids(facts.items)
       /\ l.name = "ChainNodeBelongsToIndustryChain" =>
            \E e \in facts.entities : e.id = l.target /\ e.label = "IndustryChain"

IdOf(item) == item.id
CodeOf(item) == item.code
NameOf(item) == item.text
KeyOf(link) == Key(link.name, link.source, link.target, link.scope)

\* A Region is repeated in every Country it belongs to: the repetitions agree.
CountryRegionRefused(facts) ==
  LET countries == RestrictValues(facts.items, LAMBDA i : i.label = "Country")
      regions   == {i \in Elements(facts.items) : i.label = "Region"}
  IN  \/ Repeated(countries, IdOf) \/ Repeated(countries, CodeOf)
      \/ \E a, b \in regions : a # b /\ (a.id = b.id \/ a.code = b.code)
      \/ \E c \in Elements(countries) : \A l \in Elements(facts.links) : l.source # c.id

\* A root has a path of one code; a child extends the path of its parent,
\* within one classification system. There are no cycles: paths grow.
IndustryRefused(facts) ==
  \/ Repeated(facts.items, IdOf)
  \/ Repeated(facts.items, LAMBDA i : <<i.system, i.code>>)
  \/ \E item \in Elements(facts.items) :
       \/ item.parent = NoParent /\ item.path # <<item.code>>
       \/ /\ item.parent # NoParent
          /\ ~ \E p \in Elements(facts.items) :
                 /\ p.id = item.parent
                 /\ p.system = item.system
                 /\ item.path = Append(p.path, item.code)

ConceptRefused(facts) == Repeated(facts.items, IdOf)

TargetLabel(name) ==
  CASE name = "IndustryChainMappedToIndustry" -> "Industry"
    [] name = "IndustryChainMappedToConcept"  -> "Concept"
    [] name = "CountryInRegion"               -> "Region"
    [] name = "IndustryHasParent"             -> "Industry"
    [] name \in TopologyNames                 -> "ChainNode"
    [] OTHER                                  -> "IndustryChain"

\* Every mapping is active, starts at a listed chain and ends at one active
\* entity of its type; every chain has an industry.
IndustryChainRefused(facts) ==
  \/ Repeated(facts.items, IdOf) \/ Repeated(facts.links, KeyOf)
  \/ \E l \in Elements(facts.links) :
       \/ ~l.active
       \/ l.source \notin Ids(facts.items)
       \/ ~ \E e \in facts.entities :
              e.id = l.target /\ e.active /\ e.label = TargetLabel(l.name)
  \/ \E a, b \in facts.entities : a # b /\ a.id = b.id
  \/ \E c \in Ids(facts.items) : \A l \in Elements(facts.links) :
       ~(l.source = c /\ l.name = "IndustryChainMappedToIndustry")

Membership(facts, chain, node) ==
  \E l \in Elements(facts.links) :
    l.name = "ChainNodeBelongsToIndustryChain" /\ l.source = node /\ l.target = chain

\* Only approved nodes; one name per chain; a topology edge stays within a
\* chain both its ends belong to.
ChainNodeRefused(facts) ==
  \/ DOMAIN facts.items = {}
  \/ Repeated(facts.items, IdOf) \/ Repeated(facts.links, KeyOf)
  \/ \E a, b \in facts.entities : a # b /\ a.id = b.id
  \/ \E item \in Elements(facts.items) : ~item.approved
  \/ \A l \in Elements(facts.links) : l.name # "ChainNodeBelongsToIndustryChain"
  \/ \E l \in Elements(facts.links) :
       \/ l.source \notin Ids(facts.items)
       \/ /\ l.name \in TopologyNames
          /\ \/ l.source = l.target
             \/ \E end \in {l.source, l.target} : ~Membership(facts, l.scope, end)

\* A storyline snapshot: one row per identity and name, and one profile per
\* domain.
StorylineRefused(facts) ==
  \/ DOMAIN facts.items = {}
  \/ Repeated(facts.items, IdOf) \/ Repeated(facts.items, NameOf)
  \/ \E a, b \in Elements(facts.items) : a.domain.id = b.domain.id /\ a.domain # b.domain
  \/ \E a, b \in Elements(facts.items) :
       a.domain.code = b.domain.code /\ a.domain.id # b.domain.id

\* The packaged catalog: unique identities and names.
VariableRefused(facts) == Repeated(facts.items, IdOf) \/ Repeated(facts.items, NameOf)

Refused(kind, facts) ==
  CASE kind = "CountryRegion" -> CountryRegionRefused(facts)
    [] kind = "Industry"      -> IndustryRefused(facts)
    [] kind = "Concept"       -> ConceptRefused(facts)
    [] kind = "IndustryChain" -> IndustryChainRefused(facts)
    [] kind = "ChainNode"     -> ChainNodeRefused(facts)
    [] kind \in Storylines    -> StorylineRefused(facts)
    [] kind = "Variable"      -> VariableRefused(facts)

-----------------------------------------------------------------------------
(* Plans *)

NodesOf(items) ==
  [id \in Ids(items) |->
     LET item == CHOOSE i \in Elements(items) : i.id = id
     IN  [label |-> item.label, text |-> item.text]]

EdgesOf(links) ==
  [k \in {KeyOf(l) : l \in Elements(links)} |->
     (CHOOSE l \in Elements(links) : KeyOf(l) = k).text]

\* The parent edges of the industries; every other kind has its links.
LinksOf(kind, facts) ==
  IF kind # "Industry" THEN facts.links
  ELSE LET children == RestrictValues(facts.items, LAMBDA i : i.parent # NoParent)
       IN  [i \in DOMAIN children |->
              [name |-> "IndustryHasParent", source |-> children[i].id,
               target |-> children[i].parent, scope |-> NoScope, text |-> children[i].text]]

\* Endpoints another projection owns: a mapping expects an entity of its type,
\* a membership the chain under the name of its snapshot.
TargetsOf(kind, facts) ==
  LET targets == {l.target : l \in Elements(LinksOf(kind, facts))} \ Ids(facts.items)
      entity(id) == CHOOSE e \in facts.entities : e.id = id
  IN  [id \in targets |->
         [label |-> entity(id).label,
          text  |-> IF kind = "ChainNode" THEN entity(id).text ELSE AnyText]]

PlanOf(kind, facts) ==
  [nodes |-> NodesOf(facts.items), edges |-> EdgesOf(LinksOf(kind, facts)),
   targets |-> TargetsOf(kind, facts)]

NoPlan == [nodes |-> <<>>, edges |-> <<>>, targets |-> <<>>]

\* The smoke test of CountryRegion: its first triplet, if it has one.
FirstTriplet(plan) ==
  LET first == Chunk(DOMAIN plan.edges, 1)
  IN  [plan EXCEPT !.nodes = Restrict(@, UNION {{k.source, k.target} : k \in first}),
                   !.edges = Restrict(@, first)]

TargetsPresent(plan, g) ==
  \A t \in DOMAIN plan.targets :
    /\ HasNode(g, t, plan.targets[t].label)
    /\ plan.targets[t].text \in {AnyText, g.nodes[t].text}

\* Storylines stop at any node of their label they do not expect.
NothingUnexpected(kind, plan, g) ==
  /\ NodesIn(g, {kind}) \subseteq DOMAIN plan.nodes
  /\ DOMAIN plan.nodes \cap DOMAIN g.nodes \subseteq NodesIn(g, {kind})

Unchanged(plan, g, id) == id \in DOMAIN g.nodes /\ g.nodes[id] = plan.nodes[id]

\* Industry and Concept also count the countries and regions.
BasePreserved(g) ==
  /\ Cardinality(NodesIn(g, {"Country"})) = BaseCountries
  /\ Cardinality(NodesIn(g, {"Region"})) = BaseRegions

ConceptsApart(g) ==
  \A k \in DOMAIN g.edges :
    {g.nodes[k.source].label, g.nodes[k.target].label} # {"Concept", "Industry"}

\* verify_state: the identities of the scope, and the content where it is
\* compared (short names, storyline and variable attributes, edge attributes).
InScope(kind, plan, g) ==
  /\ NodesIn(g, OwnedLabels(kind)) = DOMAIN plan.nodes
  /\ EdgesIn(g, OwnedNames(kind)) = DOMAIN plan.edges

NodesMatch(plan, g) == \A n \in DOMAIN plan.nodes : Unchanged(plan, g, n)
EdgesMatch(plan, g) == \A k \in DOMAIN plan.edges : g.edges[k] = plan.edges[k]

\* Nothing but Signals may touch a variable.
OnlySignals(g) ==
  \A k \in DOMAIN g.edges, n \in NodesIn(g, {"Variable"}) :
    n \in {k.source, k.target} => k.name = "SIGNAL_ON"

\* Topology and memberships lead from a node to an end of the right type.
EndsTyped(plan, g) ==
  \A k \in DOMAIN plan.edges :
    HasNode(g, k.source, "ChainNode") /\ HasNode(g, k.target, TargetLabel(k.name))

Verified(kind, plan, g) ==
  /\ InScope(kind, plan, g)
  /\ CASE kind = "CountryRegion" -> TRUE
       [] kind = "Industry" -> BasePreserved(g)
       [] kind = "Concept" -> BasePreserved(g) /\ ConceptsApart(g)
       [] kind = "IndustryChain" ->
            NodesMatch(plan, g) /\ EdgesMatch(plan, g) /\ TargetsPresent(plan, g)
       [] kind = "ChainNode" ->
            /\ NodesMatch(plan, g) /\ EdgesMatch(plan, g)
            /\ EndsTyped(plan, g) /\ TargetsPresent(plan, g)
       [] kind \in Storylines -> NodesMatch(plan, g)
       [] kind = "Variable" -> NodesMatch(plan, g) /\ OnlySignals(g)
=============================================================================
