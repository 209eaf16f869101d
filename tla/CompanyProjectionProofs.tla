----------------------- MODULE CompanyProjectionProofs -----------------------
(***************************************************************************)
(* What the projections keep and reach, for every history of Data, every   *)
(* first graph and any number of command lines: KeptFactsStay,             *)
(* RelationsAreGrounded and ReplacementsConverge of CompanyProjection.     *)
(* Plans name what Data has held throughout, and labels tell the writers   *)
(* apart. Frozen decisions only grow. Each phase of a run left alone       *)
(* leaves less that differs: ConvergenceInv for the entities, OpsConverge  *)
(* for Company.                                                            *)
(***************************************************************************)
EXTENDS CompanyProjection, FiniteSetTheorems, WellFoundedInduction, TLAPS

IsGraph(g) == DOMAIN g = {"nodes", "edges"}

-----------------------------------------------------------------------------
(* Induction: a set of naturals has a least element *)

LEMMA LeastElement ==
  ASSUME NEW T, T \subseteq Nat, T # {}
  PROVE  \E m \in T : \A n \in T : m <= n
<1> DEFINE R == {ss \in Nat \X Nat : ss[1] < ss[2]}
<1>0. IsWellFoundedOn(R, Nat)
  BY NatLessThanWellFounded DEF OpToRel
<1>1. \E m \in T : \A n \in T : <<n, m>> \notin R
  <2> HIDE DEF R
  <2> QED BY <1>0, WFMin
<1>2. PICK m \in T : \A n \in T : <<n, m>> \notin R
  BY <1>1
<1>3. \A n \in T : ~(n < m)
  BY <1>2
<1> QED BY <1>3

-----------------------------------------------------------------------------
(* The writes to the graph *)

LEMMA ChunkSubset ==
  ASSUME NEW S, NEW size
  PROVE  Chunk(S, size) \subseteq S
BY DEF Chunk

LEMMA SaveNodesEffect ==
  ASSUME NEW g, IsGraph(g), NEW f
  PROVE  /\ IsGraph(SaveNodes(g, f))
         /\ SaveNodes(g, f).edges = g.edges
         /\ DOMAIN SaveNodes(g, f).nodes = DOMAIN f \cup DOMAIN g.nodes
         /\ \A n \in DOMAIN f : SaveNodes(g, f).nodes[n] = f[n]
         /\ \A n \in DOMAIN g.nodes \ DOMAIN f : SaveNodes(g, f).nodes[n] = g.nodes[n]
<1> DEFINE h == SaveNodes(g, f)
<1>1. h = [g EXCEPT !.nodes = Merged(f, g.nodes)]
  BY DEF SaveNodes
<1>2. IsGraph(h) /\ h.edges = g.edges /\ h.nodes = Merged(f, g.nodes)
  BY <1>1 DEF IsGraph
<1> QED BY <1>2 DEF Merged

LEMMA SaveEdgesEffect ==
  ASSUME NEW g, IsGraph(g), NEW f
  PROVE  LET h == SaveEdges(g, f)
             joined == {k \in DOMAIN f : {k.source, k.target} \subseteq DOMAIN g.nodes}
         IN  /\ IsGraph(h)
             /\ h.nodes = g.nodes
             /\ DOMAIN h.edges = joined \cup DOMAIN g.edges
             /\ \A k \in joined : h.edges[k] = f[k]
             /\ \A k \in DOMAIN g.edges \ joined : h.edges[k] = g.edges[k]
<1> DEFINE h == SaveEdges(g, f)
           joined == {k \in DOMAIN f : {k.source, k.target} \subseteq DOMAIN g.nodes}
<1>1. h = [g EXCEPT !.edges = Merged(Restrict(f, joined), g.edges)]
  BY DEF SaveEdges
<1>2. IsGraph(h) /\ h.nodes = g.nodes /\ h.edges = Merged(Restrict(f, joined), g.edges)
  BY <1>1 DEF IsGraph
<1> QED BY <1>2 DEF Merged, Restrict

LEMMA DeleteEdgesEffect ==
  ASSUME NEW g, IsGraph(g), NEW keys
  PROVE  LET h == DeleteEdges(g, keys)
         IN  /\ IsGraph(h)
             /\ h.nodes = g.nodes
             /\ DOMAIN h.edges = DOMAIN g.edges \ keys
             /\ \A k \in DOMAIN h.edges : h.edges[k] = g.edges[k]
BY DEF DeleteEdges, Restrict, IsGraph

LEMMA DetachDeleteEffect ==
  ASSUME NEW g, NEW ids
  PROVE  LET h == DetachDelete(g, ids)
         IN  /\ IsGraph(h)
             /\ DOMAIN h.nodes = DOMAIN g.nodes \ ids
             /\ \A n \in DOMAIN h.nodes : h.nodes[n] = g.nodes[n]
             /\ DOMAIN h.edges = DOMAIN g.edges \ Touching(g, ids)
             /\ \A k \in DOMAIN h.edges : h.edges[k] = g.edges[k]
BY DEF DetachDelete, Restrict, IsGraph

-----------------------------------------------------------------------------
(* The plan of a set of facts *)

LEMMA FiniteIds ==
  ASSUME NEW items, IsFiniteSet(DOMAIN items)
  PROVE  IsFiniteSet(Ids(items))
<1> DEFINE f == [i \in DOMAIN items |-> items[i].id]
<1>1. f \in Surjection(DOMAIN items, Ids(items))
  BY DEF Surjection, Ids, Elements
<1> QED BY <1>1, FS_Surjection

LEMMA UptoElements ==
  ASSUME NEW s, NEW cut
  PROVE  Elements(Upto(s, cut)) = {i \in Elements(s) : Rank[i.id] <= cut}
<1>1. Upto(s, cut) = Restrict(s, {x \in DOMAIN s : Rank[s[x].id] <= cut})
  BY DEF Upto, RestrictValues
<1> QED BY <1>1 DEF Elements, Restrict

LEMMA AfterElements ==
  ASSUME NEW s, NEW cut
  PROVE  Elements(After(s, cut)) = {i \in Elements(s) : Rank[i.id] > cut}
<1>1. After(s, cut) = Restrict(s, {x \in DOMAIN s : Rank[s[x].id] > cut})
  BY DEF After, RestrictValues
<1> QED BY <1>1 DEF Elements, Restrict

LEMMA BesideElements ==
  ASSUME NEW s, NEW t
  PROVE  Elements(Beside(s, t)) = Elements(s) \cup Elements(t)
<1>1. \A i \in DOMAIN s : <<1, i>> \in DOMAIN Beside(s, t) /\ Beside(s, t)[<<1, i>>] = s[i]
  BY DEF Beside
<1>2. \A i \in DOMAIN t : <<2, i>> \in DOMAIN Beside(s, t) /\ Beside(s, t)[<<2, i>>] = t[i]
  BY DEF Beside
<1>3. ASSUME NEW x \in DOMAIN Beside(s, t)
      PROVE  Beside(s, t)[x] \in Elements(s) \cup Elements(t)
  BY DEF Beside, Elements
<1>4. Elements(Beside(s, t)) \subseteq Elements(s) \cup Elements(t)
  BY <1>3 DEF Elements
<1>5. Elements(s) \subseteq Elements(Beside(s, t))
  BY <1>1 DEF Elements
<1>6. Elements(t) \subseteq Elements(Beside(s, t))
  BY <1>2 DEF Elements
<1> QED BY <1>4, <1>5, <1>6

\* The identities of a page list come from the versions it was read on, and
\* those in both are in it.
LEMMA PagesIds ==
  ASSUME NEW kind \in DOMAIN Published, kind \in Paged,
         NEW v \in DOMAIN Published[kind], NEW w \in DOMAIN Published[kind], NEW cut \in Nat
  PROVE  LET before == Published[kind][v]
             now    == Published[kind][w]
             pages  == Pages(kind, before, now, cut)
         IN  /\ DOMAIN pages = {"items", "links", "entities"}
             /\ pages.entities = now.entities
             /\ Elements(pages.items) = {i \in Elements(before.items) : Rank[i.id] <= cut}
                                          \cup {i \in Elements(now.items) : Rank[i.id] > cut}
             /\ Elements(pages.links) = {l \in Elements(now.links) : l.source \in Ids(pages.items)}
             /\ IsFiniteSet(DOMAIN pages.items)
<1> DEFINE before == Published[kind][v]
           now    == Published[kind][w]
           pages  == Pages(kind, before, now, cut)
           items  == Beside(Upto(before.items, cut), After(now.items, cut))
<1>1. DOMAIN now = {"items", "links", "entities"}
  BY PublishedAssumption DEF WellTyped
<1>2. /\ pages.items = items
      /\ pages.links = Restrict(now.links, {x \in DOMAIN now.links : now.links[x].source \in Ids(items)})
      /\ pages.entities = now.entities
      /\ DOMAIN pages = {"items", "links", "entities"}
  BY <1>1 DEF Pages, RestrictValues
<1>3. Elements(items) = {i \in Elements(before.items) : Rank[i.id] <= cut}
                         \cup {i \in Elements(now.items) : Rank[i.id] > cut}
  BY UptoElements, AfterElements, BesideElements
<1>4. Elements(pages.links) = {l \in Elements(now.links) : l.source \in Ids(pages.items)}
  BY <1>2 DEF Elements, Restrict
<1>5. IsFiniteSet(DOMAIN items)
  <2>1. IsFiniteSet(DOMAIN before.items) /\ IsFiniteSet(DOMAIN now.items)
    BY PublishedAssumption DEF WellTyped
  <2>2. DOMAIN Upto(before.items, cut) \subseteq DOMAIN before.items
        /\ DOMAIN After(now.items, cut) \subseteq DOMAIN now.items
    BY DEF Upto, After, RestrictValues, Restrict
  <2>3. IsFiniteSet(DOMAIN Upto(before.items, cut)) /\ IsFiniteSet(DOMAIN After(now.items, cut))
    BY <2>1, <2>2, FS_Subset
  <2>4. IsFiniteSet({1} \X DOMAIN Upto(before.items, cut)) /\ IsFiniteSet({2} \X DOMAIN After(now.items, cut))
    BY <2>3, FS_Singleton, FS_Product
  <2>5. DOMAIN items = ({1} \X DOMAIN Upto(before.items, cut)) \cup ({2} \X DOMAIN After(now.items, cut))
    BY DEF Beside
  <2>6. IsFiniteSet(({1} \X DOMAIN Upto(before.items, cut)) \cup ({2} \X DOMAIN After(now.items, cut)))
    BY <2>4, FS_Union
  <2> QED BY <2>5, <2>6
<1> QED BY <1>2, <1>3, <1>4, <1>5

\* What every set of facts a run may load has of its kind.
FactsKept(kind, facts) ==
  /\ WellTyped(kind, facts)
  /\ Ids(facts.items) \subseteq AllIds(kind)
  /\ \A e \in facts.entities : e.id \notin AllIds(kind)
  /\ KeptNodes[kind] \subseteq Ids(facts.items)
  /\ KeptEdges[kind] \subseteq {KeyOf(l) : l \in Elements(LinksOf(kind, facts))}

LEMMA KeptNodesHeld ==
  ASSUME NEW kind \in DOMAIN Published, NEW v \in DOMAIN Published[kind]
  PROVE  KeptNodes[kind] \subseteq Ids(Published[kind][v].items)
BY DEF KeptNodes, AlwaysHeld

LEMMA KeptEdgesHeld ==
  ASSUME NEW kind \in DOMAIN Published, NEW v \in DOMAIN Published[kind]
  PROVE  KeptEdges[kind] \subseteq {KeyOf(l) : l \in Elements(LinksOf(kind, Published[kind][v]))}
BY DEF KeptEdges, AlwaysHeld

LEMMA KeptEdgesJoin ==
  ASSUME NEW kind \in DOMAIN Published, NEW k \in KeptEdges[kind], NEW end \in {k.source, k.target}
  PROVE  \E other \in DOMAIN Published : end \in KeptNodes[other]
BY DEF KeptEdges

LEMMA AllIdsHeld ==
  ASSUME NEW kind, NEW v \in DOMAIN Published[kind]
  PROVE  Ids(Published[kind][v].items) \subseteq AllIds(kind)
BY DEF AllIds

LEMMA PublishedKept ==
  ASSUME NEW kind \in DOMAIN Published, NEW v \in DOMAIN Published[kind]
  PROVE  FactsKept(kind, Published[kind][v])
BY PublishedAssumption, KeptNodesHeld, KeptEdgesHeld, AllIdsHeld DEF FactsKept

\* The edges of the industries lead from a child to its parent.
LEMMA ParentLinks ==
  ASSUME NEW facts
  PROVE  /\ \A l \in Elements(LinksOf("Industry", facts)) : \E i \in Elements(facts.items) :
              i.parent # NoParent /\ KeyOf(l) = Key("IndustryHasParent", i.id, i.parent, NoScope)
         /\ \A i \in Elements(facts.items) : i.parent # NoParent =>
              \E l \in Elements(LinksOf("Industry", facts)) :
                KeyOf(l) = Key("IndustryHasParent", i.id, i.parent, NoScope)
<1> DEFINE children == Restrict(facts.items, {x \in DOMAIN facts.items : facts.items[x].parent # NoParent})
           links == LinksOf("Industry", facts)
           link(x) == [name |-> "IndustryHasParent", source |-> children[x].id,
                       target |-> children[x].parent, scope |-> NoScope, text |-> children[x].text]
<1>1. links = [x \in DOMAIN children |-> link(x)]
  BY DEF LinksOf, RestrictValues
<1>2. \A x \in DOMAIN children : links[x] = link(x) /\ KeyOf(links[x]) = Key("IndustryHasParent", children[x].id, children[x].parent, NoScope)
  BY <1>1 DEF KeyOf
<1>3. /\ DOMAIN links = DOMAIN children
      /\ DOMAIN children = {x \in DOMAIN facts.items : facts.items[x].parent # NoParent}
      /\ \A x \in DOMAIN children : children[x] = facts.items[x]
  BY <1>1 DEF Restrict
<1> HIDE DEF children, links, link
<1> QED BY <1>2, <1>3 DEF Elements, links

LEMMA PagesKept ==
  ASSUME NEW kind \in DOMAIN Published, kind \in Paged,
         NEW v \in DOMAIN Published[kind], NEW w \in DOMAIN Published[kind], NEW cut \in Nat
  PROVE  FactsKept(kind, Pages(kind, Published[kind][v], Published[kind][w], cut))
<1> DEFINE before == Published[kind][v]
           now    == Published[kind][w]
           pages  == Pages(kind, before, now, cut)
<1>1. /\ DOMAIN pages = {"items", "links", "entities"}
      /\ pages.entities = now.entities
      /\ Elements(pages.items) = {i \in Elements(before.items) : Rank[i.id] <= cut}
                                    \cup {i \in Elements(now.items) : Rank[i.id] > cut}
      /\ Elements(pages.links) = {l \in Elements(now.links) : l.source \in Ids(pages.items)}
      /\ IsFiniteSet(DOMAIN pages.items)
  BY PagesIds
<1>2. FactsKept(kind, before) /\ FactsKept(kind, now)
  BY PublishedKept
<1> HIDE DEF pages, before, now
<1>3. Ids(pages.items) \subseteq AllIds(kind)
  BY <1>1, <1>2 DEF FactsKept, Ids
<1>4. \A id \in AllIds(kind) : Rank[id] \in Nat
  BY PublishedAssumption
<1>5. \A id \in Ids(before.items) \cap Ids(now.items) : id \in Ids(pages.items)
  BY <1>1, <1>2, <1>4 DEF FactsKept, Ids
<1>6. KeptNodes[kind] \subseteq Ids(pages.items)
  BY <1>2, <1>5 DEF FactsKept
<1>7. \A item \in Elements(pages.items) : item.label \in OwnedLabels(kind)
  BY <1>1, <1>2 DEF FactsKept, WellTyped
<1>8. WellTyped(kind, pages)
  BY <1>1, <1>2, <1>7 DEF FactsKept, WellTyped, Paged
<1>9. KeptEdges[kind] \subseteq {KeyOf(l) : l \in Elements(LinksOf(kind, pages))}
  <2> SUFFICES ASSUME NEW k \in KeptEdges[kind]
               PROVE  \E l \in Elements(LinksOf(kind, pages)) : KeyOf(l) = k
    OBVIOUS
  <2>1. PICK b \in Elements(LinksOf(kind, before)), n \in Elements(LinksOf(kind, now)) :
          KeyOf(b) = k /\ KeyOf(n) = k
    BY <1>2 DEF FactsKept
  <2>2. CASE kind = "Industry"
    <3>1. PICK i \in Elements(before.items) :
            i.parent # NoParent /\ k = Key("IndustryHasParent", i.id, i.parent, NoScope)
      BY <2>1, <2>2, ParentLinks
    <3>2. PICK m \in Elements(now.items) :
            m.parent # NoParent /\ k = Key("IndustryHasParent", m.id, m.parent, NoScope)
      BY <2>1, <2>2, ParentLinks
    <3>3. i.id = m.id /\ i.id \in AllIds(kind)
      BY <3>1, <3>2, <1>2 DEF Key, FactsKept, Ids
    <3>4. i \in Elements(pages.items) \/ m \in Elements(pages.items)
      BY <3>3, <1>1, <1>4
    <3> QED BY <3>1, <3>2, <3>4, <2>2, ParentLinks
  <2>3. CASE kind = "Concept"
    BY <2>1, <2>3, <1>2 DEF FactsKept, WellTyped, LinksOf, OwnedNames
  <2>4. CASE kind = "IndustryChain"
    <3>1. b \in Elements(before.links) /\ n \in Elements(now.links)
      BY <2>1, <2>4 DEF LinksOf
    <3>2. b.source = n.source
      BY <2>1 DEF KeyOf, Key
    <3>3. n.source \in Ids(before.items) \cap Ids(now.items)
      BY <3>1, <3>2, <2>4, <1>2 DEF FactsKept, WellTyped
    <3>4. n \in Elements(pages.links)
      BY <3>1, <3>3, <1>1, <1>5
    <3> QED BY <3>4, <2>1, <2>4 DEF LinksOf
  <2> QED BY <2>2, <2>3, <2>4 DEF Paged
<1>10. \A e \in pages.entities : e.id \notin AllIds(kind)
  BY <1>1, <1>2 DEF FactsKept
<1>11. FactsKept(kind, pages)
  BY <1>3, <1>6, <1>8, <1>9, <1>10 DEF FactsKept
<1> QED BY <1>11 DEF pages, before, now

\* Whatever a run loads, however its pages were cut.
LEMMA LoadedKept ==
  ASSUME NEW kind \in DOMAIN Published, NEW since, since \in 1..version[kind],
         version[kind] \in DOMAIN Published[kind],
         NEW facts \in Loaded(kind, since)
  PROVE  FactsKept(kind, facts)
<1>1. 1..version[kind] \subseteq DOMAIN Published[kind]
  BY PublishedAssumption
<1>2. CASE kind \in Paged
  <2>1. PICK cut \in {0} \cup {Rank[i] : i \in Ids(Published[kind][since].items)} :
          facts = Pages(kind, Published[kind][since], Published[kind][version[kind]], cut)
    <3> DEFINE cuts == {0} \cup {Rank[i] : i \in Ids(Published[kind][since].items)}
    <3>1. Loaded(kind, since) =
            {Pages(kind, Published[kind][since], Published[kind][version[kind]], cut) : cut \in cuts}
      BY <1>2 DEF Loaded, Paged
    <3> HIDE DEF cuts
    <3>2. \E cut \in cuts :
            facts = Pages(kind, Published[kind][since], Published[kind][version[kind]], cut)
      BY <3>1
    <3> QED BY <3>2 DEF cuts
  <2>2. cut \in Nat
    BY <1>1, <1>2, AllIdsHeld, PublishedAssumption
  <2> QED BY <1>1, <1>2, <2>1, <2>2, PagesKept
<1>3. CASE kind = "CountryRegion"
  <2>1. facts = Published[kind][version[kind]]
    BY <1>3 DEF Loaded, Paged
  <2> QED BY <2>1, PublishedKept
<1>4. CASE kind \notin Paged /\ kind # "CountryRegion"
  <2>1. PICK v \in 1..version[kind] : facts = Published[kind][v]
    BY <1>4 DEF Loaded
  <2> QED BY <1>1, <2>1, PublishedKept
<1> QED BY <1>2, <1>3, <1>4

LEMMA OwnedLinks ==
  ASSUME NEW kind, NEW facts, WellTyped(kind, facts), NEW l \in Elements(LinksOf(kind, facts))
  PROVE  l.name \in OwnedNames(kind)
<1>1. CASE kind = "Industry"
  <2>1. KeyOf(l).name = "IndustryHasParent"
    BY <1>1, ParentLinks DEF Key
  <2> QED BY <2>1, <1>1 DEF KeyOf, Key, OwnedNames
<1>2. CASE kind # "Industry"
  BY <1>2 DEF LinksOf, WellTyped
<1> QED BY <1>1, <1>2

LEMMA PlannedNodes ==
  ASSUME NEW kind, NEW facts, WellTyped(kind, facts)
  PROVE  LET nodes == NodesOf(facts.items)
         IN  /\ DOMAIN nodes = Ids(facts.items)
             /\ IsFiniteSet(DOMAIN nodes)
             /\ \A n \in DOMAIN nodes : nodes[n].label \in OwnedLabels(kind)
<1> DEFINE nodes == NodesOf(facts.items)
           item(id) == CHOOSE i \in Elements(facts.items) : i.id = id
<1>1. DOMAIN nodes = Ids(facts.items)
  BY DEF NodesOf
<1>2. IsFiniteSet(DOMAIN nodes)
  BY <1>1, FiniteIds DEF WellTyped
<1>3. ASSUME NEW n \in DOMAIN nodes
      PROVE  nodes[n].label \in OwnedLabels(kind)
  <2>1. item(n) \in Elements(facts.items)
    BY <1>1, <1>3 DEF Ids
  <2>2. nodes[n].label = item(n).label
    BY <1>1, <1>3 DEF NodesOf
  <2> QED BY <2>1, <2>2 DEF WellTyped
<1> QED BY <1>1, <1>2, <1>3

LEMMA LoadedPlanKept ==
  ASSUME NEW kind \in DOMAIN Published, NEW facts, FactsKept(kind, facts),
         NEW me, me.kind = kind,
         \/ me.plan = PlanOf(kind, facts)
         \/ /\ kind = "CountryRegion" /\ me.command = "smoke"
            /\ me.plan = FirstTriplet(PlanOf(kind, facts))
  PROVE  PlanKept(me)
<1> DEFINE plan == PlanOf(kind, facts)
           keys == {KeyOf(l) : l \in Elements(LinksOf(kind, facts))}
<1>1. /\ DOMAIN plan = {"nodes", "edges", "targets"}
      /\ plan.nodes = NodesOf(facts.items) /\ DOMAIN plan.edges = keys
  BY DEF PlanOf, EdgesOf
<1>2. /\ DOMAIN plan.nodes = Ids(facts.items)
      /\ IsFiniteSet(DOMAIN plan.nodes)
      /\ \A n \in DOMAIN plan.nodes : plan.nodes[n].label \in OwnedLabels(kind)
  BY <1>1, PlannedNodes DEF FactsKept
<1>3. \A k \in keys : k.name \in OwnedNames(kind)
  BY OwnedLinks DEF FactsKept, KeyOf, Key
<1>4. DOMAIN NoPlan = {"nodes", "edges", "targets"}
  BY DEF NoPlan
<1>5. /\ DOMAIN plan.nodes \subseteq AllIds(kind)
      /\ KeptNodes[kind] \subseteq DOMAIN plan.nodes
      /\ KeptEdges[kind] \subseteq DOMAIN plan.edges
  BY <1>1, <1>2 DEF FactsKept
<1> HIDE DEF plan, keys
<1>6. CASE me.plan = plan
  BY <1>1, <1>2, <1>3, <1>4, <1>5, <1>6 DEF PlanKept
<1>7. CASE kind = "CountryRegion" /\ me.command = "smoke" /\ me.plan = FirstTriplet(plan)
  <2> DEFINE first == Chunk(DOMAIN plan.edges, 1)
             ends == UNION {{k.source, k.target} : k \in first}
  <2>1. first \subseteq DOMAIN plan.edges
    BY ChunkSubset
  <2>2. \A k \in first : {k.source, k.target} \subseteq Ids(facts.items)
    <3>1. \A l \in Elements(facts.links) : {l.source, l.target} \subseteq Ids(facts.items)
      BY <1>7 DEF FactsKept, WellTyped
    <3>2. keys = {KeyOf(l) : l \in Elements(facts.links)}
      BY <1>7 DEF LinksOf, keys
    <3> QED BY <2>1, <3>1, <3>2, <1>1 DEF KeyOf, Key
  <2> HIDE DEF first
  <2>3. ends \subseteq DOMAIN plan.nodes
    BY <2>2, <1>2
  <2> HIDE DEF ends
  <2>4. me.plan = [plan EXCEPT !.nodes = Restrict(plan.nodes, ends), !.edges = Restrict(plan.edges, first)]
    BY <1>7 DEF FirstTriplet, first, ends
  <2>5. /\ DOMAIN me.plan = DOMAIN plan
        /\ me.plan.nodes = Restrict(plan.nodes, ends)
        /\ me.plan.edges = Restrict(plan.edges, first)
    BY <2>4, <1>1
  <2>6. /\ DOMAIN me.plan.nodes = ends
        /\ \A n \in ends : me.plan.nodes[n] = plan.nodes[n]
        /\ DOMAIN me.plan.edges = first
    BY <2>5 DEF Restrict
  <2>7. IsFiniteSet(ends)
    BY <2>3, <1>2, FS_Subset
  <2> QED BY <2>1, <2>3, <2>5, <2>6, <2>7, <1>1, <1>2, <1>3, <1>4, <1>5, <1>7 DEF PlanKept
<1> QED BY <1>6, <1>7 DEF plan

-----------------------------------------------------------------------------
(* The command lines of the entities keep what a run holds of kept facts *)

Kinds == Sweeping \cup Storylines \cup {"Variable", "Company"}

LEMMA OwnedApart ==
  ASSUME NEW a \in Kinds, NEW b \in Kinds, a # b
  PROVE  /\ OwnedLabels(a) \cap OwnedLabels(b) = {}
         /\ OwnedNames(a) \cap OwnedNames(b) = {}
BY DEF Kinds, Sweeping, Storylines, OwnedLabels, OwnedNames, TopologyNames

LEMMA CommandsOf ==
  ASSUME NEW kind \in Kinds, NEW command \in Commands(kind)
  PROVE  /\ kind # "Company"
         /\ command \in {"run", "replace", "smoke", "verify"}
         /\ command = "smoke" => kind = "CountryRegion"
         /\ command = "replace" => kind \in Sweeping
BY DEF Kinds, Commands, Sweeping, Storylines

LEMMA IdleFields ==
  DOMAIN Idle = {"pc", "kind", "command", "since", "plan", "stale", "todo", "quiet"}
BY DEF Idle

LEMMA KindsPublished ==
  ASSUME EntityInv
  PROVE  kinds \subseteq DOMAIN Published /\ DOMAIN Published \subseteq Kinds
BY ScenarioAssumption, PublishedAssumption DEF EntityInv, Kinds

LEMMA PlanKeptSame ==
  ASSUME NEW me, NEW other, PlanKept(me),
         other.kind = me.kind, other.command = me.command, other.plan = me.plan
  PROVE  PlanKept(other)
BY DEF PlanKept

\* The phase a run goes on to write in.
LEMMA SavingFields ==
  ASSUME NEW me, DOMAIN me = DOMAIN Idle
  PROVE  LET next == Saving(me)
         IN  /\ DOMAIN next = DOMAIN Idle
             /\ next.kind = me.kind /\ next.command = me.command /\ next.plan = me.plan
             /\ next.since = me.since /\ next.stale = me.stale /\ next.quiet = me.quiet
             /\ \/ /\ next.pc = "save_nodes" /\ next.todo = DOMAIN me.plan.nodes
                   /\ me.pc # "save_nodes" /\ DOMAIN me.plan.nodes # {}
                \/ /\ next.pc = "save_edges" /\ next.todo = DOMAIN me.plan.edges
                   /\ me.pc = "save_nodes" \/ DOMAIN me.plan.nodes = {}
                \/ /\ next.pc = "inspect" /\ next.todo = {} /\ DOMAIN me.plan.edges = {}
                   /\ me.pc = "save_nodes" \/ DOMAIN me.plan.nodes = {}
BY IdleFields DEF Saving

LEMMA WritingFields ==
  ASSUME NEW me, DOMAIN me = DOMAIN Idle
  PROVE  LET next == Writing(me)
         IN  /\ DOMAIN next = DOMAIN Idle
             /\ next.kind = me.kind /\ next.command = me.command /\ next.plan = me.plan
             /\ next.since = me.since /\ next.stale = me.stale /\ next.quiet = me.quiet
             /\ \/ me.command = "replace" /\ next.pc = "read_stale"
                \/ me.command # "replace" /\ next = Saving(me)
<1>1. CASE me.command = "replace"
  BY <1>1, IdleFields DEF Writing, Sweeps
<1>2. CASE me.command # "replace"
  BY <1>2, SavingFields DEF Writing, Sweeps
<1> QED BY <1>1, <1>2

\* A run another process disturbs, or none does, holds what it held.
LEMMA OtherJobKept ==
  ASSUME EntityInv, kinds' = kinds, NEW i \in DOMAIN job,
         \A kind \in DOMAIN Published : 1..version[kind] \subseteq 1..version'[kind],
         job'[i] = job[i] \/ job'[i] = [job[i] EXCEPT !.quiet = FALSE]
  PROVE  JobKept(job[i])'
<1> DEFINE me == job[i]
<1>1. JobKept(me)
  BY DEF EntityInv
<1>2. /\ DOMAIN job'[i] = DOMAIN Idle
      /\ job'[i].pc = me.pc /\ job'[i].kind = me.kind /\ job'[i].command = me.command
      /\ job'[i].since = me.since /\ job'[i].plan = me.plan
      /\ job'[i].stale = me.stale /\ job'[i].todo = me.todo
  BY <1>1, IdleFields DEF JobKept
<1>3. me.pc = "load" => job'[i].since \in 1..version'[job'[i].kind]
  BY <1>1, <1>2, KindsPublished DEF JobKept
<1>4. me.pc \notin {"idle", "load"} => PlanKept(job'[i])
  BY <1>1, <1>2, PlanKeptSame DEF JobKept
<1> HIDE DEF me
<1> QED BY <1>1, <1>2, <1>3, <1>4 DEF JobKept

LEMMA EntityInvStep ==
  ASSUME EntityInv, NEW j \in DOMAIN job, UNCHANGED <<kinds, version>>,
         GraphKept', DOMAIN job' = DOMAIN job, JobKept(job[j])',
         \A i \in DOMAIN job \ {j} : job'[i] = job[i] \/ job'[i] = [job[i] EXCEPT !.quiet = FALSE]
  PROVE  EntityInv'
<1>1. \A i \in DOMAIN job \ {j} : JobKept(job[i])'
  BY OtherJobKept
<1>2. \A i \in DOMAIN job' : JobKept(job[i])'
  BY <1>1
<1> QED BY <1>2 DEF EntityInv

\* A step of one run that writes nothing.
LEMMA OwnStepKept ==
  ASSUME EntityInv, NEW j \in DOMAIN job, UNCHANGED <<kinds, version, graph>>,
         NEW next, job' = [job EXCEPT ![j] = next], JobKept(job[j])'
  PROVE  EntityInv'
<1>1. GraphKept'
  BY DEF EntityInv, GraphKept
<1> QED BY <1>1, EntityInvStep

LEMMA IdleKept ==
  ASSUME NEW j, job'[j] = Idle
  PROVE  JobKept(job[j])'
<1>1. Idle.pc = "idle"
  BY DEF Idle
<1>2. DOMAIN job'[j] = DOMAIN Idle /\ job'[j].pc = "idle"
  BY <1>1
<1> QED BY <1>2 DEF JobKept, Phases

\* A write disturbs every other run, and goes on as its own.
LEMMA WriteEffect ==
  ASSUME NEW j \in DOMAIN job, NEW g, NEW next, Write(j, g, next)
  PROVE  /\ graph' = g /\ DOMAIN job' = DOMAIN job /\ job'[j] = next
         /\ \A i \in DOMAIN job \ {j} :
              job'[i] = IF job[i].pc = "idle" THEN job[i] ELSE [job[i] EXCEPT !.quiet = FALSE]
BY DEF Write, Disturbed

LEMMA WriteKept ==
  ASSUME EntityInv, NEW j \in DOMAIN job, UNCHANGED <<kinds, version>>,
         NEW g, NEW next, Write(j, g, next), GraphKept', JobKept(job[j])'
  PROVE  EntityInv'
BY WriteEffect, EntityInvStep

LEMMA PublishKept ==
  ASSUME EntityInv, NEW kind \in kinds, Publish(kind)
  PROVE  EntityInv'
<1>1. kind \in DOMAIN Published
  BY KindsPublished
<1>2. \A k \in DOMAIN Published :
        /\ Len(Published[k]) \in Nat
        /\ version[k] \in 1..Len(Published[k])
        /\ DOMAIN Published[k] = 1..Len(Published[k])
  BY PublishedAssumption DEF EntityInv
<1>3. /\ DOMAIN version' = DOMAIN Published
      /\ version'[kind] = version[kind] + 1
      /\ \A k \in DOMAIN Published \ {kind} : version'[k] = version[k]
  BY <1>1 DEF Publish, EntityInv
<1>4. \A k \in DOMAIN Published :
        version'[k] \in 1..Len(Published[k]) /\ 1..version[k] \subseteq 1..version'[k]
  BY <1>1, <1>2, <1>3 DEF Publish
<1>5. \A i \in DOMAIN job : JobKept(job[i])'
  <2> SUFFICES ASSUME NEW i \in DOMAIN job PROVE JobKept(job[i])'
    OBVIOUS
  <2> QED BY <1>4, OtherJobKept DEF Publish
<1>6. GraphKept'
  BY DEF EntityInv, GraphKept, Publish
<1> QED BY <1>2, <1>3, <1>4, <1>5, <1>6 DEF EntityInv, Publish

LEMMA StartKept ==
  ASSUME EntityInv, NEW j \in DOMAIN job, Start(j)
  PROVE  EntityInv'
<1>0. PICK kind \in kinds : \E command \in Commands(kind) :
        job' = [job EXCEPT ![j] = [Idle EXCEPT !.pc = "load", !.kind = kind,
                                     !.command = command, !.since = version[kind]]]
  BY DEF Start
<1>1. PICK command \in Commands(kind) :
        job' = [job EXCEPT ![j] = [Idle EXCEPT !.pc = "load", !.kind = kind,
                                     !.command = command, !.since = version[kind]]]
  BY <1>0
<1> DEFINE next == [Idle EXCEPT !.pc = "load", !.kind = kind, !.command = command, !.since = version[kind]]
<1>2. /\ DOMAIN next = DOMAIN Idle
      /\ next.pc = "load" /\ next.kind = kind /\ next.command = command /\ next.since = version[kind]
  BY IdleFields
<1>3. version[kind] \in 1..version[kind]
  BY KindsPublished, PublishedAssumption DEF EntityInv
<1>4. JobKept(job[j])'
  <2>1. job'[j] = next
    BY <1>1
  <2> HIDE DEF next
  <2> QED BY <2>1, <1>2, <1>3 DEF JobKept, Phases, Start
<1> QED BY <1>1, <1>4, OwnStepKept DEF Start

LEMMA LoadKept ==
  ASSUME EntityInv, NEW j \in DOMAIN job, Load(j)
  PROVE  EntityInv'
<1> DEFINE me == job[j]
<1>1. JobKept(me) /\ me.pc = "load"
  BY DEF EntityInv, Load
<1>2. /\ DOMAIN me = DOMAIN Idle /\ me.kind \in kinds /\ me.command \in Commands(me.kind)
      /\ me.kind \in DOMAIN Published /\ me.since \in 1..version[me.kind]
  BY <1>1, KindsPublished DEF JobKept
<1>3. PICK facts \in Loaded(me.kind, me.since) :
        IF Refused(me.kind, facts) THEN Stop(j)
        ELSE LET whole == PlanOf(me.kind, facts)
                 plan  == IF me.command = "smoke" THEN FirstTriplet(whole) ELSE whole
                 mine  == [job[j] EXCEPT !.plan = plan, !.since = 0]
             IN  job' = [job EXCEPT ![j] =
                   CASE me.command = "verify" -> [mine EXCEPT !.pc = "inspect"]
                     [] me.command # "verify" /\ me.kind \in Storylines \cup {"IndustryChain", "ChainNode"}
                          -> [mine EXCEPT !.pc = "preflight"]
                     [] OTHER -> Writing(mine)]
  BY DEF Load
<1>4. FactsKept(me.kind, facts)
  BY <1>2, <1>3, LoadedKept DEF EntityInv
<1>5. CASE Refused(me.kind, facts)
  <2>1. job' = [job EXCEPT ![j] = Idle]
    BY <1>3, <1>5 DEF Stop
  <2> QED BY <2>1, IdleKept, OwnStepKept DEF Load
<1>6. CASE ~Refused(me.kind, facts)
  <2> DEFINE whole == PlanOf(me.kind, facts)
             plan  == IF me.command = "smoke" THEN FirstTriplet(whole) ELSE whole
             mine  == [me EXCEPT !.plan = plan, !.since = 0]
             next  == CASE me.command = "verify" -> [mine EXCEPT !.pc = "inspect"]
                        [] me.command # "verify" /\ me.kind \in Storylines \cup {"IndustryChain", "ChainNode"}
                             -> [mine EXCEPT !.pc = "preflight"]
                        [] OTHER -> Writing(mine)
  <2>1. job' = [job EXCEPT ![j] = next]
    BY <1>3, <1>6
  <2>2. /\ DOMAIN mine = DOMAIN Idle
        /\ mine.kind = me.kind /\ mine.command = me.command /\ mine.plan = plan /\ mine.pc = "load"
    BY <1>1, <1>2, IdleFields
  <2>3. PlanKept(mine)
    <3>1. me.command = "smoke" => me.kind = "CountryRegion"
      BY <1>2, CommandsOf, KindsPublished
    <3> QED BY <3>1, <2>2, <1>2, <1>4, LoadedPlanKept
  <2> HIDE DEF mine
  <2>4. /\ DOMAIN next = DOMAIN Idle
        /\ next.kind = me.kind /\ next.command = me.command /\ next.plan = plan
        /\ next.pc \in {"inspect", "preflight", "read_stale", "save_nodes", "save_edges"}
        /\ next.pc = "read_stale" => me.command = "replace"
        /\ next.pc = "save_nodes" => next.todo = DOMAIN plan.nodes
        /\ next.pc = "save_edges" => next.todo = DOMAIN plan.edges
    <3>1. CASE me.command = "verify"
      BY <3>1, <2>2, IdleFields
    <3>2. CASE me.command # "verify" /\ me.kind \in Storylines \cup {"IndustryChain", "ChainNode"}
      BY <3>2, <2>2, IdleFields
    <3>3. CASE me.command # "verify" /\ me.kind \notin Storylines \cup {"IndustryChain", "ChainNode"}
      <4>1. next = Writing(mine)
        BY <3>3
      <4> QED BY <4>1, <2>2, SavingFields, WritingFields
    <3> QED BY <3>1, <3>2, <3>3
  <2> HIDE DEF next, plan
  <2>5. job'[j] = next
    BY <2>1
  <2>6. PlanKept(next)
    BY <2>2, <2>3, <2>4, PlanKeptSame
  <2>7. JobKept(job[j])'
    BY <2>4, <2>5, <2>6, <1>2 DEF JobKept, Phases, Load
  <2> QED BY <2>1, <2>7, OwnStepKept DEF Load
<1> QED BY <1>5, <1>6

LEMMA GraphKeptSave ==
  ASSUME GraphKept, DOMAIN Published \subseteq Kinds, NEW kind \in DOMAIN Published,
         NEW f, IsFiniteSet(DOMAIN f), DOMAIN f \subseteq AllIds(kind),
         \A n \in DOMAIN f : f[n].label \in OwnedLabels(kind),
         graph' = SaveNodes(graph, f)
  PROVE  GraphKept'
<1>1. /\ IsGraph(graph')
      /\ DOMAIN graph'.nodes = DOMAIN f \cup DOMAIN graph.nodes
      /\ \A n \in DOMAIN f : graph'.nodes[n] = f[n]
      /\ \A n \in DOMAIN graph.nodes \ DOMAIN f : graph'.nodes[n] = graph.nodes[n]
  BY SaveNodesEffect DEF GraphKept, IsGraph
<1>2. IsFiniteSet(DOMAIN graph'.nodes)
  <2>1. IsFiniteSet(DOMAIN f \cup DOMAIN graph.nodes)
    BY FS_Union DEF GraphKept
  <2> QED BY <1>1, <2>1
<1>3. NoParent \notin DOMAIN graph'.nodes
  BY <1>1, PublishedAssumption DEF GraphKept
<1>4. ASSUME NEW other \in DOMAIN Published, NEW n \in KeptNodes[other] \cap DOMAIN graph'.nodes
      PROVE  graph'.nodes[n].label \in OwnedLabels(other)
  <2>1. CASE n \in DOMAIN f
    <3>1. n \in AllIds(other)
      <4>1. 1 \in DOMAIN Published[other]
        BY PublishedAssumption
      <4> QED BY <4>1, KeptNodesHeld, AllIdsHeld
    <3>2. other = kind
      BY <2>1, <3>1, PublishedAssumption
    <3> QED BY <2>1, <3>2, <1>1
  <2>2. CASE n \notin DOMAIN f
    BY <2>2, <1>1 DEF GraphKept
  <2> QED BY <2>1, <2>2
<1> QED BY <1>1, <1>2, <1>3, <1>4 DEF GraphKept, IsGraph

LEMMA GraphKeptEdges ==
  ASSUME GraphKept, IsGraph(graph'), graph'.nodes = graph.nodes
  PROVE  GraphKept'
BY DEF GraphKept, IsGraph

LEMMA GraphKeptDelete ==
  ASSUME GraphKept, IsGraph(graph'), DOMAIN graph'.nodes \subseteq DOMAIN graph.nodes,
         \A n \in DOMAIN graph'.nodes : graph'.nodes[n] = graph.nodes[n]
  PROVE  GraphKept'
<1>1. IsFiniteSet(DOMAIN graph'.nodes)
  BY FS_Subset DEF GraphKept
<1> QED BY <1>1 DEF GraphKept, IsGraph

LEMMA PreflightTargetsKept ==
  ASSUME EntityInv, NEW j \in DOMAIN job, PreflightTargets(j)
  PROVE  EntityInv'
<1> DEFINE me == job[j]
<1>1. JobKept(me) /\ me.pc = "preflight"
  BY DEF EntityInv, PreflightTargets
<1>2. CASE TargetsPresent(me.plan, graph)
  <2>1. job' = [job EXCEPT ![j] = Writing(me)]
    BY <1>2 DEF PreflightTargets
  <2>2. job'[j] = Writing(me)
    BY <2>1
  <2>3. /\ DOMAIN job'[j] = DOMAIN Idle
        /\ job'[j].kind = me.kind /\ job'[j].command = me.command /\ job'[j].plan = me.plan
        /\ \/ job'[j].pc = "save_nodes" /\ job'[j].todo = DOMAIN me.plan.nodes
           \/ job'[j].pc = "save_edges" /\ job'[j].todo = DOMAIN me.plan.edges
           \/ job'[j].pc = "inspect"
           \/ job'[j].pc = "read_stale" /\ me.command = "replace"
    BY <1>1, <2>2, WritingFields, SavingFields DEF JobKept
  <2>4. PlanKept(job'[j])
    BY <1>1, <2>3, PlanKeptSame DEF JobKept
  <2>5. JobKept(job[j])'
    <3> HIDE DEF me
    <3> QED BY <1>1, <2>3, <2>4 DEF JobKept, Phases, PreflightTargets
  <2> QED BY <2>1, <2>5, OwnStepKept DEF PreflightTargets
<1>3. CASE ~TargetsPresent(me.plan, graph)
  <2>1. job' = [job EXCEPT ![j] = Idle]
    BY <1>3 DEF PreflightTargets, Stop
  <2> QED BY <2>1, IdleKept, OwnStepKept DEF PreflightTargets
<1> QED BY <1>2, <1>3

LEMMA PreflightStorylinesKept ==
  ASSUME EntityInv, NEW j \in DOMAIN job, PreflightStorylines(j)
  PROVE  EntityInv'
<1> DEFINE me == job[j]
           changed == {n \in DOMAIN me.plan.nodes : ~Unchanged(me.plan, graph, n)}
<1>1. JobKept(me) /\ me.pc = "preflight"
  BY DEF EntityInv, PreflightStorylines
<1>2. CASE NothingUnexpected(me.kind, me.plan, graph)
  <2> DEFINE next == [me EXCEPT !.pc = "recheck", !.todo = changed]
  <2>1. job' = [job EXCEPT ![j] = next]
    BY <1>2 DEF PreflightStorylines
  <2>2. job'[j] = next
    BY <2>1
  <2>3. /\ DOMAIN job'[j] = DOMAIN Idle
        /\ job'[j].kind = me.kind /\ job'[j].command = me.command /\ job'[j].plan = me.plan
        /\ job'[j].pc = "recheck" /\ job'[j].todo \subseteq DOMAIN me.plan.nodes
    BY <1>1, <2>2, IdleFields DEF JobKept
  <2>4. PlanKept(job'[j])
    BY <1>1, <2>3, PlanKeptSame DEF JobKept
  <2>5. JobKept(job[j])'
    <3> HIDE DEF me, next
    <3> QED BY <1>1, <2>3, <2>4 DEF JobKept, Phases, PreflightStorylines
  <2> QED BY <2>1, <2>5, OwnStepKept DEF PreflightStorylines
<1>3. CASE ~NothingUnexpected(me.kind, me.plan, graph)
  <2>1. job' = [job EXCEPT ![j] = Idle]
    BY <1>3 DEF PreflightStorylines, Stop
  <2> QED BY <2>1, IdleKept, OwnStepKept DEF PreflightStorylines
<1> QED BY <1>2, <1>3

LEMMA RecheckKept ==
  ASSUME EntityInv, NEW j \in DOMAIN job, Recheck(j)
  PROVE  EntityInv'
<1> DEFINE me == job[j]
<1>1. JobKept(me) /\ me.pc = "recheck"
  BY DEF EntityInv, Recheck
<1>2. CASE NothingUnexpected(me.kind, me.plan, graph)
  <2> DEFINE next == [me EXCEPT !.pc = IF me.todo = {} THEN "inspect" ELSE "save_nodes"]
  <2>1. job' = [job EXCEPT ![j] = next]
    BY <1>2 DEF Recheck, Step
  <2>2. job'[j] = next
    BY <2>1
  <2>3. /\ DOMAIN job'[j] = DOMAIN Idle
        /\ job'[j].kind = me.kind /\ job'[j].command = me.command /\ job'[j].plan = me.plan
        /\ job'[j].pc \in {"inspect", "save_nodes"} /\ job'[j].todo = me.todo
    BY <1>1, <2>2, IdleFields DEF JobKept
  <2>4. PlanKept(job'[j])
    BY <1>1, <2>3, PlanKeptSame DEF JobKept
  <2>5. JobKept(job[j])'
    <3> HIDE DEF me, next
    <3> QED BY <1>1, <2>3, <2>4 DEF JobKept, Phases, Recheck
  <2> QED BY <2>1, <2>5, OwnStepKept DEF Recheck
<1>3. CASE ~NothingUnexpected(me.kind, me.plan, graph)
  <2>1. job' = [job EXCEPT ![j] = Idle]
    BY <1>3 DEF Recheck, Stop
  <2> QED BY <2>1, IdleKept, OwnStepKept DEF Recheck
<1> QED BY <1>2, <1>3

\* Kept nodes carry labels of their own kind, and are in the plan of theirs.
LEMMA ReadStaleKept ==
  ASSUME EntityInv, NEW j \in DOMAIN job, ReadStale(j)
  PROVE  EntityInv'
<1> DEFINE me == job[j]
           nodes == NodesIn(graph, OwnedLabels(me.kind)) \ DOMAIN me.plan.nodes
           next == [me EXCEPT !.pc = "sweep_edges", !.stale = StaleEdges(me.kind, me.plan, graph),
                              !.todo = nodes]
<1>1. JobKept(me) /\ me.pc = "read_stale"
  BY DEF EntityInv, ReadStale
<1>2. /\ me.command = "replace" /\ DOMAIN me = DOMAIN Idle /\ PlanKept(me)
      /\ me.kind \in DOMAIN Published /\ me.kind \in Kinds /\ me.command # "smoke"
  BY <1>1, KindsPublished DEF JobKept
<1>3. job' = [job EXCEPT ![j] = next]
  BY DEF ReadStale
<1>4. job'[j] = next
  BY <1>3
<1>5. /\ DOMAIN job'[j] = DOMAIN Idle
      /\ job'[j].kind = me.kind /\ job'[j].command = me.command /\ job'[j].plan = me.plan
      /\ job'[j].pc = "sweep_edges" /\ job'[j].todo = nodes
      /\ job'[j].stale = StaleEdges(me.kind, me.plan, graph)
  BY <1>2, <1>4, IdleFields
<1> HIDE DEF next
<1>6. PlanKept(job'[j])
  BY <1>2, <1>5, PlanKeptSame
<1>7. \A k \in job'[j].stale : k.name \in OwnedNames(me.kind) /\ k \notin DOMAIN me.plan.edges
  BY <1>5 DEF StaleEdges, EdgesIn
<1>8. ASSUME NEW kind \in DOMAIN Published, NEW n \in nodes \cap KeptNodes[kind]
      PROVE  FALSE
  <2>1. n \in DOMAIN graph.nodes /\ graph.nodes[n].label \in OwnedLabels(me.kind)
    BY <1>8 DEF NodesIn
  <2>2. graph.nodes[n].label \in OwnedLabels(kind)
    BY <2>1, <1>8 DEF EntityInv, GraphKept
  <2>3. kind = me.kind
    BY <2>1, <2>2, <1>2, OwnedApart, KindsPublished
  <2> QED BY <2>3, <1>2, <1>8 DEF PlanKept
<1> HIDE DEF me, nodes
<1>9. JobKept(job[j])'
  BY <1>1, <1>2, <1>5, <1>6, <1>7, <1>8 DEF JobKept, Phases, ReadStale
<1> QED BY <1>3, <1>9, OwnStepKept DEF ReadStale, me

LEMMA SweepEdgesKept ==
  ASSUME EntityInv, NEW j \in DOMAIN job, SweepEdges(j)
  PROVE  EntityInv'
<1> DEFINE me == job[j]
           next == [me EXCEPT !.pc = "sweep_nodes", !.stale = {}]
<1>1. JobKept(me) /\ me.pc = "sweep_edges" /\ Write(j, DeleteEdges(graph, me.stale), next)
  BY DEF EntityInv, SweepEdges
<1>2. graph' = DeleteEdges(graph, me.stale) /\ job'[j] = next
  BY <1>1, WriteEffect
<1>3. GraphKept'
  <2>1. IsGraph(graph) /\ GraphKept
    BY DEF EntityInv, GraphKept, IsGraph
  <2> QED BY <1>2, <2>1, DeleteEdgesEffect, GraphKeptEdges
<1>4. /\ DOMAIN job'[j] = DOMAIN Idle
      /\ job'[j].kind = me.kind /\ job'[j].command = me.command /\ job'[j].plan = me.plan
      /\ job'[j].pc = "sweep_nodes" /\ job'[j].todo = me.todo
  BY <1>1, <1>2, IdleFields DEF JobKept
<1>5. PlanKept(job'[j])
  BY <1>1, <1>4, PlanKeptSame DEF JobKept
<1>6. JobKept(job[j])'
  <2> HIDE DEF me, next
  <2> QED BY <1>1, <1>4, <1>5 DEF JobKept, Phases, SweepEdges
<1> QED BY <1>1, <1>3, <1>6, WriteKept DEF SweepEdges

LEMMA SweepNodesKept ==
  ASSUME EntityInv, NEW j \in DOMAIN job, SweepNodes(j)
  PROVE  EntityInv'
<1> DEFINE me == job[j]
<1>1. JobKept(me) /\ me.pc = "sweep_nodes" /\ me.command = "replace"
  BY DEF EntityInv, SweepNodes, JobKept
<1>2. CASE me.todo = {}
  <2>1. job' = [job EXCEPT ![j] = Saving(me)] /\ UNCHANGED <<kinds, version, graph>>
    BY <1>2 DEF SweepNodes
  <2>2. job'[j] = Saving(me)
    BY <2>1
  <2>3. /\ DOMAIN job'[j] = DOMAIN Idle
        /\ job'[j].kind = me.kind /\ job'[j].command = me.command /\ job'[j].plan = me.plan
        /\ \/ job'[j].pc = "save_nodes" /\ job'[j].todo = DOMAIN me.plan.nodes
           \/ job'[j].pc = "save_edges" /\ job'[j].todo = DOMAIN me.plan.edges
           \/ job'[j].pc = "inspect"
    BY <1>1, <2>2, SavingFields DEF JobKept
  <2>4. PlanKept(job'[j])
    BY <1>1, <2>3, PlanKeptSame DEF JobKept
  <2>5. JobKept(job[j])'
    <3> HIDE DEF me
    <3> QED BY <1>1, <2>3, <2>4 DEF JobKept, Phases, SweepNodes
  <2> QED BY <2>1, <2>5, OwnStepKept
<1>3. CASE me.todo # {}
  <2> DEFINE n == CHOOSE n \in me.todo : TRUE
             next == [me EXCEPT !.todo = @ \ {n}]
  <2>1. Write(j, DetachDelete(graph, {n}), next)
    BY <1>3 DEF SweepNodes
  <2> HIDE DEF n
  <2>2. graph' = DetachDelete(graph, {n}) /\ job'[j] = next
    BY <2>1, WriteEffect
  <2>3. GraphKept'
    <3>1. GraphKept
      BY DEF EntityInv
    <3>2. /\ IsGraph(graph') /\ DOMAIN graph'.nodes \subseteq DOMAIN graph.nodes
          /\ \A m \in DOMAIN graph'.nodes : graph'.nodes[m] = graph.nodes[m]
      BY <2>2, DetachDeleteEffect
    <3> QED BY <3>1, <3>2, GraphKeptDelete
  <2>4. /\ DOMAIN job'[j] = DOMAIN Idle
        /\ job'[j].kind = me.kind /\ job'[j].command = me.command /\ job'[j].plan = me.plan
        /\ job'[j].pc = "sweep_nodes" /\ job'[j].todo \subseteq me.todo
    BY <1>1, <2>2, IdleFields DEF JobKept
  <2>5. PlanKept(job'[j])
    BY <1>1, <2>4, PlanKeptSame DEF JobKept
  <2>6. JobKept(job[j])'
    <3> HIDE DEF me, next
    <3>1. \A kind \in DOMAIN Published : job'[j].todo \cap KeptNodes[kind] = {}
      BY <1>1, <2>4 DEF JobKept
    <3> QED BY <1>1, <2>4, <2>5, <3>1 DEF JobKept, Phases, SweepNodes
  <2> QED BY <2>1, <2>3, <2>6, WriteKept DEF SweepNodes
<1> QED BY <1>2, <1>3

LEMMA SaveNodeBatchKept ==
  ASSUME EntityInv, NEW j \in DOMAIN job, SaveNodeBatch(j)
  PROVE  EntityInv'
<1> DEFINE me == job[j]
           batch == IF me.kind \in Storylines THEN me.todo ELSE Chunk(me.todo, WriteBatch)
           left == me.todo \ batch
           next == IF left # {} THEN [me EXCEPT !.todo = left] ELSE Saving(me)
           written == Restrict(me.plan.nodes, batch)
<1>1. /\ JobKept(me) /\ me.pc = "save_nodes"
      /\ Write(j, SaveNodes(graph, written), next)
  BY DEF EntityInv, SaveNodeBatch
<1>2. /\ DOMAIN me = DOMAIN Idle /\ me.kind \in DOMAIN Published
      /\ PlanKept(me) /\ me.todo \subseteq DOMAIN me.plan.nodes
  BY <1>1, KindsPublished DEF JobKept
<1>3. batch \subseteq me.todo
  BY ChunkSubset
<1> HIDE DEF batch
<1>4. graph' = SaveNodes(graph, written) /\ job'[j] = next
  BY <1>1, WriteEffect
<1>5. GraphKept'
  <2>1. DOMAIN written = batch /\ \A n \in batch : written[n] = me.plan.nodes[n]
    BY DEF Restrict
  <2>2. /\ DOMAIN written \subseteq AllIds(me.kind)
        /\ \A n \in DOMAIN written : written[n].label \in OwnedLabels(me.kind)
    BY <2>1, <1>2, <1>3 DEF PlanKept
  <2>3. IsFiniteSet(DOMAIN written)
    BY <2>1, <1>2, <1>3, FS_Subset DEF PlanKept
  <2> HIDE DEF me, written
  <2> QED BY <1>2, <1>4, <2>2, <2>3, GraphKeptSave, KindsPublished DEF EntityInv
<1>6. /\ DOMAIN job'[j] = DOMAIN Idle
      /\ job'[j].kind = me.kind /\ job'[j].command = me.command /\ job'[j].plan = me.plan
      /\ \/ job'[j].pc = "save_nodes" /\ job'[j].todo \subseteq DOMAIN me.plan.nodes
         \/ job'[j].pc = "save_edges" /\ job'[j].todo = DOMAIN me.plan.edges
         \/ job'[j].pc = "inspect"
  <2>1. CASE left # {}
    BY <1>1, <1>2, <1>4, <2>1, IdleFields
  <2>2. CASE left = {}
    BY <1>1, <1>2, <1>4, <2>2, SavingFields
  <2> QED BY <2>1, <2>2
<1> HIDE DEF next, written
<1>7. PlanKept(job'[j])
  BY <1>2, <1>6, PlanKeptSame
<1>8. JobKept(job[j])'
  <2> HIDE DEF me
  <2> QED BY <1>1, <1>6, <1>7 DEF JobKept, Phases, SaveNodeBatch
<1> QED BY <1>1, <1>5, <1>8, WriteKept DEF SaveNodeBatch

LEMMA SaveEdgeBatchKept ==
  ASSUME EntityInv, NEW j \in DOMAIN job, SaveEdgeBatch(j)
  PROVE  EntityInv'
<1> DEFINE me == job[j]
           batch == Chunk(me.todo, WriteBatch)
           left == me.todo \ batch
           next == [me EXCEPT !.todo = left, !.pc = IF left = {} THEN "inspect" ELSE @]
           written == Restrict(me.plan.edges, batch)
<1>1. /\ JobKept(me) /\ me.pc = "save_edges"
      /\ Write(j, SaveEdges(graph, written), next)
  BY DEF EntityInv, SaveEdgeBatch
<1> HIDE DEF batch, written
<1>2. graph' = SaveEdges(graph, written) /\ job'[j] = next
  BY <1>1, WriteEffect
<1>3. GraphKept'
  <2>1. IsGraph(graph) /\ GraphKept
    BY DEF EntityInv, GraphKept, IsGraph
  <2> QED BY <1>2, <2>1, SaveEdgesEffect, GraphKeptEdges
<1>4. /\ DOMAIN job'[j] = DOMAIN Idle
      /\ job'[j].kind = me.kind /\ job'[j].command = me.command /\ job'[j].plan = me.plan
      /\ job'[j].pc \in {"save_edges", "inspect"} /\ job'[j].todo \subseteq me.todo
  BY <1>1, <1>2, IdleFields DEF JobKept
<1> HIDE DEF next
<1>5. PlanKept(job'[j])
  BY <1>1, <1>4, PlanKeptSame DEF JobKept
<1>6. JobKept(job[j])'
  <2> HIDE DEF me
  <2> QED BY <1>1, <1>4, <1>5 DEF JobKept, Phases, SaveEdgeBatch
<1> QED BY <1>1, <1>3, <1>6, WriteKept DEF SaveEdgeBatch

LEMMA StopKept ==
  ASSUME EntityInv, NEW j \in DOMAIN job, Inspect(j) \/ Die(j)
  PROVE  EntityInv'
<1>1. job' = [job EXCEPT ![j] = Idle] /\ UNCHANGED <<kinds, version, graph>>
  BY DEF Inspect, Die, Stop
<1> QED BY <1>1, IdleKept, OwnStepKept

LEMMA EntityNextKept ==
  ASSUME EntityInv, EntityNext
  PROVE  EntityInv'
<1>1. CASE \E kind \in kinds : Publish(kind)
  BY <1>1, PublishKept
<1>2. CASE \E j \in DOMAIN job : JobStep(j)
  <2>1. PICK j \in DOMAIN job : JobStep(j)
    BY <1>2
  <2> QED BY <2>1, StartKept, LoadKept, PreflightTargetsKept, PreflightStorylinesKept, RecheckKept,
             ReadStaleKept, SweepEdgesKept, SweepNodesKept, SaveNodeBatchKept, SaveEdgeBatchKept,
             StopKept DEF JobStep
<1> QED BY <1>1, <1>2 DEF EntityNext

-----------------------------------------------------------------------------
(* No step of an entity run costs the graph a kept fact *)

FactsStay(kind) ==
  /\ KeptNodes[kind] \cap DOMAIN graph.nodes \subseteq DOMAIN graph'.nodes
  /\ KeptEdges[kind] \cap DOMAIN graph.edges \subseteq DOMAIN graph'.edges

LEMMA KeptEdgesOwned ==
  ASSUME NEW kind \in DOMAIN Published, NEW k \in KeptEdges[kind]
  PROVE  k.name \in OwnedNames(kind)
<1>1. 1 \in DOMAIN Published[kind]
  BY PublishedAssumption
<1>2. PICK l \in Elements(LinksOf(kind, Published[kind][1])) : k = KeyOf(l)
  BY <1>1, KeptEdgesHeld
<1>3. l.name \in OwnedNames(kind)
  BY <1>1, <1>2, PublishedAssumption, OwnedLinks
<1> QED BY <1>2, <1>3 DEF KeyOf, Key

LEMMA SweepEdgesKeepsFacts ==
  ASSUME EntityInv, NEW j \in DOMAIN job, SweepEdges(j), NEW kind \in DOMAIN Published
  PROVE  FactsStay(kind)
<1> DEFINE me == job[j]
<1>1. JobKept(me) /\ me.pc = "sweep_edges"
  BY DEF EntityInv, SweepEdges
<1>2. graph' = DeleteEdges(graph, me.stale)
  BY WriteEffect DEF SweepEdges
<1>3. /\ graph'.nodes = graph.nodes
      /\ DOMAIN graph'.edges = DOMAIN graph.edges \ me.stale
  BY <1>2, DeleteEdgesEffect DEF EntityInv, GraphKept, IsGraph
<1>4. ASSUME NEW k \in me.stale \cap KeptEdges[kind]
      PROVE  FALSE
  <2>1. k.name \in OwnedNames(me.kind) /\ k \notin DOMAIN me.plan.edges
    BY <1>1, <1>4 DEF JobKept
  <2>2. k.name \in OwnedNames(kind)
    BY <1>4, KeptEdgesOwned
  <2>3. me.kind = kind
    BY <2>1, <2>2, <1>1, OwnedApart, KindsPublished DEF JobKept
  <2>4. me.command # "smoke" /\ PlanKept(me)
    BY <1>1 DEF JobKept
  <2> QED BY <2>1, <2>3, <2>4, <1>4 DEF PlanKept
<1> HIDE DEF me
<1> QED BY <1>3, <1>4 DEF FactsStay

LEMMA SweepNodesKeepsFacts ==
  ASSUME EntityInv, NEW j \in DOMAIN job, SweepNodes(j), NEW kind \in DOMAIN Published
  PROVE  FactsStay(kind)
<1> DEFINE me == job[j]
           n == CHOOSE n \in me.todo : TRUE
<1>1. JobKept(me) /\ me.pc = "sweep_nodes"
  BY DEF EntityInv, SweepNodes
<1>2. CASE me.todo = {}
  BY <1>2 DEF SweepNodes, FactsStay
<1>3. CASE me.todo # {}
  <2>1. n \in me.todo
    BY <1>3
  <2>2. graph' = DetachDelete(graph, {n})
    BY <1>3, WriteEffect DEF SweepNodes
  <2> HIDE DEF n
  <2>3. /\ DOMAIN graph'.nodes = DOMAIN graph.nodes \ {n}
        /\ DOMAIN graph'.edges = DOMAIN graph.edges \ Touching(graph, {n})
    BY <2>2, DetachDeleteEffect
  <2>4. \A other \in DOMAIN Published : n \notin KeptNodes[other]
    BY <1>1, <2>1 DEF JobKept
  <2>5. \A k \in KeptEdges[kind] : k \notin Touching(graph, {n})
    BY <2>4, KeptEdgesJoin DEF Touching
  <2> QED BY <2>3, <2>4, <2>5 DEF FactsStay
<1> QED BY <1>2, <1>3

LEMMA SavesKeepFacts ==
  ASSUME EntityInv, NEW j \in DOMAIN job, SaveNodeBatch(j) \/ SaveEdgeBatch(j),
         NEW kind \in DOMAIN Published
  PROVE  FactsStay(kind)
<1>1. IsGraph(graph)
  BY DEF EntityInv, GraphKept, IsGraph
<1>2. CASE SaveNodeBatch(j)
  <2>1. PICK f : graph' = SaveNodes(graph, f)
    BY <1>2, WriteEffect DEF SaveNodeBatch
  <2> QED BY <1>1, <2>1, SaveNodesEffect DEF FactsStay
<1>3. CASE SaveEdgeBatch(j)
  <2>1. PICK f : graph' = SaveEdges(graph, f)
    BY <1>3, WriteEffect DEF SaveEdgeBatch
  <2> QED BY <1>1, <2>1, SaveEdgesEffect DEF FactsStay
<1> QED BY <1>2, <1>3

LEMMA EntityNextKeepsFacts ==
  ASSUME EntityInv, EntityNext, NEW kind \in DOMAIN Published
  PROVE  FactsStay(kind)
<1>1. CASE UNCHANGED graph
  BY <1>1 DEF FactsStay
<1>2. CASE \E k \in kinds : Publish(k)
  BY <1>1, <1>2 DEF Publish
<1>3. CASE \E j \in DOMAIN job : JobStep(j)
  <2>1. PICK j \in DOMAIN job : JobStep(j)
    BY <1>3
  <2>2. CASE \/ Start(j) \/ Load(j) \/ PreflightTargets(j) \/ PreflightStorylines(j) \/ Recheck(j)
             \/ ReadStale(j) \/ Inspect(j) \/ Die(j)
    BY <2>2, <1>1 DEF Start, Load, PreflightTargets, PreflightStorylines, Recheck, ReadStale, Inspect, Die
  <2> QED BY <2>1, <2>2, SweepEdgesKeepsFacts, SweepNodesKeepsFacts, SavesKeepFacts DEF JobStep
<1> QED BY <1>2, <1>3 DEF EntityNext

-----------------------------------------------------------------------------
(* The catalog a directory is planned on, and the decisions frozen on it *)

LEMMA SameCardinality ==
  ASSUME NEW S
  PROVE  D!Cardinality(S) = Cardinality(S)
BY DEF D!Cardinality, Cardinality

LEMMA ClimbSteps ==
  ASSUME NEW c, IsFiniteSet(c.industries), NEW i
  PROVE  LET up == D!Climb(c, i)
             N  == Cardinality(c.industries)
         IN  /\ N \in Nat
             /\ DOMAIN up = 0..N
             /\ up[0] = i
             /\ \A n \in 1..N : up[n] = IF up[n - 1] = NoParent THEN NoParent ELSE c.parent[up[n - 1]]
<1> DEFINE N == D!Cardinality(c.industries)
           above(x) == IF x = NoParent THEN NoParent ELSE c.parent[x]
           Climbs(f, k) == f = [n \in 0..k |-> IF n = 0 THEN i ELSE above(f[n - 1])]
           Stuck == {k \in 0..N : ~ \E f : Climbs(f, k)}
<1>1. N \in Nat
  BY FS_CardinalityType, SameCardinality
<1>2. D!Climb(c, i) = CHOOSE f : Climbs(f, N)
  BY DEF D!Climb
<1> HIDE DEF N, above
<1>3. ASSUME Stuck # {}
      PROVE  FALSE
  <2>0. Stuck \subseteq Nat
    BY <1>1
  <2>1. PICK k \in Stuck : \A n \in Stuck : k <= n
    <3> HIDE DEF Stuck
    <3> QED BY <2>0, <1>3, LeastElement
  <2>2. k # 0
    <3>1. Climbs([n \in 0..0 |-> i], 0)
      OBVIOUS
    <3> QED BY <3>1, <2>1
  <2>3. PICK f : Climbs(f, k - 1)
    <3>1. k - 1 \in 0..N /\ k - 1 \notin Stuck
      <4>1. k \in Nat /\ k <= N
        BY <1>1, <2>1
      <4>2. ~(k <= k - 1)
        BY <4>1
      <4> QED BY <1>1, <2>1, <2>2, <4>1, <4>2
    <3> HIDE DEF Climbs
    <3> QED BY <3>1
  <2> DEFINE g == [n \in 0..k |-> IF n = k THEN above(f[k - 1]) ELSE f[n]]
  <2>4. \A n \in 0..k : g[n] = IF n = 0 THEN i ELSE above(g[n - 1])
    <3> k \in Nat /\ k # 0
      BY <1>1, <2>1, <2>2
    <3> SUFFICES ASSUME NEW n \in 0..k PROVE g[n] = IF n = 0 THEN i ELSE above(g[n - 1])
      OBVIOUS
    <3>1. CASE n = k
      BY <3>1
    <3>2. CASE n # k
      <4>1. f[n] = IF n = 0 THEN i ELSE above(f[n - 1])
        BY <2>3, <3>2
      <4> QED BY <4>1, <3>2
    <3> QED BY <3>1, <3>2
  <2>5. Climbs(g, k)
    <3> HIDE DEF g
    <3>1. g = [n \in 0..k |-> g[n]]
      BY DEF g
    <3> QED BY <3>1, <2>4
  <2> QED BY <2>1, <2>5
<1>4. \E f : Climbs(f, N)
  BY <1>1, <1>3
<1>5. Climbs(D!Climb(c, i), N)
  <2> HIDE DEF Climbs
  <2> QED BY <1>2, <1>4
<1> QED BY <1>1, <1>5, SameCardinality DEF N, above

LEMMA ClimbLeads ==
  ASSUME NEW c, CatalogSound(c), NEW i \in c.industries,
         NEW n \in DOMAIN D!Climb(c, i), D!Climb(c, i)[n] \in c.industries
  PROVE  Leads(c, D!Climb(c, i)[n], i)
<1> DEFINE up == D!Climb(c, i)
           N  == Cardinality(c.industries)
<1>1. /\ N \in Nat /\ DOMAIN up = 0..N /\ up[0] = i
      /\ \A m \in 1..N : up[m] = IF up[m - 1] = NoParent THEN NoParent ELSE c.parent[up[m - 1]]
  BY ClimbSteps DEF CatalogSound
<1>2. /\ NoParent \notin c.industries
      /\ \A x \in c.industries : c.parent[x] \in c.industries \cup {NoParent}
  BY DEF CatalogSound
<1> HIDE DEF up, N
<1>3. \A m \in 0..N : up[m] \in c.industries \cup {NoParent}
  <2> DEFINE Astray == {m \in 0..N : up[m] \notin c.industries \cup {NoParent}}
  <2>1. ASSUME Astray # {} PROVE FALSE
    <3>0. Astray \subseteq Nat
      BY <1>1
    <3>1. PICK m \in Astray : \A k \in Astray : m <= k
      <4> HIDE DEF Astray
      <4> QED BY <2>1, <3>0, LeastElement
    <3>2. m \in 1..N
      BY <1>1, <3>1
    <3>3. m - 1 \notin Astray /\ m - 1 \in 0..N
      <4>1. ~(m <= m - 1)
        BY <3>2
      <4>2. m - 1 \in 0..N
        BY <1>1, <3>2
      <4> QED BY <3>1, <4>1, <4>2
    <3> QED BY <1>1, <1>2, <3>1, <3>2, <3>3
  <2> QED BY <2>1
<1>4. ASSUME NEW S \in SUBSET (c.industries \cup c.chains \cup c.nodes),
             up[n] \in S, \A p \in Down(c) : p[1] \in S => p[2] \in S
      PROVE  i \in S
  <2> DEFINE Held == {m \in 0..N : up[m] \in S \cap c.industries}
  <2>1. n \in Held
    BY <1>1, <1>4 DEF up
  <2>2. PICK m \in Held : \A k \in Held : m <= k
    <3>0. Held \subseteq Nat
      BY <1>1
    <3> HIDE DEF Held
    <3> QED BY <2>1, <3>0, LeastElement
  <2>3. CASE m = 0
    BY <2>2, <2>3, <1>1
  <2>4. CASE m # 0
    <3>1. m \in 1..N /\ m - 1 \in 0..N
      BY <1>1, <2>2, <2>4
    <3>2. up[m - 1] # NoParent
      BY <1>1, <1>2, <2>2, <3>1
    <3>3. up[m - 1] \in c.industries /\ c.parent[up[m - 1]] = up[m]
      BY <1>1, <1>3, <3>1, <3>2
    <3>4. <<up[m], up[m - 1]>> \in Down(c)
      BY <3>3, <2>2, <1>2 DEF Down
    <3>5. up[m - 1] \in S
      BY <3>4, <2>2, <1>4
    <3>6. m - 1 \in Held
      BY <3>1, <3>3, <3>5
    <3>7. ~(m <= m - 1)
      BY <3>1
    <3> QED BY <2>2, <3>6, <3>7
  <2> QED BY <2>3, <2>4
<1> QED BY <1>4 DEF Leads, up

LEMMA SubtreeLeads ==
  ASSUME NEW c, CatalogSound(c), NEW selected \in SUBSET c.industries,
         NEW i \in D!Subtree(c, selected)
  PROVE  i \in c.industries /\ \E root \in selected : Leads(c, root, i)
<1>1. i \in c.industries /\ D!Steps(c, selected, i) # {}
  BY DEF D!Subtree, D!Distances
<1>2. PICK n \in DOMAIN D!Climb(c, i) : D!Climb(c, i)[n] \in selected
  BY <1>1 DEF D!Steps
<1> QED BY <1>1, <1>2, ClimbLeads

LEMMA LeadsOn ==
  ASSUME NEW c, CatalogSound(c), NEW root, NEW a, NEW b, Leads(c, root, a), <<a, b>> \in Down(c)
  PROVE  Leads(c, root, b)
BY DEF Leads

\* A chain node is offered only around a selected industry.
LEMMA CandidateLeads ==
  ASSUME NEW c, CatalogSound(c), NEW selected \in SUBSET c.industries, NEW limit,
         NEW n \in D!NodeCandidates(c, selected, limit)
  PROVE  \E i \in selected : Leads(c, i, n)
<1>1. n \in c.nodes /\ D!ChainsOf(c, selected, n) # {}
  BY DEF D!NodeCandidates
<1>2. PICK chain \in c.chains : <<n, chain>> \in c.members /\ D!SourcesOf(c, selected, chain) # {}
  BY <1>1 DEF D!ChainsOf
<1>3. PICK i \in D!Subtree(c, selected) : <<chain, i>> \in c.mapped
  BY <1>2 DEF D!SourcesOf
<1>4. PICK root \in selected : Leads(c, root, i)
  BY SubtreeLeads
<1>5. <<i, chain>> \in Down(c) /\ <<chain, n>> \in Down(c)
  <2>1. \A m \in c.mapped \cup c.members : <<m[2], m[1]>> \in Down(c)
    BY DEF Down
  <2> QED BY <2>1, <1>2, <1>3
<1> QED BY <1>4, <1>5, LeadsOn

LEMMA CatalogOfSound ==
  ASSUME GraphKept
  PROVE  CatalogSound(D!CatalogOf(graph))
<1> DEFINE c == D!CatalogOf(graph)
<1>1. /\ c.industries = D!NodesIn(graph, {"Industry"})
      /\ c.chains = D!NodesIn(graph, {"IndustryChain"})
      /\ c.nodes = D!NodesIn(graph, {"ChainNode"})
      /\ c.parent = [i \in c.industries |->
                       IF D!ParentEdges(graph, i) = {} THEN NoParent
                       ELSE (CHOOSE k \in D!ParentEdges(graph, i) : TRUE).target]
      /\ c.mapped = {<<k.source, k.target>> :
                       k \in D!Ends(graph, "IndustryChainMappedToIndustry", "IndustryChain", "Industry")}
      /\ c.members = {<<k.source, k.target>> :
                        k \in D!Ends(graph, "ChainNodeBelongsToIndustryChain", "ChainNode", "IndustryChain")}
  BY DEF D!CatalogOf
<1>2. c.industries \subseteq DOMAIN graph.nodes
  BY <1>1 DEF D!NodesIn
<1>3. IsFiniteSet(c.industries) /\ NoParent \notin c.industries
  BY <1>2, FS_Subset DEF GraphKept
<1>4. \A name, from, to : \A k \in D!Ends(graph, name, from, to) :
        k.source \in D!NodesIn(graph, {from}) /\ k.target \in D!NodesIn(graph, {to})
  BY DEF D!Ends, D!HasNode, D!NodesIn
<1> HIDE DEF c
<1>5. ASSUME NEW i \in c.industries
      PROVE  c.parent[i] \in c.industries \cup {NoParent}
  <2>1. CASE D!ParentEdges(graph, i) = {}
    BY <2>1, <1>1
  <2>2. CASE D!ParentEdges(graph, i) # {}
    <3> DEFINE k == CHOOSE k \in D!ParentEdges(graph, i) : TRUE
    <3>1. k \in D!ParentEdges(graph, i)
      BY <2>2
    <3>2. c.parent[i] = k.target
      BY <2>2, <1>1
    <3> HIDE DEF k
    <3>3. k \in D!Ends(graph, "IndustryHasParent", "Industry", "Industry")
      BY <3>1 DEF D!ParentEdges
    <3> QED BY <3>2, <3>3, <1>1, <1>4
  <2> QED BY <2>1, <2>2
<1>6. c.mapped \subseteq c.chains \X c.industries /\ c.members \subseteq c.nodes \X c.chains
  <2>1. \A k \in D!Ends(graph, "IndustryChainMappedToIndustry", "IndustryChain", "Industry") :
          <<k.source, k.target>> \in c.chains \X c.industries
    BY <1>1, <1>4
  <2>2. \A k \in D!Ends(graph, "ChainNodeBelongsToIndustryChain", "ChainNode", "IndustryChain") :
          <<k.source, k.target>> \in c.nodes \X c.chains
    <3>1. \A k \in D!Ends(graph, "ChainNodeBelongsToIndustryChain", "ChainNode", "IndustryChain") :
            k.source \in D!NodesIn(graph, {"ChainNode"}) /\ k.target \in D!NodesIn(graph, {"IndustryChain"})
      BY <1>4
    <3>2. c.nodes = D!NodesIn(graph, {"ChainNode"}) /\ c.chains = D!NodesIn(graph, {"IndustryChain"})
      BY <1>1
    <3> QED BY <3>1, <3>2
  <2>3. c.mapped \subseteq c.chains \X c.industries
    BY <1>1, <2>1
  <2>4. c.members \subseteq c.nodes \X c.chains
    BY <1>1, <2>2
  <2> QED BY <2>3, <2>4
<1>7. DOMAIN c.parent = c.industries
  BY <1>1
<1> QED BY <1>3, <1>5, <1>6, <1>7 DEF CatalogSound, c

\* Only what the gate accepts is accepted.
LEMMA StageGate ==
  ASSUME NEW choices, NEW opinion, NEW s \in D!Stage(choices, opinion).accepted
  PROVE  D!Accepts(s.confidence)
BY DEF D!Stage

LEMMA OfferedNodes ==
  ASSUME NEW c, NEW selected, NEW limit
  PROVE  {ch.target : ch \in D!NodeChoices(c, selected, limit)} = D!NodeCandidates(c, selected, limit)
<1> DEFINE sources(n) == UNION {D!SourcesOf(c, selected, chain) : chain \in D!ChainsOf(c, selected, n)}
           choice(n) == D!Choice(n, sources(n), D!ChainsOf(c, selected, n))
<1>1. D!NodeChoices(c, selected, limit) = {choice(n) : n \in D!NodeCandidates(c, selected, limit)}
  BY DEF D!NodeChoices
<1>2. \A n : choice(n).target = n
  BY DEF D!Choice
<1> HIDE DEF choice
<1> QED BY <1>1, <1>2

\* What is decided on a manifest passes the audit against it.
LEMMA DecidedSound ==
  ASSUME NEW company, NEW i, NEW run, NEW m, NEW says, NEW d \in D!Decisions(company, i, run, m, says)
  PROVE  /\ d.company = company.id
         /\ D!ScopeValid(d, m.catalog, m)
         /\ \A s \in d.industry.accepted \cup d.node.accepted : D!Accepts(s.confidence)
<1> DEFINE c        == m.catalog
           root     == D!Stage(D!Plainly(D!Roots(c)), says.roots)
           roots    == D!TargetsIn(root.accepted)
           below    == IF roots = {} THEN {} ELSE D!Subtree(c, roots)
           industry == IF roots = {} THEN root ELSE D!Stage(D!Plainly(below), says.industries)
           chosen   == IF roots = {} THEN {} ELSE D!TargetsIn(industry.accepted)
           choices  == D!NodeChoices(c, chosen, m.limit)
           node     == IF choices = {} THEN D!NoCandidate ELSE D!Stage(choices, says.nodes)
           offered  == [roots |-> D!Roots(c), selected |-> roots, industries |-> below,
                        nodes |-> {ch.target : ch \in choices}]
<1>1. d = [company |-> company.id, index |-> i, source |-> company, run |-> run,
           status |-> D!Terminal({industry.status, node.status}),
           industry |-> industry, node |-> node, offered |-> offered]
  BY DEF D!Decisions
<1> HIDE DEF root, roots, below, industry, chosen, choices, node, offered
<1>2. /\ d.company = company.id /\ d.industry = industry /\ d.node = node /\ d.offered = offered
  BY <1>1
<1>3. /\ offered.roots = D!Roots(c) /\ offered.selected = roots /\ offered.industries = below
      /\ offered.nodes = {ch.target : ch \in choices}
  BY DEF offered
<1>4. roots = {} => D!TargetsIn(industry.accepted) = {}
  BY DEF industry, roots
<1>5. chosen = D!TargetsIn(industry.accepted)
  BY <1>4 DEF chosen
<1>6. industry.accepted # {} => roots # {}
  BY <1>4 DEF D!TargetsIn
<1>7. offered.nodes = D!NodeCandidates(c, D!TargetsIn(industry.accepted), m.limit)
  BY <1>3, <1>5, OfferedNodes DEF choices
<1>8. D!ScopeValid(d, c, m)
  BY <1>2, <1>3, <1>6, <1>7 DEF D!ScopeValid, below
<1>9. \A s \in industry.accepted : D!Accepts(s.confidence)
  BY StageGate DEF industry, root
<1>10. \A s \in node.accepted : D!Accepts(s.confidence)
  <2>1. D!NoCandidate.accepted = {}
    BY DEF D!NoCandidate
  <2> QED BY <2>1, StageGate DEF node
<1> QED BY <1>2, <1>8, <1>9, <1>10

\* A relation of a frozen decision follows the catalog down to its target.
LEMMA RelationGrounded ==
  ASSUME NEW dir, NEW d \in Frozen(dir), DecisionSound(d, dir), CatalogSound(manifest[dir].catalog),
         NEW r \in D!Relations(d)
  PROVE  /\ D!RelationKey(r).source = d.company
         /\ D!RelationKey(r).name \in InferredNames
         /\ r.decision.run = dir
         /\ Grounded(D!RelationKey(r), [decision |-> r.decision, selection |-> r.selection])
<1> DEFINE m == manifest[dir]
           c == m.catalog
           k == D!RelationKey(r)
           s == r.selection
           accepted == {x.choice.target : x \in d.industry.accepted}
<1>1. \/ r.name = "CompanyOperatesInIndustry" /\ s \in d.industry.accepted
      \/ r.name = "CompanyParticipatesInChainNode" /\ s \in d.node.accepted
  BY DEF D!Relations
<1>2. r.decision = d
  BY DEF D!Relations
<1>3. k.name = r.name /\ k.source = d.company /\ k.target = s.choice.target
  BY <1>2 DEF D!RelationKey, D!Key
<1>4. /\ d.run = dir
      /\ D!WellFormed(d) /\ D!ScopeValid(d, c, m)
      /\ \A x \in d.industry.accepted \cup d.node.accepted : D!Accepts(x.confidence)
  BY DEF DecisionSound, D!JournalAccepts
<1>5. s.confidence \in {"MEDIUM", "HIGH"}
  BY <1>1, <1>4 DEF D!Accepts
<1>6. ASSUME d.industry.accepted # {}
      PROVE  /\ d.offered.selected \subseteq D!Roots(c)
             /\ accepted \subseteq D!Subtree(c, d.offered.selected)
  <2>1. d.offered.selected # {} /\ d.offered.selected \subseteq d.offered.roots /\ d.offered.roots = D!Roots(c)
    BY <1>4, <1>6 DEF D!ScopeValid, D!WellFormed
  <2>2. d.offered.industries = D!Subtree(c, d.offered.selected)
    BY <1>4, <2>1 DEF D!ScopeValid
  <2>3. D!TargetsIn(d.industry.accepted \cup d.industry.rejected) \subseteq d.offered.industries
    BY <1>4, <2>1 DEF D!WellFormed
  <2>4. accepted \subseteq d.offered.industries
    BY <2>3 DEF D!TargetsIn
  <2> QED BY <2>1, <2>2, <2>4
<1>7. \A x \in D!Roots(c) : x \in c.industries /\ c.parent[x] = NoParent
  BY DEF D!Roots
<1>8. CASE r.name = "CompanyOperatesInIndustry" /\ s \in d.industry.accepted
  <2>1. s.choice.target \in D!Subtree(c, d.offered.selected)
    BY <1>6, <1>8
  <2>2. PICK root \in d.offered.selected : Leads(c, root, s.choice.target)
    BY <1>6, <1>7, <1>8, <2>1, SubtreeLeads
  <2>3. c.parent[root] = NoParent
    BY <1>6, <1>7, <1>8, <2>2
  <2> HIDE DEF c, k, s
  <2> QED BY <1>2, <1>3, <1>4, <1>5, <1>8, <2>2, <2>3 DEF Grounded, InferredNames, c, k, s
<1>9. CASE r.name = "CompanyParticipatesInChainNode" /\ s \in d.node.accepted
  <2>1. /\ D!TargetsIn(d.node.accepted \cup d.node.rejected) \subseteq d.offered.nodes
        /\ d.offered.nodes = D!NodeCandidates(c, D!TargetsIn(d.industry.accepted), m.limit)
    BY <1>4 DEF D!WellFormed, D!ScopeValid
  <2>2. accepted = D!TargetsIn(d.industry.accepted)
    BY DEF D!TargetsIn
  <2>3. s.choice.target \in D!NodeCandidates(c, accepted, m.limit)
    BY <2>1, <2>2, <1>9 DEF D!TargetsIn
  <2>4. accepted \subseteq c.industries
    <3>1. CASE d.industry.accepted = {}
      BY <3>1
    <3>2. CASE d.industry.accepted # {}
      BY <3>2, <1>6, SubtreeLeads, <1>7
    <3> QED BY <3>1, <3>2
  <2> HIDE DEF accepted
  <2>5. PICK i \in accepted : Leads(c, i, s.choice.target)
    BY <2>3, <2>4, CandidateLeads
  <2> HIDE DEF c, k, s
  <2> QED BY <1>2, <1>3, <1>4, <1>5, <1>9, <2>5 DEF Grounded, InferredNames, c, k, s, accepted
<1> QED BY <1>1, <1>8, <1>9

-----------------------------------------------------------------------------
(* The Company command lines keep the directories sound, and what a run    *)
(* plans grounded                                                          *)

\* Manifests are written once, and decisions are only added.
FilesGrow ==
  /\ DOMAIN manifest' = Dir /\ DOMAIN decisions' = Dir
  /\ \A dir \in Dir : manifest[dir] # NoManifest => manifest'[dir] = manifest[dir]
  /\ \A dir \in Dir : Frozen(dir) \subseteq Frozen(dir)'

LEMMA FilesKept ==
  ASSUME CompanyInv, UNCHANGED companyVars \/ UNCHANGED <<manifest, decisions>>
  PROVE  FilesGrow
BY DEF CompanyInv, companyVars, FilesGrow, Frozen

LEMMA NoOpFields ==
  DOMAIN NoOp = {"pc", "command", "dir", "snapshot", "plan", "staleNodes", "staleEdges",
                 "nodes", "edges", "quiet"}
BY DEF NoOp

LEMMA DecisionStays ==
  ASSUME CompanyInv, FilesGrow, NEW dir \in Dir, NEW d, DecisionSound(d, dir)
  PROVE  DecisionSound(d, dir)'
BY DEF DecisionSound, FilesGrow

LEMMA GroundedStays ==
  ASSUME CompanyInv, FilesGrow, NEW k, NEW edge, edge.decision.run \in Dir, Grounded(k, edge)
  PROVE  Grounded(k, edge)'
<1> DEFINE d == edge.decision
<1>1. d \in Frozen(d.run) /\ d.run \in Dir
  BY DEF Grounded
<1>2. manifest[d.run] # NoManifest
  BY <1>1 DEF CompanyInv, DecisionSound
<1>3. d \in Frozen(d.run)' /\ manifest'[d.run] = manifest[d.run]
  BY <1>1, <1>2 DEF FilesGrow
<1> QED BY <1>3 DEF Grounded

\* A run that goes on with the plan it had, holds what it held of it.
LEMMA PlanStaysSound ==
  ASSUME CompanyInv, FilesGrow, NEW o \in DOMAIN op, PlanSound(op[o]), op[o].dir \in Dir,
         op'[o].plan = op[o].plan, op'[o].dir = op[o].dir
  PROVE  PlanSound(op[o])'
<1> DEFINE me == op[o]
<1>1. ASSUME NEW k \in DOMAIN me.plan.edges, k.name \in InferredNames
      PROVE  op'[o].plan.edges[k].decision.run = op'[o].dir /\ Grounded(k, op[o].plan.edges[k])'
  <2>1. PICK edge : edge = me.plan.edges[k]
    OBVIOUS
  <2>2. edge.decision.run = me.dir /\ Grounded(k, edge)
    BY <2>1, <1>1 DEF PlanSound
  <2>3. Grounded(k, edge)'
    BY <2>2, GroundedStays
  <2>4. edge = op'[o].plan.edges[k]
    BY <2>1
  <2>5. Grounded(k, op[o].plan.edges[k])'
    BY <2>3, <2>4 DEF Grounded
  <2> QED BY <2>2, <2>4, <2>5
<1> QED BY <1>1 DEF PlanSound

LEMMA OtherOpKept ==
  ASSUME CompanyInv, FilesGrow, NEW p \in DOMAIN op,
         op'[p] = op[p] \/ op'[p] = [op[p] EXCEPT !.quiet = FALSE]
  PROVE  OpKept(op[p])' /\ op'[p].command = op[p].command
<1> DEFINE me == op[p]
<1>1. OpKept(me)
  BY DEF CompanyInv
<1>2. /\ DOMAIN op'[p] = DOMAIN NoOp
      /\ op'[p].pc = me.pc /\ op'[p].command = me.command /\ op'[p].dir = me.dir
      /\ op'[p].snapshot = me.snapshot /\ op'[p].plan = me.plan
      /\ op'[p].staleNodes = me.staleNodes /\ op'[p].staleEdges = me.staleEdges
      /\ op'[p].nodes = me.nodes /\ op'[p].edges = me.edges
  BY <1>1, NoOpFields DEF OpKept
<1>3. me.pc \in Planned => PlanSound(op[p])'
  <2>1. me.pc \in Planned => PlanSound(me) /\ me.dir \in Dir
    BY <1>1 DEF OpKept, Planned
  <2> QED BY <2>1, <1>2, PlanStaysSound
<1>4. me.pc = "infer" => manifest'[me.dir] = manifest[me.dir]
  BY <1>1 DEF OpKept, FilesGrow
<1>5. me.pc = "infer" => manifest'[me.dir] # NoManifest /\ manifest'[me.dir].snapshot = me.snapshot
  BY <1>1, <1>4 DEF OpKept
<1>6. /\ me.pc \in OpPhases
      /\ me.pc # "idle" => me.snapshot \in DOMAIN Published["Company"] /\ me.dir \in Dir
      /\ me.pc \in Planned \ {"verify"} => me.command \in {"run", "replace"}
      /\ me.pc = "write" => me.nodes \subseteq DOMAIN me.plan.nodes /\ me.edges \subseteq DOMAIN me.plan.edges
      /\ me.pc \in {"write", "sweep_edges"} =>
           \A k \in me.staleEdges : k.name \in CompanyNames /\ k \notin DOMAIN me.plan.edges
      /\ me.pc \in {"write", "sweep_edges", "sweep_nodes"} =>
           \A kind \in DOMAIN Published : me.staleNodes \cap KeptNodes[kind] = {}
  BY <1>1 DEF OpKept
<1> HIDE DEF me
<1>7. OpKept(op[p])'
  BY <1>2, <1>3, <1>5, <1>6 DEF OpKept
<1> QED BY <1>2, <1>7 DEF me

FilesSound ==
  \A dir \in Dir :
    /\ manifest[dir] # NoManifest => CatalogSound(manifest[dir].catalog)
    /\ \A d \in Frozen(dir) : DecisionSound(d, dir)

LEMMA FilesStaySound ==
  ASSUME CompanyInv, UNCHANGED <<manifest, decisions>>
  PROVE  FilesSound'
BY DEF CompanyInv, FilesSound, Frozen, DecisionSound

LEMMA CompanyInvStep ==
  ASSUME CompanyInv, FilesGrow, FilesSound', NEW o \in DOMAIN op, NEW next,
         op' = [op EXCEPT ![o] = next], OpKept(op[o])',
         \/ next.command \notin {"run", "replace"} \/ next.command = op[o].command
         \/ Writers = {}
  PROVE  CompanyInv'
<1>1. \A p \in DOMAIN op \ {o} : OpKept(op[p])' /\ op'[p].command = op[p].command
  BY OtherOpKept
<1>2. \A p \in DOMAIN op' : OpKept(op[p])'
  BY <1>1
<1>3. \A p, q \in Writers' : p = q
  BY <1>1 DEF CompanyInv, Writers
<1> QED BY <1>2, <1>3 DEF CompanyInv, FilesGrow, FilesSound

\* A step that leaves the directories alone.
LEMMA OwnOpStep ==
  ASSUME CompanyInv, UNCHANGED <<manifest, decisions>>, NEW o \in DOMAIN op, NEW next,
         op' = [op EXCEPT ![o] = next], OpKept(op[o])',
         \/ next.command \notin {"run", "replace"} \/ next.command = op[o].command
         \/ Writers = {}
  PROVE  CompanyInv'
BY FilesStaySound, FilesKept, CompanyInvStep

LEMMA NoOpKept ==
  ASSUME NEW o, op'[o] = NoOp
  PROVE  OpKept(op[o])' /\ NoOp.command = ""
<1>1. NoOp.pc = "idle" /\ NoOp.command = ""
  BY DEF NoOp
<1>2. DOMAIN op'[o] = DOMAIN NoOp /\ op'[o].pc = "idle"
  BY <1>1
<1> QED BY <1>1, <1>2 DEF OpKept, OpPhases, Planned

LEMMA OpStopKept ==
  ASSUME CompanyInv, NEW o \in DOMAIN op, OpStop(o), UNCHANGED <<manifest, decisions>>
  PROVE  CompanyInv'
<1>1. op' = [op EXCEPT ![o] = NoOp]
  BY DEF OpStop, OpStep
<1>2. OpKept(op[o])' /\ NoOp.command = ""
  BY <1>1, NoOpKept
<1> QED BY <1>1, <1>2, OwnOpStep

LEMMA EntityStepKeepsOps ==
  ASSUME CompanyInv, EntityStep
  PROVE  CompanyInv'
<1>1. /\ UNCHANGED <<manifest, decisions>> /\ DOMAIN op' = DOMAIN op
      /\ \A o \in DOMAIN op : op'[o] = op[o] \/ op'[o] = [op[o] EXCEPT !.quiet = FALSE]
  BY DEF EntityStep, KeepFiles
<1>2. FilesGrow
  BY <1>1, FilesKept
<1>3. \A o \in DOMAIN op : OpKept(op[o])' /\ op'[o].command = op[o].command
  BY <1>1, <1>2, OtherOpKept
<1>4. \A p, q \in Writers' : p = q
  BY <1>1, <1>3 DEF CompanyInv, Writers
<1>5. FilesSound'
  BY <1>1, FilesStaySound
<1> QED BY <1>1, <1>2, <1>3, <1>4, <1>5 DEF CompanyInv, FilesGrow, FilesSound

LEMMA BeginKept ==
  ASSUME EntityInv, CompanyInv, NEW o \in DOMAIN op, Begin(o)
  PROVE  CompanyInv'
<1> DEFINE commands == {"plan", "infer", "run", "replace", "verify"}
<1>1. PICK dir \in DirsOf(kinds) : \E command \in commands :
        /\ command \in {"run", "replace"} => Writers = {}
        /\ OpStep(o, [NoOp EXCEPT !.pc = "check", !.command = command, !.dir = dir,
                                  !.snapshot = version["Company"]])
  BY DEF Begin
<1>2. PICK command \in commands :
        /\ command \in {"run", "replace"} => Writers = {}
        /\ OpStep(o, [NoOp EXCEPT !.pc = "check", !.command = command, !.dir = dir,
                                  !.snapshot = version["Company"]])
  BY <1>1
<1> DEFINE next == [NoOp EXCEPT !.pc = "check", !.command = command, !.dir = dir,
                                !.snapshot = version["Company"]]
<1>3. op' = [op EXCEPT ![o] = next] /\ UNCHANGED <<manifest, decisions>>
  BY <1>2 DEF OpStep, Begin, KeepFiles
<1>4. /\ DOMAIN next = DOMAIN NoOp
      /\ next.pc = "check" /\ next.command = command /\ next.dir = dir
      /\ next.snapshot = version["Company"]
  BY NoOpFields
<1>5. next.snapshot \in DOMAIN Published["Company"] /\ next.dir \in Dir
  BY <1>4, CompanyAssumption DEF EntityInv
<1>6. op'[o] = next
  BY <1>3
<1> HIDE DEF next
<1>7. OpKept(op[o])'
  BY <1>4, <1>5, <1>6 DEF OpKept, OpPhases, Planned
<1> QED BY <1>2, <1>3, <1>4, <1>7, OwnOpStep

LEMMA PlanStepKept ==
  ASSUME EntityInv, CompanyInv, NEW o \in DOMAIN op, Plan(o)
  PROVE  CompanyInv'
<1> DEFINE me == op[o]
<1>1. op' = [op EXCEPT ![o] = NoOp] /\ UNCHANGED decisions
  BY DEF Plan, OpStop, OpStep
<1>2. OpKept(op[o])' /\ NoOp.command = ""
  BY <1>1, NoOpKept
<1>3. CASE UNCHANGED manifest
  BY <1>1, <1>2, <1>3, OwnOpStep
<1>4. CASE ~ UNCHANGED manifest
  <2>1. PICK limit \in ChainLimits :
          manifest' = [manifest EXCEPT ![me.dir] = Candidate(me.snapshot, limit)]
    BY <1>4 DEF Plan
  <2>2. manifest[me.dir] = NoManifest
    BY <1>4 DEF Plan
  <2>3. FilesGrow
    BY <1>1, <2>1, <2>2 DEF FilesGrow, CompanyInv, Frozen
  <2>4. ASSUME NEW dir \in Dir
        PROVE  (manifest[dir] # NoManifest => CatalogSound(manifest[dir].catalog))'
    <3>1. CASE dir = me.dir
      <4>1. manifest'[dir].catalog = D!CatalogOf(graph)
        BY <2>1, <3>1 DEF CompanyInv, Candidate
      <4>2. CatalogSound(D!CatalogOf(graph))
        BY CatalogOfSound DEF EntityInv
      <4> QED BY <4>1, <4>2
    <3>2. CASE dir # me.dir
      <4>1. manifest'[dir] = manifest[dir]
        BY <2>1, <3>2 DEF CompanyInv
      <4> QED BY <4>1 DEF CompanyInv
    <3> QED BY <3>1, <3>2
  <2>5. ASSUME NEW dir \in Dir, NEW d \in Frozen(dir)'
        PROVE  DecisionSound(d, dir)'
    <3>1. d \in Frozen(dir)
      BY <1>1, <2>5 DEF Frozen
    <3> QED BY <3>1, <2>3, DecisionStays DEF CompanyInv
  <2>6. FilesSound'
    BY <2>4, <2>5 DEF FilesSound
  <2> QED BY <1>1, <1>2, <2>3, <2>6, CompanyInvStep
<1> QED BY <1>3, <1>4

LEMMA InferKept ==
  ASSUME CompanyInv, NEW o \in DOMAIN op, Infer(o)
  PROVE  CompanyInv'
<1> DEFINE me == op[o]
           next == [me EXCEPT !.pc = "infer"]
<1>1. OpKept(me) /\ me.pc = "check" /\ UNCHANGED <<manifest, decisions>>
  BY DEF CompanyInv, Infer, KeepFiles
<1>2. CASE OpStop(o)
  BY <1>1, <1>2, OpStopKept
<1>3. CASE ~OpStop(o)
  <2>1. op' = [op EXCEPT ![o] = next] /\ SameManifest(o)
    BY <1>3 DEF Infer, OpStep
  <2>2. /\ DOMAIN next = DOMAIN NoOp
        /\ next.pc = "infer" /\ next.command = me.command /\ next.dir = me.dir
        /\ next.snapshot = me.snapshot
    BY <1>1, NoOpFields DEF OpKept
  <2>3. manifest[me.dir] # NoManifest /\ manifest[me.dir].snapshot = me.snapshot
    BY <2>1 DEF SameManifest, Candidate
  <2>4. op'[o] = next
    BY <2>1
  <2> HIDE DEF next
  <2>5. OpKept(op[o])'
    BY <1>1, <2>2, <2>3, <2>4 DEF OpKept, OpPhases, Planned
  <2> QED BY <1>1, <2>1, <2>2, <2>5, OwnOpStep
<1> QED BY <1>2, <1>3

\* The next company without a decision is one of them.
LEMMA NextPending ==
  ASSUME NEW s \in DOMAIN Published["Company"], NEW pending,
         pending \subseteq DOMAIN Companies(s), pending # {}
  PROVE  Min(pending) \in pending
<1>1. pending \subseteq Nat
  BY CompanyAssumption, PublishedAssumption DEF WellTyped, Companies
<1>2. \E m \in pending : \A n \in pending : m <= n
  BY <1>1, LeastElement
<1> QED BY <1>2 DEF Min

LEMMA DecideKept ==
  ASSUME CompanyInv, NEW o \in DOMAIN op, Decide(o)
  PROVE  CompanyInv'
<1> DEFINE me == op[o]
           companies == Companies(me.snapshot)
           pending == {i \in DOMAIN companies : companies[i].id \notin DOMAIN decisions[me.dir]}
           i == Min(pending)
           m == manifest[me.dir]
<1>1. /\ OpKept(me) /\ me.pc = "infer" /\ UNCHANGED manifest
      /\ me.dir \in Dir /\ me.snapshot \in DOMAIN Published["Company"]
      /\ m # NoManifest /\ m.snapshot = me.snapshot
  BY DEF CompanyInv, Decide, OpKept
<1>2. CASE OpStop(o) /\ UNCHANGED decisions
  BY <1>1, <1>2, OpStopKept
<1>3. CASE ~(OpStop(o) /\ UNCHANGED decisions)
  <2>1. pending # {}
    BY <1>3 DEF Decide
  <2> HIDE DEF i
  <2>2. PICK says \in Opinions : \E d \in D!Decisions(companies[i], i, me.dir, m, says) :
          IF D!JournalAccepts(d, me.dir, companies)
          THEN /\ decisions' = [decisions EXCEPT ![me.dir] = Merged([c \in {d.company} |-> d], @)]
               /\ OpStep(o, IF Cardinality(pending) = 1 THEN NoOp ELSE me)
          ELSE OpStop(o) /\ UNCHANGED decisions
    BY <2>1 DEF Decide, i
  <2>3. PICK d \in D!Decisions(companies[i], i, me.dir, m, says) :
          /\ D!JournalAccepts(d, me.dir, companies)
          /\ decisions' = [decisions EXCEPT ![me.dir] = Merged([c \in {d.company} |-> d], @)]
          /\ OpStep(o, IF Cardinality(pending) = 1 THEN NoOp ELSE me)
    BY <2>2, <1>3
  <2> DEFINE next == IF Cardinality(pending) = 1 THEN NoOp ELSE me
  <2>4. /\ d.company = companies[i].id
        /\ D!ScopeValid(d, m.catalog, m)
        /\ \A s \in d.industry.accepted \cup d.node.accepted : D!Accepts(s.confidence)
    BY DecidedSound
  <2>5. d.company \notin DOMAIN decisions[me.dir]
    <3>1. i \in pending
      BY <1>1, <2>1, NextPending DEF i
    <3> QED BY <3>1, <2>4
  <2>0. PICK here \in Dir : here = me.dir
    BY <1>1
  <2>6. Frozen(here)' = Frozen(here) \cup {d}
    <3>1. /\ decisions'[here] = Merged([c \in {d.company} |-> d], decisions[here])
          /\ here \in DOMAIN decisions
      BY <2>0, <2>3 DEF CompanyInv
    <3>2. /\ DOMAIN decisions'[here] = {d.company} \cup DOMAIN decisions[here]
          /\ decisions'[here][d.company] = d
          /\ \A c \in DOMAIN decisions[here] : decisions'[here][c] = decisions[here][c]
      BY <3>1, <2>0, <2>5 DEF Merged
    <3>3. Frozen(here)' = {decisions'[here][c] : c \in {d.company} \cup DOMAIN decisions[here]}
      BY <3>2 DEF Frozen
    <3> QED BY <3>2, <3>3 DEF Frozen
  <2>7. \A dir \in Dir \ {here} : Frozen(dir)' = Frozen(dir)
    BY <2>0, <2>3 DEF Frozen, CompanyInv
  <2>8. FilesGrow
    <3>1. DOMAIN decisions' = Dir /\ DOMAIN manifest' = Dir
      BY <1>1, <2>3 DEF CompanyInv
    <3>2. \A dir \in Dir : Frozen(dir) \subseteq Frozen(dir)'
      BY <2>6, <2>7
    <3> QED BY <1>1, <3>1, <3>2 DEF FilesGrow
  <2>9. DecisionSound(d, here)
    BY <1>1, <2>0, <2>3, <2>4 DEF DecisionSound
  <2>10. FilesSound'
    <3>1. ASSUME NEW dir \in Dir, NEW e \in Frozen(dir)'
          PROVE  DecisionSound(e, dir)'
      <4>1. DecisionSound(e, dir)
        <5>1. CASE e \in Frozen(dir)
          BY <5>1 DEF CompanyInv
        <5>2. CASE e \notin Frozen(dir)
          BY <5>2, <3>1, <2>6, <2>7, <2>9
        <5> QED BY <5>1, <5>2
      <4> QED BY <4>1, <2>8, DecisionStays
    <3>2. \A dir \in Dir : (manifest[dir] # NoManifest => CatalogSound(manifest[dir].catalog))'
      BY <1>1 DEF CompanyInv
    <3> QED BY <3>1, <3>2 DEF FilesSound
  <2>11. op' = [op EXCEPT ![o] = next]
    BY <2>3 DEF OpStep
  <2>12. OpKept(op[o])'
    <3>1. CASE next = NoOp
      BY <2>11, <3>1, NoOpKept
    <3>2. CASE next = me
      BY <2>8, <2>11, <3>2, OtherOpKept
    <3> QED BY <3>1, <3>2
  <2>13. next.command = me.command \/ next.command \notin {"run", "replace"}
    BY NoOpKept DEF NoOp
  <2> QED BY <2>8, <2>10, <2>11, <2>12, <2>13, CompanyInvStep
<1> QED BY <1>2, <1>3

\* The relations Data states of a version, and those the decisions infer.
LEMMA FormalEdges ==
  ASSUME NEW s \in DOMAIN Published["Company"]
  PROVE  /\ KeptEdges["Company"] \subseteq DOMAIN Formal(s)
         /\ \A k \in DOMAIN Formal(s) :
              k.name = "CompanyBelongsToIndustry" /\ k.source \in Ids(Companies(s))
<1> DEFINE facts == Published["Company"][s]
<1>1. FactsKept("Company", facts)
  BY CompanyAssumption, PublishedKept
<1>2. DOMAIN Formal(s) = {KeyOf(l) : l \in Elements(facts.links)}
  BY DEF Formal, EdgesOf
<1>3. KeptEdges["Company"] \subseteq DOMAIN Formal(s)
  BY <1>1, <1>2 DEF FactsKept, LinksOf
<1>4. \A l \in Elements(facts.links) :
        l.name = "CompanyBelongsToIndustry" /\ l.source \in Ids(facts.items)
  BY <1>1 DEF FactsKept, WellTyped, OwnedNames
<1>5. \A k \in DOMAIN Formal(s) :
        k.name = "CompanyBelongsToIndustry" /\ k.source \in Ids(facts.items)
  BY <1>2, <1>4 DEF KeyOf, Key
<1> QED BY <1>3, <1>5 DEF Companies

LEMMA InferredGrounded ==
  ASSUME CompanyInv, NEW dir \in Dir,
         NEW k \in DOMAIN D!InferredEdges(Frozen(dir))
  PROVE  LET edge == D!InferredEdges(Frozen(dir))[k]
         IN  /\ k.name \in InferredNames
             /\ k.source \in Ids(Companies(manifest[dir].snapshot))
             /\ edge.decision.run = dir /\ Grounded(k, edge)
<1> DEFINE relations == UNION {D!Relations(d) : d \in Frozen(dir)}
           r == CHOOSE r \in relations : D!RelationKey(r) = k
           edge == D!InferredEdges(Frozen(dir))[k]
<1>1. /\ k \in {D!RelationKey(x) : x \in relations}
      /\ edge = [decision |-> r.decision, selection |-> r.selection]
  BY DEF D!InferredEdges
<1>2. r \in relations /\ D!RelationKey(r) = k
  BY <1>1
<1> HIDE DEF r
<1>3. PICK d \in Frozen(dir) : r \in D!Relations(d)
  BY <1>2
<1>4. DecisionSound(d, dir) /\ CatalogSound(manifest[dir].catalog)
  BY DEF CompanyInv, DecisionSound
<1>5. /\ k.source = d.company /\ k.name \in InferredNames
      /\ r.decision.run = dir
      /\ Grounded(k, [decision |-> r.decision, selection |-> r.selection])
  BY <1>2, <1>3, <1>4, RelationGrounded
<1>6. d.company \in Ids(Companies(manifest[dir].snapshot))
  BY <1>4 DEF DecisionSound, D!JournalAccepts, Ids, Elements
<1> HIDE DEF edge
<1>7. edge.decision = r.decision
  BY <1>1
<1> QED BY <1>1, <1>5, <1>6, <1>7 DEF edge

LEMMA FullPlanSound ==
  ASSUME CompanyInv, NEW s \in DOMAIN Published["Company"], NEW dir \in Dir,
         manifest[dir].snapshot = s, NEW x, x.plan = FullPlan(s, dir), x.dir = dir
  PROVE  PlanSound(x)
<1> DEFINE inferred == D!InferredEdges(Frozen(dir))
<1>1. /\ x.plan.nodes = NodesOf(Companies(s))
      /\ x.plan.edges = Merged(inferred, Formal(s))
  BY DEF FullPlan, FactsPlan, NoPlan
<1>2. FactsKept("Company", Published["Company"][s])
  BY CompanyAssumption, PublishedKept
<1>3. /\ DOMAIN x.plan.nodes = Ids(Companies(s))
      /\ IsFiniteSet(DOMAIN x.plan.nodes)
      /\ \A n \in DOMAIN x.plan.nodes : x.plan.nodes[n].label = "Company"
  <2>1. OwnedLabels("Company") = {"Company"}
    BY DEF OwnedLabels
  <2> QED BY <1>1, <1>2, <2>1, PlannedNodes DEF FactsKept, Companies
<1>4. DOMAIN x.plan.nodes \subseteq AllIds("Company") /\ KeptNodes["Company"] \subseteq DOMAIN x.plan.nodes
  BY <1>2, <1>3 DEF FactsKept, Companies
<1> HIDE DEF inferred
<1>5. /\ DOMAIN x.plan.edges = DOMAIN inferred \cup DOMAIN Formal(s)
      /\ \A k \in DOMAIN inferred : x.plan.edges[k] = inferred[k]
  BY <1>1 DEF Merged
<1>6. KeptEdges["Company"] \subseteq DOMAIN x.plan.edges
  BY <1>5, FormalEdges
<1>7. ASSUME NEW k \in DOMAIN x.plan.edges
      PROVE  /\ k.name \in CompanyNames /\ k.source \in DOMAIN x.plan.nodes
             /\ k.name \in InferredNames =>
                  x.plan.edges[k].decision.run = x.dir /\ Grounded(k, x.plan.edges[k])
  <2>1. CASE k \in DOMAIN inferred
    <3>1. /\ k.name \in InferredNames /\ k.source \in Ids(Companies(s))
          /\ inferred[k].decision.run = dir /\ Grounded(k, inferred[k])
      BY <2>1, InferredGrounded DEF inferred
    <3>2. k.name \in CompanyNames
      BY <3>1 DEF InferredNames, CompanyNames
    <3> QED BY <2>1, <3>1, <3>2, <1>3, <1>5
  <2>2. CASE k \notin DOMAIN inferred
    <3>1. k.name = "CompanyBelongsToIndustry" /\ k.source \in Ids(Companies(s))
      BY <2>2, <1>5, FormalEdges
    <3> QED BY <3>1, <1>3 DEF InferredNames, CompanyNames
  <2> QED BY <2>1, <2>2
<1> QED BY <1>3, <1>4, <1>6, <1>7 DEF PlanSound

LEMMA PlanSoundNext ==
  ASSUME CompanyInv, FilesGrow, NEW o, NEW x, PlanSound(x), x.dir \in Dir, op'[o] = x
  PROVE  PlanSound(op[o])'
<1>1. ASSUME NEW k \in DOMAIN x.plan.edges, k.name \in InferredNames
      PROVE  x.plan.edges[k].decision.run = x.dir /\ Grounded(k, op[o].plan.edges[k])'
  <2>1. x.plan.edges[k].decision.run = x.dir /\ Grounded(k, x.plan.edges[k])
    BY <1>1 DEF PlanSound
  <2>2. Grounded(k, x.plan.edges[k])'
    BY <2>1, GroundedStays
  <2>3. Grounded(k, op[o].plan.edges[k])'
    BY <2>2 DEF Grounded
  <2> QED BY <2>1, <2>3
<1> QED BY <1>1 DEF PlanSound

LEMMA AssembleKept ==
  ASSUME CompanyInv, NEW o \in DOMAIN op, Assemble(o)
  PROVE  CompanyInv'
<1> DEFINE me == op[o]
           plan == FullPlan(me.snapshot, me.dir)
           next == [me EXCEPT !.pc = IF me.command = "verify" THEN "verify" ELSE "diff", !.plan = plan]
<1>1. /\ OpKept(me) /\ me.pc = "check" /\ UNCHANGED <<manifest, decisions>>
      /\ me.command \in {"run", "replace", "verify"}
  BY DEF CompanyInv, Assemble, KeepFiles
<1>2. CASE OpStop(o)
  BY <1>1, <1>2, OpStopKept
<1>3. CASE ~OpStop(o)
  <2>1. op' = [op EXCEPT ![o] = next] /\ SameManifest(o)
    BY <1>3 DEF Assemble, OpStep
  <2> HIDE DEF plan
  <2>2. /\ DOMAIN next = DOMAIN NoOp
        /\ next.pc = (IF me.command = "verify" THEN "verify" ELSE "diff")
        /\ next.command = me.command /\ next.dir = me.dir
        /\ next.snapshot = me.snapshot /\ next.plan = plan
    BY <1>1, NoOpFields DEF OpKept
  <2>3. manifest[me.dir].snapshot = me.snapshot
    BY <2>1 DEF SameManifest, Candidate
  <2>4. me.snapshot \in DOMAIN Published["Company"] /\ me.dir \in Dir
    BY <1>1 DEF OpKept
  <2>5. op'[o] = next
    BY <2>1
  <2> HIDE DEF next
  <2>6. PlanSound(op[o])'
    <3>1. PICK x : x = next
      OBVIOUS
    <3>2. PlanSound(x)
      BY <3>1, <2>2, <2>3, <2>4, FullPlanSound DEF plan
    <3> QED BY <1>1, <3>1, <3>2, <2>2, <2>4, <2>5, PlanSoundNext, FilesKept
  <2>7. OpKept(op[o])'
    BY <1>1, <2>2, <2>4, <2>5, <2>6 DEF OpKept, OpPhases
  <2> QED BY <1>1, <2>1, <2>2, <2>7, OwnOpStep
<1> QED BY <1>2, <1>3

\* A run that goes on with its plan.
LEMMA GoesOnKept ==
  ASSUME CompanyInv, NEW o \in DOMAIN op, op[o].pc \in Planned \ {"verify"},
         UNCHANGED <<manifest, decisions>>,
         NEW next, op' = [op EXCEPT ![o] = next],
         DOMAIN next = DOMAIN NoOp, next.command = op[o].command, next.dir = op[o].dir,
         next.snapshot = op[o].snapshot, next.plan = op[o].plan, next.pc \in Planned,
         next.pc = "write" =>
           next.nodes \subseteq DOMAIN next.plan.nodes /\ next.edges \subseteq DOMAIN next.plan.edges,
         next.pc \in {"write", "sweep_edges"} =>
           \A k \in next.staleEdges : k.name \in CompanyNames /\ k \notin DOMAIN next.plan.edges,
         next.pc \in {"write", "sweep_edges", "sweep_nodes"} =>
           \A kind \in DOMAIN Published : next.staleNodes \cap KeptNodes[kind] = {}
  PROVE  CompanyInv'
<1> DEFINE me == op[o]
<1>1. OpKept(me)
  BY DEF CompanyInv
<1>2. /\ PlanSound(me) /\ me.dir \in Dir /\ me.snapshot \in DOMAIN Published["Company"]
      /\ me.command \in {"run", "replace"}
  BY <1>1 DEF OpKept, Planned
<1>3. op'[o] = next
  OBVIOUS
<1>4. PlanSound(op[o])'
  BY <1>2, <1>3, FilesKept, PlanStaysSound
<1>5. OpKept(op[o])'
  BY <1>2, <1>3, <1>4 DEF OpKept, OpPhases, Planned
<1> QED BY <1>5, OwnOpStep

LEMMA DiffKept ==
  ASSUME EntityInv, CompanyInv, NEW o \in DOMAIN op, Diff(o)
  PROVE  CompanyInv'
<1> DEFINE me == op[o]
           edges == EdgesIn(graph, CompanyNames)
           next == [me EXCEPT
                      !.pc = "write",
                      !.nodes = {n \in DOMAIN me.plan.nodes : ~Unchanged(me.plan, graph, n)},
                      !.edges = {k \in DOMAIN me.plan.edges :
                                   k \notin edges \/ graph.edges[k] # me.plan.edges[k]},
                      !.staleNodes = NodesIn(graph, {"Company"}) \ DOMAIN me.plan.nodes,
                      !.staleEdges = StaleRelations(me.plan, graph)]
<1>1. OpKept(me) /\ me.pc = "diff" /\ UNCHANGED <<manifest, decisions>>
  BY DEF CompanyInv, Diff, KeepFiles
<1>2. CASE OpStop(o)
  BY <1>1, <1>2, OpStopKept
<1>3. CASE ~OpStop(o)
  <2>1. op' = [op EXCEPT ![o] = next]
    BY <1>3 DEF Diff, OpStep
  <2>2. /\ DOMAIN next = DOMAIN NoOp
        /\ next.pc = "write" /\ next.command = me.command /\ next.dir = me.dir
        /\ next.snapshot = me.snapshot /\ next.plan = me.plan
        /\ next.nodes \subseteq DOMAIN me.plan.nodes /\ next.edges \subseteq DOMAIN me.plan.edges
        /\ next.staleNodes = NodesIn(graph, {"Company"}) \ DOMAIN me.plan.nodes
        /\ next.staleEdges = StaleRelations(me.plan, graph)
    BY <1>1, NoOpFields DEF OpKept
  <2> HIDE DEF next
  <2>3. \A k \in next.staleEdges : k.name \in CompanyNames /\ k \notin DOMAIN next.plan.edges
    BY <2>2 DEF StaleRelations, EdgesIn
  <2>4. ASSUME NEW kind \in DOMAIN Published, NEW n \in next.staleNodes \cap KeptNodes[kind]
        PROVE  FALSE
    <3>1. n \in DOMAIN graph.nodes /\ graph.nodes[n].label = "Company" /\ n \notin DOMAIN me.plan.nodes
      BY <2>2, <2>4 DEF NodesIn
    <3>2. "Company" \in OwnedLabels(kind)
      BY <2>4, <3>1 DEF EntityInv, GraphKept
    <3>3. kind = "Company"
      BY <3>2, KindsPublished DEF OwnedLabels
    <3> QED BY <3>1, <3>3, <2>4, <1>1 DEF OpKept, Planned, PlanSound
  <2> QED BY <1>1, <2>1, <2>2, <2>3, <2>4, GoesOnKept DEF Planned
<1> QED BY <1>2, <1>3

LEMMA CompanyWriteEffect ==
  ASSUME NEW o, NEW g, NEW next, CompanyWrite(o, g, next)
  PROVE  /\ graph' = g /\ op' = [op EXCEPT ![o] = next]
         /\ UNCHANGED <<kinds, version>> /\ UNCHANGED <<manifest, decisions>>
         /\ DOMAIN job' = DOMAIN job
         /\ \A j \in DOMAIN job :
              job'[j] = IF job[j].pc = "idle" THEN job[j] ELSE [job[j] EXCEPT !.quiet = FALSE]
BY DEF CompanyWrite, OpStep, KeepFiles

LEMMA CompanyWritesKept ==
  ASSUME CompanyInv, NEW o \in DOMAIN op, WriteNodes(o) \/ WriteEdges(o)
  PROVE  CompanyInv'
<1> DEFINE me == op[o]
<1>1. OpKept(me) /\ me.pc = "write"
  BY DEF CompanyInv, WriteNodes, WriteEdges
<1>2. PICK g, nodes, edges :
        /\ nodes \subseteq me.nodes /\ edges \subseteq me.edges
        /\ CompanyWrite(o, g, [me EXCEPT !.nodes = nodes, !.edges = edges])
  <2>1. CASE WriteNodes(o)
    <3> DEFINE chunk == Chunk(me.nodes, WriteBatch)
    <3>1. CompanyWrite(o, SaveNodes(graph, Restrict(me.plan.nodes, chunk)),
                       [me EXCEPT !.nodes = @ \ chunk])
      BY <2>1 DEF WriteNodes
    <3>2. [me EXCEPT !.nodes = me.nodes \ chunk] = [me EXCEPT !.nodes = me.nodes \ chunk, !.edges = me.edges]
      BY <1>1, NoOpFields DEF OpKept
    <3> HIDE DEF chunk
    <3> QED BY <3>1, <3>2
  <2>2. CASE WriteEdges(o)
    <3> DEFINE chunk == Chunk(me.edges, WriteBatch)
    <3>1. CompanyWrite(o, SaveEdges(graph, Restrict(me.plan.edges, chunk)),
                       [me EXCEPT !.edges = @ \ chunk])
      BY <2>2 DEF WriteEdges
    <3>2. [me EXCEPT !.edges = me.edges \ chunk] = [me EXCEPT !.nodes = me.nodes, !.edges = me.edges \ chunk]
      BY <1>1, NoOpFields DEF OpKept
    <3> HIDE DEF chunk
    <3> QED BY <3>1, <3>2
  <2> QED BY <2>1, <2>2
<1> DEFINE next == [me EXCEPT !.nodes = nodes, !.edges = edges]
<1>3. /\ DOMAIN next = DOMAIN NoOp
      /\ next.pc = "write" /\ next.command = me.command /\ next.dir = me.dir
      /\ next.snapshot = me.snapshot /\ next.plan = me.plan
      /\ next.nodes = nodes /\ next.edges = edges
      /\ next.staleNodes = me.staleNodes /\ next.staleEdges = me.staleEdges
  BY <1>1, NoOpFields DEF OpKept
<1>4. op' = [op EXCEPT ![o] = next] /\ UNCHANGED <<manifest, decisions>>
  BY <1>2, CompanyWriteEffect
<1> HIDE DEF next
<1>5. /\ next.nodes \subseteq DOMAIN me.plan.nodes /\ next.edges \subseteq DOMAIN me.plan.edges
      /\ \A k \in next.staleEdges : k.name \in CompanyNames /\ k \notin DOMAIN me.plan.edges
      /\ \A kind \in DOMAIN Published : next.staleNodes \cap KeptNodes[kind] = {}
  BY <1>1, <1>2, <1>3 DEF OpKept
<1> QED BY <1>1, <1>3, <1>4, <1>5, GoesOnKept DEF Planned

LEMMA PhaseKept ==
  ASSUME CompanyInv, NEW o \in DOMAIN op, UNCHANGED <<manifest, decisions>>, NEW pc,
         op' = [op EXCEPT ![o] = [op[o] EXCEPT !.pc = pc]],
         \/ op[o].pc = "write" /\ pc \in {"finish", "sweep_edges"}
         \/ op[o].pc = "finish" /\ pc = "verify"
  PROVE  CompanyInv'
<1> DEFINE me == op[o]
           next == [me EXCEPT !.pc = pc]
<1>1. OpKept(me)
  BY DEF CompanyInv
<1>2. /\ DOMAIN next = DOMAIN NoOp
      /\ next.pc = pc /\ next.command = me.command /\ next.dir = me.dir
      /\ next.snapshot = me.snapshot /\ next.plan = me.plan
      /\ next.staleNodes = me.staleNodes /\ next.staleEdges = me.staleEdges
  BY <1>1, NoOpFields DEF OpKept
<1>3. op' = [op EXCEPT ![o] = next]
  OBVIOUS
<1> HIDE DEF next
<1>4. /\ next.pc = "sweep_edges" =>
           \A k \in next.staleEdges : k.name \in CompanyNames /\ k \notin DOMAIN me.plan.edges
      /\ next.pc = "sweep_edges" =>
           \A kind \in DOMAIN Published : next.staleNodes \cap KeptNodes[kind] = {}
  BY <1>1, <1>2 DEF OpKept
<1> QED BY <1>1, <1>2, <1>3, <1>4, GoesOnKept DEF Planned

LEMMA WrittenKept ==
  ASSUME CompanyInv, NEW o \in DOMAIN op, Written(o)
  PROVE  CompanyInv'
<1>1. op[o].pc = "write" /\ UNCHANGED <<manifest, decisions>>
  BY DEF Written, KeepFiles
<1>2. \/ op' = [op EXCEPT ![o] = [op[o] EXCEPT !.pc = "finish"]]
      \/ op' = [op EXCEPT ![o] = [op[o] EXCEPT !.pc = "sweep_edges"]]
      \/ OpStop(o)
  BY DEF Written, OpStep
<1> QED BY <1>1, <1>2, PhaseKept, OpStopKept

LEMMA FinishKept ==
  ASSUME CompanyInv, NEW o \in DOMAIN op, Finish(o)
  PROVE  CompanyInv'
<1>1. op[o].pc = "finish" /\ UNCHANGED <<manifest, decisions>>
  BY DEF Finish, KeepFiles
<1>2. op' = [op EXCEPT ![o] = [op[o] EXCEPT !.pc = "verify"]] \/ OpStop(o)
  BY DEF Finish, OpStep
<1> QED BY <1>1, <1>2, PhaseKept, OpStopKept

LEMMA CompanySweepsKept ==
  ASSUME CompanyInv, NEW o \in DOMAIN op, CompanySweepEdges(o) \/ CompanySweepNodes(o)
  PROVE  CompanyInv'
<1> DEFINE me == op[o]
<1>1. OpKept(me)
  BY DEF CompanyInv
<1>2. CASE CompanySweepEdges(o)
  <2> DEFINE next == [me EXCEPT !.pc = "sweep_nodes", !.staleEdges = {}]
  <2>1. me.pc = "sweep_edges" /\ op' = [op EXCEPT ![o] = next] /\ UNCHANGED <<manifest, decisions>>
    BY <1>2, CompanyWriteEffect DEF CompanySweepEdges
  <2>2. /\ DOMAIN next = DOMAIN NoOp
        /\ next.pc = "sweep_nodes" /\ next.command = me.command /\ next.dir = me.dir
        /\ next.snapshot = me.snapshot /\ next.plan = me.plan
        /\ next.staleNodes = me.staleNodes
    BY <1>1, NoOpFields DEF OpKept
  <2> HIDE DEF next
  <2>3. \A kind \in DOMAIN Published : next.staleNodes \cap KeptNodes[kind] = {}
    BY <1>1, <2>1, <2>2 DEF OpKept
  <2> QED BY <2>1, <2>2, <2>3, GoesOnKept DEF Planned
<1>3. CASE CompanySweepNodes(o)
  <2> DEFINE next == [me EXCEPT !.pc = "finish", !.staleNodes = {}]
  <2>1. CASE OpStop(o) /\ UNCHANGED <<manifest, decisions>>
    BY <2>1, OpStopKept
  <2>2. CASE ~(OpStop(o) /\ UNCHANGED <<manifest, decisions>>)
    <3>1. me.pc = "sweep_nodes" /\ op' = [op EXCEPT ![o] = next] /\ UNCHANGED <<manifest, decisions>>
      BY <1>3, <2>2, CompanyWriteEffect DEF CompanySweepNodes, KeepFiles
    <3>2. /\ DOMAIN next = DOMAIN NoOp
          /\ next.pc = "finish" /\ next.command = me.command /\ next.dir = me.dir
          /\ next.snapshot = me.snapshot /\ next.plan = me.plan
      BY <1>1, NoOpFields DEF OpKept
    <3> HIDE DEF next
    <3> QED BY <3>1, <3>2, GoesOnKept DEF Planned
  <2> QED BY <2>1, <2>2
<1> QED BY <1>2, <1>3

LEMMA CompanyStepKept ==
  ASSUME EntityInv, CompanyInv, NEW o \in DOMAIN op, CompanyStep(o)
  PROVE  CompanyInv'
<1>1. CASE Verify(o) \/ CompanyDie(o)
  BY <1>1, OpStopKept DEF Verify, CompanyDie, KeepFiles
<1> QED BY <1>1, BeginKept, PlanStepKept, InferKept, DecideKept, AssembleKept, DiffKept,
           CompanyWritesKept, WrittenKept, FinishKept, CompanySweepsKept DEF CompanyStep

-----------------------------------------------------------------------------
(* What the writes of a Company run keep of the graph *)

\* The runs of the entities are only disturbed.
LEMMA CompanyWriteKeepsEntities ==
  ASSUME EntityInv, NEW o, NEW g, NEW next, CompanyWrite(o, g, next), GraphKept'
  PROVE  EntityInv'
<1>1. /\ UNCHANGED <<kinds, version>> /\ DOMAIN job' = DOMAIN job
      /\ \A j \in DOMAIN job : job'[j] = job[j] \/ job'[j] = [job[j] EXCEPT !.quiet = FALSE]
  BY CompanyWriteEffect
<1>2. \A j \in DOMAIN job : JobKept(job[j])'
  BY <1>1, OtherJobKept
<1> QED BY <1>1, <1>2 DEF EntityInv

LEMMA SameEntities ==
  ASSUME EntityInv, UNCHANGED entityVars
  PROVE  EntityInv' /\ \A kind \in DOMAIN Published : FactsStay(kind)
<1>1. UNCHANGED <<kinds, version, graph, job>>
  BY DEF entityVars
<1>2. \A j \in DOMAIN job : JobKept(job[j])'
  BY <1>1, OtherJobKept
<1>3. GraphKept'
  BY <1>1 DEF EntityInv, GraphKept
<1> QED BY <1>1, <1>2, <1>3 DEF EntityInv, FactsStay

LEMMA SameOps ==
  ASSUME CompanyInv, UNCHANGED companyVars
  PROVE  CompanyInv'
<1>1. UNCHANGED <<manifest, decisions>> /\ UNCHANGED op
  BY DEF companyVars
<1>2. \A p \in DOMAIN op : OpKept(op[p])'
  BY <1>1, FilesKept, OtherOpKept
<1>3. Writers' = Writers
  BY <1>1 DEF Writers
<1> QED BY <1>1, <1>2, <1>3, FilesStaySound, FilesKept DEF CompanyInv, FilesSound, FilesGrow

LEMMA WriteNodesKeeps ==
  ASSUME EntityInv, CompanyInv, NEW o \in DOMAIN op, WriteNodes(o)
  PROVE  EntityInv' /\ \A kind \in DOMAIN Published : FactsStay(kind)
<1> DEFINE me == op[o]
           chunk == Chunk(me.nodes, WriteBatch)
           written == Restrict(me.plan.nodes, chunk)
           next == [me EXCEPT !.nodes = @ \ chunk]
<1>1. OpKept(me) /\ me.pc = "write" /\ CompanyWrite(o, SaveNodes(graph, written), next)
  BY DEF CompanyInv, WriteNodes
<1>2. PlanSound(me) /\ chunk \subseteq DOMAIN me.plan.nodes
  BY <1>1, ChunkSubset DEF OpKept, Planned
<1> HIDE DEF chunk
<1>3. graph' = SaveNodes(graph, written)
  BY <1>1, CompanyWriteEffect
<1>4. /\ DOMAIN written \subseteq AllIds("Company") /\ IsFiniteSet(DOMAIN written)
      /\ \A n \in DOMAIN written : written[n].label \in OwnedLabels("Company")
  <2>1. DOMAIN written = chunk /\ \A n \in chunk : written[n] = me.plan.nodes[n]
    BY DEF Restrict
  <2>2. IsFiniteSet(chunk)
    BY <1>2, FS_Subset DEF PlanSound
  <2>3. OwnedLabels("Company") = {"Company"}
    BY DEF OwnedLabels
  <2> QED BY <1>2, <2>1, <2>2, <2>3 DEF PlanSound
<1> HIDE DEF written
<1>5. GraphKept'
  BY <1>3, <1>4, GraphKeptSave, KindsPublished, CompanyAssumption DEF EntityInv
<1>6. \A kind \in DOMAIN Published : FactsStay(kind)
  BY <1>3, SaveNodesEffect DEF EntityInv, GraphKept, IsGraph, FactsStay
<1> QED BY <1>1, <1>5, <1>6, CompanyWriteKeepsEntities

LEMMA WriteEdgesKeeps ==
  ASSUME EntityInv, CompanyInv, NEW o \in DOMAIN op, WriteEdges(o)
  PROVE  EntityInv' /\ \A kind \in DOMAIN Published : FactsStay(kind)
<1>1. PICK f, next : CompanyWrite(o, SaveEdges(graph, f), next)
  BY DEF WriteEdges
<1>2. graph' = SaveEdges(graph, f) /\ IsGraph(graph)
  BY <1>1, CompanyWriteEffect DEF EntityInv, GraphKept, IsGraph
<1>3. GraphKept'
  BY <1>2, SaveEdgesEffect, GraphKeptEdges DEF EntityInv
<1>4. \A kind \in DOMAIN Published : FactsStay(kind)
  BY <1>2, SaveEdgesEffect DEF FactsStay
<1> QED BY <1>1, <1>3, <1>4, CompanyWriteKeepsEntities

LEMMA CompanySweepEdgesKeeps ==
  ASSUME EntityInv, CompanyInv, NEW o \in DOMAIN op, CompanySweepEdges(o)
  PROVE  EntityInv' /\ \A kind \in DOMAIN Published : FactsStay(kind)
<1> DEFINE me == op[o]
<1>1. OpKept(me) /\ me.pc = "sweep_edges"
  BY DEF CompanyInv, CompanySweepEdges
<1>2. PICK next : CompanyWrite(o, DeleteEdges(graph, me.staleEdges), next)
  BY DEF CompanySweepEdges
<1>3. graph' = DeleteEdges(graph, me.staleEdges) /\ IsGraph(graph)
  BY <1>2, CompanyWriteEffect DEF EntityInv, GraphKept, IsGraph
<1>4. /\ IsGraph(graph') /\ graph'.nodes = graph.nodes
      /\ DOMAIN graph'.edges = DOMAIN graph.edges \ me.staleEdges
  BY <1>3, DeleteEdgesEffect
<1>5. GraphKept'
  BY <1>4, GraphKeptEdges DEF EntityInv
<1>6. ASSUME NEW kind \in DOMAIN Published, NEW k \in me.staleEdges \cap KeptEdges[kind]
      PROVE  FALSE
  <2>1. k.name \in CompanyNames /\ k \notin DOMAIN me.plan.edges /\ PlanSound(me)
    BY <1>1, <1>6 DEF OpKept, Planned
  <2>2. k.name \in OwnedNames(kind)
    BY <1>6, KeptEdgesOwned
  <2>3. kind = "Company"
    BY <2>1, <2>2, KindsPublished DEF CompanyNames, OwnedNames, TopologyNames
  <2> QED BY <2>1, <2>3, <1>6 DEF PlanSound
<1> HIDE DEF me
<1>7. \A kind \in DOMAIN Published : FactsStay(kind)
  BY <1>4, <1>6 DEF FactsStay
<1> QED BY <1>2, <1>5, <1>7, CompanyWriteKeepsEntities

LEMMA CompanySweepNodesKeeps ==
  ASSUME EntityInv, CompanyInv, NEW o \in DOMAIN op, CompanySweepNodes(o)
  PROVE  EntityInv' /\ \A kind \in DOMAIN Published : FactsStay(kind)
<1> DEFINE me == op[o]
<1>1. OpKept(me) /\ me.pc = "sweep_nodes"
  BY DEF CompanyInv, CompanySweepNodes
<1>2. CASE Touching(graph, me.staleNodes) = {}
  <2>1. PICK next : CompanyWrite(o, DetachDelete(graph, me.staleNodes), next)
    BY <1>2 DEF CompanySweepNodes
  <2>2. graph' = DetachDelete(graph, me.staleNodes)
    BY <2>1, CompanyWriteEffect
  <2>3. /\ IsGraph(graph')
        /\ DOMAIN graph'.nodes = DOMAIN graph.nodes \ me.staleNodes
        /\ \A n \in DOMAIN graph'.nodes : graph'.nodes[n] = graph.nodes[n]
        /\ DOMAIN graph'.edges = DOMAIN graph.edges \ Touching(graph, me.staleNodes)
    BY <2>2, DetachDeleteEffect
  <2>4. GraphKept'
    BY <2>3, GraphKeptDelete DEF EntityInv
  <2>5. \A kind \in DOMAIN Published : me.staleNodes \cap KeptNodes[kind] = {}
    BY <1>1 DEF OpKept
  <2> HIDE DEF me
  <2>6. \A kind \in DOMAIN Published : FactsStay(kind)
    BY <1>2, <2>3, <2>5 DEF FactsStay
  <2> QED BY <2>1, <2>4, <2>6, CompanyWriteKeepsEntities
<1>3. CASE Touching(graph, me.staleNodes) # {}
  <2>1. UNCHANGED entityVars
    BY <1>3 DEF CompanySweepNodes, KeepGraph
  <2> QED BY <2>1, SameEntities
<1> QED BY <1>2, <1>3

LEMMA CompanyStepKeeps ==
  ASSUME EntityInv, CompanyInv, NEW o \in DOMAIN op, CompanyStep(o)
  PROVE  EntityInv' /\ \A kind \in DOMAIN Published : FactsStay(kind)
<1>1. CASE UNCHANGED entityVars
  BY <1>1, SameEntities
<1> QED BY <1>1, WriteNodesKeeps, WriteEdgesKeeps, CompanySweepEdgesKeeps, CompanySweepNodesKeeps
        DEF CompanyStep, Begin, Plan, Infer, Decide, Assemble, Diff, Written, Finish, Verify, CompanyDie,
            KeepGraph

-----------------------------------------------------------------------------
(* Theorems *)

KeptInv == EntityInv /\ CompanyInv

LEMMA KeptInit == Init => KeptInv
<1> SUFFICES ASSUME Init PROVE KeptInv
  OBVIOUS
<1>1. PICK s \in Scenarios :
        /\ kinds = s.kinds /\ graph = s.graph
        /\ version = [k \in DOMAIN Published |-> 1]
        /\ job = [j \in JobsOf(kinds) |-> Idle]
  BY DEF Init, EntityInit
<1>2. \A j \in DOMAIN job : JobKept(job[j])
  <2>1. Idle.pc = "idle"
    BY DEF Idle
  <2> QED BY <1>1, <2>1 DEF JobKept, Phases
<1>3. \A kind \in DOMAIN Published : version[kind] \in DOMAIN Published[kind]
  BY <1>1, PublishedAssumption
<1>4. GraphKept
  BY <1>1, ScenarioAssumption DEF GraphKept
<1>5. EntityInv
  BY <1>1, <1>2, <1>3, <1>4 DEF EntityInv
<1>6. /\ manifest = [d \in Dir |-> NoManifest] /\ decisions = [d \in Dir |-> <<>>]
      /\ op = [o \in Staff(kinds) |-> NoOp]
  BY DEF Init
<1>7. \A o \in DOMAIN op : OpKept(op[o]) /\ op[o].command = ""
  <2>1. NoOp.pc = "idle" /\ NoOp.command = ""
    BY DEF NoOp
  <2> QED BY <1>6, <2>1 DEF OpKept, OpPhases, Planned
<1>8. \A dir \in Dir : Frozen(dir) = {}
  BY <1>6 DEF Frozen
<1>9. CompanyInv
  BY <1>6, <1>7, <1>8 DEF CompanyInv, Writers
<1> QED BY <1>5, <1>9 DEF KeptInv

LEMMA KeptNext == KeptInv /\ [Next]_vars => KeptInv'
<1> SUFFICES ASSUME KeptInv, [Next]_vars PROVE KeptInv'
  OBVIOUS
<1> USE DEF KeptInv
<1>1. CASE EntityStep
  BY <1>1, EntityNextKept, EntityStepKeepsOps DEF EntityStep
<1>2. CASE \E o \in DOMAIN op : CompanyStep(o)
  BY <1>2, CompanyStepKept, CompanyStepKeeps
<1>3. CASE UNCHANGED vars
  <2>1. UNCHANGED entityVars /\ UNCHANGED companyVars
    BY <1>3 DEF vars
  <2>2. EntityInv'
    BY <2>1, SameEntities
  <2>3. CompanyInv'
    BY <2>1, SameOps
  <2> QED BY <2>2, <2>3
<1> QED BY <1>1, <1>2, <1>3 DEF Next

\* Facts Data has held throughout, and the relations between them, stay in the
\* graph, whatever runs write, sweep, crash or read pages of mixed versions.
THEOREM KeptFacts == Spec => KeptFactsStay
<1>1. KeptInv /\ [Next]_vars =>
        [\A kind \in kinds :
           /\ KeptNodes[kind] \cap DOMAIN graph.nodes \subseteq DOMAIN graph'.nodes
           /\ KeptEdges[kind] \cap DOMAIN graph.edges \subseteq DOMAIN graph'.edges]_entityVars
  <2> SUFFICES ASSUME KeptInv, [Next]_vars, NEW kind \in kinds
               PROVE  \/ FactsStay(kind)
                      \/ UNCHANGED entityVars
    BY DEF FactsStay
  <2>1. kind \in DOMAIN Published
    BY KindsPublished DEF KeptInv
  <2>2. CASE EntityStep
    BY <2>1, <2>2, EntityNextKeepsFacts DEF EntityStep, KeptInv
  <2>3. CASE \E o \in DOMAIN op : CompanyStep(o)
    BY <2>1, <2>3, CompanyStepKeeps DEF KeptInv
  <2>4. CASE UNCHANGED vars
    BY <2>4 DEF vars
  <2> QED BY <2>2, <2>3, <2>4 DEF Next
<1> QED BY <1>1, KeptInit, KeptNext, PTL DEF Spec, KeptFactsStay

\* What a step writes of the inferred relations is grounded.
NewRelationsGrounded ==
  \A k \in EdgesIn(graph', InferredNames) :
    k \notin DOMAIN graph.edges \/ graph.edges[k] # graph'.edges[k] => Grounded(k, graph'.edges[k])

LEMMA NothingNew ==
  ASSUME DOMAIN graph'.edges \subseteq DOMAIN graph.edges,
         \A k \in DOMAIN graph'.edges : graph'.edges[k] = graph.edges[k]
  PROVE  NewRelationsGrounded
BY DEF NewRelationsGrounded, EdgesIn

LEMMA SavedRelations ==
  ASSUME IsGraph(graph), NEW f, graph' = SaveEdges(graph, f),
         \A k \in DOMAIN f : k.name \in InferredNames => Grounded(k, f[k])
  PROVE  NewRelationsGrounded
<1> DEFINE joined == {k \in DOMAIN f : {k.source, k.target} \subseteq DOMAIN graph.nodes}
<1>1. /\ DOMAIN graph'.edges = joined \cup DOMAIN graph.edges
      /\ \A k \in joined : graph'.edges[k] = f[k]
      /\ \A k \in DOMAIN graph.edges \ joined : graph'.edges[k] = graph.edges[k]
  BY SaveEdgesEffect
<1> QED BY <1>1 DEF NewRelationsGrounded, EdgesIn

LEMMA EntityRelations ==
  ASSUME EntityInv, EntityNext
  PROVE  NewRelationsGrounded
<1>1. IsGraph(graph)
  BY DEF EntityInv, GraphKept, IsGraph
<1>2. CASE UNCHANGED graph
  BY <1>2, NothingNew
<1>3. CASE \E k \in kinds : Publish(k)
  BY <1>2, <1>3 DEF Publish
<1>4. CASE \E j \in DOMAIN job : JobStep(j)
  <2>1. PICK j \in DOMAIN job : JobStep(j)
    BY <1>4
  <2> DEFINE me == job[j]
  <2>2. CASE \/ Start(j) \/ Load(j) \/ PreflightTargets(j) \/ PreflightStorylines(j) \/ Recheck(j)
             \/ ReadStale(j) \/ Inspect(j) \/ Die(j)
    BY <2>2, <1>2 DEF Start, Load, PreflightTargets, PreflightStorylines, Recheck, ReadStale, Inspect, Die
  <2>3. CASE SweepEdges(j)
    <3>1. graph' = DeleteEdges(graph, me.stale)
      BY <2>3, WriteEffect DEF SweepEdges
    <3> QED BY <3>1, <1>1, DeleteEdgesEffect, NothingNew
  <2>4. CASE SweepNodes(j)
    <3>1. CASE me.todo = {}
      BY <3>1, <2>4, <1>2 DEF SweepNodes
    <3>2. CASE me.todo # {}
      <4>1. PICK ids : graph' = DetachDelete(graph, ids)
        BY <3>2, <2>4, WriteEffect DEF SweepNodes
      <4> QED BY <4>1, DetachDeleteEffect, NothingNew
    <3> QED BY <3>1, <3>2
  <2>5. CASE SaveNodeBatch(j)
    <3>1. PICK f : graph' = SaveNodes(graph, f)
      BY <2>5, WriteEffect DEF SaveNodeBatch
    <3> QED BY <3>1, <1>1, SaveNodesEffect, NothingNew
  <2>6. CASE SaveEdgeBatch(j)
    <3> DEFINE batch == Chunk(me.todo, WriteBatch)
               f == Restrict(me.plan.edges, batch)
    <3>1. JobKept(me) /\ me.pc = "save_edges" /\ graph' = SaveEdges(graph, f)
      BY <2>6, WriteEffect DEF EntityInv, SaveEdgeBatch
    <3>2. PlanKept(me) /\ batch \subseteq DOMAIN me.plan.edges /\ me.kind \in Kinds
      BY <3>1, ChunkSubset, KindsPublished DEF JobKept
    <3>3. me.kind # "Company"
      BY <3>1, <3>2, CommandsOf DEF JobKept
    <3>4. OwnedNames(me.kind) \cap InferredNames = {}
      BY <3>2, <3>3 DEF Kinds, Sweeping, Storylines, OwnedNames, TopologyNames, InferredNames
    <3>5. \A k \in DOMAIN f : k.name \notin InferredNames
      BY <3>2, <3>4 DEF PlanKept, Restrict
    <3> HIDE DEF f
    <3> QED BY <3>1, <3>5, <1>1, SavedRelations
  <2> QED BY <2>1, <2>2, <2>3, <2>4, <2>5, <2>6 DEF JobStep
<1> QED BY <1>3, <1>4 DEF EntityNext

LEMMA CompanyRelations ==
  ASSUME EntityInv, CompanyInv, NEW o \in DOMAIN op, CompanyStep(o)
  PROVE  NewRelationsGrounded
<1> DEFINE me == op[o]
<1>1. IsGraph(graph)
  BY DEF EntityInv, GraphKept, IsGraph
<1>2. CASE UNCHANGED graph
  BY <1>2, NothingNew
<1>3. CASE WriteNodes(o)
  <2>1. PICK f : graph' = SaveNodes(graph, f)
    BY <1>3, CompanyWriteEffect DEF WriteNodes
  <2> QED BY <2>1, <1>1, SaveNodesEffect, NothingNew
<1>4. CASE WriteEdges(o)
  <2> DEFINE chunk == Chunk(me.edges, WriteBatch)
             f == Restrict(me.plan.edges, chunk)
  <2>1. OpKept(me) /\ me.pc = "write" /\ graph' = SaveEdges(graph, f)
    BY <1>4, CompanyWriteEffect DEF CompanyInv, WriteEdges
  <2>2. PlanSound(me) /\ chunk \subseteq DOMAIN me.plan.edges
    BY <2>1, ChunkSubset DEF OpKept, Planned
  <2>3. \A k \in DOMAIN f : k.name \in InferredNames => Grounded(k, f[k])
    BY <2>2 DEF PlanSound, Restrict
  <2> HIDE DEF f
  <2> QED BY <2>1, <2>3, <1>1, SavedRelations
<1>5. CASE CompanySweepEdges(o)
  <2>1. PICK keys : graph' = DeleteEdges(graph, keys)
    BY <1>5, CompanyWriteEffect DEF CompanySweepEdges
  <2> QED BY <2>1, <1>1, DeleteEdgesEffect, NothingNew
<1>6. CASE CompanySweepNodes(o)
  <2>1. CASE Touching(graph, me.staleNodes) = {}
    <3>1. PICK ids : graph' = DetachDelete(graph, ids)
      BY <2>1, <1>6, CompanyWriteEffect DEF CompanySweepNodes
    <3> QED BY <3>1, DetachDeleteEffect, NothingNew
  <2>2. CASE Touching(graph, me.staleNodes) # {}
    BY <2>2, <1>6, <1>2 DEF CompanySweepNodes, KeepGraph, entityVars
  <2> QED BY <2>1, <2>2
<1> QED BY <1>2, <1>3, <1>4, <1>5, <1>6
        DEF CompanyStep, Begin, Plan, Infer, Decide, Assemble, Diff, Written, Finish, Verify, CompanyDie,
            KeepGraph, entityVars

\* What a step freezes passes the audits against the manifest.
LEMMA NewDecisionsAudited ==
  ASSUME CompanyInv, NEW o \in DOMAIN op, Decide(o), NEW dir \in Dir,
         NEW company \in DOMAIN decisions'[dir] \ DOMAIN decisions[dir]
  PROVE  LET d == decisions'[dir][company]  m == manifest[dir] IN
         D!JournalAccepts(d, dir, Companies(m.snapshot)) /\ D!ScopeValid(d, m.catalog, m)
<1>1. CompanyInv'
  BY DecideKept
<1>2. UNCHANGED manifest
  BY DEF Decide
<1>3. PICK d : d = decisions'[dir][company]
  OBVIOUS
<1>4. d \in Frozen(dir)'
  BY <1>3 DEF Frozen
<1>5. DecisionSound(d, dir)'
  BY <1>1, <1>4 DEF CompanyInv
<1>6. LET m == manifest[dir] IN D!JournalAccepts(d, dir, Companies(m.snapshot)) /\ D!ScopeValid(d, m.catalog, m)
  BY <1>2, <1>5 DEF DecisionSound
<1> QED BY <1>3, <1>6

\* Every change of an inferred relation in the graph comes from a frozen decision
\* that accepted it, below or around what the same decision accepted before;
\* and no decision is frozen that reading it back would refuse.
THEOREM GroundedRelations == Spec => RelationsAreGrounded
<1>1. KeptInv /\ [Next]_vars =>
        [/\ NewRelationsGrounded
         /\ \A dir \in Dir : \A company \in DOMAIN decisions'[dir] \ DOMAIN decisions[dir] :
              LET d == decisions'[dir][company]  m == manifest[dir] IN
              D!JournalAccepts(d, dir, Companies(m.snapshot)) /\ D!ScopeValid(d, m.catalog, m)]_vars
  <2> SUFFICES ASSUME KeptInv, Next
               PROVE  /\ NewRelationsGrounded
                      /\ \A dir \in Dir : \A company \in DOMAIN decisions'[dir] \ DOMAIN decisions[dir] :
                           LET d == decisions'[dir][company]  m == manifest[dir] IN
                           /\ D!JournalAccepts(d, dir, Companies(m.snapshot))
                           /\ D!ScopeValid(d, m.catalog, m)
    OBVIOUS
  <2> USE DEF KeptInv
  <2>1. CASE EntityStep
    BY <2>1, EntityRelations DEF EntityStep, KeepFiles
  <2>2. CASE \E o \in DOMAIN op : CompanyStep(o)
    <3>1. PICK o \in DOMAIN op : CompanyStep(o)
      BY <2>2
    <3>2. UNCHANGED decisions \/ Decide(o)
      BY <3>1 DEF CompanyStep, Begin, Plan, Infer, Assemble, Diff, WriteNodes, WriteEdges, Written,
                  CompanySweepEdges, CompanySweepNodes, Finish, Verify, CompanyDie, CompanyWrite, KeepFiles
    <3> QED BY <3>1, <3>2, CompanyRelations, NewDecisionsAudited
  <2> QED BY <2>1, <2>2 DEF Next
<1> QED BY <1>1, KeptInit, KeptNext, PTL DEF Spec, RelationsAreGrounded, NewRelationsGrounded

-----------------------------------------------------------------------------
(* What is planned has its ends in the plan or among its targets *)

LEMMA TargetLabels ==
  /\ TargetLabel("IndustryChainMappedToIndustry") = "Industry"
  /\ TargetLabel("IndustryChainMappedToConcept") = "Concept"
  /\ TargetLabel("ChainNodeBelongsToIndustryChain") = "IndustryChain"
  /\ \A name \in TopologyNames : TargetLabel(name) = "ChainNode"
BY DEF TargetLabel, TopologyNames

\* A relation of a kind that owns all its ends stays among its own.
LEMMA ClosedAlone ==
  ASSUME NEW kind \in {"CountryRegion", "Industry", "Concept", "Variable"} \cup Storylines,
         NEW facts, FactsKept(kind, facts), ~Refused(kind, facts),
         NEW l \in Elements(LinksOf(kind, facts))
  PROVE  l.source \in Ids(facts.items) /\ l.target \in Ids(facts.items)
<1>1. CASE kind = "CountryRegion"
  BY <1>1 DEF FactsKept, WellTyped, LinksOf
<1>2. CASE kind = "Industry"
  <2>1. PICK i \in Elements(facts.items) :
          i.parent # NoParent /\ KeyOf(l) = Key("IndustryHasParent", i.id, i.parent, NoScope)
    BY <1>2, ParentLinks
  <2>2. ~IndustryRefused(facts)
    BY <1>2 DEF Refused, Storylines
  <2>3. \E p \in Elements(facts.items) : p.id = i.parent
    BY <2>1, <2>2 DEF IndustryRefused
  <2> QED BY <2>1, <2>3 DEF KeyOf, Key, Ids
<1>3. CASE kind \notin {"CountryRegion", "Industry"}
  <2>1. l.name \in OwnedNames(kind)
    BY OwnedLinks DEF FactsKept
  <2> QED BY <1>3, <2>1 DEF OwnedNames, Storylines
<1> QED BY <1>1, <1>2, <1>3

\* Mappings and memberships end at one entity of their type.
LEMMA ClosedTargets ==
  ASSUME NEW kind \in {"IndustryChain", "ChainNode"},
         NEW facts, FactsKept(kind, facts), ~Refused(kind, facts),
         NEW l \in Elements(LinksOf(kind, facts))
  PROVE  /\ l.source \in Ids(facts.items)
         /\ l.target \in Ids(facts.items) => (kind = "ChainNode" => l.name \in TopologyNames)
         /\ l.target \notin Ids(facts.items) =>
              \E e \in facts.entities :
                /\ e.id = l.target /\ e.label = TargetLabel(l.name)
                /\ e.label \notin OwnedLabels(kind)
<1>1. l \in Elements(facts.links) /\ l.name \in OwnedNames(kind)
  BY OwnedLinks DEF FactsKept, LinksOf
<1>2. CASE kind = "IndustryChain"
  <2>1. ~IndustryChainRefused(facts)
    BY <1>2 DEF Refused, Storylines
  <2>2. \E e \in facts.entities : e.id = l.target /\ e.label = TargetLabel(l.name)
    BY <1>1, <2>1 DEF IndustryChainRefused
  <2>3. TargetLabel(l.name) \notin OwnedLabels(kind)
    BY <1>1, <1>2, TargetLabels DEF OwnedNames, OwnedLabels
  <2> QED BY <1>1, <1>2, <2>1, <2>2, <2>3 DEF IndustryChainRefused
<1>3. CASE kind = "ChainNode"
  <2>1. ~ChainNodeRefused(facts)
    BY <1>3 DEF Refused, Storylines
  <2>2. l.source \in Ids(facts.items)
    BY <1>1, <2>1 DEF ChainNodeRefused
  <2>3. CASE l.name \in TopologyNames
    <3>1. Membership(facts, l.scope, l.target)
      BY <1>1, <2>1, <2>3 DEF ChainNodeRefused
    <3>2. PICK m \in Elements(facts.links) : m.source = l.target
      BY <3>1 DEF Membership
    <3>3. l.target \in Ids(facts.items)
      BY <2>1, <3>2 DEF ChainNodeRefused
    <3> QED BY <2>2, <2>3, <3>3
  <2>4. CASE l.name \notin TopologyNames
    <3>1. l.name = "ChainNodeBelongsToIndustryChain"
      BY <1>1, <1>3, <2>4 DEF OwnedNames
    <3>2. PICK e \in facts.entities : e.id = l.target /\ e.label = "IndustryChain"
      BY <1>1, <3>1 DEF FactsKept, WellTyped
    <3>3. l.target \notin Ids(facts.items)
      BY <3>2 DEF FactsKept
    <3> QED BY <1>3, <2>2, <3>1, <3>2, <3>3, TargetLabels DEF OwnedLabels
  <2> QED BY <2>3, <2>4
<1> QED BY <1>2, <1>3

LEMMA LoadedPlanClosed ==
  ASSUME NEW kind \in Kinds \ {"Company"}, NEW facts, FactsKept(kind, facts), ~Refused(kind, facts),
         NEW me, me.kind = kind, me.plan = PlanOf(kind, facts)
  PROVE  PlanClosed(me)
<1> DEFINE links == Elements(LinksOf(kind, facts))
           ids == Ids(facts.items)
           chains == kind \in {"IndustryChain", "ChainNode"}
           entity(id) == CHOOSE e \in facts.entities : e.id = id
<1>1. /\ DOMAIN me.plan.nodes = ids
      /\ DOMAIN me.plan.edges = {KeyOf(l) : l \in links}
      /\ DOMAIN me.plan.targets = {l.target : l \in links} \ ids
      /\ \A t \in DOMAIN me.plan.targets : me.plan.targets[t].label = entity(t).label
  BY DEF PlanOf, NodesOf, EdgesOf, TargetsOf
<1>2. \A l \in links : KeyOf(l).name = l.name /\ KeyOf(l).source = l.source /\ KeyOf(l).target = l.target
  BY DEF KeyOf, Key
<1>3. CASE ~chains
  <2>1. kind \in {"CountryRegion", "Industry", "Concept", "Variable"} \cup Storylines
    BY <1>3 DEF Kinds, Sweeping
  <2>2. \A l \in links : l.source \in ids /\ l.target \in ids
    BY <2>1, ClosedAlone
  <2> HIDE DEF links, ids, entity
  <2>3. DOMAIN me.plan.targets = {}
    BY <1>1, <2>2
  <2> QED BY <1>1, <1>2, <1>3, <2>2, <2>3 DEF PlanClosed
<1>4. CASE chains
  <2>1. \A a, b \in facts.entities : a.id = b.id => a = b
    BY <1>4 DEF Refused, Storylines, IndustryChainRefused, ChainNodeRefused
  <2>2. \A l \in links : /\ l.source \in ids
                         /\ l.target \in ids => (kind = "ChainNode" => l.name \in TopologyNames)
    BY <1>4, ClosedTargets
  <2>3. ASSUME NEW l \in links, l.target \notin ids
        PROVE  entity(l.target).label = TargetLabel(l.name) /\ TargetLabel(l.name) \notin OwnedLabels(kind)
    <3>1. PICK e \in facts.entities : e.id = l.target /\ e.label = TargetLabel(l.name) /\ e.label \notin OwnedLabels(kind)
      BY <1>4, <2>3, ClosedTargets
    <3>2. entity(l.target) = e
      BY <2>1, <3>1
    <3> QED BY <3>1, <3>2
  <2> HIDE DEF links, ids, entity
  <2>4. \A t \in DOMAIN me.plan.targets :
          t \notin ids /\ me.plan.targets[t].label \notin OwnedLabels(kind)
    BY <1>1, <2>3
  <2>5. \A k \in DOMAIN me.plan.edges :
          /\ k.source \in ids
          /\ k.target \in ids \cup DOMAIN me.plan.targets
          /\ kind = "ChainNode" =>
               IF k.target \in ids THEN k.name \in TopologyNames
               ELSE me.plan.targets[k.target].label = TargetLabel(k.name)
    BY <1>1, <1>2, <2>2, <2>3
  <2> QED BY <1>1, <1>4, <2>4, <2>5 DEF PlanClosed
<1> QED BY <1>3, <1>4

-----------------------------------------------------------------------------
(* The runs of the entities *)

\* A run another process writes beside is not quiet any more.
LEMMA OtherJobConverges ==
  ASSUME ConvergenceInv, NEW i \in DOMAIN job, DOMAIN job[i] = DOMAIN Idle,
         \/ job'[i] = job[i] /\ (graph' = graph \/ job[i].pc = "idle")
         \/ job'[i] = [job[i] EXCEPT !.quiet = FALSE]
  PROVE  JobConverges(job[i])'
<1>1. CASE job'[i] = job[i] /\ graph' = graph
  BY <1>1 DEF ConvergenceInv, JobConverges
<1>2. CASE job'[i] = job[i] /\ job[i].pc = "idle"
  BY <1>2 DEF JobConverges
<1>3. CASE job'[i] = [job[i] EXCEPT !.quiet = FALSE]
  <2>1. job'[i].quiet = FALSE
    BY <1>3, IdleFields
  <2> QED BY <2>1 DEF JobConverges
<1> QED BY <1>1, <1>2, <1>3

LEMMA OwnStepConverges ==
  ASSUME EntityInv, ConvergenceInv, NEW j \in DOMAIN job, graph' = graph,
         NEW next, job' = [job EXCEPT ![j] = next], JobConverges(next)'
  PROVE  ConvergenceInv'
<1>1. \A i \in DOMAIN job \ {j} : JobConverges(job[i])'
  BY OtherJobConverges DEF EntityInv, JobKept
<1>2. JobConverges(job[j])'
  BY DEF JobConverges
<1> QED BY <1>1, <1>2 DEF ConvergenceInv

LEMMA WriteConverges ==
  ASSUME EntityInv, ConvergenceInv, NEW j \in DOMAIN job, NEW g, NEW next,
         Write(j, g, next), JobConverges(next)'
  PROVE  ConvergenceInv'
<1>1. \A i \in DOMAIN job \ {j} : JobConverges(job[i])'
  BY WriteEffect, OtherJobConverges DEF EntityInv, JobKept
<1>2. job'[j] = next /\ DOMAIN job' = DOMAIN job
  BY WriteEffect
<1>3. JobConverges(job[j])'
  BY <1>2 DEF JobConverges
<1> QED BY <1>1, <1>2, <1>3 DEF ConvergenceInv

LEMMA IdleConverges == JobConverges(Idle)'
<1>1. Idle.pc = "idle"
  BY DEF Idle
<1> QED BY <1>1 DEF JobConverges

\* What a run that converges does of its kind and command.
LEMMA ConvergingKinds ==
  ASSUME EntityInv, NEW j \in DOMAIN job, job[j].pc # "idle"
  PROVE  LET me == job[j]
         IN  /\ JobKept(me) /\ DOMAIN me = DOMAIN Idle
             /\ me.kind \in DOMAIN Published /\ me.kind \in Kinds \ {"Company"}
             /\ me.command \in Commands(me.kind)
             /\ Converging(me) <=> \/ me.command = "replace" /\ me.kind \in Sweeping
                                   \/ me.command = "run" /\ me.kind \in Storylines
<1> DEFINE me == job[j]
<1>1. JobKept(me)
  BY DEF EntityInv
<1>2. me.kind \in kinds /\ me.command \in Commands(me.kind) /\ DOMAIN me = DOMAIN Idle
  BY <1>1 DEF JobKept
<1>3. me.kind \in DOMAIN Published /\ me.kind \in Kinds
  BY <1>2, KindsPublished
<1>4. me.kind # "Company" /\ (me.command = "replace" => me.kind \in Sweeping)
  BY <1>2, <1>3, CommandsOf
<1> QED BY <1>1, <1>2, <1>3, <1>4 DEF Converging

\* A run that goes on to write its next list.
LEMMA SavingConverges ==
  ASSUME NEW me, DOMAIN me = DOMAIN Idle, PlanClosed(me), TargetsPresent(me.plan, graph'),
         StaleEdges(me.kind, me.plan, graph') = {},
         NodesIn(graph', OwnedLabels(me.kind)) \subseteq DOMAIN me.plan.nodes,
         me.pc = "save_nodes" => NodesMatch(me.plan, graph')
  PROVE  JobConverges(Saving(me))'
<1> DEFINE next == Saving(me)
<1>1. /\ next.kind = me.kind /\ next.plan = me.plan
      /\ \/ next.pc = "save_nodes" /\ next.todo = DOMAIN me.plan.nodes
         \/ /\ next.pc = "save_edges" /\ next.todo = DOMAIN me.plan.edges
            /\ NodesMatch(me.plan, graph')
         \/ /\ next.pc = "inspect" /\ DOMAIN me.plan.edges = {}
            /\ NodesMatch(me.plan, graph')
  <2>1. DOMAIN me.plan.nodes = {} => NodesMatch(me.plan, graph')
    BY DEF NodesMatch
  <2> QED BY <2>1, SavingFields
<1>2. PICK x : x = next
  OBVIOUS
<1>3. PlanClosed(x)
  BY <1>1, <1>2 DEF PlanClosed
<1> HIDE DEF next
<1>4. JobConverges(x)'
  BY <1>1, <1>2, <1>3 DEF JobConverges
<1> QED BY <1>2, <1>4 DEF next

\* The first phase of a run that removes before it writes has nothing to show.
LEMMA SweepingConverges ==
  ASSUME NEW me, DOMAIN me = DOMAIN Idle, me.command = "replace",
         PlanClosed(me), TargetsPresent(me.plan, graph')
  PROVE  JobConverges(Writing(me))'
<1>1. PICK x : x = Writing(me)
  OBVIOUS
<1>2. x.pc = "read_stale" /\ x.plan = me.plan /\ x.kind = me.kind
  BY <1>1, WritingFields
<1>3. PlanClosed(x)
  BY <1>2 DEF PlanClosed
<1>4. JobConverges(x)'
  BY <1>2, <1>3 DEF JobConverges
<1> QED BY <1>1, <1>4

\* A run that does not claim to converge.
LEMMA NotConverging ==
  ASSUME NEW me, ~Converging(me), NEW next, next.kind = me.kind, next.command = me.command
  PROVE  JobConverges(next)'
BY DEF JobConverges, Converging

LEMMA LoadConverges ==
  ASSUME EntityInv, ConvergenceInv, NEW j \in DOMAIN job, Load(j)
  PROVE  ConvergenceInv'
<1>0. PICK me : me = job[j]
  OBVIOUS
<1>1. /\ me.pc = "load" /\ graph' = graph
      /\ JobKept(me) /\ DOMAIN me = DOMAIN Idle
      /\ me.kind \in DOMAIN Published /\ me.kind \in Kinds \ {"Company"}
      /\ me.since \in 1..version[me.kind] /\ version[me.kind] \in DOMAIN Published[me.kind]
      /\ Converging(me) <=> \/ me.command = "replace" /\ me.kind \in Sweeping
                            \/ me.command = "run" /\ me.kind \in Storylines
  <2>1. me.pc = "load" /\ graph' = graph
    BY <1>0 DEF Load
  <2> QED BY <1>0, <2>1, ConvergingKinds DEF EntityInv, JobKept
<1>2. PICK facts \in Loaded(me.kind, me.since) :
        IF Refused(me.kind, facts) THEN Stop(j)
        ELSE LET whole == PlanOf(me.kind, facts)
                 plan  == IF me.command = "smoke" THEN FirstTriplet(whole) ELSE whole
                 mine  == [me EXCEPT !.plan = plan, !.since = 0]
             IN  job' = [job EXCEPT ![j] =
                   CASE me.command = "verify" -> [mine EXCEPT !.pc = "inspect"]
                     [] me.command # "verify" /\ me.kind \in Storylines \cup {"IndustryChain", "ChainNode"}
                          -> [mine EXCEPT !.pc = "preflight"]
                     [] OTHER -> Writing(mine)]
  BY <1>0 DEF Load
<1>3. CASE Refused(me.kind, facts)
  <2>1. job' = [job EXCEPT ![j] = Idle]
    BY <1>2, <1>3 DEF Stop
  <2> QED BY <2>1, <1>1, IdleConverges, OwnStepConverges
<1>4. CASE ~Refused(me.kind, facts)
  <2>1. PICK plan : plan = IF me.command = "smoke" THEN FirstTriplet(PlanOf(me.kind, facts))
                           ELSE PlanOf(me.kind, facts)
    OBVIOUS
  <2>2. PICK mine : mine = [me EXCEPT !.plan = plan, !.since = 0]
    OBVIOUS
  <2>3. PICK next :
          next = CASE me.command = "verify" -> [mine EXCEPT !.pc = "inspect"]
                   [] me.command # "verify" /\ me.kind \in Storylines \cup {"IndustryChain", "ChainNode"}
                        -> [mine EXCEPT !.pc = "preflight"]
                   [] OTHER -> Writing(mine)
    OBVIOUS
  <2>4. job' = [job EXCEPT ![j] = next]
    BY <1>2, <1>4, <2>1, <2>2, <2>3
  <2>5. /\ DOMAIN mine = DOMAIN Idle
        /\ mine.kind = me.kind /\ mine.command = me.command /\ mine.plan = plan
    BY <1>1, <2>2, IdleFields
  <2>6. CASE ~Converging(me)
    <3>1. next.kind = me.kind /\ next.command = me.command
      <4>1. CASE me.command = "verify"
        BY <4>1, <2>3, <2>5, IdleFields
      <4>2. CASE me.command # "verify" /\ me.kind \in Storylines \cup {"IndustryChain", "ChainNode"}
        BY <4>2, <2>3, <2>5, IdleFields
      <4>3. CASE me.command # "verify" /\ me.kind \notin Storylines \cup {"IndustryChain", "ChainNode"}
        <5>1. next = Writing(mine)
          BY <4>3, <2>3
        <5> QED BY <5>1, <2>5, WritingFields
      <4> QED BY <4>1, <4>2, <4>3
    <3>2. JobConverges(next)'
      BY <2>6, <3>1, NotConverging
    <3> QED BY <1>1, <2>4, <3>2, OwnStepConverges
  <2>7. CASE Converging(me)
    <3>1. me.command \in {"run", "replace"} /\ plan = PlanOf(me.kind, facts)
      BY <1>1, <2>1, <2>7
    <3>2. FactsKept(me.kind, facts)
      BY <1>1, <1>2, LoadedKept
    <3>3. PlanClosed(mine)
      BY <1>1, <1>4, <2>5, <3>1, <3>2, LoadedPlanClosed
    <3>4. CASE me.kind \in Storylines \cup {"IndustryChain", "ChainNode"}
      <4>1. next.pc = "preflight" /\ next.plan = plan /\ next.kind = me.kind
        BY <2>3, <2>5, <3>1, <3>4, IdleFields
      <4>2. PlanClosed(next)
        BY <2>5, <3>3, <4>1 DEF PlanClosed
      <4>3. JobConverges(next)'
        BY <4>1, <4>2 DEF JobConverges
      <4> QED BY <1>1, <2>4, <4>3, OwnStepConverges
    <3>5. CASE me.kind \notin Storylines \cup {"IndustryChain", "ChainNode"}
      <4>1. next = Writing(mine) /\ me.command = "replace"
        BY <1>1, <2>3, <2>7, <3>1, <3>5
      <4>2. TargetsPresent(mine.plan, graph')
        BY <2>5, <3>3, <3>5 DEF PlanClosed, TargetsPresent
      <4>3. JobConverges(next)'
        BY <2>5, <3>3, <4>1, <4>2, SweepingConverges
      <4> QED BY <1>1, <2>4, <4>3, OwnStepConverges
    <3> QED BY <3>4, <3>5
  <2> QED BY <2>6, <2>7
<1> QED BY <1>3, <1>4

\* What the first phases of a run that converges hold.
LEMMA PreflightConverges ==
  ASSUME EntityInv, ConvergenceInv, NEW j \in DOMAIN job,
         PreflightTargets(j) \/ PreflightStorylines(j)
  PROVE  ConvergenceInv'
<1>0. PICK me : me = job[j]
  OBVIOUS
<1>1. /\ me.pc = "preflight" /\ graph' = graph
      /\ JobKept(me) /\ DOMAIN me = DOMAIN Idle /\ me.kind \in Kinds \ {"Company"}
      /\ JobConverges(me)
      /\ Converging(me) <=> \/ me.command = "replace" /\ me.kind \in Sweeping
                            \/ me.command = "run" /\ me.kind \in Storylines
  <2>1. me.pc = "preflight" /\ graph' = graph
    BY <1>0 DEF PreflightTargets, PreflightStorylines
  <2> QED BY <1>0, <2>1, ConvergingKinds DEF ConvergenceInv
<1>2. CASE Stop(j)
  BY <1>1, <1>2, IdleConverges, OwnStepConverges DEF Stop
<1>3. CASE PreflightTargets(j) /\ ~Stop(j)
  <2>1. PICK next : next = Writing(me)
    OBVIOUS
  <2>2. TargetsPresent(me.plan, graph) /\ job' = [job EXCEPT ![j] = next] /\ me.kind \notin Storylines
    BY <1>0, <1>3, <2>1 DEF PreflightTargets
  <2>3. next.kind = me.kind /\ next.command = me.command /\ next.quiet = me.quiet
    BY <1>1, <2>1, WritingFields
  <2>4. CASE ~Converging(me)
    BY <1>1, <2>2, <2>3, <2>4, NotConverging, OwnStepConverges
  <2>5. CASE Converging(me) /\ ~me.quiet
    <3>1. JobConverges(next)'
      BY <2>3, <2>5 DEF JobConverges
    <3> QED BY <1>1, <2>2, <3>1, OwnStepConverges
  <2>6. CASE Converging(me) /\ me.quiet
    <3>1. PlanClosed(me)
      BY <1>1, <2>6 DEF JobConverges
    <3>2. JobConverges(next)'
      BY <1>1, <2>1, <2>2, <2>6, <3>1, SweepingConverges
    <3> QED BY <1>1, <2>2, <3>2, OwnStepConverges
  <2> QED BY <2>4, <2>5, <2>6
<1>4. CASE PreflightStorylines(j) /\ ~Stop(j)
  <2>1. PICK next : next = [me EXCEPT !.pc = "recheck",
                              !.todo = {n \in DOMAIN me.plan.nodes : ~Unchanged(me.plan, graph, n)}]
    OBVIOUS
  <2>2. /\ NothingUnexpected(me.kind, me.plan, graph) /\ me.kind \in Storylines
        /\ job' = [job EXCEPT ![j] = next]
    BY <1>0, <1>4, <2>1 DEF PreflightStorylines
  <2>3. /\ next.kind = me.kind /\ next.command = me.command /\ next.quiet = me.quiet
        /\ next.plan = me.plan /\ next.pc = "recheck"
        /\ next.todo = {n \in DOMAIN me.plan.nodes : ~Unchanged(me.plan, graph, n)}
    BY <1>1, <2>1, IdleFields
  <2>4. ASSUME next.quiet, Converging(next)
        PROVE  PlanClosed(next) /\ TargetsPresent(next.plan, graph')
    <3>1. me.quiet /\ Converging(me)
      BY <2>3, <2>4 DEF Converging
    <3>2. PlanClosed(me)
      BY <1>1, <3>1 DEF JobConverges
    <3>3. DOMAIN me.plan.targets = {}
      BY <2>2, <3>2 DEF PlanClosed, Storylines
    <3> QED BY <2>3, <3>2, <3>3 DEF PlanClosed, TargetsPresent
  <2>5. JobConverges(next)'
    BY <1>1, <2>2, <2>3, <2>4 DEF JobConverges
  <2> QED BY <1>1, <2>2, <2>5, OwnStepConverges
<1> QED BY <1>2, <1>3, <1>4

\* What a run that claims to converge holds goes with its plan.
Claims(me) == me.quiet /\ Converging(me)

LEMMA ClaimsGoOn ==
  ASSUME NEW me, NEW next, next.kind = me.kind, next.command = me.command,
         next.quiet = me.quiet, next.plan = me.plan
  PROVE  /\ Claims(next) <=> Claims(me)
         /\ PlanClosed(next) <=> PlanClosed(me)
BY DEF Claims, Converging, PlanClosed

\* What a step of a run finds.
LEMMA AtWork ==
  ASSUME EntityInv, ConvergenceInv, NEW j \in DOMAIN job, job[j].pc \notin {"idle", "load"}
  PROVE  LET me == job[j]
         IN  /\ JobKept(me) /\ DOMAIN me = DOMAIN Idle /\ me.kind \in Kinds \ {"Company"}
             /\ PlanKept(me) /\ JobConverges(me) /\ IsGraph(graph)
             /\ Claims(me) => /\ PlanClosed(me)
                              /\ me.pc # "preflight" => TargetsPresent(me.plan, graph)
BY ConvergingKinds DEF ConvergenceInv, JobConverges, JobKept, Claims, EntityInv, GraphKept, IsGraph

LEMMA RecheckConverges ==
  ASSUME EntityInv, ConvergenceInv, NEW j \in DOMAIN job, Recheck(j)
  PROVE  ConvergenceInv'
<1>0. PICK me : me = job[j]
  OBVIOUS
<1>1. /\ me.pc = "recheck" /\ graph' = graph
      /\ DOMAIN me = DOMAIN Idle /\ PlanKept(me) /\ JobConverges(me)
      /\ Claims(me) => PlanClosed(me) /\ TargetsPresent(me.plan, graph)
  <2>1. me.pc = "recheck" /\ graph' = graph
    BY <1>0 DEF Recheck
  <2> QED BY <1>0, <2>1, AtWork
<1>2. CASE Stop(j)
  BY <1>1, <1>2, IdleConverges, OwnStepConverges DEF Stop
<1>3. CASE ~Stop(j)
  <2>1. PICK next : next = [me EXCEPT !.pc = IF me.todo = {} THEN "inspect" ELSE "save_nodes"]
    OBVIOUS
  <2>2. job' = [job EXCEPT ![j] = next]
    BY <1>0, <1>3, <2>1 DEF Recheck, Step
  <2>3. /\ next.kind = me.kind /\ next.command = me.command /\ next.quiet = me.quiet
        /\ next.plan = me.plan /\ next.todo = me.todo
        /\ next.pc = IF me.todo = {} THEN "inspect" ELSE "save_nodes"
    BY <1>1, <2>1, IdleFields
  <2>4. Claims(next) => PlanClosed(next) /\ Claims(me) /\ TargetsPresent(me.plan, graph)
    BY <1>1, <2>3, ClaimsGoOn
  <2>5. ASSUME Claims(next)
        PROVE  /\ DOMAIN me.plan.edges = {}
               /\ StaleEdges(me.kind, me.plan, graph) = {}
               /\ NodesIn(graph, OwnedLabels(me.kind)) \subseteq DOMAIN me.plan.nodes
               /\ \A n \in DOMAIN me.plan.nodes \ me.todo : Unchanged(me.plan, graph, n)
    <3>1. /\ me.kind \in Storylines /\ NothingUnexpected(me.kind, me.plan, graph)
          /\ \A n \in DOMAIN me.plan.nodes \ me.todo : Unchanged(me.plan, graph, n)
      BY <1>1, <2>4, <2>5 DEF JobConverges, Claims
    <3>2. OwnedNames(me.kind) = {} /\ OwnedLabels(me.kind) = {me.kind}
      BY <3>1 DEF Storylines, OwnedNames, OwnedLabels
    <3> QED BY <1>1, <3>1, <3>2 DEF PlanKept, StaleEdges, EdgesIn, NothingUnexpected
  <2>6. me.todo = {} /\ Claims(next) => NodesMatch(me.plan, graph)
    BY <2>5 DEF NodesMatch
  <2>7. JobConverges(next)'
    BY <1>1, <2>3, <2>4, <2>5, <2>6 DEF JobConverges, Claims
  <2> QED BY <1>1, <2>2, <2>7, OwnStepConverges
<1> QED BY <1>2, <1>3

LEMMA ReadStaleConverges ==
  ASSUME EntityInv, ConvergenceInv, NEW j \in DOMAIN job, ReadStale(j)
  PROVE  ConvergenceInv'
<1>0. PICK me : me = job[j]
  OBVIOUS
<1>1. /\ me.pc = "read_stale" /\ graph' = graph
      /\ DOMAIN me = DOMAIN Idle /\ PlanKept(me)
      /\ Claims(me) => PlanClosed(me) /\ TargetsPresent(me.plan, graph)
  <2>1. me.pc = "read_stale" /\ graph' = graph
    BY <1>0 DEF ReadStale
  <2> QED BY <1>0, <2>1, AtWork
<1>2. PICK next : next = [me EXCEPT !.pc = "sweep_edges",
                            !.stale = StaleEdges(me.kind, me.plan, graph),
                            !.todo = NodesIn(graph, OwnedLabels(me.kind)) \ DOMAIN me.plan.nodes]
  OBVIOUS
<1>3. job' = [job EXCEPT ![j] = next]
  BY <1>0, <1>2 DEF ReadStale
<1>4. /\ next.kind = me.kind /\ next.command = me.command /\ next.quiet = me.quiet
      /\ next.plan = me.plan /\ next.pc = "sweep_edges"
      /\ next.stale = StaleEdges(me.kind, me.plan, graph)
      /\ next.todo = NodesIn(graph, OwnedLabels(me.kind)) \ DOMAIN me.plan.nodes
  BY <1>1, <1>2, IdleFields
<1>5. Claims(next) => PlanClosed(next) /\ TargetsPresent(next.plan, graph')
  BY <1>1, <1>4, ClaimsGoOn
<1>6. JobConverges(next)'
  BY <1>1, <1>4, <1>5 DEF JobConverges, Claims
<1> QED BY <1>1, <1>3, <1>6, OwnStepConverges

LEMMA SweepEdgesConverges ==
  ASSUME EntityInv, ConvergenceInv, NEW j \in DOMAIN job, SweepEdges(j)
  PROVE  ConvergenceInv'
<1>0. PICK me : me = job[j]
  OBVIOUS
<1>1. /\ me.pc = "sweep_edges"
      /\ DOMAIN me = DOMAIN Idle /\ IsGraph(graph) /\ JobConverges(me)
      /\ Claims(me) => PlanClosed(me) /\ TargetsPresent(me.plan, graph)
  <2>1. me.pc = "sweep_edges"
    BY <1>0 DEF SweepEdges
  <2> QED BY <1>0, <2>1, AtWork
<1>2. PICK next : next = [me EXCEPT !.pc = "sweep_nodes", !.stale = {}]
  OBVIOUS
<1>3. Write(j, DeleteEdges(graph, me.stale), next)
  BY <1>0, <1>2 DEF SweepEdges
<1>4. /\ next.kind = me.kind /\ next.command = me.command /\ next.quiet = me.quiet
      /\ next.plan = me.plan /\ next.pc = "sweep_nodes" /\ next.todo = me.todo
  BY <1>1, <1>2, IdleFields
<1>5. graph' = DeleteEdges(graph, me.stale)
  BY <1>3, WriteEffect
<1>6. graph'.nodes = graph.nodes /\ DOMAIN graph'.edges = DOMAIN graph.edges \ me.stale
  BY <1>1, <1>5, DeleteEdgesEffect
<1>7. Claims(next) => Claims(me) /\ PlanClosed(next) /\ TargetsPresent(me.plan, graph')
  BY <1>1, <1>4, <1>6, ClaimsGoOn DEF TargetsPresent, HasNode
<1>8. ASSUME Claims(next)
      PROVE  /\ me.todo = NodesIn(graph', OwnedLabels(me.kind)) \ DOMAIN me.plan.nodes
             /\ StaleEdges(me.kind, me.plan, graph') = {}
  <2>1. /\ me.stale = StaleEdges(me.kind, me.plan, graph)
        /\ me.todo = NodesIn(graph, OwnedLabels(me.kind)) \ DOMAIN me.plan.nodes
    BY <1>1, <1>7, <1>8 DEF JobConverges, Claims
  <2> QED BY <1>6, <2>1 DEF NodesIn, StaleEdges, EdgesIn
<1>9. JobConverges(next)'
  BY <1>4, <1>7, <1>8 DEF JobConverges, Claims
<1> QED BY <1>3, <1>9, WriteConverges

LEMMA SweepNodesConverges ==
  ASSUME EntityInv, ConvergenceInv, NEW j \in DOMAIN job, SweepNodes(j)
  PROVE  ConvergenceInv'
<1>0. PICK me : me = job[j]
  OBVIOUS
<1>1. /\ me.pc = "sweep_nodes" /\ me.command = "replace"
      /\ DOMAIN me = DOMAIN Idle /\ IsGraph(graph) /\ JobConverges(me)
      /\ Claims(me) => PlanClosed(me) /\ TargetsPresent(me.plan, graph)
  <2>1. me.pc = "sweep_nodes"
    BY <1>0 DEF SweepNodes
  <2>2. JobKept(me)
    BY <1>0, <2>1, AtWork
  <2> QED BY <1>0, <2>1, <2>2, AtWork DEF JobKept
<1>2. Claims(me) =>
        /\ me.todo = NodesIn(graph, OwnedLabels(me.kind)) \ DOMAIN me.plan.nodes
        /\ StaleEdges(me.kind, me.plan, graph) = {}
  BY <1>1 DEF JobConverges, Claims
<1>3. CASE me.todo = {}
  <2>1. job' = [job EXCEPT ![j] = Saving(me)] /\ graph' = graph
    BY <1>0, <1>3 DEF SweepNodes
  <2>2. CASE Claims(me)
    <3>1. NodesIn(graph', OwnedLabels(me.kind)) \subseteq DOMAIN me.plan.nodes
      BY <1>2, <1>3, <2>1, <2>2
    <3>2. JobConverges(Saving(me))'
      BY <1>1, <1>2, <2>1, <2>2, <3>1, SavingConverges
    <3> QED BY <2>1, <3>2, OwnStepConverges
  <2>3. CASE ~Claims(me)
    <3>1. PICK next : next = Saving(me)
      OBVIOUS
    <3>2. next.kind = me.kind /\ next.command = me.command /\ next.quiet = me.quiet /\ next.plan = me.plan
      BY <1>1, <3>1, SavingFields
    <3>3. JobConverges(next)'
      BY <2>3, <3>2, ClaimsGoOn DEF JobConverges, Claims
    <3> QED BY <2>1, <3>1, <3>3, OwnStepConverges
  <2> QED BY <2>2, <2>3
<1>4. CASE me.todo # {}
  <2>1. PICK n \in me.todo : n = CHOOSE x \in me.todo : TRUE
    BY <1>4
  <2>2. PICK next : next = [me EXCEPT !.todo = @ \ {n}]
    OBVIOUS
  <2>3. Write(j, DetachDelete(graph, {n}), next)
    BY <1>0, <1>4, <2>1, <2>2 DEF SweepNodes
  <2>4. /\ next.kind = me.kind /\ next.command = me.command /\ next.quiet = me.quiet
        /\ next.plan = me.plan /\ next.pc = "sweep_nodes" /\ next.todo = me.todo \ {n}
    BY <1>1, <2>2, IdleFields
  <2>5. graph' = DetachDelete(graph, {n})
    BY <2>3, WriteEffect
  <2>6. /\ DOMAIN graph'.nodes = DOMAIN graph.nodes \ {n}
        /\ \A m \in DOMAIN graph'.nodes : graph'.nodes[m] = graph.nodes[m]
        /\ DOMAIN graph'.edges \subseteq DOMAIN graph.edges
    BY <2>5, DetachDeleteEffect
  <2>7. ASSUME Claims(next)
        PROVE  /\ PlanClosed(next) /\ TargetsPresent(me.plan, graph')
               /\ next.todo = NodesIn(graph', OwnedLabels(me.kind)) \ DOMAIN me.plan.nodes
               /\ StaleEdges(me.kind, me.plan, graph') = {}
    <3>1. Claims(me) /\ PlanClosed(me) /\ PlanClosed(next) /\ TargetsPresent(me.plan, graph)
      BY <1>1, <2>4, <2>7, ClaimsGoOn
    <3>2. graph.nodes[n].label \in OwnedLabels(me.kind)
      BY <1>2, <2>1, <3>1 DEF NodesIn
    <3>3. n \notin DOMAIN me.plan.targets
      BY <3>1, <3>2 DEF PlanClosed, TargetsPresent, HasNode
    <3>4. TargetsPresent(me.plan, graph')
      BY <2>6, <3>1, <3>3 DEF TargetsPresent, HasNode
    <3>5. next.todo = NodesIn(graph', OwnedLabels(me.kind)) \ DOMAIN me.plan.nodes
      BY <1>2, <2>4, <2>6, <3>1 DEF NodesIn
    <3>6. StaleEdges(me.kind, me.plan, graph') = {}
      BY <1>2, <2>6, <3>1 DEF StaleEdges, EdgesIn
    <3> QED BY <3>1, <3>4, <3>5, <3>6
  <2>8. JobConverges(next)'
    BY <2>4, <2>7 DEF JobConverges, Claims
  <2> QED BY <2>3, <2>8, WriteConverges
<1> QED BY <1>3, <1>4

LEMMA SaveNodeBatchConverges ==
  ASSUME EntityInv, ConvergenceInv, NEW j \in DOMAIN job, SaveNodeBatch(j)
  PROVE  ConvergenceInv'
<1>0. PICK me : me = job[j]
  OBVIOUS
<1>1. /\ me.pc = "save_nodes" /\ me.todo \subseteq DOMAIN me.plan.nodes
      /\ DOMAIN me = DOMAIN Idle /\ IsGraph(graph) /\ JobConverges(me) /\ PlanKept(me)
      /\ Claims(me) => PlanClosed(me) /\ TargetsPresent(me.plan, graph)
  <2>1. me.pc = "save_nodes"
    BY <1>0 DEF SaveNodeBatch
  <2>2. JobKept(me)
    BY <1>0, <2>1, AtWork
  <2> QED BY <1>0, <2>1, <2>2, AtWork DEF JobKept
<1>2. PICK batch : batch = IF me.kind \in Storylines THEN me.todo ELSE Chunk(me.todo, WriteBatch)
  OBVIOUS
<1>3. batch \subseteq me.todo
  BY <1>2, ChunkSubset
<1>4. PICK left : left = me.todo \ batch
  OBVIOUS
<1>5. PICK next : next = IF left # {} THEN [me EXCEPT !.todo = left] ELSE Saving(me)
  OBVIOUS
<1>6. Write(j, SaveNodes(graph, Restrict(me.plan.nodes, batch)), next)
  BY <1>0, <1>2, <1>4, <1>5 DEF SaveNodeBatch
<1>7. PICK f : f = Restrict(me.plan.nodes, batch)
  OBVIOUS
<1>8. DOMAIN f = batch /\ \A n \in batch : f[n] = me.plan.nodes[n]
  BY <1>7 DEF Restrict
<1>9. graph' = SaveNodes(graph, f)
  BY <1>6, <1>7, WriteEffect
<1>10. /\ graph'.edges = graph.edges
       /\ DOMAIN graph'.nodes = batch \cup DOMAIN graph.nodes
       /\ \A n \in batch : graph'.nodes[n] = me.plan.nodes[n]
       /\ \A n \in DOMAIN graph.nodes \ batch : graph'.nodes[n] = graph.nodes[n]
  BY <1>1, <1>8, <1>9, SaveNodesEffect
<1>11. next.kind = me.kind /\ next.command = me.command /\ next.quiet = me.quiet /\ next.plan = me.plan
  BY <1>1, <1>5, SavingFields, IdleFields
<1>12. CASE ~Claims(me)
  <2>1. JobConverges(next)'
    BY <1>11, <1>12, ClaimsGoOn DEF JobConverges, Claims
  <2> QED BY <1>6, <2>1, WriteConverges
<1>13. CASE Claims(me)
  <2>1. /\ PlanClosed(me) /\ TargetsPresent(me.plan, graph)
        /\ StaleEdges(me.kind, me.plan, graph) = {}
        /\ NodesIn(graph, OwnedLabels(me.kind)) \subseteq DOMAIN me.plan.nodes
        /\ \A n \in DOMAIN me.plan.nodes \ me.todo : Unchanged(me.plan, graph, n)
    BY <1>1, <1>13 DEF JobConverges, Claims
  <2>2. \A t \in DOMAIN me.plan.targets : t \notin batch
    BY <1>1, <1>3, <2>1 DEF PlanClosed
  <2>3. TargetsPresent(me.plan, graph')
    BY <1>10, <2>1, <2>2 DEF TargetsPresent, HasNode
  <2>4. StaleEdges(me.kind, me.plan, graph') = {}
    BY <1>10, <2>1 DEF StaleEdges, EdgesIn
  <2>5. NodesIn(graph', OwnedLabels(me.kind)) \subseteq DOMAIN me.plan.nodes
    BY <1>1, <1>3, <1>10, <2>1 DEF NodesIn
  <2>6. \A n \in DOMAIN me.plan.nodes \ left : Unchanged(me.plan, graph', n)
    BY <1>3, <1>4, <1>10, <2>1 DEF Unchanged
  <2>7. JobConverges(next)'
    <3>1. CASE left # {}
      <4>1. next.pc = "save_nodes" /\ next.todo = left
        BY <1>1, <1>5, <3>1, IdleFields
      <4>2. PlanClosed(next)
        BY <1>11, <2>1, ClaimsGoOn
      <4> QED BY <1>11, <2>3, <2>4, <2>5, <2>6, <4>1, <4>2 DEF JobConverges
    <3>2. CASE left = {}
      <4>1. NodesMatch(me.plan, graph')
        BY <2>6, <3>2 DEF NodesMatch
      <4> QED BY <1>1, <1>5, <2>1, <2>3, <2>4, <2>5, <3>2, <4>1, SavingConverges
    <3> QED BY <3>1, <3>2
  <2> QED BY <1>6, <2>7, WriteConverges
<1> QED BY <1>12, <1>13

LEMMA SaveEdgeBatchConverges ==
  ASSUME EntityInv, ConvergenceInv, NEW j \in DOMAIN job, SaveEdgeBatch(j)
  PROVE  ConvergenceInv'
<1>0. PICK me : me = job[j]
  OBVIOUS
<1>1. /\ me.pc = "save_edges" /\ me.todo \subseteq DOMAIN me.plan.edges
      /\ DOMAIN me = DOMAIN Idle /\ IsGraph(graph) /\ JobConverges(me)
      /\ Claims(me) => PlanClosed(me) /\ TargetsPresent(me.plan, graph)
  <2>1. me.pc = "save_edges"
    BY <1>0 DEF SaveEdgeBatch
  <2>2. JobKept(me)
    BY <1>0, <2>1, AtWork
  <2> QED BY <1>0, <2>1, <2>2, AtWork DEF JobKept
<1>2. PICK batch : batch = Chunk(me.todo, WriteBatch)
  OBVIOUS
<1>3. batch \subseteq me.todo
  BY <1>2, ChunkSubset
<1>4. PICK left : left = me.todo \ batch
  OBVIOUS
<1>5. PICK next : next = [me EXCEPT !.todo = left, !.pc = IF left = {} THEN "inspect" ELSE @]
  OBVIOUS
<1>6. Write(j, SaveEdges(graph, Restrict(me.plan.edges, batch)), next)
  BY <1>0, <1>2, <1>4, <1>5 DEF SaveEdgeBatch
<1>7. PICK f : f = Restrict(me.plan.edges, batch)
  OBVIOUS
<1>8. DOMAIN f = batch /\ \A k \in batch : f[k] = me.plan.edges[k]
  BY <1>7 DEF Restrict
<1>9. graph' = SaveEdges(graph, f)
  BY <1>6, <1>7, WriteEffect
<1>10. /\ next.kind = me.kind /\ next.command = me.command /\ next.quiet = me.quiet
       /\ next.plan = me.plan /\ next.todo = left
       /\ next.pc = IF left = {} THEN "inspect" ELSE "save_edges"
  BY <1>1, <1>5, IdleFields
<1>11. CASE ~Claims(me)
  <2>1. JobConverges(next)'
    BY <1>10, <1>11, ClaimsGoOn DEF JobConverges, Claims
  <2> QED BY <1>6, <2>1, WriteConverges
<1>12. CASE Claims(me)
  <2>1. /\ PlanClosed(me) /\ TargetsPresent(me.plan, graph)
        /\ StaleEdges(me.kind, me.plan, graph) = {}
        /\ NodesIn(graph, OwnedLabels(me.kind)) \subseteq DOMAIN me.plan.nodes
        /\ NodesMatch(me.plan, graph)
        /\ \A k \in DOMAIN me.plan.edges \ me.todo : EdgeKept(me.plan, graph, k)
    BY <1>1, <1>12 DEF JobConverges, Claims
  <2>2. \A k \in batch : {k.source, k.target} \subseteq DOMAIN graph.nodes
    BY <1>1, <1>3, <2>1 DEF PlanClosed, TargetsPresent, HasNode, NodesMatch, Unchanged
  <2>3. {k \in DOMAIN f : {k.source, k.target} \subseteq DOMAIN graph.nodes} = batch
    BY <1>8, <2>2
  <2>4. /\ graph'.nodes = graph.nodes
        /\ DOMAIN graph'.edges = batch \cup DOMAIN graph.edges
        /\ \A k \in batch : graph'.edges[k] = me.plan.edges[k]
        /\ \A k \in DOMAIN graph.edges \ batch : graph'.edges[k] = graph.edges[k]
    BY <1>1, <1>8, <1>9, <2>3, SaveEdgesEffect
  <2>5. TargetsPresent(me.plan, graph') /\ NodesMatch(me.plan, graph')
    BY <2>1, <2>4 DEF TargetsPresent, HasNode, NodesMatch, Unchanged
  <2>6. StaleEdges(me.kind, me.plan, graph') = {}
    BY <1>1, <1>3, <2>1, <2>4 DEF StaleEdges, EdgesIn
  <2>7. NodesIn(graph', OwnedLabels(me.kind)) \subseteq DOMAIN me.plan.nodes
    BY <2>1, <2>4 DEF NodesIn
  <2>8. \A k \in DOMAIN me.plan.edges \ left : EdgeKept(me.plan, graph', k)
    BY <1>3, <1>4, <2>1, <2>4 DEF EdgeKept
  <2>9. PlanClosed(next)
    BY <1>10, <2>1, ClaimsGoOn
  <2>10. JobConverges(next)'
    BY <1>10, <2>5, <2>6, <2>7, <2>8, <2>9 DEF JobConverges
  <2> QED BY <1>6, <2>10, WriteConverges
<1> QED BY <1>11, <1>12

LEMMA JobStepConverges ==
  ASSUME EntityInv, ConvergenceInv, NEW j \in DOMAIN job, JobStep(j)
  PROVE  ConvergenceInv'
<1>1. CASE Start(j)
  <2>1. PICK next : job' = [job EXCEPT ![j] = next] /\ next.pc = "load" /\ graph' = graph
    <3>1. PICK kind \in kinds : \E command \in Commands(kind) :
            job' = [job EXCEPT ![j] = [Idle EXCEPT !.pc = "load", !.kind = kind,
                                         !.command = command, !.since = version[kind]]]
      BY <1>1 DEF Start
    <3>2. PICK command :
            job' = [job EXCEPT ![j] = [Idle EXCEPT !.pc = "load", !.kind = kind,
                                         !.command = command, !.since = version[kind]]]
      BY <3>1
    <3> DEFINE x == [Idle EXCEPT !.pc = "load", !.kind = kind, !.command = command,
                                 !.since = version[kind]]
    <3>3. x.pc = "load"
      BY IdleFields
    <3> HIDE DEF x
    <3>4. job' = [job EXCEPT ![j] = x] /\ graph' = graph
      BY <1>1, <3>2 DEF Start, x
    <3> QED BY <3>3, <3>4
  <2>2. JobConverges(next)'
    BY <2>1 DEF JobConverges
  <2> QED BY <2>1, <2>2, OwnStepConverges
<1>2. CASE Inspect(j) \/ Die(j)
  BY <1>2, IdleConverges, OwnStepConverges DEF Inspect, Die, Stop
<1> QED BY <1>1, <1>2, LoadConverges, PreflightConverges, RecheckConverges, ReadStaleConverges,
           SweepEdgesConverges, SweepNodesConverges, SaveNodeBatchConverges, SaveEdgeBatchConverges
        DEF JobStep

-----------------------------------------------------------------------------
(* The runs of Company *)

\* A run of Company that another process writes beside is not quiet any more.
LEMMA OtherOpConverges ==
  ASSUME OpsConverge, NEW p \in DOMAIN op, DOMAIN op[p] = DOMAIN NoOp,
         \/ op'[p] = op[p] /\ (graph' = graph \/ op[p].pc = "idle")
         \/ op'[p] = [op[p] EXCEPT !.quiet = FALSE]
  PROVE  OpConverges(op[p])'
<1>1. CASE op'[p] = op[p] /\ graph' = graph
  BY <1>1 DEF OpsConverge, OpConverges
<1>2. CASE op'[p] = op[p] /\ op[p].pc = "idle"
  BY <1>2 DEF OpConverges, Planned
<1>3. CASE op'[p] = [op[p] EXCEPT !.quiet = FALSE]
  <2>1. op'[p].quiet = FALSE
    BY <1>3, NoOpFields
  <2> QED BY <2>1 DEF OpConverges
<1> QED BY <1>1, <1>2, <1>3

\* Only one run writes, and a step that writes nothing changes one run.
LEMMA OwnOpConverges ==
  ASSUME CompanyInv, OpsConverge, NEW o \in DOMAIN op, NEW next,
         op' = [op EXCEPT ![o] = next], OpConverges(next)',
         graph' = graph \/ op[o].command \in {"run", "replace"}
  PROVE  OpsConverge'
<1>1. ASSUME NEW p \in DOMAIN op \ {o}
      PROVE  OpConverges(op[p])'
  <2>1. op'[p] = op[p] /\ OpKept(op[p])
    BY DEF CompanyInv
  <2>2. CASE graph' = graph
    BY <2>1, <2>2, OtherOpConverges DEF OpKept
  <2>3. CASE op[o].command \in {"run", "replace"}
    <3>1. op[p].command \notin {"run", "replace"}
      BY <2>3 DEF CompanyInv, Writers
    <3> QED BY <2>1, <3>1 DEF OpConverges
  <2> QED BY <2>2, <2>3
<1>2. OpConverges(op[o])'
  BY DEF OpConverges
<1> QED BY <1>1, <1>2 DEF OpsConverge

LEMMA NoOpConverges == OpConverges(NoOp)'
<1>1. NoOp.command = ""
  BY DEF NoOp
<1> QED BY <1>1 DEF OpConverges

LEMMA OpStopConverges ==
  ASSUME CompanyInv, OpsConverge, NEW o \in DOMAIN op, OpStop(o), graph' = graph
  PROVE  OpsConverge'
BY NoOpConverges, OwnOpConverges DEF OpStop, OpStep

\* The steps before the comparison promise nothing yet.
LEMMA EarlyConverges ==
  ASSUME CompanyInv, OpsConverge, NEW o \in DOMAIN op,
         Begin(o) \/ Plan(o) \/ Infer(o) \/ Decide(o) \/ Assemble(o)
  PROVE  OpsConverge'
<1>1. graph' = graph
  BY DEF Begin, Plan, Infer, Decide, Assemble, KeepGraph, entityVars
<1>2. DOMAIN op[o] = DOMAIN NoOp
  BY DEF CompanyInv, OpKept
<1>3. \E next : /\ op' = [op EXCEPT ![o] = next]
                /\ next.pc \notin Planned \ {"diff"} \/ next.command # "replace"
  <2>1. CASE OpStop(o)
    <3>1. NoOp.command = ""
      BY DEF NoOp
    <3> QED BY <2>1, <3>1 DEF OpStop, OpStep
  <2>2. CASE Begin(o)
    <3>1. PICK dir \in DirsOf(kinds) : \E command \in {"plan", "infer", "run", "replace", "verify"} :
            OpStep(o, [NoOp EXCEPT !.pc = "check", !.command = command, !.dir = dir,
                                   !.snapshot = version["Company"]])
      BY <2>2 DEF Begin
    <3>2. PICK next : op' = [op EXCEPT ![o] = next] /\ next.pc = "check"
      <4>1. PICK command :
              OpStep(o, [NoOp EXCEPT !.pc = "check", !.command = command, !.dir = dir,
                                     !.snapshot = version["Company"]])
        BY <3>1
      <4> DEFINE x == [NoOp EXCEPT !.pc = "check", !.command = command, !.dir = dir,
                                   !.snapshot = version["Company"]]
      <4>2. x.pc = "check"
        BY NoOpFields
      <4>3. op' = [op EXCEPT ![o] = x]
        BY <4>1 DEF OpStep
      <4> HIDE DEF x
      <4> QED BY <4>2, <4>3
    <3> QED BY <3>2 DEF Planned
  <2>3. CASE Plan(o)
    BY <2>1, <2>3 DEF Plan
  <2>4. CASE Infer(o) /\ ~OpStop(o)
    <3> DEFINE x == [op[o] EXCEPT !.pc = "infer"]
    <3>1. op' = [op EXCEPT ![o] = x]
      BY <2>4 DEF Infer, OpStep
    <3>2. x.pc = "infer"
      BY <1>2, NoOpFields
    <3> HIDE DEF x
    <3> QED BY <3>1, <3>2 DEF Planned
  <2>5. CASE Decide(o) /\ ~OpStop(o)
    <3>1. op[o].pc = "infer" /\ (OpStep(o, NoOp) \/ OpStep(o, op[o]))
      BY <2>5 DEF Decide, OpStop
    <3> QED BY <2>5, <3>1 DEF OpStop, OpStep, Planned
  <2>6. CASE Assemble(o) /\ ~OpStop(o)
    <3>1. PICK plan : OpStep(o, [op[o] EXCEPT !.pc = IF op[o].command = "verify" THEN "verify" ELSE "diff",
                                              !.plan = plan])
      BY <2>6 DEF Assemble
    <3> DEFINE x == [op[o] EXCEPT !.pc = IF op[o].command = "verify" THEN "verify" ELSE "diff",
                                  !.plan = plan]
    <3>2. x.command = op[o].command /\ x.pc = IF op[o].command = "verify" THEN "verify" ELSE "diff"
      BY <1>2, NoOpFields
    <3>3. op' = [op EXCEPT ![o] = x]
      BY <3>1 DEF OpStep
    <3> HIDE DEF x
    <3> QED BY <3>2, <3>3 DEF Planned
  <2> QED BY <2>1, <2>2, <2>3, <2>4, <2>5, <2>6
<1>4. PICK next : /\ op' = [op EXCEPT ![o] = next]
                  /\ next.pc \notin Planned \ {"diff"} \/ next.command # "replace"
  BY <1>3
<1>5. OpConverges(next)'
  BY <1>4 DEF OpConverges
<1> QED BY <1>1, <1>4, <1>5, OwnOpConverges

\* A target carries a label of its own, so it is no company.
LEMMA TargetsApart ==
  ASSUME NEW plan, NamespaceClean(plan, graph), CompanyTargetsPresent(plan, graph),
         NEW k \in DOMAIN plan.edges
  PROVE  k.target \notin DOMAIN plan.nodes
BY DEF NamespaceClean, CompanyTargetsPresent, HasNode

LEMMA DiffConverges ==
  ASSUME CompanyInv, OpsConverge, NEW o \in DOMAIN op, Diff(o)
  PROVE  OpsConverge'
<1>0. PICK me : me = op[o]
  OBVIOUS
<1>1. DOMAIN me = DOMAIN NoOp /\ graph' = graph
  BY <1>0 DEF CompanyInv, OpKept, Diff, KeepGraph, entityVars
<1>2. CASE OpStop(o)
  BY <1>1, <1>2, OpStopConverges
<1>3. CASE ~OpStop(o)
  <2>1. PICK next : next =
          [me EXCEPT
            !.pc = "write",
            !.nodes = {n \in DOMAIN me.plan.nodes : ~Unchanged(me.plan, graph, n)},
            !.edges = {k \in DOMAIN me.plan.edges :
                         k \notin EdgesIn(graph, CompanyNames) \/ graph.edges[k] # me.plan.edges[k]},
            !.staleNodes = NodesIn(graph, {"Company"}) \ DOMAIN me.plan.nodes,
            !.staleEdges = StaleRelations(me.plan, graph)]
    OBVIOUS
  <2>2. /\ NamespaceClean(me.plan, graph) /\ CompanyTargetsPresent(me.plan, graph)
        /\ op' = [op EXCEPT ![o] = next]
    BY <1>0, <1>3, <2>1 DEF Diff, OpStep
  <2>3. /\ next.pc = "write" /\ next.plan = me.plan
        /\ next.nodes = {n \in DOMAIN me.plan.nodes : ~Unchanged(me.plan, graph, n)}
        /\ next.edges = {k \in DOMAIN me.plan.edges :
                           k \notin EdgesIn(graph, CompanyNames) \/ graph.edges[k] # me.plan.edges[k]}
        /\ next.staleNodes = NodesIn(graph, {"Company"}) \ DOMAIN me.plan.nodes
        /\ next.staleEdges = StaleRelations(me.plan, graph)
    BY <1>1, <2>1, NoOpFields
  <2>4. \A k \in DOMAIN me.plan.edges : k.target \notin DOMAIN me.plan.nodes
    BY <2>2, TargetsApart
  <2>5. \A k \in DOMAIN me.plan.edges \ next.edges : EdgeKept(me.plan, graph, k)
    BY <2>3 DEF EdgeKept, EdgesIn
  <2>6. \A n \in next.staleNodes : graph.nodes[n].label = "Company"
    BY <2>3 DEF NodesIn
  <2>7. OpConverges(next)'
    BY <1>1, <2>2, <2>3, <2>4, <2>5, <2>6 DEF OpConverges
  <2> QED BY <1>1, <2>2, <2>7, OwnOpConverges
<1> QED BY <1>2, <1>3

\* What a writing run of Company is.
LEMMA CompanyAtWork ==
  ASSUME EntityInv, CompanyInv, OpsConverge, NEW o \in DOMAIN op, op[o].pc \in Planned \ {"verify"}
  PROVE  LET me == op[o]
         IN  /\ DOMAIN me = DOMAIN NoOp /\ me.command \in {"run", "replace"}
             /\ PlanSound(me) /\ OpConverges(me) /\ IsGraph(graph) /\ OpKept(me)
BY DEF CompanyInv, OpsConverge, OpKept, EntityInv, GraphKept, IsGraph

LEMMA WriteNodesConverges ==
  ASSUME EntityInv, CompanyInv, OpsConverge, NEW o \in DOMAIN op, WriteNodes(o)
  PROVE  OpsConverge'
<1>0. PICK me : me = op[o]
  OBVIOUS
<1>1. /\ me.pc = "write" /\ me.nodes \subseteq DOMAIN me.plan.nodes
      /\ DOMAIN me = DOMAIN NoOp /\ me.command \in {"run", "replace"}
      /\ PlanSound(me) /\ OpConverges(me) /\ IsGraph(graph)
  BY <1>0, CompanyAtWork DEF WriteNodes, OpKept, Planned
<1>2. PICK chunk : chunk = Chunk(me.nodes, WriteBatch)
  OBVIOUS
<1>3. chunk \subseteq me.nodes
  BY <1>2, ChunkSubset
<1>4. PICK next : next = [me EXCEPT !.nodes = @ \ chunk]
  OBVIOUS
<1>5. CompanyWrite(o, SaveNodes(graph, Restrict(me.plan.nodes, chunk)), next)
  BY <1>0, <1>2, <1>4 DEF WriteNodes
<1>6. PICK f : f = Restrict(me.plan.nodes, chunk)
  OBVIOUS
<1>7. DOMAIN f = chunk /\ \A n \in chunk : f[n] = me.plan.nodes[n]
  BY <1>6 DEF Restrict
<1>8. graph' = SaveNodes(graph, f) /\ op' = [op EXCEPT ![o] = next]
  BY <1>5, <1>6, CompanyWriteEffect
<1>9. /\ graph'.edges = graph.edges
      /\ DOMAIN graph'.nodes = chunk \cup DOMAIN graph.nodes
      /\ \A n \in chunk : graph'.nodes[n] = me.plan.nodes[n]
      /\ \A n \in DOMAIN graph.nodes \ chunk : graph'.nodes[n] = graph.nodes[n]
  BY <1>1, <1>7, <1>8, SaveNodesEffect
<1>10. /\ next.pc = "write" /\ next.command = me.command /\ next.quiet = me.quiet
       /\ next.plan = me.plan /\ next.nodes = me.nodes \ chunk /\ next.edges = me.edges
       /\ next.staleNodes = me.staleNodes /\ next.staleEdges = me.staleEdges
  BY <1>1, <1>4, NoOpFields
<1>11. OpConverges(next)'
  <2> SUFFICES ASSUME me.quiet, me.command = "replace"
               PROVE  OpConverges(next)'
    BY <1>10 DEF OpConverges
  <2>1. /\ CompanyTargetsPresent(me.plan, graph)
        /\ \A k \in DOMAIN me.plan.edges : k.target \notin DOMAIN me.plan.nodes
        /\ me.staleNodes \cap DOMAIN me.plan.nodes = {}
        /\ \A n \in me.staleNodes \cap DOMAIN graph.nodes : graph.nodes[n].label = "Company"
        /\ NodesIn(graph, {"Company"}) \ DOMAIN me.plan.nodes \subseteq me.staleNodes
        /\ StaleRelations(me.plan, graph) \subseteq me.staleEdges
        /\ \A n \in DOMAIN me.plan.nodes \ me.nodes : Unchanged(me.plan, graph, n)
        /\ \A k \in DOMAIN me.plan.edges \ me.edges : EdgeKept(me.plan, graph, k)
    BY <1>1 DEF OpConverges, Planned
  <2>2. chunk \subseteq DOMAIN me.plan.nodes
    BY <1>1, <1>3
  <2>3. CompanyTargetsPresent(me.plan, graph')
    BY <1>9, <2>1, <2>2 DEF CompanyTargetsPresent, HasNode
  <2>4. \A n \in me.staleNodes \cap DOMAIN graph'.nodes : graph'.nodes[n].label = "Company"
    BY <1>9, <2>1, <2>2
  <2>5. NodesIn(graph', {"Company"}) \ DOMAIN me.plan.nodes \subseteq me.staleNodes
    BY <1>9, <2>1, <2>2 DEF NodesIn
  <2>6. /\ StaleRelations(me.plan, graph') \subseteq me.staleEdges
        /\ \A k \in DOMAIN me.plan.edges \ me.edges : EdgeKept(me.plan, graph', k)
    BY <1>9, <2>1 DEF StaleRelations, EdgesIn, EdgeKept
  <2>7. \A n \in DOMAIN me.plan.nodes \ next.nodes : Unchanged(me.plan, graph', n)
    BY <1>9, <1>10, <2>1 DEF Unchanged
  <2> QED BY <1>10, <2>1, <2>3, <2>4, <2>5, <2>6, <2>7 DEF OpConverges
<1> QED BY <1>0, <1>1, <1>8, <1>11, OwnOpConverges

LEMMA WriteEdgesConverges ==
  ASSUME EntityInv, CompanyInv, OpsConverge, NEW o \in DOMAIN op, WriteEdges(o)
  PROVE  OpsConverge'
<1>0. PICK me : me = op[o]
  OBVIOUS
<1>1. /\ me.pc = "write" /\ me.nodes = {} /\ me.edges \subseteq DOMAIN me.plan.edges
      /\ DOMAIN me = DOMAIN NoOp /\ me.command \in {"run", "replace"}
      /\ PlanSound(me) /\ OpConverges(me) /\ IsGraph(graph)
  BY <1>0, CompanyAtWork DEF WriteEdges, OpKept, Planned
<1>2. PICK chunk : chunk = Chunk(me.edges, WriteBatch)
  OBVIOUS
<1>3. chunk \subseteq me.edges
  BY <1>2, ChunkSubset
<1>4. PICK next : next = [me EXCEPT !.edges = @ \ chunk]
  OBVIOUS
<1>5. CompanyWrite(o, SaveEdges(graph, Restrict(me.plan.edges, chunk)), next)
  BY <1>0, <1>2, <1>4 DEF WriteEdges
<1>6. PICK f : f = Restrict(me.plan.edges, chunk)
  OBVIOUS
<1>7. DOMAIN f = chunk /\ \A k \in chunk : f[k] = me.plan.edges[k]
  BY <1>6 DEF Restrict
<1>8. graph' = SaveEdges(graph, f) /\ op' = [op EXCEPT ![o] = next]
  BY <1>5, <1>6, CompanyWriteEffect
<1>9. /\ next.pc = "write" /\ next.command = me.command /\ next.quiet = me.quiet
      /\ next.plan = me.plan /\ next.nodes = {} /\ next.edges = me.edges \ chunk
      /\ next.staleNodes = me.staleNodes /\ next.staleEdges = me.staleEdges
  BY <1>1, <1>4, NoOpFields
<1>10. OpConverges(next)'
  <2> SUFFICES ASSUME me.quiet, me.command = "replace"
               PROVE  OpConverges(next)'
    BY <1>9 DEF OpConverges
  <2>1. /\ CompanyTargetsPresent(me.plan, graph)
        /\ \A k \in DOMAIN me.plan.edges : k.target \notin DOMAIN me.plan.nodes
        /\ me.staleNodes \cap DOMAIN me.plan.nodes = {}
        /\ \A n \in me.staleNodes \cap DOMAIN graph.nodes : graph.nodes[n].label = "Company"
        /\ NodesIn(graph, {"Company"}) \ DOMAIN me.plan.nodes \subseteq me.staleNodes
        /\ StaleRelations(me.plan, graph) \subseteq me.staleEdges
        /\ \A n \in DOMAIN me.plan.nodes : Unchanged(me.plan, graph, n)
        /\ \A k \in DOMAIN me.plan.edges \ me.edges : EdgeKept(me.plan, graph, k)
    BY <1>1 DEF OpConverges, Planned
  <2>2. \A k \in chunk : {k.source, k.target} \subseteq DOMAIN graph.nodes
    BY <1>1, <1>3, <2>1 DEF PlanSound, CompanyTargetsPresent, HasNode, Unchanged
  <2>3. {k \in DOMAIN f : {k.source, k.target} \subseteq DOMAIN graph.nodes} = chunk
    BY <1>7, <2>2
  <2>4. /\ graph'.nodes = graph.nodes
        /\ DOMAIN graph'.edges = chunk \cup DOMAIN graph.edges
        /\ \A k \in chunk : graph'.edges[k] = me.plan.edges[k]
        /\ \A k \in DOMAIN graph.edges \ chunk : graph'.edges[k] = graph.edges[k]
    BY <1>1, <1>7, <1>8, <2>3, SaveEdgesEffect
  <2>5. /\ CompanyTargetsPresent(me.plan, graph')
        /\ \A n \in me.staleNodes \cap DOMAIN graph'.nodes : graph'.nodes[n].label = "Company"
        /\ NodesIn(graph', {"Company"}) \ DOMAIN me.plan.nodes \subseteq me.staleNodes
        /\ \A n \in DOMAIN me.plan.nodes : Unchanged(me.plan, graph', n)
    BY <2>1, <2>4 DEF CompanyTargetsPresent, HasNode, NodesIn, Unchanged
  <2>6. StaleRelations(me.plan, graph') \subseteq me.staleEdges
    BY <1>1, <1>3, <2>1, <2>4 DEF StaleRelations, EdgesIn
  <2>7. \A k \in DOMAIN me.plan.edges \ next.edges : EdgeKept(me.plan, graph', k)
    BY <1>9, <2>1, <2>4 DEF EdgeKept
  <2> QED BY <1>9, <2>1, <2>5, <2>6, <2>7 DEF OpConverges
<1> QED BY <1>0, <1>1, <1>8, <1>10, OwnOpConverges

\* Phases that write nothing and go on.
LEMMA PhaseConverges ==
  ASSUME EntityInv, CompanyInv, OpsConverge, NEW o \in DOMAIN op, Written(o) \/ Finish(o)
  PROVE  OpsConverge'
<1>0. PICK me : me = op[o]
  OBVIOUS
<1>1. /\ DOMAIN me = DOMAIN NoOp /\ OpConverges(me) /\ graph' = graph
      /\ \/ me.pc = "write" /\ me.nodes = {} /\ me.edges = {} /\ Written(o)
         \/ me.pc = "finish" /\ Finish(o)
  BY <1>0, CompanyAtWork DEF Written, Finish, Planned, KeepGraph, entityVars
<1>2. CASE OpStop(o)
  BY <1>1, <1>2, OpStopConverges
<1>3. CASE ~OpStop(o)
  <2>1. PICK pc : /\ op' = [op EXCEPT ![o] = [me EXCEPT !.pc = pc]]
                  /\ \/ me.command = "run" /\ pc = "finish"
                     \/ me.pc = "write" /\ me.nodes = {} /\ me.edges = {} /\ pc = "sweep_edges"
                     \/ me.pc = "finish" /\ pc = "verify"
    BY <1>0, <1>1, <1>3 DEF Written, Finish, OpStep
  <2>2. PICK next : next = [me EXCEPT !.pc = pc]
    OBVIOUS
  <2>3. /\ next.pc = pc /\ next.command = me.command /\ next.quiet = me.quiet
        /\ next.plan = me.plan /\ next.staleNodes = me.staleNodes /\ next.staleEdges = me.staleEdges
    BY <1>1, <2>2, NoOpFields
  <2>4. OpConverges(next)'
    BY <1>1, <2>1, <2>3 DEF OpConverges, Planned
  <2> QED BY <1>1, <2>1, <2>2, <2>4, OwnOpConverges
<1> QED BY <1>2, <1>3

LEMMA CompanySweepEdgesConverges ==
  ASSUME EntityInv, CompanyInv, OpsConverge, NEW o \in DOMAIN op, CompanySweepEdges(o)
  PROVE  OpsConverge'
<1>0. PICK me : me = op[o]
  OBVIOUS
<1>1. /\ me.pc = "sweep_edges" /\ DOMAIN me = DOMAIN NoOp /\ me.command \in {"run", "replace"}
      /\ OpConverges(me) /\ IsGraph(graph)
      /\ \A k \in me.staleEdges : k \notin DOMAIN me.plan.edges
  BY <1>0, CompanyAtWork DEF CompanySweepEdges, OpKept, Planned
<1>2. PICK next : next = [me EXCEPT !.pc = "sweep_nodes", !.staleEdges = {}]
  OBVIOUS
<1>3. CompanyWrite(o, DeleteEdges(graph, me.staleEdges), next)
  BY <1>0, <1>2 DEF CompanySweepEdges
<1>4. graph' = DeleteEdges(graph, me.staleEdges) /\ op' = [op EXCEPT ![o] = next]
  BY <1>3, CompanyWriteEffect
<1>5. /\ graph'.nodes = graph.nodes /\ DOMAIN graph'.edges = DOMAIN graph.edges \ me.staleEdges
      /\ \A k \in DOMAIN graph'.edges : graph'.edges[k] = graph.edges[k]
  BY <1>1, <1>4, DeleteEdgesEffect
<1>6. /\ next.pc = "sweep_nodes" /\ next.command = me.command /\ next.quiet = me.quiet
      /\ next.plan = me.plan /\ next.staleNodes = me.staleNodes
  BY <1>1, <1>2, NoOpFields
<1>7. OpConverges(next)'
  <2> SUFFICES ASSUME me.quiet, me.command = "replace"
               PROVE  OpConverges(next)'
    BY <1>6 DEF OpConverges
  <2>1. /\ CompanyTargetsPresent(me.plan, graph)
        /\ \A k \in DOMAIN me.plan.edges : k.target \notin DOMAIN me.plan.nodes
        /\ me.staleNodes \cap DOMAIN me.plan.nodes = {}
        /\ \A n \in me.staleNodes \cap DOMAIN graph.nodes : graph.nodes[n].label = "Company"
        /\ NodesIn(graph, {"Company"}) \ DOMAIN me.plan.nodes \subseteq me.staleNodes
        /\ StaleRelations(me.plan, graph) \subseteq me.staleEdges
        /\ \A n \in DOMAIN me.plan.nodes : Unchanged(me.plan, graph, n)
        /\ \A k \in DOMAIN me.plan.edges : EdgeKept(me.plan, graph, k)
    BY <1>1 DEF OpConverges, Planned
  <2>2. /\ CompanyTargetsPresent(me.plan, graph')
        /\ \A n \in me.staleNodes \cap DOMAIN graph'.nodes : graph'.nodes[n].label = "Company"
        /\ NodesIn(graph', {"Company"}) \ DOMAIN me.plan.nodes \subseteq me.staleNodes
        /\ \A n \in DOMAIN me.plan.nodes : Unchanged(me.plan, graph', n)
    BY <1>5, <2>1 DEF CompanyTargetsPresent, HasNode, NodesIn, Unchanged
  <2>3. StaleRelations(me.plan, graph') = {}
    BY <1>5, <2>1 DEF StaleRelations, EdgesIn
  <2>4. \A k \in DOMAIN me.plan.edges : EdgeKept(me.plan, graph', k)
    BY <1>1, <1>5, <2>1 DEF EdgeKept
  <2> QED BY <1>6, <2>1, <2>2, <2>3, <2>4 DEF OpConverges
<1> QED BY <1>0, <1>1, <1>4, <1>7, OwnOpConverges

LEMMA CompanySweepNodesConverges ==
  ASSUME EntityInv, CompanyInv, OpsConverge, NEW o \in DOMAIN op, CompanySweepNodes(o)
  PROVE  OpsConverge'
<1>0. PICK me : me = op[o]
  OBVIOUS
<1>1. /\ me.pc = "sweep_nodes" /\ DOMAIN me = DOMAIN NoOp /\ me.command \in {"run", "replace"}
      /\ OpConverges(me)
  BY <1>0, CompanyAtWork DEF CompanySweepNodes, Planned
<1>2. CASE Touching(graph, me.staleNodes) # {}
  BY <1>0, <1>2, OpStopConverges DEF CompanySweepNodes, KeepGraph, entityVars
<1>3. CASE Touching(graph, me.staleNodes) = {}
  <2>1. PICK next : next = [me EXCEPT !.pc = "finish", !.staleNodes = {}]
    OBVIOUS
  <2>2. CompanyWrite(o, DetachDelete(graph, me.staleNodes), next)
    BY <1>0, <1>3, <2>1 DEF CompanySweepNodes
  <2>3. graph' = DetachDelete(graph, me.staleNodes) /\ op' = [op EXCEPT ![o] = next]
    BY <2>2, CompanyWriteEffect
  <2>4. /\ DOMAIN graph'.nodes = DOMAIN graph.nodes \ me.staleNodes
        /\ \A n \in DOMAIN graph'.nodes : graph'.nodes[n] = graph.nodes[n]
        /\ DOMAIN graph'.edges = DOMAIN graph.edges
        /\ \A k \in DOMAIN graph'.edges : graph'.edges[k] = graph.edges[k]
    <3>1. /\ DOMAIN graph'.nodes = DOMAIN graph.nodes \ me.staleNodes
          /\ \A n \in DOMAIN graph'.nodes : graph'.nodes[n] = graph.nodes[n]
          /\ DOMAIN graph'.edges = DOMAIN graph.edges \ Touching(graph, me.staleNodes)
          /\ \A k \in DOMAIN graph'.edges : graph'.edges[k] = graph.edges[k]
      BY <2>3, DetachDeleteEffect
    <3> QED BY <1>3, <3>1
  <2>5. /\ next.pc = "finish" /\ next.command = me.command /\ next.quiet = me.quiet
        /\ next.plan = me.plan /\ next.staleNodes = {}
    BY <1>1, <2>1, NoOpFields
  <2>6. OpConverges(next)'
    <3> SUFFICES ASSUME me.quiet, me.command = "replace"
                 PROVE  OpConverges(next)'
      BY <2>5 DEF OpConverges
    <3>1. /\ CompanyTargetsPresent(me.plan, graph)
          /\ \A k \in DOMAIN me.plan.edges : k.target \notin DOMAIN me.plan.nodes
          /\ me.staleNodes \cap DOMAIN me.plan.nodes = {}
          /\ \A n \in me.staleNodes \cap DOMAIN graph.nodes : graph.nodes[n].label = "Company"
          /\ NodesIn(graph, {"Company"}) \ DOMAIN me.plan.nodes \subseteq me.staleNodes
          /\ StaleRelations(me.plan, graph) \subseteq {}
          /\ \A n \in DOMAIN me.plan.nodes : Unchanged(me.plan, graph, n)
          /\ \A k \in DOMAIN me.plan.edges : EdgeKept(me.plan, graph, k)
      BY <1>1 DEF OpConverges, Planned
    <3>2. \A k \in DOMAIN me.plan.edges : k.target \notin me.staleNodes
      BY <3>1 DEF CompanyTargetsPresent, HasNode
    <3>3. CompanyTargetsPresent(me.plan, graph')
      BY <2>4, <3>1, <3>2 DEF CompanyTargetsPresent, HasNode
    <3>4. /\ NodesIn(graph', {"Company"}) \ DOMAIN me.plan.nodes \subseteq {}
          /\ \A n \in DOMAIN me.plan.nodes : Unchanged(me.plan, graph', n)
      BY <2>4, <3>1 DEF NodesIn, Unchanged
    <3>5. /\ StaleRelations(me.plan, graph') \subseteq {}
          /\ \A k \in DOMAIN me.plan.edges : EdgeKept(me.plan, graph', k)
      BY <2>4, <3>1 DEF StaleRelations, EdgesIn, EdgeKept
    <3> QED BY <2>5, <3>1, <3>3, <3>4, <3>5 DEF OpConverges
  <2> QED BY <1>0, <1>1, <2>3, <2>6, OwnOpConverges
<1> QED BY <1>2, <1>3

LEMMA CompanyStepConverges ==
  ASSUME EntityInv, CompanyInv, OpsConverge, NEW o \in DOMAIN op, CompanyStep(o)
  PROVE  OpsConverge'
<1>1. CASE Verify(o) \/ CompanyDie(o)
  BY <1>1, OpStopConverges DEF Verify, CompanyDie, KeepGraph, entityVars
<1> QED BY <1>1, EarlyConverges, DiffConverges, WriteNodesConverges, WriteEdgesConverges, PhaseConverges,
           CompanySweepEdgesConverges, CompanySweepNodesConverges DEF CompanyStep

-----------------------------------------------------------------------------
(* Both together *)

ConvergedInv == KeptInv /\ ConvergenceInv /\ OpsConverge

\* A write of one side disturbs the runs of the other.
LEMMA EntitiesConverge ==
  ASSUME EntityInv, ConvergenceInv, OpsConverge, CompanyInv, EntityStep
  PROVE  ConvergenceInv' /\ OpsConverge'
<1>1. ConvergenceInv'
  <2>1. CASE \E kind \in kinds : Publish(kind)
    <3>1. graph' = graph /\ job' = job
      BY <2>1 DEF Publish
    <3>2. \A i \in DOMAIN job : JobConverges(job[i])'
      BY <3>1, OtherJobConverges DEF EntityInv, JobKept
    <3> QED BY <3>1, <3>2 DEF ConvergenceInv
  <2> QED BY <2>1, JobStepConverges DEF EntityStep, EntityNext
<1>2. \A p \in DOMAIN op : OpConverges(op[p])'
  <2> SUFFICES ASSUME NEW p \in DOMAIN op PROVE OpConverges(op[p])'
    OBVIOUS
  <2>1. \/ op'[p] = op[p] /\ (graph' = graph \/ op[p].pc = "idle")
        \/ op'[p] = [op[p] EXCEPT !.quiet = FALSE]
    BY DEF EntityStep
  <2> QED BY <2>1, OtherOpConverges DEF CompanyInv, OpKept
<1>3. DOMAIN op' = DOMAIN op
  BY DEF EntityStep
<1> QED BY <1>1, <1>2, <1>3 DEF OpsConverge

LEMMA CompanyDisturbs ==
  ASSUME EntityInv, ConvergenceInv, NEW o \in DOMAIN op, CompanyStep(o)
  PROVE  ConvergenceInv'
<1>1. /\ DOMAIN job' = DOMAIN job
      /\ \A i \in DOMAIN job : \/ job'[i] = job[i] /\ (graph' = graph \/ job[i].pc = "idle")
                               \/ job'[i] = [job[i] EXCEPT !.quiet = FALSE]
  <2>1. CASE graph' = graph /\ job' = job
    BY <2>1
  <2>2. CASE \E g, next : CompanyWrite(o, g, next)
    BY <2>2 DEF CompanyWrite
  <2> QED BY <2>1, <2>2
          DEF CompanyStep, Begin, Plan, Infer, Decide, Assemble, Diff, WriteNodes, WriteEdges, Written,
              CompanySweepEdges, CompanySweepNodes, Finish, Verify, CompanyDie, KeepGraph, entityVars
<1>2. \A i \in DOMAIN job : JobConverges(job[i])'
  BY <1>1, OtherJobConverges DEF EntityInv, JobKept
<1> QED BY <1>1, <1>2 DEF ConvergenceInv

LEMMA ConvergedInit == Init => ConvergedInv
<1> SUFFICES ASSUME Init PROVE ConvergedInv
  OBVIOUS
<1>1. KeptInv
  BY KeptInit
<1>2. \A j \in DOMAIN job : job[j].pc = "idle"
  <2>1. job = [j \in JobsOf(kinds) |-> Idle]
    BY DEF Init, EntityInit
  <2>2. Idle.pc = "idle"
    BY DEF Idle
  <2> QED BY <2>1, <2>2
<1>3. \A o \in DOMAIN op : op[o].command = ""
  BY DEF Init, NoOp
<1>4. ConvergenceInv
  BY <1>2 DEF ConvergenceInv, JobConverges
<1>5. OpsConverge
  BY <1>3 DEF OpsConverge, OpConverges
<1> QED BY <1>1, <1>4, <1>5 DEF ConvergedInv

LEMMA ConvergedNext == ConvergedInv /\ [Next]_vars => ConvergedInv'
<1> SUFFICES ASSUME ConvergedInv, [Next]_vars PROVE ConvergedInv'
  OBVIOUS
<1>1. KeptInv'
  BY KeptNext DEF ConvergedInv
<1>2. EntityInv /\ CompanyInv /\ ConvergenceInv /\ OpsConverge
  BY DEF ConvergedInv, KeptInv
<1>3. ConvergenceInv' /\ OpsConverge'
  <2>1. CASE EntityStep
    BY <1>2, <2>1, EntitiesConverge
  <2>2. CASE \E o \in DOMAIN op : CompanyStep(o)
    BY <1>2, <2>2, CompanyDisturbs, CompanyStepConverges
  <2>3. CASE UNCHANGED vars
    <3>1. graph' = graph /\ job' = job /\ op' = op
      BY <2>3 DEF vars, entityVars, companyVars
    <3>2. \A i \in DOMAIN job : JobConverges(job[i])'
      BY <1>2, <3>1, OtherJobConverges DEF EntityInv, JobKept
    <3>3. \A p \in DOMAIN op : OpConverges(op[p])'
      BY <1>2, <3>1, OtherOpConverges DEF CompanyInv, OpKept
    <3> QED BY <3>1, <3>2, <3>3 DEF ConvergenceInv, OpsConverge
  <2> QED BY <2>1, <2>2, <2>3 DEF Next
<1> QED BY <1>1, <1>3 DEF ConvergedInv

\* A quiet run at its inspection finds its scope, its contents and its ends.
LEMMA InspectionVerifies ==
  ASSUME EntityInv, ConvergenceInv, NEW j \in DOMAIN job,
         job[j].pc = "inspect", job[j].quiet, Converging(job[j]),
         job[j].kind \in {"Industry", "Concept"} => BasePreserved(graph),
         job[j].kind = "Concept" => ConceptsApart(graph)
  PROVE  Verified(job[j].kind, job[j].plan, graph)
<1>0. PICK me : me = job[j]
  OBVIOUS
<1>1. /\ me.kind \in Kinds \ {"Company"} /\ PlanKept(me) /\ PlanClosed(me)
      /\ TargetsPresent(me.plan, graph) /\ JobConverges(me)
      /\ \/ me.command = "replace" /\ me.kind \in Sweeping
         \/ me.command = "run" /\ me.kind \in Storylines
  BY <1>0, AtWork, ConvergingKinds DEF Claims
<1>2. /\ StaleEdges(me.kind, me.plan, graph) = {}
      /\ NodesIn(graph, OwnedLabels(me.kind)) \subseteq DOMAIN me.plan.nodes
      /\ NodesMatch(me.plan, graph)
      /\ \A k \in DOMAIN me.plan.edges : EdgeKept(me.plan, graph, k)
  BY <1>0, <1>1 DEF JobConverges
<1>3. InScope(me.kind, me.plan, graph)
  <2>1. \A n \in DOMAIN me.plan.nodes : n \in NodesIn(graph, OwnedLabels(me.kind))
    BY <1>1, <1>2 DEF NodesMatch, Unchanged, NodesIn, PlanKept
  <2>2. \A k \in DOMAIN me.plan.edges : k \in EdgesIn(graph, OwnedNames(me.kind))
    BY <1>1, <1>2 DEF EdgeKept, EdgesIn, PlanKept
  <2> QED BY <1>2, <2>1, <2>2 DEF InScope, StaleEdges
<1>4. EdgesMatch(me.plan, graph)
  BY <1>2 DEF EdgesMatch, EdgeKept
<1>5. ASSUME me.kind = "ChainNode"
      PROVE  EndsTyped(me.plan, graph)
  <2>1. OwnedLabels(me.kind) = {"ChainNode"}
    BY <1>5 DEF OwnedLabels
  <2>2. \A n \in DOMAIN me.plan.nodes : HasNode(graph, n, "ChainNode")
    BY <1>1, <1>2, <2>1 DEF PlanKept, NodesMatch, Unchanged, HasNode
  <2>3. ASSUME NEW k \in DOMAIN me.plan.edges
        PROVE  HasNode(graph, k.source, "ChainNode") /\ HasNode(graph, k.target, TargetLabel(k.name))
    <3>1. k.source \in DOMAIN me.plan.nodes
      BY <1>1 DEF PlanClosed
    <3>2. CASE k.target \in DOMAIN me.plan.nodes
      BY <1>1, <1>5, <2>2, <3>1, <3>2, TargetLabels DEF PlanClosed
    <3>3. CASE k.target \notin DOMAIN me.plan.nodes
      BY <1>1, <1>5, <2>2, <3>1, <3>3 DEF PlanClosed, TargetsPresent
    <3> QED BY <3>2, <3>3
  <2> QED BY <2>3 DEF EndsTyped
<1>6. Verified(me.kind, me.plan, graph)
  <2>1. CASE me.kind \in {"CountryRegion", "Industry", "Concept"}
    BY <1>0, <1>3, <2>1 DEF Verified, Storylines
  <2>2. CASE me.kind \in {"IndustryChain", "ChainNode"}
    BY <1>1, <1>2, <1>3, <1>4, <1>5, <2>2 DEF Verified, Storylines
  <2>3. CASE me.kind \in Storylines
    BY <1>2, <1>3, <2>3 DEF Verified, Storylines
  <2> QED BY <1>1, <2>1, <2>2, <2>3 DEF Sweeping
<1> QED BY <1>0, <1>6

LEMMA ComparisonFindsParity ==
  ASSUME CompanyInv, OpsConverge, NEW o \in DOMAIN op,
         op[o].pc = "verify", op[o].command = "replace", op[o].quiet
  PROVE  Parity(op[o].plan, graph)
<1>0. PICK me : me = op[o]
  OBVIOUS
<1>1. PlanSound(me) /\ OpConverges(me)
  BY <1>0 DEF CompanyInv, OpKept, Planned, OpsConverge
<1>2. /\ NodesIn(graph, {"Company"}) \subseteq DOMAIN me.plan.nodes
      /\ StaleRelations(me.plan, graph) = {}
      /\ \A n \in DOMAIN me.plan.nodes : Unchanged(me.plan, graph, n)
      /\ \A k \in DOMAIN me.plan.edges : EdgeKept(me.plan, graph, k)
  BY <1>0, <1>1 DEF OpConverges, Planned
<1>3. \A n \in DOMAIN me.plan.nodes : n \in NodesIn(graph, {"Company"})
  BY <1>1, <1>2 DEF PlanSound, Unchanged, NodesIn
<1>4. \A k \in DOMAIN me.plan.edges : k \in EdgesIn(graph, CompanyNames) /\ graph.edges[k] = me.plan.edges[k]
  BY <1>1, <1>2 DEF PlanSound, EdgeKept, EdgesIn
<1>5. EdgesIn(graph, CompanyNames) = DOMAIN me.plan.edges
  BY <1>2, <1>4 DEF StaleRelations
<1> QED BY <1>0, <1>2, <1>3, <1>4, <1>5 DEF Parity

\* What a run holds between its steps, and how far it has come.
THEOREM ProjectionsConverge == Spec => []ConvergedInv
BY ConvergedInit, ConvergedNext, PTL DEF Spec

\* A run nobody writes beside, that reaches its inspection, finds the graph
\* equal to its plan: the entities' replacements, the storylines, and a
\* replacement of the companies.
THEOREM QuietReplacementsConverge == Spec => []ReplacementsConverge
<1>1. ConvergedInv => ReplacementsConverge
  <2> SUFFICES ASSUME ConvergedInv PROVE ReplacementsConverge
    OBVIOUS
  <2> USE DEF ConvergedInv, KeptInv
  <2>1. QuietRunConverges
    BY InspectionVerifies DEF QuietRunConverges
  <2>2. CompanyConverges
    BY ComparisonFindsParity DEF CompanyConverges
  <2> QED BY <2>1, <2>2 DEF ReplacementsConverge
<1> QED BY <1>1, ProjectionsConverge, PTL
=============================================================================
