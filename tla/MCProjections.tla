---------------------------- MODULE MCProjections ----------------------------
EXTENDS CompanyProjection

CONSTANTS j1, j2, d1, d2

Item(label, id, text) == [id |-> id, label |-> label, text |-> text]

Country(id) == [id |-> id, label |-> "Country", text |-> id, code |-> id]
Region(id) == [id |-> id, label |-> "Region", text |-> id, code |-> id]

Root(id) == [id |-> id, label |-> "Industry", text |-> id, code |-> id, system |-> "SW",
             parent |-> NoParent, path |-> <<id>>]
Child(id, parent) == [Root(id) EXCEPT !.parent = parent, !.path = <<parent, id>>]

ChainNode(id) == [id |-> id, label |-> "ChainNode", text |-> id, approved |-> TRUE]

Story(label, id, domain) ==
  [id |-> id, label |-> label, text |-> id, domain |-> [id |-> domain, code |-> domain]]

Link(name, source, target, scope) ==
  [name |-> name, source |-> source, target |-> target, scope |-> scope, text |-> "v1",
   active |-> TRUE]
Mapped(chain, industry) == Link("IndustryChainMappedToIndustry", chain, industry, NoScope)
Themed(chain, concept) == Link("IndustryChainMappedToConcept", chain, concept, NoScope)
Member(node, chain) == Link("ChainNodeBelongsToIndustryChain", node, chain, NoScope)
Input(source, target, chain) == Link("ChainNodeInputTo", source, target, chain)

Company(id, text) == [id |-> id, label |-> "Company", text |-> text, code |-> id]
Formally(company, industry) == Link("CompanyBelongsToIndustry", company, industry, NoScope)

Entity(label, id) == [id |-> id, label |-> label, text |-> id, active |-> TRUE]

Facts(items, links, entities) == [items |-> items, links |-> links, entities |-> entities]
Alone(items) == Facts(items, <<>>, {})

MCPublished ==
  [CountryRegion |->
     <<Facts(<<Country("co1"), Region("r1")>>, <<Link("CountryInRegion", "co1", "r1", NoScope)>>, {}),
       Facts(<<Country("co1"), Country("co2"), Region("r1")>>,
             <<Link("CountryInRegion", "co1", "r1", NoScope),
               Link("CountryInRegion", "co2", "r1", NoScope)>>, {})>>,
   Industry |-> <<Alone(<<Root("i1"), Child("i2", "i1"), Root("i4")>>),
                  Alone(<<Root("i1"), Root("i4")>>)>>,
   Concept |-> <<Alone(<<Item("Concept", "k1", "k1")>>),
                 Alone(<<Item("Concept", "k1", "k2"), Item("Concept", "k2", "k2")>>)>>,
   IndustryChain |->
     <<Facts(<<Item("IndustryChain", "c1", "c1"), Item("IndustryChain", "c2", "c2")>>,
             <<Mapped("c1", "i1"), Mapped("c2", "i2")>>,
             {Entity("Industry", "i1"), Entity("Industry", "i2")}),
       Facts(<<Item("IndustryChain", "c1", "c1"), Item("IndustryChain", "c2", "c2*")>>,
             <<Mapped("c1", "i1"), Mapped("c2", "i4"), Themed("c2", "k1")>>,
             {Entity("Industry", "i1"), Entity("Industry", "i4"), Entity("Concept", "k1")})>>,
   ChainNode |->
     <<Facts(<<ChainNode("n1"), ChainNode("n2")>>,
             <<Member("n1", "c2"), Member("n2", "c2"), Input("n1", "n2", "c2")>>,
             {Entity("IndustryChain", "c2")}),
       Facts(<<ChainNode("n2")>>, <<Member("n2", "c2")>>,
             {Entity("IndustryChain", "c2")}),
       Facts(<<ChainNode("n2")>>, <<Member("n2", "c2")>>,
             {[Entity("IndustryChain", "c2") EXCEPT !.text = "c2*"]})>>,
   GeopoliticRivalry |->
     <<Alone(<<Story("GeopoliticRivalry", "g1", "d1")>>),
       Alone(<<Story("GeopoliticRivalry", "g1", "d2"), Story("GeopoliticRivalry", "g2", "d2")>>)>>,
   Variable |-> <<Alone(<<Item("Variable", "v1", "v1")>>)>>,
   Company |->
     <<Facts(<<Company("com1", "a")>>, <<Formally("com1", "i1")>>, {}),
       Facts(<<Company("com2", "a"), Company("com3", "a")>>, <<Formally("com2", "i4")>>, {})>>]

MCRank == [x \in {"co1", "r1", "i1", "c1", "k1", "v1", "g1", "n1", "com1"} |-> 1]
          @@ [x \in {"co2", "i2", "c2", "k2", "n2", "g2", "com2"} |-> 2]
          @@ [x \in {"n3", "com3"} |-> 3] @@ [x \in {"i4", "c4"} |-> 4]

Plain(label, ids) == [id \in ids |-> [label |-> label, text |-> id]]

Base == Plain("Country", {"co1"}) @@ Plain("Region", {"r1"})

Graph(nodes) == [nodes |-> nodes, edges |-> <<>>]

Topology ==
  [nodes |-> Base @@ Plain("Industry", {"i1", "i2", "i4"}) @@ Plain("IndustryChain", {"c1", "c2", "c4"})
             @@ Plain("ChainNode", {"n1", "n2", "n3"}),
   edges |-> [k \in {Key("IndustryHasParent", "i2", "i1", NoScope),
                     Key("IndustryChainMappedToIndustry", "c1", "i1", NoScope),
                     Key("IndustryChainMappedToIndustry", "c2", "i2", NoScope),
                     Key("IndustryChainMappedToIndustry", "c4", "i4", NoScope),
                     Key("ChainNodeBelongsToIndustryChain", "n1", "c1", NoScope),
                     Key("ChainNodeBelongsToIndustryChain", "n2", "c2", NoScope),
                     Key("ChainNodeBelongsToIndustryChain", "n3", "c4", NoScope)} |-> "v1"]]

\* A foreign node under a Company identity stops every command.
Polluted == [Topology EXCEPT !.nodes = ("com2" :> [label |-> "Foreign", text |-> "x"]) @@ @]

\* Entity command lines alone, each group of kinds that meet in the graph.
EntityScenarios ==
  {[kinds |-> {"Industry", "IndustryChain"}, graph |-> Graph(Base @@ Plain("Concept", {"k1"}))],
   [kinds |-> {"ChainNode"}, graph |-> Graph(Plain("IndustryChain", {"c1", "c2"}))],
   [kinds |-> {"CountryRegion", "Concept"}, graph |-> EmptyGraph],
   [kinds |-> {"GeopoliticRivalry", "Variable"}, graph |-> EmptyGraph]}

\* The Company command lines: the companies move in Data, or the industries
\* do, or nothing does.
CompanyScopes == {{"Company"}, {"Industry"}, {}}
CompanyScenarios ==
  {[kinds |-> k, graph |-> Topology] : k \in CompanyScopes}
  \cup {[kinds |-> {}, graph |-> Polluted]}

MCScenarios == EntityScenarios \cup CompanyScenarios

\* Two command lines wherever they share what moves: the entities in the
\* graph, the run directories where nothing else does; and two directories
\* unless the industries of their catalogs move.
MCJobsOf(scope) == IF scope \in CompanyScopes THEN {j1} ELSE {j1, j2}
MCDirsOf(scope) == IF scope = {"Industry"} THEN {d1} ELSE Dir
MCStaff(scope) == IF scope = {} THEN {1, 2} ELSE IF scope \in CompanyScopes THEN {1} ELSE {}

\* What the model says: one reading keeps to the first branch, one is unsure.
Says(confident, unsure) ==
  [t \in {"i1", "i2", "i4", "n1", "n2", "n3"} |->
     IF t \in confident THEN "HIGH" ELSE IF t \in unsure THEN "LOW" ELSE "NONE"]

Says3(roots, industries, nodes) == [roots |-> roots, industries |-> industries, nodes |-> nodes]

MCOpinions ==
  LET broad  == Says({"i1", "i2", "n1", "n2"}, {})
      shy    == Says({"i1"}, {"i2", "n1"})
      narrow == Says({"i2", "i4", "n2", "n3"}, {"i1"})
  IN  {Says3(shy, broad, shy), Says3(narrow, narrow, broad)}

Interchangeable == Permutations({j1, j2})
=============================================================================
