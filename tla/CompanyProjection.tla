-------------------------- MODULE CompanyProjection --------------------------
(***************************************************************************)
(* The Company projection beside the entity projections it depends on. A   *)
(* run directory freezes one snapshot of the companies and one catalog of  *)
(* targets (plan), then one decision per company (infer, in as many        *)
(* sessions as it takes); run writes the facts and the frozen decisions to *)
(* the graph, and sweeps and verifies when it replaces. The catalog is     *)
(* read again before, between and after the writes, because the entity     *)
(* projections take no lock.                                               *)
(* Sources: src/sematica/projection/{company_cli,company}.py,              *)
(* src/capabilities/company/internal/{inference,storage}.py.               *)
(***************************************************************************)
EXTENDS EntityProjections, FiniteSetsExt

CONSTANTS
  MaxRoots, MaxIndustries, MaxNodes,
  CompanyIds,     \* identities in the Company namespace (COM...)
  Dir,            \* run directories
  DirsOf(_),      \* those in use in a scenario
  Staff(_),       \* the Company command lines at work in a scenario
  ChainLimits,    \* the values of --max-chain-candidates
  Opinions,       \* what the model may say of the targets, stage by stage
  NoManifest

D == INSTANCE CompanyDecisions

VARIABLES
  manifest,       \* manifest.json of a directory
  decisions,      \* decisions/<company>.json of a directory
  op

ASSUME CompanyAssumption ==
  "Company" \in DOMAIN Published /\ \A s \in Scenarios : DirsOf(s.kinds) \subseteq Dir

companyVars == <<manifest, decisions, op>>
vars == <<entityVars, companyVars>>

CompanyNames ==
  {"CompanyBelongsToIndustry", "CompanyOperatesInIndustry", "CompanyParticipatesInChainNode"}

NoOp == [pc |-> "idle", command |-> "", dir |-> "", snapshot |-> 0, plan |-> NoPlan,
         staleNodes |-> {}, staleEdges |-> {}, nodes |-> {}, edges |-> {},
         quiet |-> TRUE]

Init ==
  /\ EntityInit
  /\ manifest = [d \in Dir |-> NoManifest]
  /\ decisions = [d \in Dir |-> <<>>]
  /\ op = [o \in Staff(kinds) |-> NoOp]

-----------------------------------------------------------------------------
(* Facts and checks *)

Companies(snapshot) == Published["Company"][snapshot].items
Formal(snapshot) == EdgesOf(Published["Company"][snapshot].links)

CompanyRefused(facts) ==
  \/ DOMAIN facts.items = {}
  \/ Repeated(facts.items, IdOf) \/ Repeated(facts.items, CodeOf) \/ Repeated(facts.links, KeyOf)

\* Nothing but companies carries an identity of the namespace.
NamespaceClean(plan, g) ==
  /\ \A n \in DOMAIN g.nodes : n \in CompanyIds <=> g.nodes[n].label = "Company"
  /\ DOMAIN plan.nodes \subseteq CompanyIds

\* Every relation of an owned name leads from a company to a target of its type.
RelationsClean(g) ==
  \A k \in EdgesIn(g, CompanyNames) :
    /\ HasNode(g, k.source, "Company")
    /\ HasNode(g, k.target, IF k.name = "CompanyParticipatesInChainNode" THEN "ChainNode" ELSE "Industry")

\* The targets of the planned relations exist, under their label.
CompanyTargetsPresent(plan, g) ==
  \A k \in DOMAIN plan.edges :
    HasNode(g, k.target, IF k.name = "CompanyParticipatesInChainNode" THEN "ChainNode" ELSE "Industry")

FactsPlan(snapshot) ==
  [NoPlan EXCEPT !.nodes = NodesOf(Companies(snapshot)), !.edges = Formal(snapshot)]

Frozen(dir) == {decisions[dir][c] : c \in DOMAIN decisions[dir]}

\* The facts and the relations of the frozen decisions.
FullPlan(snapshot, dir) ==
  [FactsPlan(snapshot) EXCEPT !.edges = Merged(D!InferredEdges(Frozen(dir)), @)]

Candidate(snapshot, limit) ==
  [snapshot |-> snapshot, catalog |-> D!CatalogOf(graph), limit |-> limit]

\* The journal reads a decision back, and its scope still follows from the
\* catalog the graph holds now.
Reloads(d, dir) ==
  /\ D!JournalAccepts(d, dir, Companies(manifest[dir].snapshot))
  /\ D!ScopeValid(d, D!CatalogOf(graph), manifest[dir])

CatalogStands(dir) ==
  /\ D!Readable(graph)
  /\ D!CatalogOf(graph) = manifest[dir].catalog
  /\ \A d \in Frozen(dir) : D!ScopeValid(d, D!CatalogOf(graph), manifest[dir])

Complete(dir) ==
  DOMAIN decisions[dir] = Ids(Companies(manifest[dir].snapshot))

-----------------------------------------------------------------------------
(* Steps *)

OpStep(o, next) == op' = [op EXCEPT ![o] = next]
OpStop(o) == OpStep(o, NoOp)

KeepFiles == UNCHANGED <<manifest, decisions>>
KeepGraph == UNCHANGED entityVars

\* A write of a Company run; it disturbs the entity projections at work.
CompanyWrite(o, g, next) ==
  /\ graph' = g
  /\ job' = [j \in DOMAIN job |-> IF job[j].pc = "idle" THEN job[j] ELSE [job[j] EXCEPT !.quiet = FALSE]]
  /\ OpStep(o, next)
  /\ UNCHANGED <<kinds, version>> /\ KeepFiles

Writers == {o \in DOMAIN op : op[o].command \in {"run", "replace"}}

\* Two locks, both taken or the command fails: the directory for every
\* command, and all graph writes for run. A page of another snapshot fails
\* the load, so the facts are those of one version.
Begin(o) ==
  /\ op[o].pc = "idle"
  /\ \E dir \in DirsOf(kinds), command \in {"plan", "infer", "run", "replace", "verify"} :
       /\ \A p \in DOMAIN op : op[p].dir # dir
       /\ command \in {"run", "replace"} => Writers = {}
       /\ ~CompanyRefused(Published["Company"][version["Company"]])
       /\ OpStep(o, [NoOp EXCEPT !.pc = "check", !.command = command, !.dir = dir,
                                 !.snapshot = version["Company"]])
  /\ KeepGraph /\ KeepFiles

\* What every command checks first.
Preflight(o) ==
  LET facts == FactsPlan(op[o].snapshot) IN
  /\ D!Readable(graph)
  /\ CompanyTargetsPresent(facts, graph)
  /\ NamespaceClean(facts, graph) /\ RelationsClean(graph)

SameManifest(o) ==
  LET m == manifest[op[o].dir] IN m # NoManifest /\ m = Candidate(op[o].snapshot, m.limit)

Plan(o) ==
  LET me == op[o] IN
  /\ me.pc = "check" /\ me.command = "plan"
  /\ IF Preflight(o) /\ manifest[me.dir] = NoManifest
     THEN \E limit \in ChainLimits :
            manifest' = [manifest EXCEPT ![me.dir] = Candidate(me.snapshot, limit)]
     ELSE UNCHANGED manifest
  /\ OpStop(o) /\ KeepGraph /\ UNCHANGED decisions

\* Decisions frozen by earlier sessions are audited and kept.
Infer(o) ==
  LET me == op[o] IN
  /\ me.pc = "check" /\ me.command = "infer"
  /\ IF /\ Preflight(o) /\ SameManifest(o)
        /\ \A d \in Frozen(me.dir) : Reloads(d, me.dir)
     THEN OpStep(o, [me EXCEPT !.pc = "infer"])
     ELSE OpStop(o)
  /\ KeepGraph /\ KeepFiles

\* One company after another, against the catalog of the start. A session with
\* a limit ends early, as one that dies does.
Decide(o) ==
  LET me == op[o]
      companies == Companies(me.snapshot)
      pending   == {i \in DOMAIN companies : companies[i].id \notin DOMAIN decisions[me.dir]}
      i == Min(pending)
  IN
  /\ me.pc = "infer"
  /\ IF pending = {} THEN OpStop(o) /\ UNCHANGED decisions
     ELSE \E says \in Opinions :
            \E d \in D!Decisions(companies[i], i, me.dir, manifest[me.dir], says) :
              IF D!JournalAccepts(d, me.dir, companies)
              THEN /\ decisions' = [decisions EXCEPT ![me.dir] = Merged([c \in {d.company} |-> d], @)]
                   /\ OpStep(o, IF Cardinality(pending) = 1 THEN NoOp ELSE me)
              ELSE OpStop(o) /\ UNCHANGED decisions
  /\ KeepGraph /\ UNCHANGED manifest

\* run and verify need every decision.
Assemble(o) ==
  LET me == op[o]  plan == FullPlan(me.snapshot, me.dir) IN
  /\ me.pc = "check" /\ me.command \in {"run", "replace", "verify"}
  /\ IF /\ Preflight(o) /\ SameManifest(o) /\ Complete(me.dir)
        /\ \A d \in Frozen(me.dir) : Reloads(d, me.dir)
        /\ CompanyTargetsPresent(plan, graph)
     THEN OpStep(o, [me EXCEPT !.pc = IF me.command = "verify" THEN "verify" ELSE "diff",
                               !.plan = plan])
     ELSE OpStop(o)
  /\ KeepGraph /\ KeepFiles

\* Fault: only the relations Data states are swept.
StaleFormal(plan, g) == EdgesIn(g, {"CompanyBelongsToIndustry"}) \ DOMAIN plan.edges

StaleRelations(plan, g) == EdgesIn(g, CompanyNames) \ DOMAIN plan.edges

\* Everything is checked once more, then compared: the changed facts to write
\* and the stale ones to sweep are fixed here.
Diff(o) ==
  LET me == op[o]
      nodes == NodesIn(graph, {"Company"})
      edges == EdgesIn(graph, CompanyNames)
  IN
  /\ me.pc = "diff"
  /\ IF /\ NamespaceClean(me.plan, graph) /\ RelationsClean(graph)
        /\ CatalogStands(me.dir) /\ CompanyTargetsPresent(me.plan, graph)
     THEN OpStep(o, [me EXCEPT
            !.pc = "write",
            !.nodes = {n \in DOMAIN me.plan.nodes : ~Unchanged(me.plan, graph, n)},
            !.edges = {k \in DOMAIN me.plan.edges :
                         k \notin edges \/ graph.edges[k] # me.plan.edges[k]},
            !.staleNodes = nodes \ DOMAIN me.plan.nodes,
            !.staleEdges = StaleRelations(me.plan, graph)])
     ELSE OpStop(o)
  /\ KeepGraph /\ KeepFiles

WriteNodes(o) ==
  LET me == op[o]  chunk == Chunk(me.nodes, WriteBatch) IN
  /\ me.pc = "write" /\ me.nodes # {}
  /\ CompanyWrite(o, SaveNodes(graph, Restrict(me.plan.nodes, chunk)), [me EXCEPT !.nodes = @ \ chunk])

WriteEdges(o) ==
  LET me == op[o]  chunk == Chunk(me.edges, WriteBatch) IN
  /\ me.pc = "write" /\ me.nodes = {} /\ me.edges # {}
  /\ CompanyWrite(o, SaveEdges(graph, Restrict(me.plan.edges, chunk)), [me EXCEPT !.edges = @ \ chunk])

\* Only a replacement sweeps, after all checks once more.
Written(o) ==
  LET me == op[o] IN
  /\ me.pc = "write" /\ me.nodes = {} /\ me.edges = {}
  /\ IF me.command = "run" THEN OpStep(o, [me EXCEPT !.pc = "finish"])
     ELSE IF NamespaceClean(me.plan, graph) /\ RelationsClean(graph) /\ CatalogStands(me.dir)
     THEN OpStep(o, [me EXCEPT !.pc = "sweep_edges"])
     ELSE OpStop(o)
  /\ KeepGraph /\ KeepFiles

CompanySweepEdges(o) ==
  /\ op[o].pc = "sweep_edges"
  /\ CompanyWrite(o, DeleteEdges(graph, op[o].staleEdges),
                  [op[o] EXCEPT !.pc = "sweep_nodes", !.staleEdges = {}])

\* A plain DELETE: it fails while a stale company has a relation left.
CompanySweepNodes(o) ==
  LET me == op[o] IN
  /\ me.pc = "sweep_nodes"
  /\ IF Touching(graph, me.staleNodes) = {}
     THEN CompanyWrite(o, DetachDelete(graph, me.staleNodes), [me EXCEPT !.pc = "finish", !.staleNodes = {}])
     ELSE OpStop(o) /\ KeepGraph /\ KeepFiles

\* The last checks; only a replacement is compared with the graph.
Finish(o) ==
  LET me == op[o] IN
  /\ me.pc = "finish"
  /\ IF /\ me.command = "replace"
        /\ NamespaceClean(me.plan, graph) /\ RelationsClean(graph) /\ CatalogStands(me.dir)
     THEN OpStep(o, [me EXCEPT !.pc = "verify"])
     ELSE OpStop(o)
  /\ KeepGraph /\ KeepFiles

\* verify_company_projection
Parity(plan, g) ==
  /\ NodesIn(g, {"Company"}) = DOMAIN plan.nodes
  /\ EdgesIn(g, CompanyNames) = DOMAIN plan.edges
  /\ \A n \in DOMAIN plan.nodes : Unchanged(plan, g, n)
  /\ \A k \in DOMAIN plan.edges : g.edges[k] = plan.edges[k]

Verify(o) ==
  /\ op[o].pc = "verify"
  /\ OpStop(o) /\ KeepGraph /\ KeepFiles

CompanyDie(o) ==
  /\ op[o].pc # "idle"
  /\ OpStop(o) /\ KeepGraph /\ KeepFiles

CompanyStep(o) ==
  \/ Begin(o) \/ Plan(o) \/ Infer(o) \/ Decide(o) \/ Assemble(o) \/ Diff(o)
  \/ WriteNodes(o) \/ WriteEdges(o) \/ Written(o)
  \/ CompanySweepEdges(o) \/ CompanySweepNodes(o) \/ Finish(o) \/ Verify(o) \/ CompanyDie(o)

\* A write of an entity projection disturbs the Company runs at work.
EntityStep ==
  /\ EntityNext
  /\ op' = [o \in DOMAIN op |-> IF graph' = graph \/ op[o].pc = "idle" THEN op[o]
                               ELSE [op[o] EXCEPT !.quiet = FALSE]]
  /\ KeepFiles

Next == EntityStep \/ \E o \in DOMAIN op : CompanyStep(o)

Spec == Init /\ [][Next]_vars

-----------------------------------------------------------------------------
(* Properties *)

\* One step down the topology: from an industry to a child or to a chain
\* mapped to it, from a chain to a node of it.
Down(c) ==
  {<<c.parent[i], i>> : i \in {i \in c.industries : c.parent[i] # NoParent}}
  \cup {<<m[2], m[1]>> : m \in c.mapped \cup c.members}

\* What every set that holds from, and holds the lower end of a step whose
\* upper end it holds, has in it.
Leads(c, from, to) ==
  \A S \in SUBSET (c.industries \cup c.chains \cup c.nodes) :
    from \in S /\ (\A p \in Down(c) : p[1] \in S => p[2] \in S) => to \in S

InferredNames == {"CompanyOperatesInIndustry", "CompanyParticipatesInChainNode"}

Grounded(k, edge) ==
  LET d == edge.decision
      s == edge.selection
      c == manifest[d.run].catalog
      accepted == {x.choice.target : x \in d.industry.accepted}
  IN  /\ d \in Frozen(d.run)
      /\ d.company = k.source /\ s.choice.target = k.target
      /\ s.confidence \in {"MEDIUM", "HIGH"}
      /\ IF k.name = "CompanyOperatesInIndustry"
         THEN \E root \in d.offered.selected : c.parent[root] = NoParent /\ Leads(c, root, k.target)
         ELSE \E i \in accepted : Leads(c, i, k.target)

\* A model-inferred relation enters the graph only as one that a frozen decision
\* accepted with at least medium confidence, and its target lies, in the
\* catalog the run was planned on, below an accepted root industry or around
\* an accepted industry of the same company. Every decision that is frozen
\* passes the audits that reading it back will make against that catalog.
RelationsAreGrounded ==
  [][/\ \A k \in EdgesIn(graph', InferredNames) :
          k \notin DOMAIN graph.edges \/ graph.edges[k] # graph'.edges[k] => Grounded(k, graph'.edges[k])
     /\ \A dir \in Dir : \A company \in DOMAIN decisions'[dir] \ DOMAIN decisions[dir] :
          LET d == decisions'[dir][company]  m == manifest[dir] IN
          D!JournalAccepts(d, dir, Companies(m.snapshot)) /\ D!ScopeValid(d, m.catalog, m)]_vars

\* A replacement that reaches its comparison without an entity projection
\* writing in between finds companies and relations equal to its snapshot and
\* decisions, whatever earlier runs, of any directory, left behind.
CompanyConverges ==
  \A o \in DOMAIN op :
    op[o].pc = "verify" /\ op[o].command = "replace" /\ op[o].quiet => Parity(op[o].plan, graph)

\* Both of the graph's writers bring it to their plan when left alone.
ReplacementsConverge == QuietRunConverges /\ CompanyConverges

\* Why the relations are grounded: a manifest is never changed, a frozen decision
\* passes the audits against it, and what a run plans to write of the inferred
\* relations is grounded already.
CatalogSound(c) ==
  /\ IsFiniteSet(c.industries) /\ NoParent \notin c.industries
  /\ DOMAIN c.parent = c.industries
  /\ \A i \in c.industries : c.parent[i] \in c.industries \cup {NoParent}
  /\ c.mapped \subseteq c.chains \X c.industries
  /\ c.members \subseteq c.nodes \X c.chains

DecisionSound(d, dir) ==
  LET m == manifest[dir] IN
  /\ m # NoManifest
  /\ D!JournalAccepts(d, dir, Companies(m.snapshot)) /\ D!ScopeValid(d, m.catalog, m)
  /\ \A s \in d.industry.accepted \cup d.node.accepted : D!Accepts(s.confidence)

OpPhases == {"idle", "check", "infer", "diff", "write", "sweep_edges", "sweep_nodes", "finish", "verify"}
Planned == {"diff", "write", "sweep_edges", "sweep_nodes", "finish", "verify"}

PlanSound(me) ==
  /\ IsFiniteSet(DOMAIN me.plan.nodes)
  /\ DOMAIN me.plan.nodes \subseteq AllIds("Company")
  /\ KeptNodes["Company"] \subseteq DOMAIN me.plan.nodes
  /\ KeptEdges["Company"] \subseteq DOMAIN me.plan.edges
  /\ \A n \in DOMAIN me.plan.nodes : me.plan.nodes[n].label = "Company"
  /\ \A k \in DOMAIN me.plan.edges :
       /\ k.name \in CompanyNames /\ k.source \in DOMAIN me.plan.nodes
       /\ k.name \in InferredNames =>
            me.plan.edges[k].decision.run = me.dir /\ Grounded(k, me.plan.edges[k])

\* What a Company run holds of its directory and of kept facts.
OpKept(me) ==
  /\ DOMAIN me = DOMAIN NoOp
  /\ me.pc \in OpPhases
  /\ me.pc # "idle" => me.snapshot \in DOMAIN Published["Company"] /\ me.dir \in Dir
  /\ me.pc = "infer" => manifest[me.dir] # NoManifest /\ manifest[me.dir].snapshot = me.snapshot
  /\ me.pc \in Planned \ {"verify"} => me.command \in {"run", "replace"}
  /\ me.pc \in Planned => PlanSound(me)
  /\ me.pc = "write" => me.nodes \subseteq DOMAIN me.plan.nodes /\ me.edges \subseteq DOMAIN me.plan.edges
  /\ me.pc \in {"write", "sweep_edges"} =>
       \A k \in me.staleEdges : k.name \in CompanyNames /\ k \notin DOMAIN me.plan.edges
  /\ me.pc \in {"write", "sweep_edges", "sweep_nodes"} =>
       \A kind \in DOMAIN Published : me.staleNodes \cap KeptNodes[kind] = {}

\* Why a quiet replacement converges.
OpConverges(me) ==
  me.quiet /\ me.command = "replace" /\ me.pc \in Planned \ {"diff"} =>
    /\ CompanyTargetsPresent(me.plan, graph)
    /\ \A k \in DOMAIN me.plan.edges : k.target \notin DOMAIN me.plan.nodes
    /\ me.staleNodes \cap DOMAIN me.plan.nodes = {}
    /\ \A n \in me.staleNodes \cap DOMAIN graph.nodes : graph.nodes[n].label = "Company"
    /\ NodesIn(graph, {"Company"}) \ DOMAIN me.plan.nodes
         \subseteq (IF me.pc \in {"finish", "verify"} THEN {} ELSE me.staleNodes)
    /\ StaleRelations(me.plan, graph) \subseteq (IF me.pc \in {"write", "sweep_edges"} THEN me.staleEdges ELSE {})
    /\ \A n \in DOMAIN me.plan.nodes \ (IF me.pc = "write" THEN me.nodes ELSE {}) :
         Unchanged(me.plan, graph, n)
    /\ \A k \in DOMAIN me.plan.edges \ (IF me.pc = "write" THEN me.edges ELSE {}) :
         EdgeKept(me.plan, graph, k)

CompanyInv ==
  /\ DOMAIN manifest = Dir /\ DOMAIN decisions = Dir
  /\ \A dir \in Dir :
       /\ manifest[dir] # NoManifest => CatalogSound(manifest[dir].catalog)
       /\ \A d \in Frozen(dir) : DecisionSound(d, dir)
  /\ \A o, p \in Writers : o = p
  /\ \A o \in DOMAIN op : OpKept(op[o])

OpsConverge == \A o \in DOMAIN op : OpConverges(op[o])
=============================================================================
