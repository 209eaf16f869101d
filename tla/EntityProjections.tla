-------------------------- MODULE EntityProjections --------------------------
(***************************************************************************)
(* The command lines that project entities into the shared graph, running  *)
(* side by side without a lock, dying anywhere and started again, while    *)
(* Data moves from version to version. A run loads one complete set of     *)
(* facts, refuses it or plans its nodes and edges, removes what it owns    *)
(* and no longer plans, writes the plan in batches and compares.           *)
(* Sources: src/sematica/projection/{authoritative_writer,cli,             *)
(* industry_cli,concept_cli,industry_chain_cli,country_region,industry,    *)
(* concept,industry_chain}.py, src/sematica/initialization/*.              *)
(***************************************************************************)
EXTENDS EntityPlans

CONSTANTS
  JobsOf(_),   \* the entity command lines at work in a scenario
  Published,   \* Published[kind]: the versions of its facts, in order
  Rank,        \* the place of an identity in the order of the pages
  Scenarios,   \* [kinds, graph]: what is projected, and the first graph
  WriteBatch   \* facts one query writes (WRITE_BATCH_SIZE)

AllIds(kind) == UNION {Ids(Published[kind][v].items) : v \in DOMAIN Published[kind]}

\* Every version is well-typed, and an identity tells its type (its prefix).
ASSUME PublishedAssumption ==
  /\ DOMAIN Published \subseteq Sweeping \cup Storylines \cup {"Variable", "Company"}
  /\ \A kind \in DOMAIN Published :
       /\ Len(Published[kind]) \in Nat \ {0}
       /\ DOMAIN Published[kind] = 1..Len(Published[kind])
       /\ \A v \in DOMAIN Published[kind] :
            /\ WellTyped(kind, Published[kind][v])
            /\ \A e \in Published[kind][v].entities : e.id \notin AllIds(kind)
       /\ \A other \in DOMAIN Published \ {kind} : AllIds(kind) \cap AllIds(other) = {}
       /\ \A id \in AllIds(kind) : id # NoParent /\ (kind \in Paged => Rank[id] \in Nat)

VARIABLES
  kinds,       \* what is projected, and moves in Data, in this scenario
  version,     \* per kind, the version Data serves
  graph,
  job

entityVars == <<kinds, version, graph, job>>

Idle == [pc |-> "idle", kind |-> "", command |-> "", since |-> 0, plan |-> NoPlan,
         stale |-> {}, todo |-> {}, quiet |-> TRUE]

Commands(kind) ==
  CASE kind = "CountryRegion" -> {"run", "replace", "smoke", "verify"}
    [] kind \in Sweeping \ {"CountryRegion"} -> {"run", "replace", "verify"}
    [] kind \in Storylines \cup {"Variable"} -> {"run", "verify"}
    [] kind = "Company" -> {}   \* has a command line of its own

EntityInit ==
  \E s \in Scenarios :
    /\ kinds = s.kinds
    /\ graph = s.graph
    /\ version = [k \in DOMAIN Published |-> 1]
    /\ job = [j \in JobsOf(kinds) |-> Idle]

-----------------------------------------------------------------------------
(* The facts a run sees *)

\* Fault: the page that starts after the cursor skips one identity.
AfterNext(items, cut) == RestrictValues(items, LAMBDA i : Rank[i.id] > cut + 1)

Upto(items, cut) == RestrictValues(items, LAMBDA i : Rank[i.id] <= cut)
After(items, cut) == RestrictValues(items, LAMBDA i : Rank[i.id] > cut)

\* Two families beside one another.
Beside(s, t) ==
  [x \in ({1} \X DOMAIN s) \cup ({2} \X DOMAIN t) |-> IF x[1] = 1 THEN s[x[2]] ELSE t[x[2]]]

\* Pages have no snapshot: those up to the cut are older than the rest, and
\* the mappings of the listed chains are asked for last.
Pages(kind, before, now, cut) ==
  LET items == Beside(Upto(before.items, cut), After(now.items, cut))
  IN  [now EXCEPT !.items = items,
                  !.links = RestrictValues(@, LAMBDA l : l.source \in Ids(items))]

\* A single request, or a file exported at any earlier time.
Loaded(kind, since) ==
  LET facts == Published[kind]
      now   == version[kind]
  IN  CASE kind \in Paged ->
             {Pages(kind, facts[since], facts[now], cut) :
                cut \in {0} \cup {Rank[i] : i \in Ids(facts[since].items)}}
        [] kind = "CountryRegion" -> {facts[now]}
        [] OTHER -> {facts[v] : v \in 1..now}

-----------------------------------------------------------------------------
(* Steps *)

Step(j, pc) == job' = [job EXCEPT ![j].pc = pc]
Stop(j) == job' = [job EXCEPT ![j] = Idle]

\* A write of one process disturbs every other process at work.
Disturbed(jobs, writer) ==
  [j \in DOMAIN jobs |-> IF j = writer \/ jobs[j].pc = "idle" THEN jobs[j]
                 ELSE [jobs[j] EXCEPT !.quiet = FALSE]]

Write(j, g, next) ==
  /\ graph' = g
  /\ job' = Disturbed([job EXCEPT ![j] = next], j)

Publish(kind) ==
  /\ version[kind] < Len(Published[kind])
  /\ version' = [version EXCEPT ![kind] = @ + 1]
  /\ UNCHANGED <<kinds, graph, job>>

Start(j) ==
  /\ job[j].pc = "idle"
  /\ \E kind \in kinds : \E command \in Commands(kind) :
       job' = [job EXCEPT ![j] = [Idle EXCEPT !.pc = "load", !.kind = kind,
                                    !.command = command, !.since = version[kind]]]
  /\ UNCHANGED <<kinds, version, graph>>

Sweeps(command) == command = "replace"

\* The next list to write, if it is not empty.
Saving(me) ==
  IF me.pc # "save_nodes" /\ DOMAIN me.plan.nodes # {}
  THEN [me EXCEPT !.pc = "save_nodes", !.todo = DOMAIN me.plan.nodes]
  ELSE IF DOMAIN me.plan.edges # {}
  THEN [me EXCEPT !.pc = "save_edges", !.todo = DOMAIN me.plan.edges]
  ELSE [me EXCEPT !.pc = "inspect", !.todo = {}]

Writing(me) == IF Sweeps(me.command) THEN [me EXCEPT !.pc = "read_stale"] ELSE Saving(me)

Load(j) ==
  LET kind == job[j].kind  command == job[j].command IN
  /\ job[j].pc = "load"
  /\ \E facts \in Loaded(kind, job[j].since) :
       IF Refused(kind, facts) THEN Stop(j)
       ELSE LET whole == PlanOf(kind, facts)
                plan  == IF command = "smoke" THEN FirstTriplet(whole) ELSE whole
                me    == [job[j] EXCEPT !.plan = plan, !.since = 0]
            IN  job' = [job EXCEPT ![j] =
                  CASE command = "verify" -> [me EXCEPT !.pc = "inspect"]
                    [] command # "verify" /\ kind \in Storylines \cup {"IndustryChain", "ChainNode"}
                         -> [me EXCEPT !.pc = "preflight"]
                    [] OTHER -> Writing(me)]
  /\ UNCHANGED <<kinds, version, graph>>

\* Mappings and memberships need their targets in the graph.
PreflightTargets(j) ==
  LET me == job[j] IN
  /\ me.pc = "preflight" /\ me.kind \notin Storylines
  /\ IF TargetsPresent(me.plan, graph) THEN job' = [job EXCEPT ![j] = Writing(me)] ELSE Stop(j)
  /\ UNCHANGED <<kinds, version, graph>>

\* Storylines embed and write only what changed; nothing is ever removed.
PreflightStorylines(j) ==
  LET me == job[j] IN
  /\ me.pc = "preflight" /\ me.kind \in Storylines
  /\ IF NothingUnexpected(me.kind, me.plan, graph)
     THEN job' = [job EXCEPT ![j].pc = "recheck",
                             ![j].todo = {n \in DOMAIN me.plan.nodes : ~Unchanged(me.plan, graph, n)}]
     ELSE Stop(j)
  /\ UNCHANGED <<kinds, version, graph>>

Recheck(j) ==
  LET me == job[j] IN
  /\ me.pc = "recheck"
  /\ IF ~NothingUnexpected(me.kind, me.plan, graph) THEN Stop(j)
     ELSE Step(j, IF me.todo = {} THEN "inspect" ELSE "save_nodes")
  /\ UNCHANGED <<kinds, version, graph>>

\* Fault: the stale relations are left to the deletion of their ends.
NoStaleEdges(kind, plan, g) == {}

StaleEdges(kind, plan, g) == EdgesIn(g, OwnedNames(kind)) \ DOMAIN plan.edges

ReadStale(j) ==
  LET me == job[j] IN
  /\ me.pc = "read_stale"
  /\ job' = [job EXCEPT ![j].pc = "sweep_edges",
                        ![j].stale = StaleEdges(me.kind, me.plan, graph),
                        ![j].todo = NodesIn(graph, OwnedLabels(me.kind)) \ DOMAIN me.plan.nodes]
  /\ UNCHANGED <<kinds, version, graph>>

SweepEdges(j) ==
  LET me == job[j] IN
  /\ me.pc = "sweep_edges"
  /\ Write(j, DeleteEdges(graph, me.stale), [me EXCEPT !.pc = "sweep_nodes", !.stale = {}])
  /\ UNCHANGED <<kinds, version>>

\* One query per stale node; the new facts are written only afterwards.
SweepNodes(j) ==
  LET me == job[j] IN
  /\ me.pc = "sweep_nodes"
  /\ IF me.todo = {}
     THEN job' = [job EXCEPT ![j] = Saving(me)] /\ UNCHANGED graph
     ELSE LET n == CHOOSE n \in me.todo : TRUE
          IN  Write(j, DetachDelete(graph, {n}), [me EXCEPT !.todo = @ \ {n}])
  /\ UNCHANGED <<kinds, version>>

SaveNodeBatch(j) ==
  LET me    == job[j]
      batch == IF me.kind \in Storylines THEN me.todo ELSE Chunk(me.todo, WriteBatch)
      left  == me.todo \ batch
  IN
  /\ me.pc = "save_nodes"
  /\ Write(j, SaveNodes(graph, Restrict(me.plan.nodes, batch)),
           IF left # {} THEN [me EXCEPT !.todo = left] ELSE Saving(me))
  /\ UNCHANGED <<kinds, version>>

SaveEdgeBatch(j) ==
  LET me    == job[j]
      batch == Chunk(me.todo, WriteBatch)
      left  == me.todo \ batch
  IN
  /\ me.pc = "save_edges"
  /\ Write(j, SaveEdges(graph, Restrict(me.plan.edges, batch)),
           [me EXCEPT !.todo = left, !.pc = IF left = {} THEN "inspect" ELSE @])
  /\ UNCHANGED <<kinds, version>>

\* The outcome is printed: Verified(kind, plan, graph), or "smoke-only".
Inspect(j) ==
  /\ job[j].pc = "inspect"
  /\ Stop(j)
  /\ UNCHANGED <<kinds, version, graph>>

\* An exception or a kill, anywhere; what was written stays.
Die(j) ==
  /\ job[j].pc # "idle"
  /\ job' = [job EXCEPT ![j] = Idle]
  /\ UNCHANGED <<kinds, version, graph>>

JobStep(j) ==
  \/ Start(j) \/ Load(j) \/ PreflightTargets(j) \/ PreflightStorylines(j) \/ Recheck(j)
  \/ ReadStale(j) \/ SweepEdges(j) \/ SweepNodes(j) \/ SaveNodeBatch(j) \/ SaveEdgeBatch(j)
  \/ Inspect(j) \/ Die(j)

EntityNext == (\E kind \in kinds : Publish(kind)) \/ (\E j \in DOMAIN job : JobStep(j))

-----------------------------------------------------------------------------
(* Properties *)

\* Facts every version of Data contains, and relations whose two ends are
\* such facts.
AlwaysHeld(kind, held(_)) ==
  {x \in held(Published[kind][1]) : \A v \in DOMAIN Published[kind] : x \in held(Published[kind][v])}

KeptNodes == [kind \in DOMAIN Published |-> AlwaysHeld(kind, LAMBDA f : Ids(f.items))]

KeptEdges ==
  [kind \in DOMAIN Published |->
     {k \in AlwaysHeld(kind, LAMBDA f : {KeyOf(l) : l \in Elements(LinksOf(kind, f))}) :
        \A end \in {k.source, k.target} : \E other \in DOMAIN Published : end \in KeptNodes[other]}]

\* The first graph is one that earlier projections may have left: an identity
\* Data has held throughout carries a label of its type.
ASSUME ScenarioAssumption ==
  \A s \in Scenarios :
    /\ s.kinds \subseteq DOMAIN Published
    /\ DOMAIN s.graph = {"nodes", "edges"}
    /\ IsFiniteSet(DOMAIN s.graph.nodes) /\ NoParent \notin DOMAIN s.graph.nodes
    /\ \A kind \in DOMAIN Published : \A n \in KeptNodes[kind] \cap DOMAIN s.graph.nodes :
         s.graph.nodes[n].label \in OwnedLabels(kind)

\* Pages read across an update, crashes between batches, removals of other
\* projections' endpoints and the smoke test never cost the graph a fact that
\* Data has held throughout.
KeptFactsStay ==
  [][\A kind \in kinds :
       /\ KeptNodes[kind] \cap DOMAIN graph.nodes \subseteq DOMAIN graph'.nodes
       /\ KeptEdges[kind] \cap DOMAIN graph.edges \subseteq DOMAIN graph'.edges]_entityVars

\* The commands that bring the graph to their plan whatever was there.
Converging(me) == me.command = "replace" \/ (me.kind \in Storylines /\ me.command = "run")

\* Whatever earlier runs left behind, one that reaches its inspection without
\* another process writing in between finds the graph equal to its plan;
\* industries and concepts also need the countries they count.
QuietRunConverges ==
  \A j \in DOMAIN job :
    LET me == job[j] IN
    /\ me.pc = "inspect" /\ me.quiet /\ Converging(me)
    /\ me.kind \in {"Industry", "Concept"} => BasePreserved(graph)
    /\ me.kind = "Concept" => ConceptsApart(graph)
    => Verified(me.kind, me.plan, graph)

\* Why facts are kept. A kept identity carries a label of its own type, so only
\* its own projection would sweep it, and the plan of that projection has it,
\* on whichever versions its pages were read.
GraphKept ==
  /\ DOMAIN graph = {"nodes", "edges"}
  /\ IsFiniteSet(DOMAIN graph.nodes) /\ NoParent \notin DOMAIN graph.nodes
  /\ \A kind \in DOMAIN Published : \A n \in KeptNodes[kind] \cap DOMAIN graph.nodes :
       graph.nodes[n].label \in OwnedLabels(kind)

PlanKept(me) ==
  /\ DOMAIN me.plan = DOMAIN NoPlan
  /\ IsFiniteSet(DOMAIN me.plan.nodes)
  /\ DOMAIN me.plan.nodes \subseteq AllIds(me.kind)
  /\ \A n \in DOMAIN me.plan.nodes : me.plan.nodes[n].label \in OwnedLabels(me.kind)
  /\ \A k \in DOMAIN me.plan.edges : k.name \in OwnedNames(me.kind)
  /\ me.command # "smoke" =>
       /\ KeptNodes[me.kind] \subseteq DOMAIN me.plan.nodes
       /\ KeptEdges[me.kind] \subseteq DOMAIN me.plan.edges

Phases == {"idle", "load", "preflight", "recheck", "read_stale", "sweep_edges", "sweep_nodes",
           "save_nodes", "save_edges", "inspect"}

JobKept(me) ==
  /\ DOMAIN me = DOMAIN Idle
  /\ me.pc \in Phases
  /\ me.pc # "idle" => me.kind \in kinds /\ me.command \in Commands(me.kind)
  /\ me.pc = "load" => me.since \in 1..version[me.kind]
  /\ me.pc \notin {"idle", "load"} => PlanKept(me)
  /\ me.pc \in {"read_stale", "sweep_edges", "sweep_nodes"} => me.command = "replace"
  /\ me.pc = "sweep_edges" =>
       \A k \in me.stale : k.name \in OwnedNames(me.kind) /\ k \notin DOMAIN me.plan.edges
  /\ me.pc \in {"sweep_edges", "sweep_nodes"} =>
       \A kind \in DOMAIN Published : me.todo \cap KeptNodes[kind] = {}
  /\ me.pc \in {"recheck", "save_nodes"} => me.todo \subseteq DOMAIN me.plan.nodes
  /\ me.pc = "save_edges" => me.todo \subseteq DOMAIN me.plan.edges

EntityInv ==
  /\ kinds \in {s.kinds : s \in Scenarios}
  /\ DOMAIN version = DOMAIN Published
  /\ \A kind \in DOMAIN Published : version[kind] \in DOMAIN Published[kind]
  /\ GraphKept
  /\ \A j \in DOMAIN job : JobKept(job[j])

\* Why a quiet run converges: what it plans has its ends in the plan or among
\* targets of other types, and each phase leaves less that differs.
PlanClosed(me) ==
  /\ \A k \in DOMAIN me.plan.edges :
       /\ k.source \in DOMAIN me.plan.nodes
       /\ k.target \in DOMAIN me.plan.nodes \cup DOMAIN me.plan.targets
       /\ me.kind = "ChainNode" =>
            IF k.target \in DOMAIN me.plan.nodes THEN k.name \in TopologyNames
            ELSE me.plan.targets[k.target].label = TargetLabel(k.name)
  /\ \A t \in DOMAIN me.plan.targets :
       t \notin DOMAIN me.plan.nodes /\ me.plan.targets[t].label \notin OwnedLabels(me.kind)
  /\ me.kind \notin {"IndustryChain", "ChainNode"} => DOMAIN me.plan.targets = {}

EdgeKept(plan, g, k) == k \in DOMAIN g.edges /\ g.edges[k] = plan.edges[k]

JobConverges(me) ==
  me.quiet /\ Converging(me) /\ me.pc \notin {"idle", "load"} =>
    /\ PlanClosed(me)
    /\ me.pc # "preflight" => TargetsPresent(me.plan, graph)
    /\ me.pc = "recheck" =>
         /\ me.kind \in Storylines /\ NothingUnexpected(me.kind, me.plan, graph)
         /\ \A n \in DOMAIN me.plan.nodes \ me.todo : Unchanged(me.plan, graph, n)
    /\ me.pc = "sweep_edges" => me.stale = StaleEdges(me.kind, me.plan, graph)
    /\ me.pc \in {"sweep_edges", "sweep_nodes"} =>
         me.todo = NodesIn(graph, OwnedLabels(me.kind)) \ DOMAIN me.plan.nodes
    /\ me.pc \in {"sweep_nodes", "save_nodes", "save_edges", "inspect"} =>
         StaleEdges(me.kind, me.plan, graph) = {}
    /\ me.pc \in {"save_nodes", "save_edges", "inspect"} =>
         NodesIn(graph, OwnedLabels(me.kind)) \subseteq DOMAIN me.plan.nodes
    /\ me.pc = "save_nodes" =>
         \A n \in DOMAIN me.plan.nodes \ me.todo : Unchanged(me.plan, graph, n)
    /\ me.pc \in {"save_edges", "inspect"} => NodesMatch(me.plan, graph)
    /\ me.pc = "save_edges" =>
         \A k \in DOMAIN me.plan.edges \ me.todo : EdgeKept(me.plan, graph, k)
    /\ me.pc = "inspect" => \A k \in DOMAIN me.plan.edges : EdgeKept(me.plan, graph, k)

ConvergenceInv == \A j \in DOMAIN job : JobConverges(job[j])
=============================================================================
