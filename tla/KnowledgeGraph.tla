--------------------------- MODULE KnowledgeGraph ---------------------------
(***************************************************************************)
(* The graph every projection writes to, as its writers use it: one node   *)
(* per canonical Data identity (the UUID is derived from it) and one edge  *)
(* per relation name, endpoints and scope. Content is a text: whatever the *)
(* projection compares to decide that a fact has changed.                  *)
(* Sources: src/sematica/projection/authoritative_writer.py; the database  *)
(* itself is external.                                                     *)
(***************************************************************************)
EXTENDS Naturals, FiniteSets, Functions, TLC

Key(name, source, target, scope) ==
  [name |-> name, source |-> source, target |-> target, scope |-> scope]

EmptyGraph == [nodes |-> <<>>, edges |-> <<>>]

NodesIn(g, labels) == {n \in DOMAIN g.nodes : g.nodes[n].label \in labels}
EdgesIn(g, names) == {k \in DOMAIN g.edges : k.name \in names}

HasNode(g, id, label) == id \in DOMAIN g.nodes /\ g.nodes[id].label = label

\* What is written replaces what was there under its key.
Merged(new, old) ==
  [x \in DOMAIN new \cup DOMAIN old |-> IF x \in DOMAIN new THEN new[x] ELSE old[x]]

\* Upsert by UUID.
SaveNodes(g, nodes) == [g EXCEPT !.nodes = Merged(nodes, @)]

\* MATCH both endpoints, then MERGE: an edge whose endpoint is gone is
\* skipped without an error.
SaveEdges(g, edges) ==
  LET joined == {k \in DOMAIN edges : {k.source, k.target} \subseteq DOMAIN g.nodes}
  IN  [g EXCEPT !.edges = Merged(Restrict(edges, joined), @)]

DeleteEdges(g, keys) == [g EXCEPT !.edges = Restrict(@, DOMAIN @ \ keys)]

Touching(g, ids) == {k \in DOMAIN g.edges : {k.source, k.target} \cap ids # {}}

\* Deleting an entity node detaches it from every relation, whoever owns it.
DetachDelete(g, ids) ==
  [nodes |-> Restrict(g.nodes, DOMAIN g.nodes \ ids),
   edges |-> Restrict(g.edges, DOMAIN g.edges \ Touching(g, ids))]

\* As many elements of a set as a query writes, all of it when it has fewer.
Chunk(S, size) ==
  LET full == {c \in SUBSET S : Cardinality(c) = size}
  IN  IF full = {} THEN S ELSE CHOOSE c \in full : TRUE
=============================================================================
