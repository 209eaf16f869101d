--------------------------- MODULE MCBatchAnalysis ---------------------------
(* Small instances of BatchAnalysis for TLC.                                 *)
EXTENDS BatchAnalysis

Row(what, evidence, class) ==
  [what |-> what, evidence |-> evidence, class |-> class, timed |-> TRUE, wellformed |-> TRUE]
Untimed(row) == [row EXCEPT !.timed = FALSE]
Unreadably(row) == [row EXCEPT !.wellformed = FALSE]

Extraction(candidates, no_event) ==
  [candidates |-> candidates,
   no_event   |-> [e \in Evidence |-> IF e \in no_event THEN 1 ELSE 0]]

\* An answer that lists an Evidence with a candidate as no event as well.
MCRedundant == {Extraction(<<Row("deal", {"e1"}, "company")>>, {"e1", "e2"})}

\* Two classes, a duplicate, Evidence shared by two Events, a row that cannot
\* be read, one outside the batch, one beyond the capacity, one without time,
\* and an answer without Events.
MCExtractions ==
  {Extraction(<<Row("war", {"e1"}, "chain"), Row("raid", {"e2"}, "chain")>>, {"e3"}),
   Extraction(<<Row("deal", {"e1", "e2"}, "company"), Row("war", {"e2"}, "chain")>>, {}),
   Extraction(<<Unreadably(Row("raid", {"e2"}, "chain")), Row("deal", {"e1"}, "company"),
                Row("war", {"e3", "x"}, "chain")>>, {}),
   Extraction(<<Untimed(Row("deal", {"e3"}, "company")), Untimed(Row("raid", {"e1"}, "company")),
                Row("war", {"e2"}, "chain")>>, {}),
   Extraction(<<>>, {"e1"})}
  \cup MCRedundant

Judgement(decision, matched) ==
  [decision |-> decision, matched |-> matched, duplicate_of |-> None]

MCIdentityRows(input, k) ==
  {Judgement("NEW_EVENT", {}), Judgement("RELATED_BUT_DISTINCT", {"h2"}),
   Judgement("SAME_EVENT", {"h1"}), None}
    \cup {[Judgement("IGNORED", {}) EXCEPT !.duplicate_of = l] : l \in DOMAIN input \ {k}}

Matched(form, matches) == [form |-> form, matches |-> matches]

MCMatchRows(input, k) ==
  {Matched("row", {}), Matched("missing", {})} \cup {Matched("row", {m}) : m \in input[k]}
    \cup {Matched("spoiled", input[k]), Matched("row", input[k] \cup {"x"})}

Proposal(pair, sound) == [pair |-> pair, sound |-> sound]

MCSignalRows(input, k) ==
  {None, <<>>} \cup {<<Proposal(p, TRUE), Proposal(p, FALSE)>> : p \in input[k]}
    \cup {<<Proposal(p, FALSE), Proposal(p, TRUE)>> : p \in input[k]}

World(history, chains) ==
  [history   |-> history,
   subjects  |-> [g \in {"chain"} |-> chains],
   nodes     |-> [c \in {"c1"} |-> {"n1"}],
   companies |-> [w \in {"deal", "war", "raid"} |-> IF w = "deal" THEN {"k1"} ELSE {}],
   mentioned |-> {}, anchors |-> {"n1", "k1"}, variables |-> {"v"}]

MCGroups == <<"chain", "company">>

MCWorlds == {World({"h1"}, {"c1"}), World({"h1", "h2"}, {})}
=============================================================================
