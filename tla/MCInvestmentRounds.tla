------------------------- MODULE MCInvestmentRounds -------------------------
(* Five small graphs: a chain with a cycle and two Signal roots; three      *)
(* layers that share Events and one ordinary Fact; two chains side by side  *)
(* with more facts than a context keeps; a node with more Signals than a    *)
(* move may cite; and one without an active Signal.                         *)
EXTENDS InvestmentContext, InvestmentReporting

Row(id, name, src, tgt, dir, conf, hs, events, episodes) ==
  [id |-> id, name |-> name, src |-> src, tgt |-> tgt, episodes |-> episodes,
   events |-> events, anchor |-> "ChainNode", dir |-> dir, confs |-> {conf, "HIGH"}, hs |-> hs,
   from |-> -1, until |-> Never, ends |-> 5, created |-> 0]

SignalOn(id, node, dir, conf, hs, events) ==
  Row(id, "SIGNAL_ON", "variable", node, dir, conf, hs, events, {"p1"})

Ordinary(id, src, tgt) == Row(id, "LINK", src, tgt, "none", "none", {}, {}, {"p1"})

Node(id) == [id |-> id, label |-> "ChainNode"]
Chain(id) == [id |-> id, label |-> "IndustryChain"]
In(n, c) == [node |-> n, chain |-> c]
Edge(id, src, tgt, c) == [id |-> id, src |-> src, tgt |-> tgt, chain |-> c]
Episode(id, v, at, evidence) == [id |-> id, event |-> v, at |-> at, evidence |-> evidence]

Cyclic ==
  [episodes |-> {Episode("p1", "e1", 0, {"v1"})},
   rows |-> {SignalOn("s1", "a", "UP", "HIGH", {"SHORT"}, {}),
             SignalOn("s2", "d", "DOWN", "LOW", {"SHORT"}, {"e1"}),
             [SignalOn("s3", "b", "UP", "HIGH", {"SHORT"}, {}) EXCEPT !.ends = 0],
             [SignalOn("s4", "b", "UP", "HIGH", {"SHORT"}, {}) EXCEPT !.until = 0],
             [SignalOn("s5", "b", "UP", "HIGH", {"SHORT"}, {}) EXCEPT !.created = 1]},
   nodes |-> {Node("a"), Node("b"), Node("c"), Node("d"), Chain("k")},
   mentions |-> {},
   memberships |-> {In("a", "k"), In("b", "k"), In("c", "k"), In("d", "k")},
   topology |-> {Edge("ab", "a", "b", "k"), Edge("bc", "b", "c", "k"), Edge("ca", "c", "a", "k"),
                 Edge("cd", "c", "d", "k")}]

\* The Event of the third episode lies before the window.
Layered ==
  [episodes |-> {Episode("p1", "e1", 0, {"v1"}), Episode("p2", "e2", -1, {}),
                 Episode("p9", "e9", -9, {"v9"})},
   rows |-> {[SignalOn("sg", "g", "UP", "HIGH", {"SHORT"}, {"e1"}) EXCEPT !.anchor = "GeopoliticRivalry"],
             [SignalOn("sm", "m", "DOWN", "MEDIUM", {"SHORT"}, {"e1", "e2"}) EXCEPT !.anchor = "MacroEconomic"],
             Row("sn", "SIGNAL_ON", "variable", "n", "UP", "HIGH", {"SHORT", "LONG"}, {"e2", "e9"}, {}),
             Ordinary("o", "g", "n"),
             [Ordinary("x", "m", "n") EXCEPT !.from = 1]},
   nodes |-> {[id |-> "g", label |-> "GeopoliticRivalry"], [id |-> "m", label |-> "MacroEconomic"],
              Node("n"), Chain("k")},
   mentions |-> {[episode |-> "p1", node |-> "m"]},
   memberships |-> {In("n", "k")},
   topology |-> {}]

Crowded ==
  [episodes |-> {Episode("p1", "e1", 0, {}), Episode("p9", "e9", -9, {"v9"})},
   rows |-> {Row("s1", "SIGNAL_ON", "variable", "a", "UP", "HIGH", {"SHORT"}, {"e1"}, {}),
             Row("s2", "SIGNAL_ON", "variable", "b", "MIXED", "MEDIUM", {"LONG"}, {"e1"}, {}),
             Row("s3", "SIGNAL_ON", "variable", "a", "STABLE", "MEDIUM", {"LONG"}, {"e1", "e9"}, {}),
             Ordinary("o", "a", "b")},
   nodes |-> {Node("a"), Node("b"), Node("c"), Chain("k"), Chain("l")},
   mentions |-> {},
   memberships |-> {In("a", "k"), In("b", "k"), In("b", "l"), In("c", "l")},
   topology |-> {Edge("ab", "a", "b", "k"), Edge("cb", "c", "b", "l")}]

\* Two Signals say the same of one node: its move cites more than a move may.
Doubled ==
  [Crowded EXCEPT
     !.rows = {Row("s1", "SIGNAL_ON", "variable", "a", "UP", "HIGH", {"SHORT"}, {"e1"}, {}),
               Row("s3", "SIGNAL_ON", "variable", "a", "UP", "HIGH", {"SHORT"}, {"e1"}, {})}]

\* Nothing in this one is an active Signal of a scoped Event.
Silent ==
  [Layered EXCEPT
     !.rows = {[SignalOn("sg", "g", "SIDEWAYS", "HIGH", {"SHORT"}, {"e1"}) EXCEPT
                  !.anchor = "GeopoliticRivalry"],
               Row("sn", "SIGNAL_ON", "variable", "n", "UP", "HIGH", {"SHORT"}, {"e9"}, {}),
               Ordinary("o", "g", "n")}]

Graphs == {Cyclic, Layered, Crowded, Doubled, Silent}

MCContexts == {ContextOf(g, {"o", "g"}) : g \in Graphs}
MCLayerProposals == {[result |-> "WARMING", conf |-> "HIGH"]}
MCProposals == {[var |-> "v", dir |-> "UP", conf |-> "HIGH", assume |-> 0],
                [var |-> "v", dir |-> "UP", conf |-> "LOW", assume |-> 0],
                [var |-> "v", dir |-> "UP", conf |-> "LOW", assume |-> 1],
                [var |-> "v", dir |-> "DOWN", conf |-> "HIGH", assume |-> 1]}
Uniform(t, c) == [trend |-> [h \in Horizon |-> t], conf |-> c]
\* One answer says the same of every node; the other leaves nodes out, has no
\* word on one, and contradicts itself where two chains share a node.
Places == {"k", "l"} \X {"a", "b", "c", "d", "n"}
MCAnswers ==
  {[p \in Places |-> Uniform("COOLING", "HIGH")],
   [p \in {<<"k", "a">>, <<"k", "b">>, <<"l", "b">>} |->
      CASE p = <<"k", "a">> -> Uniform("INSUFFICIENT_EVIDENCE", "MEDIUM")
        [] p = <<"k", "b">> -> Uniform("WARMING", "MEDIUM")
        [] p = <<"l", "b">> -> Uniform("COOLING", "HIGH")]}
\* One archived batch: its candidate k became e2 and rested on v7.
MCEventBatches == {[requests |-> [k |-> {"v7"}, j |-> {"v8"}], published |-> [k |-> "e2"]]}
=============================================================================
