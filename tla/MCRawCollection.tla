--------------------------- MODULE MCRawCollection ---------------------------
EXTENDS RawCollection

Source(code, type, adapter) ==
  [id |-> code, code |-> code, type |-> type, adapter |-> adapter, ownership |-> "fixed",
   priority |-> 1, enabled |-> TRUE]

\* Two channels in order; the same out of order is no Snapshot.
Api == Source(1, "api", "cls")
Web == Source(2, "web_search", "bocha")
Both == {<<Api, Web>>, <<Web, Api>>}

\* V1 alone, and three executions of V2, run over a single channel.
MCScenarios ==
  {[workflow |-> w, starts |-> 2, snapshots |-> Both] : w \in {<<"v1", "v2">>, <<"v2", "v2">>}}
  \cup {[workflow |-> <<"v1", "v1">>, starts |-> 2, snapshots |-> {<<Api>>, <<Web>>}],
        [workflow |-> <<"v2", "v2">>, starts |-> 3, snapshots |-> {<<Api>>}]}

Article(code, url, title, body) ==
  [connector |-> code, url |-> url, title |-> title, body |-> body]

\* URL 2 is URL 1 with tracking parameters.
MCCanonical == <<1, 1, 3>>

MCAnswers ==
  <<{<<Article(1, 2, "t1", "b1"), Article(1, 3, "t3", "b1")>>, Failure},
    {<<Article(2, 1, "t1", "b1"), Article(2, 3, "t2", Blank)>>}>>

MCNear == {{"t1", "t3"}}
=============================================================================
