---------------------- MODULE InvestmentReasoningProofs ----------------------
(***************************************************************************)
(* Theorems about InvestmentRounds and InvestmentReporting for any         *)
(* contexts, any answers within the contracts of the agents, and any       *)
(* bounds: transmissions are sound as a graph, what is accepted is         *)
(* grounded, the gate raises no false alarm, no related pair vanishes, and *)
(* a report is closed and its claims have a basis.                         *)
(***************************************************************************)
EXTENDS InvestmentReporting, FiniteSetTheorems, TLAPS

-----------------------------------------------------------------------------
(* Confidence and scores.                                                  *)

\* The least of some labels is one of them and ranks lowest.
LEMMA LeastConfidence ==
  ASSUME NEW S \in SUBSET Confidence, S # {}
  PROVE  /\ MinimumConfidence(S) \in S
         /\ \A d \in S : Rank[MinimumConfidence(S)] <= Rank[d]
<1>1. \E c \in S : \A d \in S : Rank[c] <= Rank[d]
  <2>1. Rank["LOW"] = 0 /\ Rank["MEDIUM"] = 1 /\ Rank["HIGH"] = 2
    BY DEF Rank
  <2>2. \A d \in S : d = "LOW" \/ d = "MEDIUM" \/ d = "HIGH"
    BY DEF Confidence
  <2>3. CASE "LOW" \in S
    BY <2>1, <2>2, <2>3
  <2>4. CASE "LOW" \notin S /\ "MEDIUM" \in S
    BY <2>1, <2>2, <2>4
  <2>5. CASE "LOW" \notin S /\ "MEDIUM" \notin S
    BY <2>1, <2>2, <2>5
  <2> QED BY <2>3, <2>4, <2>5
<1> QED BY <1>1 DEF MinimumConfidence

LEMMA ConfidenceOfLabels ==
  ASSUME NEW S \in SUBSET Confidence
  PROVE  MinimumConfidence(S) \in Confidence
<1>1. CASE S = {}
  BY <1>1 DEF MinimumConfidence, Confidence
<1>2. CASE S # {}
  BY <1>2, LeastConfidence
<1> QED BY <1>1, <1>2

\* A label that is LOW makes the least LOW.
LEMMA LowIsLeast ==
  ASSUME NEW S \in SUBSET Confidence, "LOW" \in S
  PROVE  MinimumConfidence(S) = "LOW"
<1>1. /\ MinimumConfidence(S) \in S
      /\ Rank[MinimumConfidence(S)] <= Rank["LOW"]
  BY LeastConfidence
<1>2. \A c \in Confidence : Rank[c] <= Rank["LOW"] => c = "LOW"
  BY DEF Rank, Confidence
<1> QED BY <1>1, <1>2

LEMMA LeastIsNotHigh ==
  ASSUME NEW S \in SUBSET Confidence, NEW c \in S, c # "HIGH"
  PROVE  MinimumConfidence(S) # "HIGH"
<1>1. /\ MinimumConfidence(S) \in S
      /\ Rank[MinimumConfidence(S)] <= Rank[c]
  BY LeastConfidence
<1> QED BY <1>1 DEF Rank, Confidence

\* A score stays within its scale, and one that starts from LOW evidence stays
\* below the bound a transmission is continued at.
LEMMA ScoreBounds ==
  ASSUME NEW u \in Int, NEW c \in Confidence, NEW a \in Nat
  PROVE  /\ PathScore(u, c, a) \in Int
         /\ PathScore(u, c, a) <= 10000
         /\ u = Score["LOW"] => PathScore(u, c, a) < ContinuationThreshold
  BY DEF PathScore, Score, Confidence, AtLeast, AtMost, ContinuationThreshold

LEMMA ScoreInScale ==
  ASSUME NEW v \in Int, v >= InclusionThreshold, v <= 10000
  PROVE  v \in InclusionThreshold .. 10000
  BY DEF InclusionThreshold

LEMMA ScoreOfLabel ==
  ASSUME NEW c \in Confidence
  PROVE  Score[c] \in Int
  BY DEF Score, Confidence

-----------------------------------------------------------------------------
(* Paths.                                                                  *)

\* What a walk comes by is closed, and is within every closed set.
LEMMA AncestorsAreLeast ==
  ASSUME NEW A, NEW t
  PROVE  /\ t \in Ancestors(A, t)
         /\ Ancestors(A, t) \subseteq A \cup {t}
         /\ \A v \in Ancestors(A, t) : v.parent \in A => v.parent \in Ancestors(A, t)
         /\ \A S : t \in S /\ (\A v \in S : v \in A \cup {t} /\ v.parent \in A => v.parent \in S)
                     => Ancestors(A, t) \subseteq S
<1>1. \A u : u \in Ancestors(A, t) <=>
               u \in A \cup {t} /\ \A S \in ParentClosed(A, t) : u \in S
  BY DEF Ancestors
<1>2. \A S : S \in ParentClosed(A, t) <=>
               /\ \E P \in SUBSET A : S = P \cup {t}
               /\ \A v \in S : v.parent \in A => v.parent \in S
  BY DEF ParentClosed
<1>3. t \in Ancestors(A, t)
  BY <1>1, <1>2
<1>4. ASSUME NEW v \in Ancestors(A, t), v.parent \in A
      PROVE  v.parent \in Ancestors(A, t)
  BY <1>1, <1>2, <1>4
<1>5. ASSUME NEW S, t \in S,
             \A v \in S : v \in A \cup {t} /\ v.parent \in A => v.parent \in S
      PROVE  Ancestors(A, t) \subseteq S
  <2> DEFINE P == S \cap A
  <2>1. P \cup {t} \in ParentClosed(A, t)
    <3>1. P \in SUBSET A
      OBVIOUS
    <3>2. ASSUME NEW v \in P \cup {t}, v.parent \in A
          PROVE  v.parent \in P \cup {t}
      BY <1>5, <3>2
    <3> HIDE DEF P
    <3> QED BY <3>1, <3>2, <1>2
  <2> QED BY <2>1, <1>1, <1>5
<1> QED BY <1>1, <1>3, <1>4, <1>5

\* One step longer, one more ancestor.
LEMMA AncestorsOfNext ==
  ASSUME NEW A, NEW t, t.parent \in A
  PROVE  Ancestors(A, t) = {t} \cup Ancestors(A, t.parent)
<1> DEFINE p == t.parent
<1>1. {t} \cup Ancestors(A, p) \subseteq Ancestors(A, t)
  <2>1. p \in Ancestors(A, t)
    BY AncestorsAreLeast
  <2>2. \A v \in Ancestors(A, t) : v \in A \cup {p} /\ v.parent \in A => v.parent \in Ancestors(A, t)
    BY AncestorsAreLeast
  <2>3. Ancestors(A, p) \subseteq Ancestors(A, t)
    BY <2>1, <2>2, AncestorsAreLeast
  <2> QED BY <2>3, AncestorsAreLeast
<1>2. Ancestors(A, t) \subseteq {t} \cup Ancestors(A, p)
  <2> DEFINE S == {t} \cup Ancestors(A, p)
  <2>1. \A v \in S : v.parent \in A => v.parent \in S
    BY AncestorsAreLeast
  <2>2. t \in S
    OBVIOUS
  <2> HIDE DEF S
  <2>3. Ancestors(A, t) \subseteq S
    BY <2>1, <2>2, AncestorsAreLeast
  <2> QED BY <2>3 DEF S
<1> QED BY <1>1, <1>2

\* A first hop has no other ancestor.
LEMMA AncestorsOfFirst ==
  ASSUME NEW A, NEW t, t.parent \notin A
  PROVE  Ancestors(A, t) = {t}
<1>1. \A v \in {t} : v \in A \cup {t} /\ v.parent \in A => v.parent \in {t}
  OBVIOUS
<1>2. Ancestors(A, t) \subseteq {t}
  BY <1>1, AncestorsAreLeast
<1> QED BY <1>2, AncestorsAreLeast

\* Where parents are accepted before their children, accepting more changes no
\* path.
LEMMA AncestorsAreStable ==
  ASSUME NEW A, NEW B, NEW t, A \subseteq B,
         \A v \in A \cup {t} : v.parent \in B => v.parent \in A
  PROVE  Ancestors(B, t) = Ancestors(A, t)
<1>1. Ancestors(B, t) \subseteq Ancestors(A, t)
  <2> DEFINE S == Ancestors(A, t)
  <2>1. t \in S /\ \A v \in S : v.parent \in B => v.parent \in S
    BY AncestorsAreLeast
  <2> HIDE DEF S
  <2>2. Ancestors(B, t) \subseteq S
    BY <2>1, AncestorsAreLeast
  <2> QED BY <2>2 DEF S
<1>2. Ancestors(A, t) \subseteq Ancestors(B, t)
  <2> DEFINE S == Ancestors(B, t)
  <2>1. t \in S /\ \A v \in S : v \in A \cup {t} /\ v.parent \in A => v.parent \in S
    BY AncestorsAreLeast
  <2> HIDE DEF S
  <2>2. Ancestors(A, t) \subseteq S
    BY <2>1, AncestorsAreLeast
  <2> QED BY <2>2 DEF S
<1> QED BY <1>1, <1>2

LEMMA VisitedByNext ==
  ASSUME NEW A, NEW t, t.parent \in A
  PROVE  VisitedNodes(A, t) = {t.src, t.tgt} \cup VisitedNodes(A, t.parent)
  BY AncestorsOfNext DEF VisitedNodes

LEMMA VisitedByFirst ==
  ASSUME NEW A, NEW t, t.parent \notin A
  PROVE  VisitedNodes(A, t) = {t.src, t.tgt}
  BY AncestorsOfFirst DEF VisitedNodes

LEMMA EndsAreVisited ==
  ASSUME NEW A, NEW t
  PROVE  t.src \in VisitedNodes(A, t) /\ t.tgt \in VisitedNodes(A, t)
  BY AncestorsAreLeast DEF VisitedNodes

-----------------------------------------------------------------------------
(* Moves and what becomes of a proposal.                                   *)

\* A transmission's fields, from its move, the proposal and what it rests on.
LEMMA TransmissionFields ==
  ASSUME NEW c, NEW p, NEW s, NEW k
  PROVE  LET t == Transmission(c, p, s, k)
         IN  /\ t.chain = c.chain /\ t.src = c.src /\ t.tgt = c.tgt
             /\ t.horizon = c.horizon /\ t.facts = c.facts /\ t.assess = c.assess
             /\ t.parent = c.parent /\ t.hop = k /\ t.roots = s.roots
             /\ t.score = PathScore(s.upstream, p.conf, p.assume)
  BY DEF Transmission

\* A hop is less certain than what it rests on: never HIGH, and LOW when that
\* is not HIGH.
LEMMA TransmissionConfidence ==
  ASSUME NEW c, NEW p, NEW s, NEW k,
         p.conf \in Confidence, p.assume \in Nat,
         s.confs \subseteq Confidence, s.confs # {}
  PROVE  /\ Transmission(c, p, s, k).conf \in {"LOW", "MEDIUM"}
         /\ (\E d \in s.confs : d # "HIGH") => Transmission(c, p, s, k).conf = "LOW"
<1> DEFINE least == MinimumConfidence(s.confs)
           cap == Degrade(least)
           bound == IF p.assume > 0 THEN Degrade(cap) ELSE cap
<1>1. least \in Confidence
  BY ConfidenceOfLabels
<1>2. (\E d \in s.confs : d # "HIGH") => least # "HIGH"
  BY LeastIsNotHigh
<1> HIDE DEF least
<1>3. bound \in {"LOW", "MEDIUM"} /\ (least # "HIGH" => bound = "LOW")
  BY <1>1 DEF Degrade, Confidence
<1>4. Transmission(c, p, s, k).conf = MinimumConfidence({p.conf, bound})
  BY DEF Transmission, least
<1> HIDE DEF bound
<1>5. {p.conf, bound} \subseteq Confidence
  BY <1>3 DEF Confidence
<1>6. MinimumConfidence({p.conf, bound}) \in Confidence \ {"HIGH"}
  BY <1>3, <1>5, ConfidenceOfLabels, LeastIsNotHigh
<1>7. bound = "LOW" => MinimumConfidence({p.conf, bound}) = "LOW"
  BY <1>5, LowIsLeast
<1> QED BY <1>2, <1>3, <1>4, <1>6, <1>7 DEF Confidence

\* A candidate comes from a frontier and leads to a node not visited before.
LEMMA MovesFromFrontier ==
  ASSUME NEW c \in Moves
  PROVE  \E chain \in ctx.chains :
           \E f \in Frontiers(facts, ctx.events, Industry, accepted, roots, chain, round) :
             /\ c.chain = chain.id /\ c.src = f.node /\ c.tgt \notin f.visited
             /\ c.horizon = f.horizon /\ c.facts = f.facts /\ c.assess = f.assess
             /\ c.parent = f.parent
<1>1. PICK chain \in ctx.chains :
        c \in UNION {{Candidate(chain, e, f) :
                        e \in {d \in chain.edges : /\ f.node \in {d.src, d.tgt}
                                                   /\ Other(d, f.node) \notin f.visited}} :
                     f \in Frontiers(facts, ctx.events, Industry, accepted, roots, chain, round)}
  BY DEF Moves, Candidates
<1>2. PICK f \in Frontiers(facts, ctx.events, Industry, accepted, roots, chain, round) :
        c \in {Candidate(chain, e, f) :
                 e \in {d \in chain.edges : /\ f.node \in {d.src, d.tgt}
                                            /\ Other(d, f.node) \notin f.visited}}
  BY <1>1
<1>3. PICK e \in chain.edges : c = Candidate(chain, e, f) /\ Other(e, f.node) \notin f.visited
  BY <1>2
<1>4. /\ c.chain = chain.id /\ c.src = f.node /\ c.tgt \notin f.visited
      /\ c.horizon = f.horizon /\ c.facts = f.facts /\ c.assess = f.assess
      /\ c.parent = f.parent
  BY <1>3 DEF Candidate
<1> QED BY <1>4

LEMMA FirstMoves ==
  ASSUME NEW c \in Moves, round = 1
  PROVE  /\ c.parent = NoParent
         /\ c.tgt # c.src
         /\ c.assess \subseteq NodeAssessments(Industry, c.src)
         /\ c.facts \subseteq Ids(Eligible(facts, ctx.events))
<1>1. PICK chain \in ctx.chains :
           \E f \in Frontiers(facts, ctx.events, Industry, accepted, roots, chain, round) :
             /\ c.chain = chain.id /\ c.src = f.node /\ c.tgt \notin f.visited
             /\ c.horizon = f.horizon /\ c.facts = f.facts /\ c.assess = f.assess
             /\ c.parent = f.parent
  BY MovesFromFrontier
<1>2. PICK f \in RootFrontiers(facts, ctx.events, Industry, roots, chain) :
             /\ c.src = f.node /\ c.tgt \notin f.visited
             /\ c.assess = f.assess /\ c.facts = f.facts
             /\ c.parent = f.parent
  BY <1>1 DEF Frontiers
<1>3. PICK n \in roots[chain.id] : \E h :
        f = [node |-> n, horizon |-> h, parent |-> NoParent, visited |-> {n},
             facts  |-> Ids({g \in {u \in Eligible(facts, ctx.events) : Touches(u, n)} : h \in g.hs}),
             assess |-> {x \in NodeAssessments(Industry, n) : h \in x.hs}]
  BY DEF RootFrontiers
<1>4. /\ f.node = n /\ f.visited = {n} /\ f.parent = NoParent
      /\ f.assess \subseteq NodeAssessments(Industry, n)
      /\ f.facts \subseteq Ids(Eligible(facts, ctx.events))
  BY <1>3 DEF Ids
<1> QED BY <1>2, <1>4

LEMMA LaterMoves ==
  ASSUME NEW c \in Moves, round # 1
  PROVE  /\ c.parent \in accepted
         /\ c.parent.hop = round - 1
         /\ c.parent.chain = c.chain /\ c.parent.horizon = c.horizon
         /\ c.parent.tgt = c.src
         /\ c.parent.score >= ContinuationThreshold
         /\ c.tgt \notin VisitedNodes(accepted, c.parent)
<1>1. PICK chain \in ctx.chains :
           \E f \in Frontiers(facts, ctx.events, Industry, accepted, roots, chain, round) :
             /\ c.chain = chain.id /\ c.src = f.node /\ c.tgt \notin f.visited
             /\ c.horizon = f.horizon /\ c.facts = f.facts /\ c.assess = f.assess
             /\ c.parent = f.parent
  BY MovesFromFrontier
<1>2. PICK f \in ContinuedFrontiers(accepted, chain, round) :
             /\ c.chain = chain.id /\ c.src = f.node /\ c.tgt \notin f.visited
             /\ c.horizon = f.horizon
             /\ c.parent = f.parent
  BY <1>1 DEF Frontiers
<1>3. PICK t \in Reached(accepted, chain, round) :
        t.score >= ContinuationThreshold /\ f = Frontier(t, VisitedNodes(accepted, t))
  BY DEF ContinuedFrontiers
<1>4. t \in accepted /\ t.chain = chain.id /\ t.hop = round - 1
  BY DEF Reached
<1>5. /\ f.node = t.tgt /\ f.horizon = t.horizon /\ f.parent = t
      /\ f.visited = VisitedNodes(accepted, t)
  BY <1>3 DEF Frontier
<1> QED BY <1>2, <1>3, <1>4, <1>5

\* A proposal adds at most one transmission, of a conclusion not held before.
LEMMA JudgedProposal ==
  ASSUME NEW A, NEW c, NEW p,
         NEW t \in JudgeProposal(facts, ctx.events, ctx.chains, A, c, p, round)
  PROVE  /\ \E s \in Support(facts, ctx.events, A, c, round) : t = Transmission(c, p, s, round)
         /\ t.score >= InclusionThreshold
         /\ Conclusion(t) \notin Conclusions(A)
         /\ \A u \in JudgeProposal(facts, ctx.events, ctx.chains, A, c, p, round) : u = t
<1>1. \A s1, s2 \in Support(facts, ctx.events, A, c, round) : s1 = s2
  <2>1. CASE round = 1
    BY <2>1 DEF Support, FirstHopSupport
  <2>2. CASE round # 1
    BY <2>2 DEF Support, LaterHopSupport
  <2> QED BY <2>1, <2>2
<1> QED BY <1>1 DEF JudgeProposal

LEMMA EligibleOfMore ==
  ASSUME NEW F, NEW G, NEW V, F \subseteq G
  PROVE  /\ Eligible(F, V) \subseteq Eligible(G, V)
         /\ Ids(Eligible(F, V)) \subseteq Ids(Eligible(G, V))
  BY DEF Eligible, Ids

\* What a first hop rests on.
LEMMA FirstSupport ==
  ASSUME NEW c, NEW s \in FirstHopSupport(facts, ctx.events, c),
         facts \subseteq ctx.facts,
         \A x \in assess : Grounded(x),
         c.assess \subseteq NodeAssessments(Industry, c.src)
  PROVE  /\ s.confs \subseteq Confidence /\ s.confs # {}
         /\ s.upstream = Score[MinimumConfidence(s.confs)]
         /\ s.roots # {} /\ s.roots \subseteq Ids(Eligible(ctx.facts, ctx.events))
         /\ \A f \in Eligible(facts, ctx.events) : f.id \in c.facts => f.conf \in s.confs
         /\ \A x \in c.assess : x.conf \in s.confs
<1> DEFINE cited == {f \in Eligible(facts, ctx.events) : f.id \in c.facts}
           on == {x \in c.assess : x.layer = "INDUSTRY" /\ x.anchor = c.src}
           confs == {f.conf : f \in cited} \cup {x.conf : x \in on}
<1>1. /\ ~(cited = {} /\ on = {})
      /\ s = [roots |-> Ids(cited) \cup UNION {x.signals : x \in on},
              confs |-> confs,
              upstream |-> Score[MinimumConfidence(confs)]]
  BY DEF FirstHopSupport
<1>2. on = c.assess
  BY DEF NodeAssessments
<1>3. \A x \in on : Grounded(x)
  BY <1>2 DEF NodeAssessments, Industry, Targets
<1>4. \A f \in cited : f.conf \in Confidence
  BY DEF Eligible, IsActiveSignal
<1>5. /\ s.roots = Ids(cited) \cup UNION {x.signals : x \in on}
      /\ s.confs = confs
      /\ s.upstream = Score[MinimumConfidence(confs)]
  <2> HIDE DEF confs, cited, on
  <2> QED BY <1>1
<1>6. confs \subseteq Confidence /\ confs # {}
  BY <1>1, <1>3, <1>4 DEF Grounded
<1>7. Ids(cited) \subseteq Ids(Eligible(ctx.facts, ctx.events))
  BY EligibleOfMore DEF Ids
<1>8. s.roots \subseteq Ids(Eligible(ctx.facts, ctx.events))
  <2> HIDE DEF cited, on
  <2> QED BY <1>3, <1>5, <1>7 DEF Grounded
<1>9. s.roots # {}
  <2>1. CASE cited # {}
    BY <2>1, <1>5 DEF Ids
  <2>2. CASE on # {}
    <3> HIDE DEF cited, on
    <3> QED BY <2>2, <1>3, <1>5 DEF Grounded
  <2> QED BY <2>1, <2>2, <1>1
<1> QED BY <1>2, <1>5, <1>6, <1>8, <1>9

\* What a later hop rests on.
LEMMA LaterSupport ==
  ASSUME NEW A, NEW c, NEW s \in LaterHopSupport(facts, ctx.events, A, c, round)
  PROVE  /\ s.confs = {c.parent.conf} /\ s.upstream = c.parent.score
         /\ s.roots = c.parent.roots
  BY DEF LaterHopSupport

\* What a proposal adds is admitted and has a path.
LEMMA NewIsAdmitted ==
  ASSUME PhaseInv, \A x \in assess : Grounded(x), PathInv, round \in 1 .. MaxHops,
         NEW A, NEW c \in Moves, NEW p \in Proposals,
         NEW t \in JudgeProposal(facts, ctx.events, ctx.chains, A, c, p, round)
  PROVE  Admitted(t) /\ Pathed(t)
<1>1. PICK s \in Support(facts, ctx.events, A, c, round) : t = Transmission(c, p, s, round)
  BY JudgedProposal
<1>2. /\ t.chain = c.chain /\ t.src = c.src /\ t.tgt = c.tgt
      /\ t.horizon = c.horizon /\ t.facts = c.facts /\ t.assess = c.assess
      /\ t.parent = c.parent /\ t.hop = round /\ t.roots = s.roots
      /\ t.score = PathScore(s.upstream, p.conf, p.assume)
  BY <1>1, TransmissionFields
<1>3. t.score >= InclusionThreshold
  BY JudgedProposal
<1>4. p.conf \in Confidence /\ p.assume \in Nat
  BY ProposalsAssumption
<1>5. NoParent \notin accepted
  BY DEF PathInv, All, Admitted, NoParent
<1>6. CASE round = 1
  <2>1. /\ c.parent = NoParent /\ c.tgt # c.src
        /\ c.assess \subseteq NodeAssessments(Industry, c.src)
        /\ c.facts \subseteq Ids(Eligible(facts, ctx.events))
    BY <1>6, FirstMoves
  <2>2. s \in FirstHopSupport(facts, ctx.events, c)
    BY <1>6 DEF Support
  <2>3. /\ s.confs \subseteq Confidence /\ s.confs # {}
        /\ s.upstream = Score[MinimumConfidence(s.confs)]
        /\ s.roots # {} /\ s.roots \subseteq Ids(Eligible(ctx.facts, ctx.events))
        /\ \A f \in Eligible(facts, ctx.events) : f.id \in c.facts => f.conf \in s.confs
        /\ \A x \in c.assess : x.conf \in s.confs
    BY <2>1, <2>2, FirstSupport DEF PhaseInv
  <2>4. s.upstream \in Int
    BY <2>3, ConfidenceOfLabels, ScoreOfLabel
  <2>5. t.score \in InclusionThreshold .. 10000
    <3>1. /\ PathScore(s.upstream, p.conf, p.assume) \in Int
          /\ PathScore(s.upstream, p.conf, p.assume) <= 10000
      BY <1>4, <2>4, ScoreBounds
    <3>2. t.score \in Int /\ t.score <= 10000
      BY <3>1, <1>2
    <3> QED BY <3>2, <1>3, ScoreInScale
  <2>6. t.conf \in {"LOW", "MEDIUM"}
    BY <1>1, <1>4, <2>3, TransmissionConfidence
  <2>7. ASSUME t.score >= ContinuationThreshold
        PROVE  Firm(t)
    <3>1. s.upstream # Score["LOW"]
      <4> SUFFICES ASSUME s.upstream = Score["LOW"] PROVE FALSE
        OBVIOUS
      <4>1. /\ PathScore(s.upstream, p.conf, p.assume) \in Int
            /\ PathScore(s.upstream, p.conf, p.assume) < ContinuationThreshold
        BY <1>4, <2>4, ScoreBounds
      <4>2. t.score \in Int /\ t.score < ContinuationThreshold
        BY <4>1, <1>2
      <4>3. ContinuationThreshold \in Int
        BY DEF ContinuationThreshold
      <4> QED BY <4>2, <4>3, <2>7
    <3>2. "LOW" \notin s.confs
      BY <3>1, <2>3, LowIsLeast
    <3>3. ASSUME NEW f \in facts, f.id \in c.facts
          PROVE  f \in Eligible(facts, ctx.events)
      <4>1. PICK g \in Eligible(facts, ctx.events) : g.id = f.id
        BY <2>1, <3>3 DEF Ids
      <4>2. g \in ctx.facts /\ f \in ctx.facts /\ ctx \in Contexts
        BY <4>1 DEF PhaseInv, Eligible
      <4> QED BY <4>1, <4>2, ContextsAssumption
    <3> QED BY <3>2, <3>3, <2>3, <1>2 DEF Firm
  <2>8. Admitted(t)
    BY <1>2, <1>6, <2>1, <2>3, <2>5, <2>6, <2>7 DEF Admitted
  <2>9. VisitedNodes(accepted, t) = {c.src, c.tgt} /\ Ancestors(accepted, t) = {t}
    BY <1>2, <1>5, <2>1, VisitedByFirst, AncestorsOfFirst
  <2>10. IsFiniteSet({c.src, c.tgt}) /\ Cardinality({c.src, c.tgt}) = 2
    <3>1. IsFiniteSet({c.src}) /\ Cardinality({c.src}) = 1
      BY FS_Singleton
    <3>2. {c.src} \cup {c.tgt} = {c.src, c.tgt} /\ c.tgt \notin {c.src}
      BY <2>1
    <3>3. /\ IsFiniteSet({c.src} \cup {c.tgt})
          /\ Cardinality({c.src} \cup {c.tgt}) = 1 + 1
      BY <3>1, <3>2, FS_AddElement
    <3> QED BY <3>2, <3>3
  <2> QED BY <1>2, <1>6, <2>8, <2>9, <2>10 DEF Pathed
<1>7. CASE round # 1
  <2> DEFINE u == c.parent
  <2>1. /\ u \in accepted /\ u.hop = round - 1
        /\ u.chain = c.chain /\ u.horizon = c.horizon /\ u.tgt = c.src
        /\ u.score >= ContinuationThreshold
        /\ c.tgt \notin VisitedNodes(accepted, u)
    BY <1>7, LaterMoves
  <2>2. s \in LaterHopSupport(facts, ctx.events, A, c, round)
    BY <1>7 DEF Support
  <2>3. s.confs = {u.conf} /\ s.upstream = u.score /\ s.roots = u.roots
    BY <2>2, LaterSupport
  <2>4. Admitted(u) /\ Pathed(u)
    BY <2>1 DEF PathInv, All
  <2> HIDE DEF u
  <2>5. u.conf \in Confidence \ {"HIGH"} /\ u.score \in Int
    <3>1. u.conf \in {"LOW", "MEDIUM"} /\ u.score \in InclusionThreshold .. 10000
      BY <2>4 DEF Admitted
    <3>2. InclusionThreshold \in Int
      BY DEF InclusionThreshold
    <3>3. u.score \in Int
      BY <3>1, <3>2
    <3>4. u.conf \in Confidence \ {"HIGH"}
      BY <3>1 DEF Confidence
    <3> QED BY <3>3, <3>4
  <2>6. t.score \in InclusionThreshold .. 10000
    <3>1. /\ PathScore(u.score, p.conf, p.assume) \in Int
          /\ PathScore(u.score, p.conf, p.assume) <= 10000
      <4>1. u.score \in Int
        BY <2>5
      <4> QED BY <1>4, <4>1, ScoreBounds
    <3>2. t.score \in Int /\ t.score <= 10000
      BY <3>1, <1>2, <2>3
    <3> QED BY <3>2, <1>3, ScoreInScale
  <2>7. t.conf = "LOW"
    BY <1>1, <1>4, <2>3, <2>5, TransmissionConfidence
  <2>8. t.parent = u /\ t.hop = round /\ t.hop > 1
    BY <1>2, <1>7 DEF u
  <2>9. Admitted(t)
    BY <1>2, <2>1, <2>3, <2>4, <2>6, <2>7, <2>8 DEF Admitted, Continues
  <2>10. VisitedNodes(accepted, t) = VisitedNodes(accepted, u) \cup {c.tgt}
    BY <1>2, <2>1, <2>8, VisitedByNext, EndsAreVisited
  <2>11. /\ IsFiniteSet(VisitedNodes(accepted, t))
         /\ Cardinality(VisitedNodes(accepted, t)) = u.hop + 1 + 1
    BY <2>1, <2>4, <2>10, FS_AddElement DEF Pathed
  <2>12. \E v \in Ancestors(accepted, t) : v.hop = 1
    BY <2>1, <2>4, <2>8, AncestorsOfNext DEF Pathed
  <2>13. u.hop + 1 + 1 = t.hop + 1
    BY <2>1, <2>8
  <2> QED BY <2>9, <2>11, <2>12, <2>13 DEF Pathed
<1> QED BY <1>6, <1>7

-----------------------------------------------------------------------------
(* Phases.                                                                 *)

LEMMA PhaseInit == Init => PhaseInv
<1> SUFFICES ASSUME Init PROVE PhaseInv
  OBVIOUS
<1>1. 0 \in 0 .. MaxHops
  BY MaxHopsAssumption
<1>2. All = {} /\ cross.flagged = {}
  BY DEF Init, All, NoCross
<1> QED BY <1>1, <1>2 DEF Init, PhaseInv, Before

LEMMA AfterLayerPhase ==
  ASSUME NEW l, AfterLayer(l)
  PROVE  phase' \in {"expand", "assess"} /\ layer' \in {"MACRO_ECONOMIC", "INDUSTRY"}
  BY DEF AfterLayer

\* The end of a round: what is added joins the accepted, the next round or the
\* synthesis follows.
LEMMA RoundEnds ==
  ASSUME NEW added, FinishRound(added), round \in 1 .. MaxHops
  PROVE  /\ phase' \in {"synthesize", "enumerate"} /\ round' \in 1 .. MaxHops
         /\ accepted' = accepted \cup added
         /\ fresh' = {} /\ flagged' = {} /\ fixed' = {}
<1>1. CASE round = MaxHops
  BY <1>1, MaxHopsAssumption DEF FinishRound
<1>2. CASE round # MaxHops
  <2>1. round' = round + 1 /\ phase' = "enumerate"
    BY <1>2 DEF FinishRound
  <2>2. round' \in 1 .. MaxHops
    BY <1>2, <2>1, MaxHopsAssumption
  <2> QED BY <2>1, <2>2 DEF FinishRound
<1> QED BY <1>1, <1>2

LEMMA StartRoundPhase ==
  ASSUME StartRound
  PROVE  phase' \in {"failed", "synthesize", "propose"}
<1> DEFINE long == \E c \in Moves : TooLong(c)
<1>1. phase' = CASE long -> "failed"
                 [] Moves = {} -> "synthesize"
                 [] OTHER -> "propose"
  BY Zenon DEF StartRound
<1>2. long => Moves # {}
  OBVIOUS
<1> HIDE DEF long
<1>3. CASE long
  BY <1>1, <1>2, <1>3, Zenon
<1>4. CASE ~long /\ Moves = {}
  BY <1>1, <1>4, Zenon
<1>5. CASE ~long /\ Moves # {}
  BY <1>1, <1>5, Zenon
<1> QED BY <1>3, <1>4, <1>5

LEMMA PhaseStep == PhaseInv /\ [Next]_vars => PhaseInv'
<1> SUFFICES ASSUME PhaseInv, [Next]_vars PROVE PhaseInv'
  OBVIOUS
<1> DEFINE Later == {"enumerate", "propose", "repair", "synthesize", "gate",
                     "resynthesize", "regate", "done", "failed"}
<1>0. ASSUME phase \notin Before PROVE round \in 1 .. MaxHops
  BY <1>0, MaxHopsAssumption DEF PhaseInv
<1>1. CASE AssessLayer
  <2>1. /\ phase = "assess" /\ UNCHANGED <<ctx, crossVars, topologyVars, draft, verdict>>
        /\ phase' \in {"relate", "expand", "assess"}
        /\ layer' \in {layer, "MACRO_ECONOMIC", "INDUSTRY"}
        /\ phase' = "relate" => layer' # "GEOPOLITICAL"
    BY <1>1, AfterLayerPhase DEF AssessLayer
  <2> QED BY <2>1 DEF PhaseInv, Before, All, crossVars, topologyVars
<1>2. ASSUME NEW p \in CrossProposals, RelateLayers(p) PROVE PhaseInv'
  <2>1. /\ phase = "relate"
        /\ UNCHANGED <<ctx, phase, layer, assess, related, topologyVars, draft, verdict>>
    BY <1>2 DEF RelateLayers
  <2>2. PICK i : cross' = IF i.relation = "CANDIDATE"
                THEN [cross EXCEPT !.candidates = @ \cup {i}]
                ELSE [cross EXCEPT !.accepted = @ \cup {i}]
    BY <1>2 DEF RelateLayers
  <2>3. cross'.flagged = cross.flagged
    BY <2>2
  <2> QED BY <2>1, <2>3 DEF PhaseInv, Before, All, topologyVars
<1>3. ASSUME NEW p \in CrossProposals, RepairRelation(p) PROVE PhaseInv'
  BY <1>3 DEF RepairRelation, PhaseInv, Before, All, topologyVars
<1>4. CASE ReviewRelations
  <2>1. /\ phase = "relate" /\ UNCHANGED <<ctx, assess, topologyVars, draft, verdict>>
        /\ \/ phase' = "repairRelations" /\ layer' = layer
           \/ /\ phase' \in {"expand", "assess"} /\ layer' \in {"MACRO_ECONOMIC", "INDUSTRY"}
              /\ cross' = NoCross
    BY <1>4, AfterLayerPhase DEF ReviewRelations, FinishRelations
  <2> QED BY <2>1 DEF PhaseInv, Before, All, topologyVars, NoCross
<1>5. CASE SettleRelations
  <2>1. /\ phase = "repairRelations" /\ UNCHANGED <<ctx, assess, topologyVars, draft, verdict>>
        /\ phase' \in {"expand", "assess"} /\ layer' \in {"MACRO_ECONOMIC", "INDUSTRY"}
        /\ cross' = NoCross
    BY <1>5, AfterLayerPhase DEF SettleRelations, FinishRelations
  <2> QED BY <2>1 DEF PhaseInv, Before, All, topologyVars, NoCross
<1>6. CASE ExpandIndustry
  <2>1. 1 \in 0 .. MaxHops
    BY MaxHopsAssumption
  <2>2. /\ phase = "expand" /\ phase' \in {"enumerate", "synthesize"} /\ round' = 1
        /\ facts' \subseteq ctx.facts
        /\ UNCHANGED <<ctx, layer, assess, crossVars, accepted, fresh, flagged, fixed,
                       draft, verdict>>
    BY <1>6 DEF ExpandIndustry
  <2>3. All' = {} /\ accepted' = {}
    BY <2>2 DEF PhaseInv, Before, All
  <2> QED BY <2>1, <2>2, <2>3 DEF PhaseInv, Before, crossVars
<1>7. CASE StartRound
  <2>1. phase' \in {"failed", "synthesize", "propose"}
    BY <1>7, StartRoundPhase
  <2>2. /\ phase = "enumerate"
        /\ UNCHANGED <<ctx, layer, assess, crossVars, topologyVars, draft, verdict>>
    BY <1>7 DEF StartRound
  <2> QED BY <2>1, <2>2 DEF PhaseInv, Before, All, crossVars, topologyVars
<1>8. ASSUME NEW c \in Moves, NEW p \in Proposals, Propose(c, p) PROVE PhaseInv'
  <2>1. /\ phase = "propose" /\ phase' \in {"failed", "propose"}
        /\ UNCHANGED <<ctx, layer, assess, crossVars, facts, roots, round, accepted, flagged,
                       fixed, draft, verdict>>
    BY <1>8 DEF Propose
  <2> QED BY <2>1 DEF PhaseInv, Before, crossVars
<1>9. ASSUME NEW c \in Moves, NEW p \in Proposals, Repair(c, p) PROVE PhaseInv'
  <2>1. /\ phase = "repair"
        /\ UNCHANGED <<ctx, phase, layer, assess, crossVars, facts, roots, round, accepted,
                       fresh, flagged, draft, verdict>>
    BY <1>9 DEF Repair
  <2> QED BY <2>1 DEF PhaseInv, Before, crossVars
<1>10. CASE ReviewRound
  <2>1. /\ phase = "propose"
        /\ UNCHANGED <<ctx, layer, assess, crossVars, facts, roots, draft, verdict>>
        /\ \/ FinishRound(fresh)
           \/ phase' = "repair" /\ UNCHANGED round
    BY <1>10 DEF ReviewRound
  <2>2. round \in 1 .. MaxHops
    BY <2>1, <1>0 DEF Before
  <2>3. CASE FinishRound(fresh)
    BY <2>1, <2>2, <2>3, RoundEnds DEF PhaseInv, Before, All, crossVars
  <2>4. CASE phase' = "repair" /\ UNCHANGED round
    BY <2>1, <2>4 DEF PhaseInv, Before, crossVars
  <2> QED BY <2>1, <2>3, <2>4
<1>11. CASE SettleRound
  <2>1. PICK kept \in SUBSET fixed : FinishRound(fresh \cup kept)
    BY <1>11 DEF SettleRound
  <2>2. phase = "repair" /\ UNCHANGED <<ctx, layer, assess, crossVars, facts, roots, draft, verdict>>
    BY <1>11 DEF SettleRound
  <2>3. round \in 1 .. MaxHops
    BY <2>2, <1>0 DEF Before
  <2> QED BY <2>1, <2>2, <2>3, RoundEnds DEF PhaseInv, Before, All, crossVars
<1>12. CASE Synthesize
  BY <1>12 DEF Synthesize, PhaseInv, Before, All, crossVars, topologyVars
<1>13. CASE Gate
  BY <1>13 DEF Gate, PhaseInv, Before, All, crossVars, topologyVars
<1>14. CASE RepairDraft
  BY <1>14 DEF RepairDraft, PhaseInv, Before, All, crossVars, topologyVars
<1>15. CASE Regate
  BY <1>15 DEF Regate, PhaseInv, Before, All, crossVars, topologyVars
<1>16. CASE UNCHANGED vars
  BY <1>16 DEF vars, PhaseInv, All, crossVars, topologyVars
<1> QED
  BY <1>1, <1>2, <1>3, <1>4, <1>5, <1>6, <1>7, <1>8, <1>9, <1>10, <1>11, <1>12, <1>13, <1>14,
     <1>15, <1>16 DEF Next

-----------------------------------------------------------------------------
(* Assessments and cross-layer items.                                      *)

\* Every assessment that is built rests on attached Signals.
LEMMA BuiltAreGrounded ==
  ASSUME NEW heard, NEW proposal \in [heard -> LayerProposals],
         NEW x \in BuildLayerAssessments(ctx.facts, ctx.events, ctx.anchors, layer, proposal)
  PROVE  Grounded(x)
<1>1. PICK a : /\ AttachedSignals(ctx.facts, ctx.events, a) # {}
               /\ x = LayerAssessment(layer, a, AttachedSignals(ctx.facts, ctx.events, a),
                                      ctx.events, proposal)
  BY DEF BuildLayerAssessments
<1> DEFINE S == AttachedSignals(ctx.facts, ctx.events, a)
           labels == {f.conf : f \in S}
<1>2. S \subseteq Eligible(ctx.facts, ctx.events)
  BY DEF AttachedSignals
<1>3. \A f \in S : f.events \cap ctx.events # {} /\ f.conf \in Confidence
  BY <1>2 DEF Eligible, IsActiveSignal
<1> HIDE DEF S
<1>4. x.signals = Ids(S) /\ x.events = (UNION {f.events : f \in S}) \cap ctx.events
  BY <1>1 DEF LayerAssessment, S
<1>5. x.signals # {} /\ x.signals \subseteq Ids(Eligible(ctx.facts, ctx.events))
  BY <1>1, <1>2, <1>4 DEF Ids, S
<1>6. x.events # {} /\ x.events \subseteq ctx.events
  <2>1. S # {}
    BY <1>1 DEF S
  <2>2. PICK f \in S, v \in ctx.events : v \in f.events
    BY <2>1, <1>3
  <2>3. v \in x.events
    BY <2>2, <1>4
  <2> QED BY <2>3, <1>4
<1>7. MinimumConfidence(labels) \in Confidence
  BY <1>3, ConfidenceOfLabels
<1>8. a.id \in DOMAIN proposal => proposal[a.id].conf \in Confidence
  BY ProposalsAssumption
<1>9. x.conf \in Confidence
  <2>1. CASE a.id \in DOMAIN proposal
    BY <2>1, <1>7, <1>8, <1>1 DEF LayerAssessment, S
  <2>2. CASE a.id \notin DOMAIN proposal
    <3>1. x.conf = MinimumConfidence(labels)
      BY <2>2, <1>1 DEF LayerAssessment, S
    <3> QED BY <3>1, <1>7
  <2> QED BY <2>1, <2>2
<1> QED BY <1>5, <1>6, <1>9 DEF Grounded

\* What is judged of a pair relates two assessments through ordinary Facts.
LEMMA JudgedIsRelated ==
  ASSUME NEW p \in CrossProposals, NEW i \in JudgeCrossLayer(ctx.facts, p),
         layer \in {"MACRO_ECONOMIC", "INDUSTRY"}
  PROVE  /\ Related(i)
         /\ i.s = p.s /\ i.t = p.t
<1>1. /\ p.s \in assess /\ p.t \in assess
      /\ p.t.layer = layer
      /\ layer # "INDUSTRY" => p.s.layer = "GEOPOLITICAL"
  BY DEF CrossProposals, Sources, Targets
<1>2. PICK mech, conf, relation :
        /\ i = CrossItem(p, mech, conf, relation)
        /\ mech \subseteq Ids({f \in ctx.facts : f.kind = "ORDINARY"})
  <2> DEFINE conf0 == MinimumConfidence({p.conf, p.s.conf, p.t.conf})
  <2>1. CASE Bridges(ctx.facts, p) # {}
    <3>1. PICK f \in Bridges(ctx.facts, p) : i = CrossItem(p, {f.id}, conf0, "CROSS_LAYER")
      BY <2>1 DEF JudgeCrossLayer
    <3>2. {f.id} \subseteq Ids({g \in ctx.facts : g.kind = "ORDINARY"})
      BY DEF Bridges, Ids
    <3> QED BY <3>1, <3>2
  <2>2. CASE Bridges(ctx.facts, p) = {} /\ p.s.events \cap p.t.events # {}
    <3>1. i = CrossItem(p, {}, Degrade(conf0), "SAME_SOURCE_SIGNAL")
      BY <2>2 DEF JudgeCrossLayer
    <3> QED BY <3>1
  <2>3. CASE Bridges(ctx.facts, p) = {} /\ p.s.events \cap p.t.events = {}
    <3>1. i = CrossItem(p, {}, Degrade(conf0), "CANDIDATE")
      BY <2>3 DEF JudgeCrossLayer
    <3> QED BY <3>1
  <2> QED BY <2>1, <2>2, <2>3
<1>3. i = [s |-> p.s, t |-> p.t, mech |-> mech, conf |-> conf, relation |-> relation]
  BY <1>2 DEF CrossItem
<1>4. i.s = p.s /\ i.t = p.t /\ i.mech = mech /\ i.conf = conf /\ i.relation = relation
  BY <1>3
<1> QED BY <1>1, <1>2, <1>3, <1>4 DEF Related

\* An item that is dropped stays an item of the same pair.
LEMMA DroppedIsRelated ==
  ASSUME NEW i, Related(i)
  PROVE  Related(Dropped(i)) /\ Pair(Dropped(i)) = Pair(i)
<1>1. i = [s |-> i.s, t |-> i.t, mech |-> i.mech, conf |-> i.conf, relation |-> i.relation]
  BY DEF Related
<1>2. Dropped(i) = [s |-> i.s, t |-> i.t, mech |-> i.mech, conf |-> i.conf,
                    relation |-> "CANDIDATE"]
  BY <1>1 DEF Dropped
<1> HIDE DEF Dropped
<1>3. /\ Dropped(i).s = i.s /\ Dropped(i).t = i.t /\ Dropped(i).mech = i.mech
      /\ Dropped(i).conf = i.conf /\ Dropped(i).relation = "CANDIDATE"
  BY <1>2
<1> QED BY <1>2, <1>3 DEF Related, Pair

LEMMA UpperInit == Init => UpperInv
  BY DEF Init, UpperInv, NoCross, Items

\* A layer's items join those of the run and its relation pass is cleared.
LEMMA RelationsEnd ==
  ASSUME NEW done, FinishRelations(done)
  PROVE  /\ Items' = related \cup done.accepted \cup done.candidates
         /\ related' = related \cup done.accepted \cup done.candidates
         /\ DOMAIN cross' = {"accepted", "candidates", "flagged", "fixed", "again"}
<1>1. related' = related \cup done.accepted \cup done.candidates /\ cross' = NoCross
  BY DEF FinishRelations
<1>2. /\ cross'.accepted = {} /\ cross'.candidates = {} /\ cross'.flagged = {}
      /\ cross'.fixed = {} /\ cross'.again = {}
      /\ DOMAIN cross' = {"accepted", "candidates", "flagged", "fixed", "again"}
  BY <1>1 DEF NoCross
<1> QED BY <1>1, <1>2 DEF Items

\* What settling makes of a relation pass.
LEMMA SettledFields ==
  ASSUME UpperInv, NEW kept
  PROVE  /\ SettledRelations(kept).accepted = cross.accepted \cup kept
         /\ SettledRelations(kept).candidates =
              cross.candidates \cup cross.again
                \cup {Dropped(i) : i \in {j \in cross.flagged : Pair(j) \notin Pairs(kept)}}
<1> DEFINE X == cross.candidates \cup cross.again
                \cup {Dropped(i) : i \in {j \in cross.flagged : Pair(j) \notin Pairs(kept)}}
<1>1. SettledRelations(kept) = [cross EXCEPT !.accepted = cross.accepted \cup kept, !.candidates = X]
  BY DEF SettledRelations
<1> HIDE DEF X
<1>2. /\ SettledRelations(kept).accepted = cross.accepted \cup kept
      /\ SettledRelations(kept).candidates = X
  BY <1>1 DEF UpperInv
<1> QED BY <1>2 DEF X

LEMMA UpperStep == PhaseInv /\ UpperInv /\ [Next]_vars => UpperInv'
<1> SUFFICES ASSUME PhaseInv, UpperInv, [Next]_vars PROVE UpperInv'
  OBVIOUS
<1> DEFINE Shape == {"accepted", "candidates", "flagged", "fixed", "again"}
<1>0. ASSUME ctx' = ctx, assess \subseteq assess', NEW i, Related(i)
      PROVE  Related(i)'
  BY <1>0 DEF Related
<1>a. ASSUME ctx' = ctx, NEW x, Grounded(x)
      PROVE  Grounded(x)'
  BY <1>a DEF Grounded
<1>b. ASSUME UNCHANGED <<ctx, assess>>, DOMAIN cross' = Shape,
             \A i \in Items' : Related(i)
      PROVE  UpperInv'
  BY <1>b, <1>0, <1>a DEF UpperInv
<1>c. ASSUME UNCHANGED <<ctx, assess, crossVars>>
      PROVE  UpperInv'
  BY <1>c, <1>b DEF crossVars, UpperInv, Items
<1>1. CASE AssessLayer
  <2>0. PICK heard \in SUBSET Ids(LayerAnchors(layer)) :
          \E proposal \in [heard -> LayerProposals] :
            assess' = assess \cup BuildLayerAssessments(ctx.facts, ctx.events, ctx.anchors,
                                                        layer, proposal)
    BY <1>1 DEF AssessLayer
  <2>1. PICK proposal \in [heard -> LayerProposals] :
          assess' = assess \cup BuildLayerAssessments(ctx.facts, ctx.events, ctx.anchors,
                                                      layer, proposal)
    BY <2>0
  <2>2. UNCHANGED <<ctx, crossVars>>
    BY <1>1 DEF AssessLayer
  <2>3. \A x \in assess' : Grounded(x)
    BY <2>1, BuiltAreGrounded DEF UpperInv
  <2>4. Items' = Items /\ cross' = cross
    BY <2>2 DEF Items, crossVars
  <2> QED BY <2>1, <2>2, <2>3, <2>4, <1>0, <1>a DEF UpperInv
<1>2. ASSUME NEW p \in CrossProposals, RelateLayers(p) PROVE UpperInv'
  <2>1. PICK i \in JudgeCrossLayer(ctx.facts, p) :
          cross' = IF i.relation = "CANDIDATE"
                   THEN [cross EXCEPT !.candidates = @ \cup {i}]
                   ELSE [cross EXCEPT !.accepted = @ \cup {i}]
    BY <1>2 DEF RelateLayers
  <2>2. UNCHANGED <<ctx, assess, related>>
    BY <1>2 DEF RelateLayers
  <2>3. layer \in {"MACRO_ECONOMIC", "INDUSTRY"}
    BY <1>2 DEF RelateLayers, PhaseInv
  <2>4. Related(i)
    BY <2>3, JudgedIsRelated
  <2>5. DOMAIN cross' = Shape /\ Items' \subseteq Items \cup {i}
    BY <2>1, <2>2 DEF UpperInv, Items
  <2> QED BY <2>2, <2>5, <2>4, <1>b DEF UpperInv
<1>3. ASSUME NEW p \in CrossProposals, RepairRelation(p) PROVE UpperInv'
  <2>1. PICK i \in JudgeCrossLayer(ctx.facts, p) :
          cross' = IF i.relation = "CANDIDATE"
                   THEN [cross EXCEPT !.again = @ \cup {i}]
                   ELSE [cross EXCEPT !.fixed = @ \cup {i}]
    BY <1>3 DEF RepairRelation
  <2>2. UNCHANGED <<ctx, assess, related>>
    BY <1>3 DEF RepairRelation
  <2>3. layer \in {"MACRO_ECONOMIC", "INDUSTRY"}
    BY <1>3 DEF RepairRelation, PhaseInv
  <2>4. Related(i)
    BY <2>3, JudgedIsRelated
  <2>5. DOMAIN cross' = Shape /\ Items' \subseteq Items \cup {i}
    BY <2>1, <2>2 DEF UpperInv, Items
  <2> QED BY <2>2, <2>5, <2>4, <1>b DEF UpperInv
<1>4. CASE ReviewRelations
  <2>1. UNCHANGED <<ctx, assess>>
    BY <1>4 DEF ReviewRelations
  <2>2. PICK bad \in SUBSET cross.accepted :
          \/ FinishRelations(cross)
          \/ /\ cross' = [cross EXCEPT !.accepted = @ \ bad, !.flagged = bad]
             /\ UNCHANGED related
    BY <1>4 DEF ReviewRelations
  <2>3. CASE FinishRelations(cross)
    BY <2>1, <2>3, <1>b, RelationsEnd DEF UpperInv, Items
  <2>4. CASE /\ cross' = [cross EXCEPT !.accepted = @ \ bad, !.flagged = bad]
             /\ UNCHANGED related
    <3>1. DOMAIN cross' = Shape /\ Items' \subseteq Items
      BY <2>4 DEF UpperInv, Items
    <3> QED BY <2>1, <3>1, <1>b DEF UpperInv
  <2> QED BY <2>2, <2>3, <2>4
<1>5. CASE SettleRelations
  <2>1. UNCHANGED <<ctx, assess>>
    BY <1>5 DEF SettleRelations
  <2>2. PICK kept \in SUBSET cross.fixed : FinishRelations(SettledRelations(kept))
    BY <1>5 DEF SettleRelations
  <2>3. DOMAIN cross' = Shape
    BY <2>2, RelationsEnd
  <2>4. Items' = related \cup SettledRelations(kept).accepted \cup SettledRelations(kept).candidates
    BY <2>2, RelationsEnd
  <2>5. \A i \in Items' : i \in Items \/ \E j \in cross.flagged : i = Dropped(j)
    BY <2>4, SettledFields DEF Items
  <2>6. \A j \in cross.flagged : Related(Dropped(j))
    BY DroppedIsRelated DEF UpperInv, Items
  <2> QED BY <2>1, <2>3, <2>5, <2>6, <1>b DEF UpperInv
<1>6. CASE ExpandIndustry
  BY <1>6, <1>c DEF ExpandIndustry
<1>7. CASE StartRound
  BY <1>7, <1>c DEF StartRound
<1>8. ASSUME NEW c \in Moves, NEW p \in Proposals, Propose(c, p) PROVE UpperInv'
  BY <1>8, <1>c DEF Propose
<1>9. ASSUME NEW c \in Moves, NEW p \in Proposals, Repair(c, p) PROVE UpperInv'
  BY <1>9, <1>c DEF Repair
<1>10. CASE ReviewRound
  BY <1>10, <1>c DEF ReviewRound
<1>11. CASE SettleRound
  BY <1>11, <1>c DEF SettleRound
<1>12. CASE Synthesize
  BY <1>12, <1>c DEF Synthesize
<1>13. CASE Gate
  BY <1>13, <1>c DEF Gate
<1>14. CASE RepairDraft
  BY <1>14, <1>c DEF RepairDraft
<1>15. CASE Regate
  BY <1>15, <1>c DEF Regate
<1>16. CASE UNCHANGED vars
  BY <1>16, <1>c DEF vars
<1> QED
  BY <1>1, <1>2, <1>3, <1>4, <1>5, <1>6, <1>7, <1>8, <1>9, <1>10, <1>11, <1>12, <1>13, <1>14,
     <1>15, <1>16 DEF Next

-----------------------------------------------------------------------------
(* Paths and conclusions.                                                  *)

LEMMA PathInit == Init => PathInv /\ OneConclusionPerKey
  BY DEF Init, PathInv, All, OneConclusionPerKey

\* What is admitted and has a path keeps both while the accepted grow.
LEMMA PathsStay ==
  ASSUME PathInv, ctx' = ctx, facts' = facts,
         accepted \subseteq accepted', accepted' \subseteq All,
         NEW t \in All
  PROVE  Admitted(t)' /\ Pathed(t)'
<1>1. \A v \in All : Admitted(v)
  BY DEF PathInv
<1>2. \A v \in All : v.hop \in 1 .. MaxHops
  BY <1>1 DEF Admitted
<1>3. NoParent \notin accepted'
  <2>1. NoParent.hop = 0
    BY DEF NoParent
  <2> QED BY <1>2, <2>1
<1>4. \A v \in accepted \cup {t} : v \in All
  BY DEF All
<1>5. ASSUME NEW v \in accepted \cup {t}, v.parent \in accepted'
      PROVE  v.parent \in accepted
  <2>1. Admitted(v) /\ v.hop \in 1 .. MaxHops
    BY <1>1, <1>2, <1>4
  <2>2. v.hop # 1
    BY <2>1, <1>3, <1>5 DEF Admitted
  <2>3. v.hop > 1
    BY <2>1, <2>2, MaxHopsAssumption
  <2> QED BY <2>1, <2>3 DEF Admitted
<1>6. Ancestors(accepted', t) = Ancestors(accepted, t)
  BY <1>5, AncestorsAreStable
<1>7. VisitedNodes(accepted', t) = VisitedNodes(accepted, t)
  BY <1>6 DEF VisitedNodes
<1>8. Pathed(t)'
  BY <1>6, <1>7 DEF PathInv, Pathed
<1>9. Admitted(t)'
  <2>1. Firm(t) => Firm(t)'
    BY DEF Firm
  <2>2. Continues(t, t.parent) => Continues(t, t.parent)'
    BY DEF Continues
  <2> QED BY <1>1, <2>1, <2>2 DEF Admitted
<1> QED BY <1>8, <1>9

LEMMA PathsKept ==
  ASSUME PathInv, ctx' = ctx, facts' = facts,
         accepted \subseteq accepted', accepted' \subseteq All, All' \subseteq All
  PROVE  PathInv'
  BY PathsStay DEF PathInv

\* A proposal that adds transmissions to the round's work adds sound ones.
LEMMA PathsAdded ==
  ASSUME PhaseInv, UpperInv, PathInv, phase \notin Before,
         UNCHANGED <<ctx, facts, accepted>>,
         NEW A, NEW c \in Moves, NEW p \in Proposals,
         All' \subseteq All \cup JudgeProposal(facts, ctx.events, ctx.chains, A, c, p, round)
  PROVE  PathInv'
<1>1. round \in 1 .. MaxHops
  BY MaxHopsAssumption DEF PhaseInv
<1>2. \A x \in assess : Grounded(x)
  BY DEF UpperInv
<1>3. accepted' \subseteq All
  BY DEF All
<1>4. ASSUME NEW t \in JudgeProposal(facts, ctx.events, ctx.chains, A, c, p, round)
      PROVE  Admitted(t)' /\ Pathed(t)'
  <2>1. Admitted(t) /\ Pathed(t)
    BY <1>1, <1>2, NewIsAdmitted
  <2>2. Admitted(t)'
    <3>1. Firm(t) => Firm(t)'
      BY DEF Firm
    <3> QED BY <2>1, <3>1 DEF Admitted, Continues
  <2>3. Pathed(t)'
    BY <2>1 DEF Pathed
  <2> QED BY <2>2, <2>3
<1>5. \A t \in All : Admitted(t)' /\ Pathed(t)'
  BY <1>3, PathsStay
<1> QED BY <1>4, <1>5 DEF PathInv

LEMMA ConclusionsAdded ==
  ASSUME NEW A, NEW B, NEW c, NEW p,
         \A t, u \in A : Conclusion(t) = Conclusion(u) => t = u,
         B = A \cup JudgeProposal(facts, ctx.events, ctx.chains, A, c, p, round)
  PROVE  \A t, u \in B : Conclusion(t) = Conclusion(u) => t = u
<1> DEFINE new == JudgeProposal(facts, ctx.events, ctx.chains, A, c, p, round)
<1>1. \A t \in new : \A u \in A : Conclusion(t) # Conclusion(u)
  BY JudgedProposal DEF Conclusions
<1>2. \A t, u \in new : t = u
  BY JudgedProposal
<1> HIDE DEF new
<1> QED BY <1>1, <1>2 DEF new

LEMMA PathStep ==
  PhaseInv /\ UpperInv /\ PathInv /\ OneConclusionPerKey /\ [Next]_vars
    => PathInv' /\ OneConclusionPerKey'
<1> SUFFICES ASSUME PhaseInv, UpperInv, PathInv, OneConclusionPerKey, [Next]_vars
             PROVE  PathInv' /\ OneConclusionPerKey'
  OBVIOUS
<1>0. ASSUME UNCHANGED <<ctx, facts>>, accepted \subseteq accepted',
             accepted' \subseteq accepted \cup fresh \cup fixed,
             accepted' \cup fresh' \cup fixed' \subseteq accepted \cup fresh \cup fixed,
             flagged' \subseteq All
      PROVE  PathInv' /\ OneConclusionPerKey'
  <2>1. All' \subseteq All
    BY <1>0 DEF All
  <2>2. accepted' \subseteq All
    BY <1>0 DEF All
  <2>3. PathInv'
    BY <1>0, <2>1, <2>2, PathsKept
  <2>4. OneConclusionPerKey'
    BY <1>0 DEF OneConclusionPerKey
  <2> QED BY <2>3, <2>4
<1>a. ASSUME UNCHANGED <<ctx, topologyVars>>
      PROVE  PathInv' /\ OneConclusionPerKey'
  BY <1>a, <1>0 DEF topologyVars, All
<1>1. CASE AssessLayer
  BY <1>1, <1>a DEF AssessLayer
<1>2. ASSUME NEW p \in CrossProposals, RelateLayers(p)
      PROVE  PathInv' /\ OneConclusionPerKey'
  BY <1>2, <1>a DEF RelateLayers
<1>3. ASSUME NEW p \in CrossProposals, RepairRelation(p)
      PROVE  PathInv' /\ OneConclusionPerKey'
  BY <1>3, <1>a DEF RepairRelation
<1>4. CASE ReviewRelations
  BY <1>4, <1>a DEF ReviewRelations
<1>5. CASE SettleRelations
  BY <1>5, <1>a DEF SettleRelations
<1>6. CASE ExpandIndustry
  <2>1. phase = "expand" /\ UNCHANGED <<accepted, fresh, flagged, fixed>>
    BY <1>6 DEF ExpandIndustry
  <2>2. All = {}
    BY <2>1 DEF PhaseInv, Before
  <2>3. All' = {}
    BY <2>1, <2>2 DEF All
  <2> QED BY <2>3 DEF PathInv, OneConclusionPerKey, All
<1>7. CASE StartRound
  BY <1>7, <1>a DEF StartRound
<1>8. ASSUME NEW c \in Moves, NEW p \in Proposals, Propose(c, p)
      PROVE  PathInv' /\ OneConclusionPerKey'
  <2> DEFINE A == accepted \cup fresh
             new == JudgeProposal(facts, ctx.events, ctx.chains, A, c, p, round)
  <2>1. phase = "propose" /\ UNCHANGED <<ctx, facts, accepted, flagged, fixed>>
    BY <1>8 DEF Propose
  <2>2. fresh' \in {fresh, fresh \cup new}
    BY <1>8 DEF Propose
  <2>3. flagged = {} /\ fixed = {} /\ phase \notin Before
    BY <2>1 DEF PhaseInv, Before
  <2> HIDE DEF new
  <2>4. All' \subseteq All \cup new
    BY <2>1, <2>2 DEF All
  <2>5. PathInv'
    BY <2>1, <2>3, <2>4, PathsAdded DEF new
  <2>6. \A t, u \in A : Conclusion(t) = Conclusion(u) => t = u
    BY DEF OneConclusionPerKey
  <2>7. \A t, u \in A \cup new : Conclusion(t) = Conclusion(u) => t = u
    <3> HIDE DEF A
    <3> QED BY <2>6, ConclusionsAdded DEF new
  <2>8. (accepted \cup fresh \cup fixed)' \subseteq A \cup new
    BY <2>1, <2>2, <2>3
  <2> QED BY <2>5, <2>7, <2>8 DEF OneConclusionPerKey
<1>9. ASSUME NEW c \in Moves, NEW p \in Proposals, Repair(c, p)
      PROVE  PathInv' /\ OneConclusionPerKey'
  <2> DEFINE A == accepted \cup fresh \cup fixed
             new == JudgeProposal(facts, ctx.events, ctx.chains, A, c, p, round)
  <2>1. phase = "repair" /\ UNCHANGED <<ctx, facts, accepted, fresh, flagged>>
    BY <1>9 DEF Repair
  <2>2. fixed' = fixed \cup new
    BY <1>9 DEF Repair
  <2>3. phase \notin Before
    BY <2>1 DEF Before
  <2> HIDE DEF new
  <2>4. All' \subseteq All \cup new
    BY <2>1, <2>2 DEF All
  <2>5. PathInv'
    BY <2>1, <2>3, <2>4, PathsAdded DEF new
  <2>6. \A t, u \in A : Conclusion(t) = Conclusion(u) => t = u
    BY DEF OneConclusionPerKey
  <2>7. \A t, u \in A \cup new : Conclusion(t) = Conclusion(u) => t = u
    <3> HIDE DEF A
    <3> QED BY <2>6, ConclusionsAdded DEF new
  <2>8. (accepted \cup fresh \cup fixed)' \subseteq A \cup new
    BY <2>1, <2>2
  <2> QED BY <2>5, <2>7, <2>8 DEF OneConclusionPerKey
<1>10. CASE ReviewRound
  <2>1. UNCHANGED <<ctx, facts>>
    BY <1>10 DEF ReviewRound
  <2>2. PICK bad \in SUBSET fresh :
          \/ FinishRound(fresh)
          \/ fresh' = fresh \ bad /\ flagged' = bad /\ UNCHANGED <<accepted, fixed>>
    BY <1>10 DEF ReviewRound
  <2>3. CASE FinishRound(fresh)
    BY <2>1, <2>3, <1>0 DEF FinishRound, All
  <2>4. CASE fresh' = fresh \ bad /\ flagged' = bad /\ UNCHANGED <<accepted, fixed>>
    BY <2>1, <2>4, <1>0 DEF All
  <2> QED BY <2>2, <2>3, <2>4
<1>11. CASE SettleRound
  <2>1. PICK kept \in SUBSET fixed : FinishRound(fresh \cup kept)
    BY <1>11 DEF SettleRound
  <2>2. UNCHANGED <<ctx, facts>>
    BY <1>11 DEF SettleRound
  <2>3. accepted' = accepted \cup fresh \cup kept /\ fresh' = {} /\ flagged' = {} /\ fixed' = {}
    BY <2>1 DEF FinishRound
  <2> QED BY <2>2, <2>3, <1>0
<1>12. CASE Synthesize
  BY <1>12, <1>a DEF Synthesize
<1>13. CASE Gate
  BY <1>13, <1>a DEF Gate
<1>14. CASE RepairDraft
  BY <1>14, <1>a DEF RepairDraft
<1>15. CASE Regate
  BY <1>15, <1>a DEF Regate
<1>16. CASE UNCHANGED vars
  BY <1>16, <1>a DEF vars
<1> QED
  BY <1>1, <1>2, <1>3, <1>4, <1>5, <1>6, <1>7, <1>8, <1>9, <1>10, <1>11, <1>12, <1>13, <1>14,
     <1>15, <1>16 DEF Next

-----------------------------------------------------------------------------
(* The draft and the gate.                                                 *)

LEMMA DraftInit == Init => DraftInv
  BY DEF Init, DraftInv

LEMMA DraftStep == PhaseInv /\ DraftInv /\ [Next]_vars => DraftInv'
<1> SUFFICES ASSUME PhaseInv, DraftInv, [Next]_vars PROVE DraftInv'
  OBVIOUS
<1>0. ASSUME phase # "done", UNCHANGED verdict, phase' \notin {"gate", "regate", "done"}
      PROVE  DraftInv'
  BY <1>0 DEF PhaseInv, DraftInv
<1>a. ASSUME UNCHANGED <<ctx, assess, crossVars, topologyVars>>
      PROVE  /\ DraftAnswers' = DraftAnswers
             /\ \A answer : Normalized(answer)' = Normalized(answer)
             /\ draft' = draft => HardIssues' = HardIssues
  BY <1>a DEF crossVars, topologyVars, DraftAnswers, Normalized, Industry, HardIssues
<1>b. ASSUME phase # "done", UNCHANGED <<ctx, assess, crossVars, topologyVars, verdict>>,
             NEW answer \in DraftAnswers, draft' = Normalized(answer)
      PROVE  DraftInv'
  <2>1. answer \in DraftAnswers' /\ draft' = Normalized(answer)'
    BY <1>b, <1>a
  <2>2. verdict' \notin {"accepted", "abstained"}
    BY <1>b DEF PhaseInv
  <2> QED BY <2>1, <2>2 DEF DraftInv
<1>1. CASE AssessLayer
  BY <1>1, <1>0, AfterLayerPhase DEF AssessLayer
<1>2. ASSUME NEW p \in CrossProposals, RelateLayers(p) PROVE DraftInv'
  BY <1>2, <1>0 DEF RelateLayers
<1>3. ASSUME NEW p \in CrossProposals, RepairRelation(p) PROVE DraftInv'
  BY <1>3, <1>0 DEF RepairRelation
<1>4. CASE ReviewRelations
  BY <1>4, <1>0, AfterLayerPhase DEF ReviewRelations, FinishRelations
<1>5. CASE SettleRelations
  BY <1>5, <1>0, AfterLayerPhase DEF SettleRelations, FinishRelations
<1>6. CASE ExpandIndustry
  BY <1>6, <1>0 DEF ExpandIndustry
<1>7. CASE StartRound
  BY <1>7, <1>0, StartRoundPhase DEF StartRound
<1>8. ASSUME NEW c \in Moves, NEW p \in Proposals, Propose(c, p) PROVE DraftInv'
  BY <1>8, <1>0 DEF Propose
<1>9. ASSUME NEW c \in Moves, NEW p \in Proposals, Repair(c, p) PROVE DraftInv'
  BY <1>9, <1>0 DEF Repair
<1>10. CASE ReviewRound
  BY <1>10, <1>0 DEF ReviewRound, FinishRound
<1>11. CASE SettleRound
  BY <1>11, <1>0 DEF SettleRound, FinishRound
<1>12. CASE Synthesize
  BY <1>12, <1>b DEF Synthesize
<1>13. CASE Gate
  <2>1. phase' \in {"gate", "regate", "done"} => phase = "gate" /\ draft' = draft
    BY <1>13 DEF Gate
  <2>2. HardIssues' = HardIssues
    BY <1>13, <1>a DEF Gate
  <2>3. verdict' \in {"accepted", "abstained"} => ~HardIssues
    BY <1>13 DEF Gate, PhaseInv
  <2>4. (\E answer \in DraftAnswers : draft = Normalized(answer))
          => \E answer \in DraftAnswers' : draft = Normalized(answer)'
    BY <1>13, <1>a DEF Gate
  <2> QED BY <2>1, <2>2, <2>3, <2>4 DEF DraftInv
<1>14. CASE RepairDraft
  BY <1>14, <1>b DEF RepairDraft
<1>15. CASE Regate
  <2>1. phase = "regate" /\ draft' = draft
    BY <1>15 DEF Regate
  <2>2. HardIssues' = HardIssues
    BY <1>15, <1>a DEF Regate
  <2>3. verdict' \in {"accepted", "abstained"} => ~HardIssues
    BY <1>15 DEF Regate
  <2>4. (\E answer \in DraftAnswers : draft = Normalized(answer))
          => \E answer \in DraftAnswers' : draft = Normalized(answer)'
    BY <1>15, <1>a DEF Regate
  <2> QED BY <2>1, <2>2, <2>3, <2>4 DEF DraftInv
<1>16. CASE UNCHANGED vars
  BY <1>16, <1>a DEF vars, DraftInv
<1> QED
  BY <1>1, <1>2, <1>3, <1>4, <1>5, <1>6, <1>7, <1>8, <1>9, <1>10, <1>11, <1>12, <1>13, <1>14,
     <1>15, <1>16 DEF Next

\* A node of a normalised draft has a direction only for a horizon it has
\* evidence for.
LEMMA NormalizedHasLineage ==
  ASSUME PathInv, \A x \in assess : x.signals \subseteq Ids(Eligible(facts, ctx.events)),
         \A t \in accepted : t.roots \subseteq Ids(Eligible(facts, ctx.events)),
         NEW answer, draft = Normalized(answer)
  PROVE  LineageIssues(facts, ctx.events, Industry, accepted, draft) = {}
<1> DEFINE active == Eligible(facts, ctx.events)
<1> SUFFICES ASSUME NEW c \in draft, NEW n \in DOMAIN c.nodes, NEW h \in Horizon,
                    c.nodes[n].trend[h] # "INSUFFICIENT_EVIDENCE"
             PROVE  HasLineage(active, accepted, Industry, c, n, h)
  BY DEF LineageIssues
<1>1. PICK chain \in ctx.chains :
        c = [chain |-> chain.id,
             nodes |-> [m \in chain.nodes |->
                          NormalizeNode(NodeEvidence(facts, ctx.events, Industry, accepted, chain, m),
                                        ClaimOf(answer, chain, m))]]
  BY DEF Normalized, NormalizeDraft
<1> DEFINE ev == NodeEvidence(facts, ctx.events, Industry, accepted, chain, n)
<1>2. c.chain = chain.id /\ n \in chain.nodes /\ c.nodes[n] = NormalizeNode(ev, ClaimOf(answer, chain, n))
  BY <1>1
<1>3. /\ ev.facts = {f \in active : Touches(f, n)}
      /\ ev.txs = {t \in accepted : t.chain = chain.id /\ t.tgt = n}
      /\ ev.assess = {x \in NodeAssessments(Industry, n) : x.signals \subseteq Ids(active)}
  BY DEF NodeEvidence
<1> HIDE DEF ev
<1>4. /\ c.nodes[n].facts = Ids(ev.facts) /\ c.nodes[n].txs = ev.txs
      /\ c.nodes[n].assess = ev.assess
  BY <1>2 DEF NormalizeNode
<1>5. h \in SupportedHorizons(ev)
  BY <1>2 DEF NormalizeNode
<1>6. \/ \E f \in ev.facts : h \in f.hs
      \/ \E t \in ev.txs : h = t.horizon
      \/ \E x \in ev.assess : h \in x.hs
  BY <1>5 DEF SupportedHorizons
<1> HIDE DEF active
<1>7. CASE \E f \in ev.facts : h \in f.hs
  BY <1>7, <1>3, <1>4 DEF HasLineage, Ids
<1>8. CASE \E t \in ev.txs : h = t.horizon
  <2>1. PICK t \in ev.txs : h = t.horizon
    BY <1>8
  <2>2. /\ t \in accepted /\ t.chain = c.chain /\ t.tgt = n /\ t.roots \subseteq Ids(active)
        /\ t \in c.nodes[n].txs
    BY <2>1, <1>2, <1>3, <1>4 DEF active
  <2> QED BY <2>1, <2>2 DEF HasLineage
<1>9. CASE \E x \in ev.assess : h \in x.hs
  BY <1>9, <1>3, <1>4 DEF HasLineage
<1> QED BY <1>6, <1>7, <1>8, <1>9

LEMMA NothingIsUngrounded ==
  ASSUME UpperInv, PathInv, facts = ctx.facts, NEW answer, draft = Normalized(answer)
  PROVE  ~HardIssues
<1>1. /\ \A x \in assess : Grounded(x)
      /\ \A i \in related : Related(i)
      /\ \A t \in accepted : Admitted(t)
  BY DEF UpperInv, PathInv, Items, All
<1>2. UngroundedAssessments(facts, ctx.events, assess) = {}
  BY <1>1 DEF UngroundedAssessments, Grounded
<1>3. UngroundedCrossItems(facts, assess, related) = {}
  BY <1>1 DEF UngroundedCrossItems, Related
<1>4. UngroundedTransmissions(facts, ctx.events, accepted) = {}
  BY <1>1 DEF UngroundedTransmissions, Admitted
<1>5. LineageIssues(facts, ctx.events, Industry, accepted, draft) = {}
  BY <1>1, NormalizedHasLineage DEF Grounded, Admitted
<1> QED BY <1>2, <1>3, <1>4, <1>5 DEF HardIssues

-----------------------------------------------------------------------------
(* The properties of the run.                                              *)

\* Phases, assessments, relations, paths, conclusions and the draft under
\* review are as the invariant says in every reachable state.
THEOREM ReasoningInvariant == Spec => []RoundsInv
<1>1. Init => RoundsInv
  BY PhaseInit, UpperInit, PathInit, DraftInit DEF RoundsInv
<1>2. RoundsInv /\ [Next]_vars => RoundsInv'
  BY PhaseStep, UpperStep, PathStep, DraftStep DEF RoundsInv
<1> QED BY <1>1, <1>2, PTL DEF Spec

\* Every ancestor of a transmission but itself was strong enough to continue.
LEMMA AncestorsAreStrong ==
  ASSUME PathInv, NEW t \in All, NEW u \in Ancestors(accepted, t), u # t
  PROVE  u \in accepted /\ u.score >= ContinuationThreshold
<1> DEFINE S == {t} \cup {v \in accepted : v.score >= ContinuationThreshold}
<1>1. \A v \in All : v.hop \in 1 .. MaxHops
  BY DEF PathInv, Admitted
<1>2. NoParent \notin accepted
  <2>1. NoParent.hop = 0
    BY DEF NoParent
  <2> QED BY <1>1, <2>1 DEF All
<1>3. ASSUME NEW v \in S, v.parent \in accepted
      PROVE  v.parent \in S
  <2>1. v \in All /\ v.hop \in 1 .. MaxHops
    BY <1>1 DEF All
  <2>2. Admitted(v)
    BY <2>1 DEF PathInv
  <2>3. v.hop # 1
    BY <2>2, <1>2, <1>3 DEF Admitted
  <2>4. v.hop > 1
    BY <2>1, <2>3, MaxHopsAssumption
  <2> QED BY <2>2, <2>4, <1>3 DEF Admitted, Continues
<1>4. t \in S
  OBVIOUS
<1> HIDE DEF S
<1>5. Ancestors(accepted, t) \subseteq S
  BY <1>3, <1>4, AncestorsAreLeast
<1> QED BY <1>5 DEF S

LEMMA SoundByInvariant == RoundsInv => TransmissionsSound
<1> SUFFICES ASSUME RoundsInv PROVE TransmissionsSound
  OBVIOUS
<1>0. PhaseInv /\ PathInv /\ OneConclusionPerKey
  BY DEF RoundsInv
<1>1. \A t \in All : Admitted(t) /\ Pathed(t)
  BY <1>0 DEF PathInv
<1>2. TypeOK
  <2>1. \A t \in All : /\ t.hop \in 1 .. MaxHops
                       /\ t.score \in InclusionThreshold .. 10000
                       /\ t.conf \in Confidence
    BY <1>1 DEF Admitted, Confidence
  <2> QED BY <2>1, <1>0 DEF TypeOK, PhaseInv, Before
<1>3. SimplePaths
  BY <1>1 DEF SimplePaths, Pathed
<1>4. LineageClosed
  BY <1>1 DEF LineageClosed, Admitted, Continues
<1>5. FarHopsAreLow
  <2>1. ASSUME NEW t \in All, t.hop >= 2
        PROVE  t.conf = "LOW"
    <3>1. Admitted(t) /\ t.hop \in 1 .. MaxHops
      BY <1>1 DEF Admitted
    <3>2. t.hop > 1
      BY <3>1, <2>1, MaxHopsAssumption
    <3> QED BY <3>1, <3>2 DEF Admitted
  <2> QED BY <2>1 DEF FarHopsAreLow
<1>6. ASSUME NEW t \in All, t.hop > 1
      PROVE  Firm(FirstHop(t))
  <2> DEFINE u == FirstHop(t)
  <2>1. u \in Ancestors(accepted, t) /\ u.hop = 1
    BY <1>1 DEF FirstHop, Pathed
  <2> HIDE DEF u
  <2>2. u # t
    BY <1>6, <2>1
  <2>3. u \in accepted /\ u.score >= ContinuationThreshold
    BY <2>1, <2>2, <1>0, AncestorsAreStrong
  <2>4. Admitted(u)
    BY <2>3, <1>1 DEF All
  <2> QED BY <2>1, <2>3, <2>4 DEF Admitted, u
<1>7. ConfidenceDecays
  BY <1>5, <1>6 DEF ConfidenceDecays, Firm
<1> QED BY <1>0, <1>2, <1>3, <1>4, <1>7 DEF TransmissionsSound

\* Whatever is proposed, reviewed, repaired or dropped, in whatever order:
\* accepted transmissions form simple paths that are closed under what they
\* continue, one for each conclusion, of decaying confidence.
THEOREM TransmissionsAlwaysSound == Spec => []TransmissionsSound
  BY ReasoningInvariant, SoundByInvariant, PTL

\* A run that ends accepted or in an abstention cites only what the industry
\* context still has, the facts that the cut dropped excluded.
THEOREM AcceptedAlwaysGrounded == Spec => []AcceptedIsGrounded
<1>1. RoundsInv => AcceptedIsGrounded
  <2> SUFFICES ASSUME RoundsInv, verdict \in {"accepted", "abstained"}
               PROVE  /\ \A x \in assess : x.signals # {} /\ x.signals \subseteq Ids(Eligible(facts, ctx.events))
                      /\ \A t \in accepted : t.roots # {} /\ t.roots \subseteq Ids(Eligible(facts, ctx.events))
                      /\ \A i \in related : i.mech \subseteq Ids(facts)
                      /\ \A c \in draft : \A n \in DOMAIN c.nodes, h \in Horizon :
                           c.nodes[n].trend[h] # "INSUFFICIENT_EVIDENCE" =>
                             \/ \E f \in Eligible(facts, ctx.events) : Touches(f, n) /\ h \in f.hs
                             \/ \E t \in accepted : t.chain = c.chain /\ t.tgt = n /\ t.horizon = h
                             \/ \E x \in NodeAssessments(assess, n) : h \in x.hs
    BY DEF AcceptedIsGrounded
  <2>1. ~HardIssues
    BY DEF RoundsInv, DraftInv
  <2>2. /\ UngroundedAssessments(facts, ctx.events, assess) = {}
        /\ UngroundedCrossItems(facts, assess, related) = {}
        /\ UngroundedTransmissions(facts, ctx.events, accepted) = {}
        /\ LineageIssues(facts, ctx.events, Industry, accepted, draft) = {}
    BY <2>1 DEF HardIssues
  <2>3. \A x \in assess : x.signals # {} /\ x.signals \subseteq Ids(Eligible(facts, ctx.events))
    BY <2>2 DEF UngroundedAssessments
  <2>4. \A t \in accepted : t.roots # {} /\ t.roots \subseteq Ids(Eligible(facts, ctx.events))
    BY <2>2 DEF UngroundedTransmissions
  <2>5. \A i \in related : i.mech \subseteq Ids(facts)
    BY <2>2 DEF UngroundedCrossItems, Ids
  <2>6. ASSUME NEW c \in draft, NEW n \in DOMAIN c.nodes, NEW h \in Horizon,
               c.nodes[n].trend[h] # "INSUFFICIENT_EVIDENCE"
        PROVE  \/ \E f \in Eligible(facts, ctx.events) : Touches(f, n) /\ h \in f.hs
               \/ \E t \in accepted : t.chain = c.chain /\ t.tgt = n /\ t.horizon = h
               \/ \E x \in NodeAssessments(assess, n) : h \in x.hs
    <3>1. HasLineage(Eligible(facts, ctx.events), accepted, Industry, c, n, h)
      <4> SUFFICES ASSUME ~HasLineage(Eligible(facts, ctx.events), accepted, Industry, c, n, h)
                   PROVE  <<c, n, h>> \in LineageIssues(facts, ctx.events, Industry, accepted, draft)
        BY <2>2
      <4> DEFINE Of(d, m) ==
            {<<d, m, k>> : k \in {x \in Horizon :
               /\ d.nodes[m].trend[x] # "INSUFFICIENT_EVIDENCE"
               /\ ~HasLineage(Eligible(facts, ctx.events), accepted, Industry, d, m, x)}}
      <4>1. <<c, n, h>> \in Of(c, n)
        BY <2>6
      <4>2. LineageIssues(facts, ctx.events, Industry, accepted, draft)
              = UNION {UNION {Of(d, m) : m \in DOMAIN d.nodes} : d \in draft}
        BY Zenon DEF LineageIssues
      <4> HIDE DEF Of
      <4> QED BY <4>1, <4>2
    <3>2. NodeAssessments(Industry, n) \subseteq NodeAssessments(assess, n)
      BY DEF NodeAssessments, Industry, Targets
    <3> QED BY <3>1, <3>2 DEF HasLineage
  <2> QED BY <2>3, <2>4, <2>5, <2>6
<1> QED BY <1>1, ReasoningInvariant, PTL

\* Where no fact was cut, the gate finds nothing missing in any normalised
\* draft and what led to it, whatever the agents claimed.
THEOREM NormalizedAlwaysPasses == Spec => []NormalizedPassesGate
<1>1. RoundsInv => NormalizedPassesGate
  BY NothingIsUngrounded DEF RoundsInv, DraftInv, NormalizedPassesGate
<1> QED BY <1>1, ReasoningInvariant, PTL

\* No step loses a pair that the agent related: what a review objects to is
\* repaired, or stays as a hypothesis.
THEOREM PairsAlwaysStay == Spec => PairsNeverVanish
<1> DEFINE Held == related \cup cross.accepted \cup cross.candidates \cup cross.flagged
           Stay == Pairs(related \cup cross.accepted \cup cross.candidates \cup cross.flagged)
                     \subseteq Pairs(related' \cup cross'.accepted \cup cross'.candidates
                                       \cup cross'.flagged)
<1>1. RoundsInv /\ [Next]_vars => [Stay]_vars
  <2> SUFFICES ASSUME RoundsInv, [Next]_vars PROVE Stay
    OBVIOUS
  <2>0. PhaseInv /\ UpperInv
    BY DEF RoundsInv
  <2>a. ASSUME Held \subseteq Held' PROVE Stay
    BY <2>a DEF Pairs
  <2>b. ASSUME UNCHANGED crossVars PROVE Stay
    BY <2>b DEF crossVars
  <2>1. CASE AssessLayer
    BY <2>1, <2>b DEF AssessLayer
  <2>2. ASSUME NEW p \in CrossProposals, RelateLayers(p) PROVE Stay
    <3>1. UNCHANGED related
      BY <2>2 DEF RelateLayers
    <3>2. PICK i \in JudgeCrossLayer(ctx.facts, p) :
            cross' = IF i.relation = "CANDIDATE"
                     THEN [cross EXCEPT !.candidates = @ \cup {i}]
                     ELSE [cross EXCEPT !.accepted = @ \cup {i}]
      BY <2>2 DEF RelateLayers
    <3>3. Held \subseteq Held'
      BY <3>1, <3>2, <2>0 DEF UpperInv
    <3> QED BY <3>3, <2>a
  <2>3. ASSUME NEW p \in CrossProposals, RepairRelation(p) PROVE Stay
    <3>1. UNCHANGED related
      BY <2>3 DEF RepairRelation
    <3>2. PICK i \in JudgeCrossLayer(ctx.facts, p) :
            cross' = IF i.relation = "CANDIDATE"
                     THEN [cross EXCEPT !.again = @ \cup {i}]
                     ELSE [cross EXCEPT !.fixed = @ \cup {i}]
      BY <2>3 DEF RepairRelation
    <3>3. Held \subseteq Held'
      BY <3>1, <3>2, <2>0 DEF UpperInv
    <3> QED BY <3>3, <2>a
  <2>4. CASE ReviewRelations
    <3>1. phase = "relate"
      BY <2>4 DEF ReviewRelations
    <3>2. PICK bad \in SUBSET cross.accepted :
            \/ FinishRelations(cross)
            \/ /\ cross' = [cross EXCEPT !.accepted = @ \ bad, !.flagged = bad]
               /\ UNCHANGED related
      BY <2>4 DEF ReviewRelations
    <3>3. cross.flagged = {}
      BY <3>1, <2>0 DEF PhaseInv
    <3>4. CASE FinishRelations(cross)
      <4>1. related' = related \cup cross.accepted \cup cross.candidates
        BY <3>4, RelationsEnd
      <4>2. Held \subseteq Held'
        BY <4>1, <3>3
      <4> QED BY <4>2, <2>a
    <3>5. CASE /\ cross' = [cross EXCEPT !.accepted = @ \ bad, !.flagged = bad]
               /\ UNCHANGED related
      <4>1. Held \subseteq Held'
        BY <3>3, <3>5, <2>0 DEF UpperInv
      <4> QED BY <4>1, <2>a
    <3> QED BY <3>2, <3>4, <3>5
  <2>5. CASE SettleRelations
    <3>1. PICK kept \in SUBSET cross.fixed : FinishRelations(SettledRelations(kept))
      BY <2>5 DEF SettleRelations
    <3>2. related' = related \cup SettledRelations(kept).accepted
                       \cup SettledRelations(kept).candidates
      BY <3>1, RelationsEnd
    <3>3. related' = related \cup cross.accepted \cup kept \cup cross.candidates \cup cross.again
                       \cup {Dropped(i) : i \in {j \in cross.flagged : Pair(j) \notin Pairs(kept)}}
      BY <3>2, <2>0, SettledFields
    <3>4. \A i \in cross.flagged : Pair(i) \in Pairs(related')
      <4> TAKE i \in cross.flagged
      <4>1. CASE Pair(i) \in Pairs(kept)
        BY <4>1, <3>3 DEF Pairs
      <4>2. CASE Pair(i) \notin Pairs(kept)
        <5>1. Dropped(i) \in related'
          BY <4>2, <3>3
        <5>2. Pair(Dropped(i)) = Pair(i)
          BY <2>0, DroppedIsRelated DEF UpperInv, Items
        <5> QED BY <5>1, <5>2 DEF Pairs
      <4> QED BY <4>1, <4>2
    <3>5. \A i \in related \cup cross.accepted \cup cross.candidates : Pair(i) \in Pairs(related')
      BY <3>3 DEF Pairs
    <3> QED BY <3>4, <3>5 DEF Pairs
  <2>6. CASE ExpandIndustry
    BY <2>6, <2>b DEF ExpandIndustry
  <2>7. CASE StartRound
    BY <2>7, <2>b DEF StartRound
  <2>8. ASSUME NEW c \in Moves, NEW p \in Proposals, Propose(c, p) PROVE Stay
    BY <2>8, <2>b DEF Propose
  <2>9. ASSUME NEW c \in Moves, NEW p \in Proposals, Repair(c, p) PROVE Stay
    BY <2>9, <2>b DEF Repair
  <2>10. CASE ReviewRound
    BY <2>10, <2>b DEF ReviewRound
  <2>11. CASE SettleRound
    BY <2>11, <2>b DEF SettleRound
  <2>12. CASE Synthesize
    BY <2>12, <2>b DEF Synthesize
  <2>13. CASE Gate
    BY <2>13, <2>b DEF Gate
  <2>14. CASE RepairDraft
    BY <2>14, <2>b DEF RepairDraft
  <2>15. CASE Regate
    BY <2>15, <2>b DEF Regate
  <2>16. CASE UNCHANGED vars
    BY <2>16, <2>b DEF vars
  <2> QED
    BY <2>1, <2>2, <2>3, <2>4, <2>5, <2>6, <2>7, <2>8, <2>9, <2>10, <2>11, <2>12, <2>13, <2>14,
       <2>15, <2>16 DEF Next
<1> HIDE DEF Stay
<1>2. Spec => [][Stay]_vars
  BY <1>1, ReasoningInvariant, PTL DEF Spec
<1> QED BY <1>2 DEF PairsNeverVanish, Stay

-----------------------------------------------------------------------------
(* Results and trends.                                                     *)

Material == {"DIVERGENT", "WARMING", "COOLING"}

LEMMA PendingResult ==
  ASSUME NEW T
  PROVE  ResultOf(T) # "pending" <=> T \cap Material # {}
  BY DEF ResultOf, Material

LEMMA ReducedIsMaterial ==
  ASSUME NEW T, ReduceTrend(T) \in Material
  PROVE  T \cap Material # {}
  BY DEF ReduceTrend, Material

-----------------------------------------------------------------------------
(* The normalised draft.                                                   *)

\* A node with a direction is supported, and keeps the assessments that the
\* facts still support.
LEMMA NormalizedView ==
  ASSUME NEW answer, NEW c \in Normalized(answer)
  PROVE  /\ \E d \in ctx.chains : d.id = c.chain
         /\ \A n \in DOMAIN c.nodes :
              /\ \A h \in Horizon : c.nodes[n].trend[h] # "INSUFFICIENT_EVIDENCE"
                                      => n \in SupportedNodes(c)
              /\ \A x \in NodeAssessments(Industry, n) :
                   x.signals \subseteq Ids(Eligible(facts, ctx.events))
                     => n \in SupportedNodes(c)
<1>1. PICK d \in ctx.chains :
        c = [chain |-> d.id,
             nodes |-> [n \in d.nodes |->
                          NormalizeNode(NodeEvidence(facts, ctx.events, Industry, accepted, d, n),
                                        ClaimOf(answer, d, n))]]
  BY DEF Normalized, NormalizeDraft
<1>2. c.chain = d.id /\ DOMAIN c.nodes = d.nodes
  BY <1>1
<1>3. ASSUME NEW n \in DOMAIN c.nodes
      PROVE  /\ \A h \in Horizon : c.nodes[n].trend[h] # "INSUFFICIENT_EVIDENCE"
                                     => n \in SupportedNodes(c)
             /\ \A x \in NodeAssessments(Industry, n) :
                  x.signals \subseteq Ids(Eligible(facts, ctx.events)) => n \in SupportedNodes(c)
  <2> DEFINE ev == NodeEvidence(facts, ctx.events, Industry, accepted, d, n)
             view == c.nodes[n]
  <2>1. view = NormalizeNode(ev, ClaimOf(answer, d, n))
    BY <1>1, <1>2
  <2>2. /\ view.facts = Ids(ev.facts) /\ view.txs = ev.txs /\ view.assess = ev.assess
        /\ \A h \in Horizon : h \notin SupportedHorizons(ev) =>
             view.trend[h] = "INSUFFICIENT_EVIDENCE"
    BY <2>1 DEF NormalizeNode
  <2>3. n \in SupportedNodes(c) <=> Supported(view)
    BY DEF SupportedNodes
  <2>4. ASSUME NEW h \in SupportedHorizons(ev) PROVE Supported(view)
    <3>1. ev.facts # {} \/ ev.txs # {} \/ ev.assess # {}
      BY <2>4 DEF SupportedHorizons
    <3>2. ev.facts # {} => Ids(ev.facts) # {}
      BY DEF Ids
    <3> QED BY <3>1, <3>2, <2>2 DEF Supported
  <2>5. ASSUME NEW x \in NodeAssessments(Industry, n),
               x.signals \subseteq Ids(Eligible(facts, ctx.events))
        PROVE  Supported(view)
    <3>1. x \in ev.assess
      BY <2>5 DEF NodeEvidence
    <3> QED BY <3>1, <2>2 DEF Supported
  <2> QED BY <2>2, <2>3, <2>4, <2>5
<1> QED BY <1>1, <1>2, <1>3

\* There is a view of every chain, with all its nodes.
LEMMA NormalizedCovers ==
  ASSUME NEW answer, NEW d \in ctx.chains
  PROVE  \E c \in Normalized(answer) : c.chain = d.id /\ DOMAIN c.nodes = d.nodes
<1> DEFINE c == [chain |-> d.id,
                 nodes |-> [n \in d.nodes |->
                          NormalizeNode(NodeEvidence(facts, ctx.events, Industry, accepted, d, n),
                                        ClaimOf(answer, d, n))]]
<1>1. c \in Normalized(answer)
  BY DEF Normalized, NormalizeDraft
<1>2. c.chain = d.id /\ DOMAIN c.nodes = d.nodes
  OBVIOUS
<1> QED BY <1>1, <1>2

-----------------------------------------------------------------------------
(* A chain of the report.                                                  *)

ShownChain(c, d, gaps) == ReportChain(ctx, EventBatches, facts, c, d, gaps)
ShownNode(c, n) == ReportNode(ctx, EventBatches, facts, c, n)
Displayed(c, gaps) == (SupportedNodes(c) \cup gaps) \cap DOMAIN c.nodes

LEMMA ShownChainFields ==
  ASSUME NEW c, NEW d, NEW gaps
  PROVE  /\ DOMAIN ShownChain(c, d, gaps) = {"key", "conclusion", "result", "conf", "window",
                                             "status", "nodes", "edges", "evidence"}
         /\ ShownChain(c, d, gaps).key = ChainKey(c.chain)
         /\ ShownChain(c, d, gaps).conclusion = "assembled"
         /\ ShownChain(c, d, gaps).result = ChainResult(c)
         /\ ShownChain(c, d, gaps).window = UNION {WindowOf(c.nodes[n]) : n \in DOMAIN c.nodes}
         /\ ShownChain(c, d, gaps).nodes = {ShownNode(c, n) : n \in Displayed(c, gaps)}
         /\ ShownChain(c, d, gaps).edges = ReportEdges(d, Displayed(c, gaps))
  BY DEF ShownChain, ReportChain, ShownNode, Displayed

LEMMA ShownNodeFields ==
  ASSUME NEW c, NEW n
  PROVE  /\ ShownNode(c, n).key = NodeKey(c.chain, n)
         /\ ShownNode(c, n).result = ResultOf(TrendsOf(c.nodes[n]))
         /\ ShownNode(c, n).nature = NatureOf(c.nodes[n])
         /\ ShownNode(c, n).window = WindowOf(c.nodes[n])
         /\ ShownNode(c, n).evidence = NodeEvidenceIds(ctx, EventBatches, facts, c.nodes[n])
  BY DEF ShownNode, ReportNode

\* Edges join nodes that are shown.
LEMMA EdgesJoinNodes ==
  ASSUME NEW c, NEW d, NEW gaps, d.id = c.chain,
         NEW e \in ShownChain(c, d, gaps).edges
  PROVE  {e.from, e.to} \subseteq {n.key : n \in ShownChain(c, d, gaps).nodes}
<1>1. PICK x \in d.edges :
        /\ {x.src, x.tgt} \subseteq Displayed(c, gaps)
        /\ e = [from |-> NodeKey(d.id, x.src), to |-> NodeKey(d.id, x.tgt)]
  BY ShownChainFields DEF ReportEdges
<1>2. \A n \in Displayed(c, gaps) :
        NodeKey(c.chain, n) \in {m.key : m \in ShownChain(c, d, gaps).nodes}
  <2> TAKE n \in Displayed(c, gaps)
  <2>1. ShownNode(c, n) \in ShownChain(c, d, gaps).nodes
    BY ShownChainFields
  <2>2. ShownNode(c, n).key = NodeKey(c.chain, n)
    BY ShownNodeFields
  <2> QED BY <2>1, <2>2
<1>3. e.from = NodeKey(c.chain, x.src) /\ e.to = NodeKey(c.chain, x.tgt)
  BY <1>1
<1> QED BY <1>1, <1>2, <1>3

\* A node without direct support leads to no Evidence.
LEMMA OnlyDirectHasEvidence ==
  ASSUME NEW view, ~Direct(view)
  PROVE  NodeEvidenceIds(ctx, EventBatches, facts, view) = {}
<1>1. view.facts = {} /\ view.assess = {}
  BY DEF Direct
<1> DEFINE V == UNION {f.events : f \in {g \in facts : g.id \in view.facts /\ g.kind = "SIGNAL"}}
                  \cup UNION {x.events : x \in view.assess}
<1>2. \A v : v \notin V
  BY <1>1
<1>3. NodeEvidenceIds(ctx, EventBatches, facts, view) = EvidenceOfEvents(ctx, EventBatches, V)
  BY DEF NodeEvidenceIds
<1> HIDE DEF V
<1> QED BY <1>2, <1>3 DEF EvidenceOfEvents

\* A shown node that is confirmed has Evidence once the report may be published,
\* and one with a direction is supported for a horizon.
LEMMA ShownNodeIsBased ==
  ASSUME NEW answer, NEW c \in Normalized(answer), NEW n \in DOMAIN c.nodes,
         ShownNode(c, n).nature = "direct_evidence" => ShownNode(c, n).evidence # {}
  PROVE  BasedNode(ShownNode(c, n))
<1> DEFINE view == c.nodes[n]
<1>1. NatureOf(view) = "direct_evidence" <=> Direct(view)
  BY DEF NatureOf
<1>2. ShownNode(c, n).nature = "direct_evidence" <=> ShownNode(c, n).evidence # {}
  BY <1>1, OnlyDirectHasEvidence, ShownNodeFields
<1>3. ASSUME ResultOf(TrendsOf(view)) # "pending"
      PROVE  /\ NatureOf(view) \in {"direct_evidence", "reasoning_hypothesis"}
             /\ WindowOf(view) # {}
  <2>1. PICK h \in Horizon : view.trend[h] \in Material
    BY <1>3, PendingResult DEF TrendsOf
  <2>2. view.trend[h] # "INSUFFICIENT_EVIDENCE"
    BY <2>1 DEF Material
  <2>3. h \in WindowOf(view)
    BY <2>2 DEF WindowOf
  <2>4. Supported(view)
    BY <2>2, NormalizedView DEF SupportedNodes
  <2>5. NatureOf(view) \in {"direct_evidence", "reasoning_hypothesis"}
    BY <2>4 DEF NatureOf, Supported, Direct
  <2> QED BY <2>3, <2>5
<1> QED BY <1>2, <1>3, ShownNodeFields DEF BasedNode

\* The direction of a chain is that of a node it shows.
LEMMA ChainResultIsShown ==
  ASSUME NEW answer, NEW c \in Normalized(answer), NEW d, NEW gaps,
         ShownChain(c, d, gaps).result # "pending"
  PROVE  \E n \in ShownChain(c, d, gaps).nodes :
           n.result # "pending" /\ n.window \subseteq ShownChain(c, d, gaps).window
<1> DEFINE at(h) == {c.nodes[n].trend[h] : n \in DOMAIN c.nodes}
<1>0. ChainResult(c) # "pending"
  BY ShownChainFields
<1>1. ResultOf({ReduceTrend(at(h)) : h \in Horizon}) # "pending"
  BY <1>0, Zenon DEF ChainResult
<1> HIDE DEF at
<1>2. PICK h \in Horizon : ReduceTrend(at(h)) \in Material
  <2> DEFINE all == {ReduceTrend(at(h)) : h \in Horizon}
  <2>1. ResultOf(all) # "pending"
    BY <1>1
  <2> HIDE DEF all
  <2>2. PICK t \in all : t \in Material
    BY <2>1, PendingResult
  <2> QED BY <2>2 DEF all
<1>3. at(h) \cap Material # {}
  BY <1>2, ReducedIsMaterial
<1>4. PICK n \in DOMAIN c.nodes : c.nodes[n].trend[h] \in Material
  BY <1>3 DEF at
<1>5. n \in Displayed(c, gaps)
  BY <1>4, NormalizedView DEF Displayed, Material
<1>6. ShownNode(c, n) \in ShownChain(c, d, gaps).nodes
  BY <1>5, ShownChainFields
<1>7. ResultOf(TrendsOf(c.nodes[n])) # "pending"
  <2>1. c.nodes[n].trend[h] \in TrendsOf(c.nodes[n])
    BY DEF TrendsOf
  <2> QED BY <2>1, <1>4, PendingResult
<1>8. WindowOf(c.nodes[n]) \subseteq ShownChain(c, d, gaps).window
  BY ShownChainFields
<1> QED BY <1>6, <1>7, <1>8, ShownNodeFields

-----------------------------------------------------------------------------
(* A layer of the report.                                                  *)

ShownLayer(l) == ReportLayer(ctx, EventBatches, assess, related, l)

\* It shows an anchor for each that was assessed.
LEMMA ShownLayerFields ==
  ASSUME NEW l
  PROVE  /\ DOMAIN ShownLayer(l) = {"key", "conclusion", "result", "conf", "window", "anchors",
                                    "steps", "paths", "hypotheses", "evidence"}
         /\ ShownLayer(l).key = LayerKey(l)
         /\ ShownLayer(l).conclusion = "assembled"
         /\ ShownLayer(l).paths = Paths(ctx, related, l)
         /\ \A x \in assess : x.layer = l =>
              \E a \in ShownLayer(l).anchors : a.key = AnchorKey(x.anchor)
<1> DEFINE items == {x \in assess : x.layer = l}
           anchors == {ReportAnchor(ctx, EventBatches, items, a) : a \in {x.anchor : x \in items}}
           result == ResultOf({x.result : x \in items})
           conf == MinimumConfidence({x.conf : x \in items})
           window == UNION {x.hs : x \in items}
           steps == {[of |-> x, evidence |-> EvidenceOfEvents(ctx, EventBatches, x.events)] :
                       x \in items}
           evidence == UNION {a.evidence : a \in anchors}
<1>1. ShownLayer(l) = [key |-> LayerKey(l), conclusion |-> "assembled", result |-> result,
                       conf |-> conf, window |-> window, anchors |-> anchors, steps |-> steps,
                       paths |-> Paths(ctx, related, l),
                       hypotheses |-> Hypotheses(related, l), evidence |-> evidence]
  BY Zenon DEF ShownLayer, ReportLayer
<1>2. ASSUME NEW x \in assess, x.layer = l
      PROVE  \E a \in anchors : a.key = AnchorKey(x.anchor)
  <2>1. ReportAnchor(ctx, EventBatches, items, x.anchor) \in anchors
    BY <1>2
  <2>2. ReportAnchor(ctx, EventBatches, items, x.anchor).key = AnchorKey(x.anchor)
    BY DEF ReportAnchor
  <2> QED BY <2>1, <2>2
<1> HIDE DEF items, anchors, result, conf, window, steps, evidence
<1>3. /\ DOMAIN ShownLayer(l) = {"key", "conclusion", "result", "conf", "window", "anchors",
                                 "steps", "paths", "hypotheses", "evidence"}
      /\ ShownLayer(l).key = LayerKey(l) /\ ShownLayer(l).conclusion = "assembled"
      /\ ShownLayer(l).paths = Paths(ctx, related, l) /\ ShownLayer(l).anchors = anchors
  BY <1>1
<1> QED BY <1>2, <1>3

\* A path of a layer leads from an item of it that is no hypothesis.
LEMMA PathIsOfItem ==
  ASSUME NEW l, NEW q \in ShownLayer(l).paths
  PROVE  /\ DOMAIN q = {"targets", "kind", "conf", "logic"}
         /\ \E i \in related : i.s.layer = l /\ q.targets = PathTargets(ctx, i)
  BY ShownLayerFields DEF Paths

\* Where the target of an item may be.
LEMMA TargetIsOfItem ==
  ASSUME NEW i, NEW t \in PathTargets(ctx, i)
  PROVE  \/ i.t.layer = "MACRO_ECONOMIC" /\ t.type = "anchor" /\ t.key = AnchorKey(i.t.anchor)
         \/ /\ i.t.layer # "MACRO_ECONOMIC"
            /\ \E d \in ctx.chains :
                 /\ i.t.anchor \in d.nodes
                 /\ \/ t.type = "industry_chain" /\ t.key = ChainKey(d.id)
                    \/ t.type = "industry_chain_node" /\ t.key = NodeKey(d.id, i.t.anchor)
<1>1. CASE i.t.layer = "MACRO_ECONOMIC"
  BY <1>1 DEF PathTargets, Target
<1>2. CASE i.t.layer # "MACRO_ECONOMIC"
  <2> DEFINE res == ResultOf({i.t.result})
  <2>1. PICK d \in {e \in ctx.chains : i.t.anchor \in e.nodes} :
          t \in {Target("industry_chain", ChainKey(d.id), res),
                 Target("industry_chain_node", NodeKey(d.id, i.t.anchor), res)}
    BY <1>2 DEF PathTargets
  <2> HIDE DEF res
  <2>2. \/ t.type = "industry_chain" /\ t.key = ChainKey(d.id)
        \/ t.type = "industry_chain_node" /\ t.key = NodeKey(d.id, i.t.anchor)
    BY <2>1 DEF Target
  <2> QED BY <1>2, <2>1, <2>2
<1> QED BY <1>1, <1>2

-----------------------------------------------------------------------------
(* The assembled report.                                                   *)

LayerNames == {"GEOPOLITICAL", "MACRO_ECONOMIC"}
Topology(c) == CHOOSE chain \in ctx.chains : chain.id = c.chain

\* The layers and one view for each chain with a supported node, with cards of
\* them, when every confirmed item has Evidence.
IsAssembled(r, g) ==
  /\ DOMAIN r = {"status", "layers", "chains", "cards"}
  /\ r.layers = {ShownLayer(l) : l \in LayerNames}
  /\ r.chains = {ShownChain(c, Topology(c), g[c]) : c \in {d \in draft : SupportedNodes(d) # {}}}
  /\ \A card \in r.cards :
       \/ \E l \in r.layers : card = Card("layer", l, l.anchors)
       \/ \E c \in r.chains : card = Card("industry_chain", c, Listed(c))
  /\ ~NotPublishable(r)

LEMMA GeneratedIsAssembled ==
  ASSUME NEW r \in Assembled(ctx, EventBatches, facts, assess, related, draft),
         r.status = "GENERATED"
  PROVE  \E g : IsAssembled(r, g)
<1> DEFINE shown == {c \in draft : SupportedNodes(c) # {}}
           R(chains, carded) == Report(ctx, EventBatches, assess, related, chains, carded)
<1>0. PICK chains \in ReportChains(ctx, EventBatches, facts, draft) :
        \E carded \in CardChoices(chains) :
          r = IF NotPublishable(R(chains, carded)) THEN Skipped ELSE R(chains, carded)
  BY DEF Assembled
<1>1. PICK carded \in CardChoices(chains) :
        r = IF NotPublishable(R(chains, carded)) THEN Skipped ELSE R(chains, carded)
  BY <1>0
<1>2. Skipped.status # "GENERATED"
  BY DEF Skipped
<1>3. r = R(chains, carded) /\ ~NotPublishable(r)
  BY <1>1, <1>2
<1>4. PICK g : chains = {ShownChain(c, Topology(c), g[c]) : c \in shown}
  BY Zenon DEF ReportChains, ShownChain, Topology
<1> HIDE DEF shown
<1> DEFINE layers == {ReportLayer(ctx, EventBatches, assess, related, l) : l \in LayerNames}
<1>5. r = [status |-> "GENERATED", layers |-> layers, chains |-> chains,
           cards |-> LayerCards(layers) \cup ChainCards(carded)]
  BY <1>3, Zenon DEF Report, LayerNames
<1>6. layers = {ShownLayer(l) : l \in LayerNames}
  BY Zenon DEF ShownLayer
<1>7. carded \subseteq chains
  BY DEF CardChoices
<1> HIDE DEF layers
<1>8. /\ DOMAIN r = {"status", "layers", "chains", "cards"}
      /\ r.layers = layers /\ r.chains = chains
      /\ r.cards = LayerCards(layers) \cup ChainCards(carded)
  BY <1>5
<1>9. ASSUME NEW card \in r.cards
      PROVE  \/ \E l \in r.layers : card = Card("layer", l, l.anchors)
             \/ \E c \in r.chains : card = Card("industry_chain", c, Listed(c))
  <2>1. CASE card \in LayerCards(layers)
    BY <2>1, <1>8 DEF LayerCards
  <2>2. CASE card \in ChainCards(carded)
    BY <2>2, <1>7, <1>8 DEF ChainCards
  <2> QED BY <2>1, <2>2, <1>8
<1>10. r.layers = {ShownLayer(l) : l \in LayerNames}
  BY <1>6, <1>8
<1>11. r.chains = {ShownChain(c, Topology(c), g[c]) : c \in shown}
  BY <1>4, <1>8
<1> QED BY <1>3, <1>8, <1>9, <1>10, <1>11, Zenon DEF IsAssembled, shown

LEMMA CardFields ==
  ASSUME NEW type, NEW s, NEW items
  PROVE  /\ DOMAIN Card(type, s, items) = {"ref", "conclusion", "result", "conf", "items",
                                           "evidence"}
         /\ Card(type, s, items).ref.key = s.key
         /\ Card(type, s, items).conclusion = s.conclusion
         /\ Card(type, s, items).result = s.result
         /\ Card(type, s, items).conf = s.conf
         /\ Card(type, s, items).items = {i.key : i \in items}
  BY DEF Card

LEMMA AssembledIsWellFormed ==
  ASSUME NEW r, NEW g, IsAssembled(r, g)
  PROVE  WellFormed(r)
<1>1. \A l \in r.layers : \E n \in LayerNames : l = ShownLayer(n)
  BY DEF IsAssembled
<1>2. \A c \in r.chains : \E d \in draft : c = ShownChain(d, Topology(d), g[d])
  BY DEF IsAssembled
<1>3. \A card \in r.cards : DOMAIN card = {"ref", "conclusion", "result", "conf", "items",
                                           "evidence"}
  BY CardFields DEF IsAssembled
<1>4. \A l \in r.layers :
        /\ DOMAIN l = {"key", "conclusion", "result", "conf", "window", "anchors", "steps",
                       "paths", "hypotheses", "evidence"}
        /\ \A q \in l.paths : DOMAIN q = {"targets", "kind", "conf", "logic"}
  <2> TAKE l \in r.layers
  <2>1. PICK n \in LayerNames : l = ShownLayer(n)
    BY <1>1
  <2> QED BY <2>1, ShownLayerFields, PathIsOfItem
<1>5. \A c \in r.chains : DOMAIN c = {"key", "conclusion", "result", "conf", "window", "status",
                                      "nodes", "edges", "evidence"}
  BY <1>2, ShownChainFields
<1> QED BY <1>3, <1>4, <1>5 DEF WellFormed, IsAssembled

\* What a run that was not rejected hands to the report.
Reviewed ==
  /\ \E answer : draft = Normalized(answer)
  /\ \A x \in assess : x.signals \subseteq Ids(Eligible(facts, ctx.events))
  /\ \A i \in related : Related(i)

LEMMA ReviewedAtTheEnd ==
  ASSUME RoundsInv, phase = "done", verdict # "rejected"
  PROVE  Reviewed
<1>1. ~HardIssues
  BY DEF RoundsInv, DraftInv, PhaseInv
<1>2. UngroundedAssessments(facts, ctx.events, assess) = {}
  BY <1>1 DEF HardIssues
<1>3. \A x \in assess : x.signals \subseteq Ids(Eligible(facts, ctx.events))
  BY <1>2 DEF UngroundedAssessments
<1>4. \E answer : draft = Normalized(answer)
  BY DEF RoundsInv, DraftInv
<1>5. \A i \in related : Related(i)
  BY DEF RoundsInv, UpperInv, Items
<1> QED BY <1>3, <1>4, <1>5 DEF Reviewed

\* Every view of the draft is of a chain of the context.
LEMMA TopologyOfView ==
  ASSUME Reviewed, NEW c \in draft
  PROVE  Topology(c).id = c.chain
<1>1. \E d \in ctx.chains : d.id = c.chain
  BY NormalizedView DEF Reviewed
<1> QED BY <1>1 DEF Topology

\* The node of an assessment is shown in every chain that has it.
LEMMA AssessedNodeIsShown ==
  ASSUME Reviewed, NEW r, NEW g, IsAssembled(r, g),
         NEW x \in assess, x.layer = "INDUSTRY",
         NEW d \in ctx.chains, x.anchor \in d.nodes
  PROVE  \E c \in r.chains : /\ c.key = ChainKey(d.id)
                             /\ \E n \in c.nodes : n.key = NodeKey(d.id, x.anchor)
<1>1. PICK answer : draft = Normalized(answer)
  BY DEF Reviewed
<1>2. PICK v \in draft : v.chain = d.id /\ DOMAIN v.nodes = d.nodes
  BY <1>1, NormalizedCovers
<1>3. x \in NodeAssessments(Industry, x.anchor)
  BY DEF NodeAssessments, Industry, Targets
<1>4. x.anchor \in SupportedNodes(v)
  BY <1>1, <1>2, <1>3, NormalizedView DEF Reviewed
<1> DEFINE c == ShownChain(v, Topology(v), g[v])
<1>5. c \in r.chains
  BY <1>2, <1>4 DEF IsAssembled
<1>6. x.anchor \in Displayed(v, g[v])
  BY <1>2, <1>4 DEF Displayed
<1>7. ShownNode(v, x.anchor) \in c.nodes
  BY <1>6, ShownChainFields
<1>8. c.key = ChainKey(d.id) /\ ShownNode(v, x.anchor).key = NodeKey(d.id, x.anchor)
  BY <1>2, ShownChainFields, ShownNodeFields
<1> QED BY <1>5, <1>7, <1>8

LEMMA PathsLead ==
  ASSUME Reviewed, NEW r, NEW g, IsAssembled(r, g),
         NEW l \in r.layers, NEW q \in l.paths, NEW t \in q.targets
  PROVE  Leads(r, l, t)
<1>1. PICK name \in LayerNames : l = ShownLayer(name)
  BY DEF IsAssembled
<1>2. PICK i \in related : i.s.layer = name /\ q.targets = PathTargets(ctx, i)
  BY <1>1, PathIsOfItem
<1>3. /\ i.t \in assess
      /\ i.t.layer \in {"MACRO_ECONOMIC", "INDUSTRY"}
      /\ i.t.layer = "MACRO_ECONOMIC" => i.s.layer = "GEOPOLITICAL"
  BY DEF Reviewed, Related
<1>4. CASE i.t.layer = "MACRO_ECONOMIC"
  <2>1. t.type = "anchor" /\ t.key = AnchorKey(i.t.anchor)
    BY <1>2, <1>4, TargetIsOfItem
  <2>2. ShownLayer("MACRO_ECONOMIC") \in r.layers
    BY DEF IsAssembled, LayerNames
  <2>3. \E a \in ShownLayer("MACRO_ECONOMIC").anchors : a.key = AnchorKey(i.t.anchor)
    BY <1>3, <1>4, ShownLayerFields
  <2>4. t.key \in AnchorKeys(r)
    BY <2>1, <2>2, <2>3 DEF AnchorKeys
  <2>5. l.key = LayerKey("GEOPOLITICAL")
    BY <1>1, <1>2, <1>3, <1>4, ShownLayerFields
  <2> QED BY <2>1, <2>4, <2>5 DEF Leads
<1>5. CASE i.t.layer # "MACRO_ECONOMIC"
  <2>1. PICK d \in ctx.chains :
          /\ i.t.anchor \in d.nodes
          /\ \/ t.type = "industry_chain" /\ t.key = ChainKey(d.id)
             \/ t.type = "industry_chain_node" /\ t.key = NodeKey(d.id, i.t.anchor)
    BY <1>2, <1>5, TargetIsOfItem
  <2>2. PICK c \in r.chains : /\ c.key = ChainKey(d.id)
                              /\ \E n \in c.nodes : n.key = NodeKey(d.id, i.t.anchor)
    BY <1>3, <1>5, <2>1, AssessedNodeIsShown
  <2> QED BY <2>1, <2>2 DEF Leads, NodeKeys
<1> QED BY <1>4, <1>5

LEMMA AssembledIsClosed ==
  ASSUME Reviewed, NEW r, NEW g, IsAssembled(r, g)
  PROVE  Closed(r)
<1>1. \A l \in r.layers : \A q \in l.paths : \A t \in q.targets : Leads(r, l, t)
  BY PathsLead
<1>2. ASSUME NEW c \in r.chains, NEW e \in c.edges
      PROVE  {e.from, e.to} \subseteq {n.key : n \in c.nodes}
  <2>1. PICK v \in draft : c = ShownChain(v, Topology(v), g[v])
    BY DEF IsAssembled
  <2> QED BY <1>2, <2>1, TopologyOfView, EdgesJoinNodes
<1>3. \A s \in Sections(r) : s.conclusion = "assembled"
  BY ShownLayerFields, ShownChainFields DEF Sections, IsAssembled
<1>4. ASSUME NEW card \in r.cards PROVE Refers(r, card)
  <2>1. CASE \E l \in r.layers : card = Card("layer", l, l.anchors)
    <3>1. PICK l \in r.layers : card = Card("layer", l, l.anchors)
      BY <2>1
    <3>2. card.items \subseteq AnchorKeys(r)
      BY <3>1, CardFields DEF AnchorKeys
    <3>3. l \in Sections(r)
      BY DEF Sections
    <3> QED BY <3>1, <3>2, <3>3, CardFields DEF Refers
  <2>2. CASE \E c \in r.chains : card = Card("industry_chain", c, Listed(c))
    <3>1. PICK c \in r.chains : card = Card("industry_chain", c, Listed(c))
      BY <2>2
    <3>2. Listed(c) \subseteq c.nodes
      BY Zenon DEF Listed, Settled
    <3>3. card.items \subseteq NodeKeys(r)
      BY <3>1, <3>2, CardFields DEF NodeKeys
    <3>4. c \in Sections(r)
      BY DEF Sections
    <3> QED BY <3>1, <3>3, <3>4, CardFields DEF Refers
  <2> QED BY <2>1, <2>2 DEF IsAssembled
<1> QED BY <1>1, <1>2, <1>3, <1>4 DEF Closed

LEMMA AssembledIsBased ==
  ASSUME Reviewed, NEW r, NEW g, IsAssembled(r, g)
  PROVE  Based(r)
<1>1. PICK answer : draft = Normalized(answer)
  BY DEF Reviewed
<1>2. \A l \in r.layers : \A a \in l.anchors : a.evidence # {}
  BY DEF IsAssembled, NotPublishable
<1>3. ASSUME NEW c \in r.chains
      PROVE  /\ \A n \in c.nodes : BasedNode(n)
             /\ c.result # "pending" =>
                  \E n \in c.nodes : n.result # "pending" /\ n.window \subseteq c.window
  <2>1. PICK v \in draft : c = ShownChain(v, Topology(v), g[v])
    BY DEF IsAssembled
  <2>2. \A n \in c.nodes : n.nature = "direct_evidence" => n.evidence # {}
    BY DEF IsAssembled, NotPublishable
  <2>3. \A n \in c.nodes : \E m \in DOMAIN v.nodes : n = ShownNode(v, m)
    <3>1. c.nodes = {ShownNode(v, m) : m \in Displayed(v, g[v])}
      BY <2>1, ShownChainFields
    <3>2. Displayed(v, g[v]) \subseteq DOMAIN v.nodes
      BY DEF Displayed
    <3> QED BY <3>1, <3>2
  <2>4. ASSUME NEW n \in c.nodes PROVE BasedNode(n)
    <3>1. PICK m \in DOMAIN v.nodes : n = ShownNode(v, m)
      BY <2>3
    <3>2. v \in Normalized(answer)
      BY <1>1
    <3> QED BY <2>2, <3>1, <3>2, ShownNodeIsBased
  <2> QED BY <1>1, <2>1, <2>4, ChainResultIsShown
<1> QED BY <1>2, <1>3 DEF Based

-----------------------------------------------------------------------------
(* Prose.                                                                  *)

\* A section after a pass of rewriting.
Edited(s, keys, version) == IF s.key \in keys THEN [s EXCEPT !.conclusion = version] ELSE s

\* Of a section only the conclusion is rewritten, and by its key alone.
LEMMA EditedFields ==
  ASSUME NEW s, NEW keys, NEW version, {"key", "conclusion"} \subseteq DOMAIN s
  PROVE  /\ DOMAIN Edited(s, keys, version) = DOMAIN s
         /\ \A x \in DOMAIN s \ {"conclusion"} : Edited(s, keys, version)[x] = s[x]
         /\ Edited(s, keys, version).key = s.key
         /\ Edited(s, keys, version).conclusion = IF s.key \in keys THEN version ELSE s.conclusion
  BY DEF Edited

\* The texts of the sections that a card refers to, of which it takes one.
TextsFor(r, card) == {s.conclusion : s \in {x \in Sections(r) : x.key = card.ref.key}}
Retold(r, card) == [card EXCEPT !.conclusion = CHOOSE x \in TextsFor(r, card) : TRUE]

LEMMA NarratedReport ==
  ASSUME NEW r, WellFormed(r), NEW keys, NEW version,
         NEW n, n = ApplyNarratives(r, keys, version)
  PROVE  /\ DOMAIN n = DOMAIN r /\ n.status = r.status
         /\ n.layers = {Edited(s, keys, version) : s \in r.layers}
         /\ n.chains = {Edited(s, keys, version) : s \in r.chains}
         /\ n.cards = {Retold(n, c) : c \in r.cards}
<1> DEFINE e == RewriteSections(r, keys, version)
           cards == {Retold(e, c) : c \in e.cards}
<1>1. DOMAIN r = {"status", "layers", "chains", "cards"}
  BY DEF WellFormed
<1>2. /\ DOMAIN e = DOMAIN r /\ e.status = r.status /\ e.cards = r.cards
      /\ e.layers = Rewritten(r.layers, keys, version)
      /\ e.chains = Rewritten(r.chains, keys, version)
  BY <1>1 DEF RewriteSections
<1>3. n = [e EXCEPT !.cards = cards]
  BY Zenon DEF ApplyNarratives, Retold, TextsFor
<1> HIDE DEF cards, e
<1>4. /\ DOMAIN n = DOMAIN r /\ n.status = r.status /\ n.cards = cards
      /\ n.layers = e.layers /\ n.chains = e.chains
  BY <1>1, <1>2, <1>3
<1>5. \A S : Rewritten(S, keys, version) = {Edited(s, keys, version) : s \in S}
  BY Zenon DEF Rewritten, Edited
<1>6. Sections(n) = Sections(e)
  BY <1>4 DEF Sections
<1>7. \A c : Retold(n, c) = Retold(e, c)
  BY <1>6, Zenon DEF Retold, TextsFor
<1>8. n.cards = {Retold(n, c) : c \in r.cards}
  BY <1>2, <1>4, <1>7 DEF cards
<1> QED BY <1>2, <1>4, <1>5, <1>8

\* Rewriting touches no key and no claim, so what was closed and founded stays.
LEMMA NarratedSections ==
  ASSUME NEW r, WellFormed(r), NEW keys, NEW version,
         NEW n, n = ApplyNarratives(r, keys, version)
  PROVE  /\ WellFormed(n)
         /\ AnchorKeys(n) = AnchorKeys(r) /\ NodeKeys(n) = NodeKeys(r)
         /\ {c.key : c \in n.chains} = {c.key : c \in r.chains}
         /\ \A s \in Sections(r) : Edited(s, keys, version) \in Sections(n)
         /\ \A s \in Sections(n) : \E x \in Sections(r) : s = Edited(x, keys, version)
         /\ \A l \in n.layers : \E x \in r.layers :
              l.key = x.key /\ l.paths = x.paths /\ l.anchors = x.anchors
         /\ \A c \in n.chains : \E x \in r.chains :
              /\ c.key = x.key /\ c.nodes = x.nodes /\ c.edges = x.edges
              /\ c.result = x.result /\ c.window = x.window
<1> DEFINE E(s) == Edited(s, keys, version)
<1>1. /\ DOMAIN n = DOMAIN r
      /\ n.layers = {E(s) : s \in r.layers}
      /\ n.chains = {E(s) : s \in r.chains}
      /\ n.cards = {Retold(n, c) : c \in r.cards}
  BY NarratedReport
<1>2. \A l \in r.layers : /\ DOMAIN E(l) = DOMAIN l
                          /\ E(l).key = l.key /\ E(l).paths = l.paths
                          /\ E(l).anchors = l.anchors
  BY EditedFields DEF WellFormed
<1>3. \A c \in r.chains : /\ DOMAIN E(c) = DOMAIN c
                          /\ E(c).key = c.key /\ E(c).nodes = c.nodes /\ E(c).edges = c.edges
                          /\ E(c).result = c.result /\ E(c).window = c.window
  BY EditedFields DEF WellFormed
<1> HIDE DEF E
<1>4. WellFormed(n)
  <2>1. \A l \in n.layers :
          /\ DOMAIN l = {"key", "conclusion", "result", "conf", "window", "anchors", "steps",
                         "paths", "hypotheses", "evidence"}
          /\ \A q \in l.paths : DOMAIN q = {"targets", "kind", "conf", "logic"}
    BY <1>1, <1>2 DEF WellFormed
  <2>2. \A c \in n.chains : DOMAIN c = {"key", "conclusion", "result", "conf", "window", "status",
                                        "nodes", "edges", "evidence"}
    BY <1>1, <1>3 DEF WellFormed
  <2>3. \A card \in n.cards : DOMAIN card = {"ref", "conclusion", "result", "conf", "items",
                                             "evidence"}
    BY <1>1 DEF WellFormed, Retold
  <2> QED BY <1>1, <2>1, <2>2, <2>3 DEF WellFormed
<1>5. AnchorKeys(n) = AnchorKeys(r)
  BY <1>1, <1>2 DEF AnchorKeys
<1>6. NodeKeys(n) = NodeKeys(r) /\ {c.key : c \in n.chains} = {c.key : c \in r.chains}
  BY <1>1, <1>3 DEF NodeKeys
<1>7. /\ \A s \in Sections(r) : E(s) \in Sections(n)
      /\ \A s \in Sections(n) : \E x \in Sections(r) : s = E(x)
  BY <1>1 DEF Sections
<1>8. /\ \A l \in n.layers : \E x \in r.layers :
           l.key = x.key /\ l.paths = x.paths /\ l.anchors = x.anchors
      /\ \A c \in n.chains : \E x \in r.chains :
           /\ c.key = x.key /\ c.nodes = x.nodes /\ c.edges = x.edges
           /\ c.result = x.result /\ c.window = x.window
  BY <1>1, <1>2, <1>3
<1> QED BY <1>4, <1>5, <1>6, <1>7, <1>8 DEF E

LEMMA NarrativesKeepReport ==
  ASSUME NEW r, WellFormed(r), Closed(r), Based(r), NEW keys, NEW version,
         NEW n, n = ApplyNarratives(r, keys, version)
  PROVE  WellFormed(n) /\ Closed(n) /\ Based(n) /\ n.status = r.status
<1> DEFINE E(s) == Edited(s, keys, version)
<1>0. /\ WellFormed(n)
      /\ AnchorKeys(n) = AnchorKeys(r) /\ NodeKeys(n) = NodeKeys(r)
      /\ {c.key : c \in n.chains} = {c.key : c \in r.chains}
  BY NarratedSections, Zenon
<1>1. /\ \A s \in Sections(r) : E(s) \in Sections(n)
      /\ \A s \in Sections(n) : \E x \in Sections(r) : s = E(x)
      /\ \A l \in n.layers : \E x \in r.layers :
           l.key = x.key /\ l.paths = x.paths /\ l.anchors = x.anchors
      /\ \A c \in n.chains : \E x \in r.chains :
           /\ c.key = x.key /\ c.nodes = x.nodes /\ c.edges = x.edges
           /\ c.result = x.result /\ c.window = x.window
  BY NarratedSections
<1>2. /\ n.status = r.status
      /\ n.cards = {Retold(n, c) : c \in r.cards}
  BY NarratedReport
<1>3. \A s \in Sections(r) :
        /\ E(s).key = s.key /\ E(s).result = s.result /\ E(s).conf = s.conf
        /\ E(s).conclusion = IF s.key \in keys THEN version ELSE s.conclusion
  BY EditedFields DEF WellFormed, Sections
<1> HIDE DEF E
<1>4. ASSUME NEW s \in Sections(n), NEW u \in Sections(n), s.key = u.key
      PROVE  s.conclusion = u.conclusion
  <2>1. PICK x \in Sections(r), y \in Sections(r) : s = E(x) /\ u = E(y)
    BY <1>1
  <2>2. x.key = y.key
    BY <1>3, <1>4, <2>1
  <2>3. x.conclusion = y.conclusion
    BY <2>2 DEF Closed
  <2> QED BY <1>3, <2>1, <2>2, <2>3
<1>5. ASSUME NEW card \in n.cards PROVE Refers(n, card)
  <2>1. PICK c \in r.cards : card = Retold(n, c)
    BY <1>2
  <2>2. /\ card.ref = c.ref /\ card.result = c.result /\ card.conf = c.conf
        /\ card.items = c.items
        /\ card.conclusion = CHOOSE x \in TextsFor(n, c) : TRUE
    BY <2>1 DEF WellFormed, Retold
  <2>3. PICK s \in Sections(r) : /\ s.key = c.ref.key /\ s.result = c.result /\ s.conf = c.conf
                                 /\ c.items \subseteq AnchorKeys(r) \cup NodeKeys(r)
    BY DEF Closed, Refers
  <2>4. E(s) \in Sections(n) /\ E(s).key = card.ref.key
    BY <1>1, <1>3, <2>2, <2>3
  <2>5. E(s).conclusion \in TextsFor(n, c)
    BY <2>2, <2>4 DEF TextsFor
  <2>6. \A x \in TextsFor(n, c) : x = E(s).conclusion
    BY <1>4, <2>2, <2>4 DEF TextsFor
  <2>7. card.conclusion = E(s).conclusion
    BY <2>2, <2>5, <2>6
  <2> QED BY <1>0, <1>3, <2>2, <2>3, <2>4, <2>7 DEF Refers
<1>6. ASSUME NEW l \in n.layers, NEW q \in l.paths, NEW t \in q.targets
      PROVE  Leads(n, l, t)
  <2>1. PICK x \in r.layers : l.key = x.key /\ q \in x.paths
    BY <1>1
  <2>2. Leads(r, x, t)
    BY <2>1 DEF Closed
  <2> QED BY <1>0, <2>1, <2>2 DEF Leads
<1>7. \A c \in n.chains : \A e \in c.edges : {e.from, e.to} \subseteq {m.key : m \in c.nodes}
  BY <1>1 DEF Closed
<1>8. Closed(n)
  BY <1>4, <1>5, <1>6, <1>7 DEF Closed
<1>9. Based(n)
  BY <1>1 DEF Based
<1> QED BY <1>0, <1>2, <1>8, <1>9

-----------------------------------------------------------------------------
(* Whole runs.                                                             *)

\* Reporting changes nothing that was reasoned.
LEMMA ReportingReasons == SpecReporting => Spec
<1>1. InitReporting => Init
  BY DEF InitReporting
<1>2. [NextReporting]_reportingVars => [Next]_vars
  BY DEF NextReporting, Reason, Generate, WriteAndEdit, reportingVars
<1> QED BY <1>1, <1>2, PTL DEF SpecReporting, Spec

LEMMA ReportStep ==
  RoundsInv /\ ReportInv /\ [NextReporting]_reportingVars => ReportInv'
<1> SUFFICES ASSUME RoundsInv, ReportInv, [NextReporting]_reportingVars PROVE ReportInv'
  OBVIOUS
<1>1. CASE Generate
  <2>1. CASE verdict = "rejected"
    BY <1>1, <2>1 DEF Generate, ReportInv, Skipped
  <2>2. CASE verdict # "rejected"
    <3>1. Reviewed
      BY <1>1, <2>2, ReviewedAtTheEnd DEF Generate
    <3>2. SUFFICES ASSUME report'.status = "GENERATED"
                   PROVE  WellFormed(report') /\ Closed(report') /\ Based(report')
      BY DEF ReportInv, WellFormed, Closed, Based, Leads, Refers, BasedNode, AnchorKeys, NodeKeys
    <3>3. report' \in Assembled(ctx, EventBatches, facts, assess, related, draft)
      BY <1>1, <2>2 DEF Generate
    <3>4. PICK g : IsAssembled(report', g)
      BY <3>2, <3>3, GeneratedIsAssembled
    <3> QED BY <3>1, <3>4, AssembledIsWellFormed, AssembledIsClosed, AssembledIsBased
  <2> QED BY <2>1, <2>2
<1>2. CASE WriteAndEdit
  <2>1. PICK written, edited :
          report' = ApplyNarratives(ApplyNarratives(report, written, "written"), edited, "edited")
    BY <1>2 DEF WriteAndEdit
  <2>2. WellFormed(report) /\ Closed(report) /\ Based(report)
    BY <1>2 DEF WriteAndEdit, ReportInv
  <2> DEFINE first == ApplyNarratives(report, written, "written")
  <2>3. WellFormed(first) /\ Closed(first) /\ Based(first)
    BY <2>2, NarrativesKeepReport
  <2>4. WellFormed(report') /\ Closed(report') /\ Based(report')
    BY <2>1, <2>3, NarrativesKeepReport
  <2> QED BY <2>4 DEF ReportInv
<1>3. CASE report' = report
  BY <1>3 DEF ReportInv
<1> QED BY <1>1, <1>2, <1>3 DEF NextReporting, Reason, reportingVars

\* Of every report of a run that was not rejected, before and after its prose was
\* rewritten: targets, edges, cards and their texts are those of its sections, and
\* its claims have a basis.
THEOREM ReportsAreFounded == SpecReporting => []ReportInv
<1>1. InitReporting => ReportInv
  BY DEF InitReporting, ReportInv, NoReport
<1>2. SpecReporting => []RoundsInv
  BY ReportingReasons, ReasoningInvariant, PTL
<1> QED BY <1>1, <1>2, ReportStep, PTL DEF SpecReporting

-----------------------------------------------------------------------------
(* What is published.                                                      *)

LEMMA PublishedFields ==
  ASSUME NEW item
  PROVE  /\ Published(item).key = item.key
         /\ Published(item).result = item.result
         /\ Published(item).window = item.window
         /\ Published(item).basis = Basis(item.nature)
         /\ Published(item).evidence = item.evidence
  BY DEF Published

LEMMA PublishedLayerFields ==
  ASSUME NEW l
  PROVE  /\ PublishedLayer(l).key = l.key
         /\ PublishedLayer(l).anchors = {Published(a) : a \in l.anchors}
         /\ PublishedLayer(l).toMacro = IF l.key = LayerKey("GEOPOLITICAL")
                                        THEN PathGroup(l, {"anchor"}) ELSE {}
         /\ PublishedLayer(l).toIndustry = PathGroup(l, IndustryTypes)
  BY DEF PublishedLayer

LEMMA PublishedChainFields ==
  ASSUME NEW c
  PROVE  /\ PublishedChain(c).key = c.key
         /\ PublishedChain(c).result = c.result
         /\ PublishedChain(c).window = c.window
         /\ PublishedChain(c).nodes = {Published(n) : n \in c.nodes}
         /\ PublishedChain(c).edges = c.edges
  BY DEF PublishedChain

LEMMA PublicationFields ==
  ASSUME NEW r
  PROVE  /\ BuildPublication(r).layers = {PublishedLayer(l) : l \in r.layers}
         /\ BuildPublication(r).chains = {PublishedChain(c) : c \in r.chains}
  BY DEF BuildPublication

\* The publication has the keys of the report.
LEMMA PublishedKeys ==
  ASSUME NEW r
  PROVE  /\ AnchorsIn(BuildPublication(r)) = AnchorKeys(r)
         /\ NodesIn(BuildPublication(r)) = NodeKeys(r)
         /\ ChainsIn(BuildPublication(r)) = {c.key : c \in r.chains}
<1> DEFINE P == BuildPublication(r)
<1>1. /\ P.layers = {PublishedLayer(l) : l \in r.layers}
      /\ P.chains = {PublishedChain(c) : c \in r.chains}
  BY PublicationFields
<1> HIDE DEF P
<1>2. \A l : {a.key : a \in PublishedLayer(l).anchors} = {a.key : a \in l.anchors}
  <2> TAKE l
  <2>1. PublishedLayer(l).anchors = {Published(a) : a \in l.anchors}
    BY PublishedLayerFields
  <2> QED BY <2>1, PublishedFields
<1>3. \A c : {n.key : n \in PublishedChain(c).nodes} = {n.key : n \in c.nodes}
  <2> TAKE c
  <2>1. PublishedChain(c).nodes = {Published(n) : n \in c.nodes}
    BY PublishedChainFields
  <2> QED BY <2>1, PublishedFields
<1>4. AnchorsIn(P) = AnchorKeys(r)
  <2>1. AnchorsIn(P) = UNION {{a.key : a \in PublishedLayer(l).anchors} : l \in r.layers}
    BY <1>1 DEF AnchorsIn
  <2> QED BY <2>1, <1>2 DEF AnchorKeys
<1>5. NodesIn(P) = NodeKeys(r)
  <2>1. NodesIn(P) = UNION {{n.key : n \in PublishedChain(c).nodes} : c \in r.chains}
    BY <1>1 DEF NodesIn
  <2> QED BY <2>1, <1>3 DEF NodeKeys
<1>6. ChainsIn(P) = {c.key : c \in r.chains}
  BY <1>1, PublishedChainFields DEF ChainsIn
<1> QED BY <1>4, <1>5, <1>6 DEF P

\* A published path is one of the report with some of its targets, and every
\* target is kept in the group for its type.
LEMMA PublishedPaths ==
  ASSUME NEW r, WellFormed(r), Closed(r), NEW l \in r.layers
  PROVE  /\ \A q \in PathsIn(PublishedLayer(l)) : \E x \in l.paths : q.targets \subseteq x.targets
         /\ \A x \in l.paths : \A t \in x.targets :
              \E q \in PathsIn(PublishedLayer(l)) : q.logic = x.logic /\ t \in q.targets
<1> DEFINE part(x, allowed) == [x EXCEPT !.targets = {t \in x.targets : t.type \in allowed}]
<1>1. ASSUME NEW x \in l.paths, NEW allowed
      PROVE  /\ part(x, allowed).logic = x.logic
             /\ part(x, allowed).targets = {t \in x.targets : t.type \in allowed}
  BY DEF WellFormed
<1>2. \A allowed : PathGroup(l, allowed) =
        {part(x, allowed) : x \in {y \in l.paths : \E t \in y.targets : t.type \in allowed}}
  BY Zenon DEF PathGroup
<1> HIDE DEF part
<1>3. ASSUME NEW allowed, NEW q \in PathGroup(l, allowed)
      PROVE  \E x \in l.paths : q.targets \subseteq x.targets
  BY <1>1, <1>2
<1>4. ASSUME NEW x \in l.paths, NEW t \in x.targets, NEW allowed, t.type \in allowed
      PROVE  \E q \in PathGroup(l, allowed) : q.logic = x.logic /\ t \in q.targets
  <2>1. part(x, allowed) \in PathGroup(l, allowed)
    BY <1>2, <1>4
  <2> QED BY <2>1, <1>1, <1>4
<1>5. ASSUME NEW q \in PathsIn(PublishedLayer(l))
      PROVE  \E x \in l.paths : q.targets \subseteq x.targets
  BY <1>3, <1>5, PublishedLayerFields DEF PathsIn
<1>6. ASSUME NEW x \in l.paths, NEW t \in x.targets
      PROVE  \E q \in PathsIn(PublishedLayer(l)) : q.logic = x.logic /\ t \in q.targets
  <2>1. Leads(r, l, t)
    BY DEF Closed
  <2>2. CASE t.type = "anchor"
    <3>1. PublishedLayer(l).toMacro = PathGroup(l, {"anchor"})
      BY <2>1, <2>2, PublishedLayerFields DEF Leads
    <3> QED BY <3>1, <1>4, <2>2 DEF PathsIn
  <2>3. CASE t.type \in IndustryTypes
    BY <2>3, <1>4, PublishedLayerFields DEF PathsIn
  <2> QED BY <2>1, <2>2, <2>3 DEF Leads, IndustryTypes
<1> QED BY <1>5, <1>6

LEMMA ReportInvCloses == ReportInv => ReportCloses
<1> SUFFICES ASSUME WellFormed(report), Closed(report) PROVE ReportCloses
  BY DEF ReportInv, ReportCloses
<1> DEFINE P == BuildPublication(report)
<1>1. /\ P.layers = {PublishedLayer(l) : l \in report.layers}
      /\ P.chains = {PublishedChain(c) : c \in report.chains}
  BY PublicationFields
<1>2. /\ AnchorsIn(P) = AnchorKeys(report) /\ NodesIn(P) = NodeKeys(report)
      /\ ChainsIn(P) = {c.key : c \in report.chains}
  BY PublishedKeys
<1> HIDE DEF P
<1>3. ASSUME NEW l \in P.layers, NEW q \in PathsIn(l), NEW t \in q.targets
      PROVE  <<t.type, t.key>> \in TargetsIn(P)
  <2>1. PICK x \in report.layers : l = PublishedLayer(x)
    BY <1>1
  <2>2. PICK y \in x.paths : q.targets \subseteq y.targets
    BY <2>1, PublishedPaths
  <2>3. Leads(report, x, t)
    BY <2>2 DEF Closed
  <2> QED BY <2>3, <1>2 DEF Leads, TargetsIn
<1>4. ASSUME NEW l \in report.layers, NEW x \in l.paths, NEW t \in x.targets
      PROVE  \E m \in P.layers : \E q \in PathsIn(m) :
               m.key = l.key /\ q.logic = x.logic /\ t \in q.targets
  <2>1. PublishedLayer(l) \in P.layers /\ PublishedLayer(l).key = l.key
    BY <1>1, PublishedLayerFields
  <2> QED BY <2>1, PublishedPaths
<1>5. ASSUME NEW c \in P.chains, NEW e \in c.edges
      PROVE  {e.from, e.to} \subseteq {n.key : n \in c.nodes}
  <2>1. PICK x \in report.chains : c = PublishedChain(x)
    BY <1>1
  <2>2. c.edges = x.edges /\ c.nodes = {Published(n) : n \in x.nodes}
    BY <2>1, PublishedChainFields
  <2>3. {n.key : n \in c.nodes} = {n.key : n \in x.nodes}
    BY <2>2, PublishedFields
  <2> QED BY <2>2, <2>3 DEF Closed
<1>6. ASSUME NEW card \in report.cards
      PROVE  \E s \in Sections(report) :
               /\ s.key = card.ref.key
               /\ <<s.conclusion, s.result, s.conf>> = <<card.conclusion, card.result, card.conf>>
               /\ card.items \subseteq AnchorsIn(P) \cup NodesIn(P)
  BY <1>2 DEF Closed, Refers
<1>7. \A l \in P.layers : \A q \in PathsIn(l) :
        {<<t.type, t.key>> : t \in q.targets} \subseteq TargetsIn(P)
  BY <1>3
<1> QED BY <1>4, <1>5, <1>6, <1>7 DEF ReportCloses, P

LEMMA ReportInvBased == ReportInv => ClaimsHaveBasis
<1> SUFFICES ASSUME WellFormed(report), Based(report) PROVE ClaimsHaveBasis
  BY DEF ReportInv, ClaimsHaveBasis
<1> DEFINE P == BuildPublication(report)
<1>1. /\ P.layers = {PublishedLayer(l) : l \in report.layers}
      /\ P.chains = {PublishedChain(c) : c \in report.chains}
  BY PublicationFields
<1> HIDE DEF P
<1>2. ASSUME NEW l \in P.layers, NEW a \in l.anchors PROVE a.evidence # {}
  <2>1. PICK x \in report.layers : l = PublishedLayer(x)
    BY <1>1
  <2>2. PICK b \in x.anchors : a = Published(b)
    BY <2>1, PublishedLayerFields
  <2> QED BY <2>2, PublishedFields DEF Based
<1>3. ASSUME NEW x \in report.chains, NEW n \in x.nodes
      PROVE  /\ Published(n).basis[2] = "confirmed" <=> Published(n).evidence # {}
             /\ Published(n).result # "pending" =>
                  /\ Published(n).basis[1] # "no_directional_conclusion"
                  /\ Published(n).window # {}
  <2>1. BasedNode(n)
    BY DEF Based
  <2>2. /\ Basis(n.nature)[2] = "confirmed" <=> n.nature = "direct_evidence"
        /\ n.nature \in {"direct_evidence", "reasoning_hypothesis"} =>
             Basis(n.nature)[1] # "no_directional_conclusion"
    BY DEF Basis
  <2> QED BY <2>1, <2>2, PublishedFields DEF BasedNode
<1>4. ASSUME NEW c \in P.chains
      PROVE  /\ \A n \in c.nodes :
                  /\ n.basis[2] = "confirmed" <=> n.evidence # {}
                  /\ n.result # "pending" =>
                       n.basis[1] # "no_directional_conclusion" /\ n.window # {}
             /\ c.result # "pending" =>
                  \E n \in c.nodes : n.result # "pending" /\ n.window \subseteq c.window
  <2>1. PICK x \in report.chains : c = PublishedChain(x)
    BY <1>1
  <2>2. /\ c.nodes = {Published(n) : n \in x.nodes}
        /\ c.result = x.result /\ c.window = x.window
    BY <2>1, PublishedChainFields
  <2>3. ASSUME c.result # "pending"
        PROVE  \E n \in c.nodes : n.result # "pending" /\ n.window \subseteq c.window
    <3>1. PICK n \in x.nodes : n.result # "pending" /\ n.window \subseteq x.window
      BY <2>2, <2>3 DEF Based
    <3>2. Published(n) \in c.nodes
      BY <2>2
    <3> QED BY <2>2, <3>1, <3>2, PublishedFields
  <2> QED BY <1>3, <2>2, <2>3
<1> QED BY <1>2, <1>4 DEF ClaimsHaveBasis, P

\* Every key named in a publication is in it, no path is lost between the groups,
\* and cards say what their sections say after every rewriting.
THEOREM ReportsAlwaysClose == SpecReporting => []ReportCloses
BY ReportsAreFounded, ReportInvCloses, PTL

\* What is published as confirmed has Evidence and nothing else has, a direction
\* rests on something, and the direction of a chain is that of a node it shows.
THEOREM ClaimsAlwaysBased == SpecReporting => []ClaimsHaveBasis
BY ReportsAreFounded, ReportInvBased, PTL

=============================================================================
