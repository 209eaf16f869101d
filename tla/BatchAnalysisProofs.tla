-------------------------- MODULE BatchAnalysisProofs --------------------------
(***************************************************************************)
(* Theorems about BatchAnalysis for any batch, classes, catalogs and       *)
(* answers, and any number of deaths: a resumed run agrees with its        *)
(* checkpoints, only what was offered is published, and Evidence is        *)
(* settled as the first answers say.                                       *)
(***************************************************************************)
EXTENDS BatchAnalysis, FiniteSetTheorems, WellFoundedInduction, TLAPS

-----------------------------------------------------------------------------
(* Keys.                                                                   *)

Stages == {Extract, Identity, Associations, Publication} \cup MatchStages \cup SignalStages

LEMMA StageKinds ==
  /\ Extract \in Stages /\ Identity \in Stages
  /\ Associations \in Stages /\ Publication \in Stages
  /\ \A s \in MatchStages : s \in Stages
  /\ \A s \in SignalStages : s \in Stages
  /\ \A g \in Classes : Match(g) \in MatchStages /\ Signal(g) \in SignalStages
  /\ Match("node") \in MatchStages /\ Match("chain") \in MatchStages
BY GroupsAssumption DEF Stages, MatchStages, SignalStages, Classes

\* A key has one stage and one part, and the journal is no checkpoint.
LEMMA OneKey ==
  ASSUME NEW s \in Stages, NEW t \in Stages, NEW p, NEW q
  PROVE  /\ At(s, p) # JournalKey
         /\ At(s, p) = At(t, q) => s = t /\ p = q
<1>1. ASSUME NEW r \in Stages
      PROVE  r = <<r[1], r[2]>> /\ r[1] # "journal"
  <2> DEFINE kinds == {"extract", "identity", "associations", "publication", "match", "signal"}
  <2>1. \E a \in kinds : \E b : r = <<a, b>>
    BY DEF Stages, MatchStages, SignalStages, Extract, Identity, Associations, Publication,
           Match, Signal
  <2>2. PICK a \in kinds : \E b : r = <<a, b>>
    BY <2>1
  <2> QED BY <2>2
<1> QED BY <1>1 DEF At, JournalKey

\* Stages of different kinds are different.
LEMMA Kinds ==
  /\ Extract # Identity /\ Extract # Associations /\ Extract # Publication
  /\ Identity # Associations /\ Identity # Publication /\ Associations # Publication
  /\ \A s \in MatchStages \cup SignalStages : s \notin {Extract, Identity, Associations, Publication}
  /\ \A s \in MatchStages, t \in SignalStages : s # t
  /\ \A g, h : (Match(g) = Match(h) => g = h) /\ (Signal(g) = Signal(h) => g = h)
  /\ \A g \in Classes : Match(g) # Match("node")
<1>1. \A g, h : (Match(g) = Match(h) => g = h) /\ (Signal(g) = Signal(h) => g = h)
  BY DEF Match, Signal
<1>2. \A g \in Classes : Match(g) # Match("node")
  BY <1>1, GroupsAssumption DEF Classes
<1> QED
  BY <1>1, <1>2
  DEF Extract, Identity, Associations, Publication, MatchStages, SignalStages, Match, Signal

-----------------------------------------------------------------------------
(* What a Function leaves on the disk.                                     *)

Placed(writes) == \A w \in writes : w.at \in Nat \X Nat

\* The writes of a Function up to some point.
Begun(W, writes) ==
  /\ W \subseteq writes
  /\ \A w \in W, v \in writes : Before(v, w) => v \in W

Grows ==
  \A key \in DOMAIN disk :
    key \in DOMAIN disk' /\ (key # JournalKey => disk'[key] = disk[key])

\* What a run can do with some writes before it goes on or ends.
Does(writes, W, next) ==
  /\ settled' = settled
  /\ Begun(W, writes)
  /\ \A w \in W : ~Clashes(w)
  /\ disk' = Kept(W)
  /\ \/ /\ W = writes /\ pc' = next /\ refused' = refused
        /\ said' = Restrict(said, {t \in DOMAIN said : next # "idle" /\ At(t, "raw") \notin DOMAIN disk'})
     \/ /\ pc' = "idle" /\ said' = NoAnswers
        /\ refused' # refused => \E w \in writes : Clashes(w)

LEMMA Performed ==
  ASSUME NEW writes, Placed(writes), NEW next, Perform(writes, next)
  PROVE  \E W \in SUBSET writes : Does(writes, W, next)
<1>1. ASSUME {w \in writes : Clashes(w)} = {}, disk' = Kept(writes), pc' = next,
             said' = Restrict(said, {t \in DOMAIN said : next # "idle" /\ At(t, "raw") \notin DOMAIN disk'}),
             UNCHANGED <<faults, refused>>, UNCHANGED settled
      PROVE  Does(writes, writes, next)
  BY <1>1 DEF Does, Begun
<1>2. ASSUME NEW w \in writes, \A c \in {c \in writes : Clashes(c)} : ~Before(c, w),
             disk' = Kept({v \in writes : Before(v, w)}), EndRun, UNCHANGED settled,
             \/ faults < MaxFaults /\ faults' = faults + 1 /\ UNCHANGED refused
             \/ w \in {c \in writes : Clashes(c)} /\ refused' = TRUE /\ UNCHANGED faults
      PROVE  Does(writes, {v \in writes : Before(v, w)}, next)
  <2>1. \A v \in writes, u \in writes : Before(v, w) /\ Before(u, v) => Before(u, w)
    BY <1>2 DEF Before, Placed
  <2>2. Begun({v \in writes : Before(v, w)}, writes)
    BY <2>1 DEF Begun
  <2>3. refused' # refused => \E c \in writes : Clashes(c)
    BY <1>2
  <2> QED BY <1>2, <2>2, <2>3 DEF Does, EndRun
<1> QED BY <1>1, <1>2 DEF Perform

LEMMA KeptGrows ==
  ASSUME NEW W, disk' = Kept(W)
  PROVE  Grows
BY DEF Grows, Kept, Fixed

\* Nothing else appears.
LEMMA KeptDomain ==
  ASSUME NEW W, disk' = Kept(W)
  PROVE  DOMAIN disk' = DOMAIN disk \cup KeysOf(W)
BY DEF Kept

\* A key that is written by one write at most.
Single(writes, key) == \A v, w \in writes : v.key = key /\ w.key = key => v = w

LEMMA KeptValue ==
  ASSUME NEW W, disk' = Kept(W), Placed(W), NEW w \in W, ~Clashes(w), Single(W, w.key)
  PROVE  w.key \in DOMAIN disk' /\ disk'[w.key] = w.value
<1>1. w.key \in KeysOf(W) /\ w.key \in DOMAIN disk'
  BY DEF KeysOf, Kept
<1>2. CASE Fixed(w.key)
  BY <1>1, <1>2 DEF Kept, Clashes
<1>3. CASE ~Fixed(w.key)
  <2>1. disk'[w.key] = Latest(W, w.key).value
    BY <1>1, <1>3 DEF Kept
  <2>2. ~Before(w, w)
    BY DEF Before, Placed
  <2>3. \A v \in W : v.key = w.key => ~Before(w, v)
    BY <2>2 DEF Single
  <2>4. Latest(W, w.key) \in W /\ Latest(W, w.key).key = w.key
    BY <2>3 DEF Latest
  <2> QED BY <1>1, <2>1, <2>4 DEF Single
<1> QED BY <1>2, <1>3

LEMMA Appears ==
  ASSUME NEW writes, NEW W \in SUBSET writes, NEW next, Does(writes, W, next),
         NEW key, key \in DOMAIN disk'
  PROVE  key \in DOMAIN disk \/ \E w \in W : w.key = key
<1>1. disk' = Kept(W)
  BY DEF Does
<1>2. DOMAIN disk' = DOMAIN disk \cup KeysOf(W)
  BY <1>1, KeptDomain
<1> QED BY <1>2 DEF KeysOf

LEMMA Remains ==
  ASSUME NEW writes, NEW W \in SUBSET writes, NEW next, Does(writes, W, next)
  PROVE  Grows
BY KeptGrows DEF Does

LEMMA Written ==
  ASSUME NEW writes, Placed(writes), NEW W \in SUBSET writes, NEW next, Does(writes, W, next),
         NEW w \in W, Single(writes, w.key)
  PROVE  w.key \in DOMAIN disk' /\ disk'[w.key] = w.value
BY KeptValue DEF Does, Placed, Single

\* A Function that does not write a stage, and what stays of it.
Silent(writes, s) == \A w \in writes : \A part : w.key # At(s, part)

Stays(s) ==
  \A part : /\ At(s, part) \in DOMAIN disk' <=> At(s, part) \in DOMAIN disk
            /\ At(s, part) \in DOMAIN disk => disk'[At(s, part)] = disk[At(s, part)]

LEMMA SilentStays ==
  ASSUME NEW s \in Stages, NEW writes, NEW W \in SUBSET writes, NEW next, Does(writes, W, next),
         Silent(writes, s)
  PROVE  Stays(s)
<1>1. \A part : At(s, part) # JournalKey
  BY OneKey
<1>2. \A key \in DOMAIN disk' : key \in DOMAIN disk \/ \E w \in W : w.key = key
  BY Appears
<1>3. Grows
  BY Remains
<1> QED BY <1>1, <1>2, <1>3 DEF Stays, Grows, Silent

-----------------------------------------------------------------------------
(* Each Function keeps what its stage's checkpoints say of one another.    *)

\* An answer frozen with what could not be used of it, the rejections in the
\* place n of their phase.
Audit(s, phase, n, raw, parse, rejections, result) ==
  (IF Has(s, "result") THEN {}
   ELSE Once(<<phase, 1>>, s, "raw", raw)
        \cup Once(<<phase, 2>>, s, "parse", parse)
        \cup Once(<<phase, n>>, s, "rejections", rejections))
  \cup Once(<<phase, n + 1>>, s, "result", result)

AuditParts == {"raw", "parse", "rejections", "result"}

LEMMA Audited ==
  ASSUME NEW s \in Stages, NEW phase \in Nat, NEW n \in Nat, n > 2,
         NEW raw, NEW parse, NEW rejections, NEW result,
         NEW writes, Placed(writes), NEW W \in SUBSET writes, NEW next, Does(writes, W, next),
         Audit(s, phase, n, raw, parse, rejections, result) \subseteq writes,
         \A w \in writes : \A part \in AuditParts :
           w.key = At(s, part) => w \in Audit(s, phase, n, raw, parse, rejections, result)
  PROVE  /\ \A part : Has(s, part) => Has(s, part)' /\ Saved(s, part)' = Saved(s, part)
         /\ Has(s, "raw")' /\ ~Has(s, "raw") => ~Has(s, "result") /\ Saved(s, "raw")' = raw
         /\ Has(s, "parse")' /\ ~Has(s, "parse") =>
              ~Has(s, "result") /\ Has(s, "raw")' /\ Saved(s, "parse")' = parse
         /\ Has(s, "rejections")' /\ ~Has(s, "rejections") =>
              ~Has(s, "result") /\ Has(s, "parse")' /\ Saved(s, "rejections")' = rejections
         /\ Has(s, "result")' /\ ~Has(s, "result") =>
              Has(s, "rejections")' /\ Saved(s, "result")' = result
         /\ Audit(s, phase, n, raw, parse, rejections, result) \subseteq W => Has(s, "result")'
<1> DEFINE r == [at |-> <<phase, 1>>, key |-> At(s, "raw"), value |-> raw]
           p == [at |-> <<phase, 2>>, key |-> At(s, "parse"), value |-> parse]
           j == [at |-> <<phase, n>>, key |-> At(s, "rejections"), value |-> rejections]
           t == [at |-> <<phase, n + 1>>, key |-> At(s, "result"), value |-> result]
           A == Audit(s, phase, n, raw, parse, rejections, result)
<1>1. A = (IF Has(s, "result") THEN {} ELSE {r, p, j}) \cup {t}
  BY DEF Audit, Once
<1>2. /\ r.key # p.key /\ r.key # j.key /\ r.key # t.key
      /\ p.key # j.key /\ p.key # t.key /\ j.key # t.key
      /\ \A part : At(s, part) # JournalKey
  BY OneKey
<1>3. \A w \in A : Single(writes, w.key)
  <2>1. \A w \in A : \E part \in AuditParts : w.key = At(s, part)
    BY <1>1 DEF AuditParts
  <2> QED BY <2>1, <1>1, <1>2 DEF Single
<1>4. Grows
  BY Remains
<1>5. /\ Before(r, p) /\ Before(r, j) /\ Before(p, j)
      /\ Before(j, t) /\ Before(p, t) /\ Before(r, t)
  BY DEF Before
<1>6. /\ t \in writes
      /\ ~Has(s, "result") => r \in writes /\ p \in writes /\ j \in writes
  BY <1>1
<1>7. \A w \in W : w \in A => w.key \in DOMAIN disk' /\ disk'[w.key] = w.value
  BY <1>3, Written
<1>8. /\ t \in W /\ ~Has(s, "result") => j \in W
      /\ ~Has(s, "result") /\ j \in W => p \in W
      /\ ~Has(s, "result") /\ p \in W => r \in W
  <2>1. /\ t \in W => \A v \in writes : Before(v, t) => v \in W
        /\ j \in W => \A v \in writes : Before(v, j) => v \in W
        /\ p \in W => \A v \in writes : Before(v, p) => v \in W
    BY DEF Does, Begun
  <2> QED BY <2>1, <1>5, <1>6
<1>9. \A key : key \in DOMAIN disk' => key \in DOMAIN disk \/ \E w \in W : w.key = key
  BY Appears
<1>10. \A part \in AuditParts : At(s, part) \in DOMAIN disk' =>
         \/ At(s, part) \in DOMAIN disk
         \/ \E w \in W : w \in A /\ w.key = At(s, part)
  BY <1>9
<1>11. /\ Has(s, "raw")' => Has(s, "raw") \/ (~Has(s, "result") /\ r \in W)
       /\ Has(s, "parse")' => Has(s, "parse") \/ (~Has(s, "result") /\ p \in W)
       /\ Has(s, "rejections")' => Has(s, "rejections") \/ (~Has(s, "result") /\ j \in W)
       /\ Has(s, "result")' => Has(s, "result") \/ t \in W
  BY <1>10, <1>1, <1>2 DEF Has, AuditParts
<1>12. /\ ~Has(s, "result") /\ r \in W => At(s, "raw") \in DOMAIN disk' /\ disk'[At(s, "raw")] = raw
       /\ ~Has(s, "result") /\ p \in W => At(s, "parse") \in DOMAIN disk' /\ disk'[At(s, "parse")] = parse
       /\ ~Has(s, "result") /\ j \in W =>
            At(s, "rejections") \in DOMAIN disk' /\ disk'[At(s, "rejections")] = rejections
       /\ t \in W => At(s, "result") \in DOMAIN disk' /\ disk'[At(s, "result")] = result
  BY <1>7, <1>1
<1>13. \A part : Has(s, part) => Has(s, part)' /\ Saved(s, part)' = Saved(s, part)
  BY <1>4, <1>2 DEF Grows, Has, Saved
<1>14. Has(s, "raw")' /\ ~Has(s, "raw") => ~Has(s, "result") /\ Saved(s, "raw")' = raw
  BY <1>11, <1>12 DEF Saved
<1>15. Has(s, "parse")' /\ ~Has(s, "parse") =>
         ~Has(s, "result") /\ Has(s, "raw")' /\ Saved(s, "parse")' = parse
  BY <1>8, <1>11, <1>12 DEF Has, Saved
<1>16. Has(s, "rejections")' /\ ~Has(s, "rejections") =>
         ~Has(s, "result") /\ Has(s, "parse")' /\ Saved(s, "rejections")' = rejections
  BY <1>8, <1>11, <1>12 DEF Has, Saved
<1>17. Has(s, "result")' /\ ~Has(s, "result") =>
         Has(s, "rejections")' /\ Saved(s, "result")' = result
  BY <1>8, <1>11, <1>12 DEF Has, Saved
<1>18. A \subseteq W => Has(s, "result")'
  BY <1>1, <1>12 DEF Has
<1> QED BY <1>13, <1>14, <1>15, <1>16, <1>17, <1>18

LEMMA FreezeMatchKeeps ==
  ASSUME NEW s \in MatchStages, NEW phase \in Nat,
         NEW writes, Placed(writes), NEW W \in SUBSET writes, NEW next, Does(writes, W, next),
         FreezeMatch(phase, s) \subseteq writes,
         \A w \in writes : \A part : w.key = At(s, part) => w \in FreezeMatch(phase, s),
         MatchKept(s), Has(s, "input"),
         ~Has(s, "result") => Asked(s) /\ DOMAIN Raw(s) = DOMAIN Saved(s, "input").events
  PROVE  /\ MatchKept(s)'
         /\ \A w \in FreezeMatch(phase, s) : ~Clashes(w)
         /\ FreezeMatch(phase, s) \subseteq W => Has(s, "result")'
         /\ Has(s, "result")' => Saved(s, "result")' = MatchResult(s) /\ Rejected(s)' = Rejected(s)
         /\ Saved(s, "input")' = Saved(s, "input") /\ Has(s, "input")'
<1> DEFINE raw        == Raw(s)
           parse      == Spoiled(Raw(s))
           rejections == Outside(Saved(s, "input").events, Raw(s))
           result     == MatchResult(s)
<1>s. s \in Stages
  BY StageKinds
<1>1. FreezeMatch(phase, s) = Audit(s, phase, 3, raw, parse, rejections, result)
  BY DEF FreezeMatch, Audit
<1>2. /\ \A part : Has(s, part) => Has(s, part)' /\ Saved(s, part)' = Saved(s, part)
      /\ Has(s, "raw")' /\ ~Has(s, "raw") => ~Has(s, "result") /\ Saved(s, "raw")' = raw
      /\ Has(s, "parse")' /\ ~Has(s, "parse") =>
           ~Has(s, "result") /\ Has(s, "raw")' /\ Saved(s, "parse")' = parse
      /\ Has(s, "rejections")' /\ ~Has(s, "rejections") =>
           ~Has(s, "result") /\ Has(s, "parse")' /\ Saved(s, "rejections")' = rejections
      /\ Has(s, "result")' /\ ~Has(s, "result") =>
           Has(s, "rejections")' /\ Saved(s, "result")' = result
      /\ FreezeMatch(phase, s) \subseteq W => Has(s, "result")'
  BY <1>s, <1>1, Audited
<1>3. /\ Has(s, "raw") => raw = RawOf(s)
      /\ result = IF Has(s, "result") THEN Saved(s, "result") ELSE Scoped(Saved(s, "input").events, raw)
  BY DEF Raw, RawOf, Frozen, MatchResult
<1> HIDE DEF raw, parse, rejections, result
<1>4. /\ Saved(s, "input")' = Saved(s, "input")
      /\ Asked(s) => Asked(s)'
  BY <1>2 DEF Asked, Vacant
<1>5. /\ Has(s, "raw") => RawOf(s)' = RawOf(s)
      /\ Has(s, "raw")' => RawOf(s)' = raw
  BY <1>2, <1>3 DEF RawOf
<1>6. Answered(s)'
  <2>1. CASE Has(s, "raw")
    BY <2>1, <1>4, <1>5 DEF MatchKept, Answered
  <2>2. CASE ~Has(s, "raw")
    BY <2>2, <1>2, <1>4, <1>5 DEF Answered, raw
  <2> QED BY <2>1, <2>2
<1>7. Has(s, "parse")' => Has(s, "raw")' /\ Saved(s, "parse")' = Spoiled(RawOf(s)')
  BY <1>2, <1>5 DEF MatchKept, parse, raw
<1>8. Has(s, "rejections")' =>
        Has(s, "parse")' /\ Saved(s, "rejections")' = Outside(Saved(s, "input").events', RawOf(s)')
  BY <1>2, <1>4, <1>5, <1>7 DEF MatchKept, rejections, raw
<1>9. Has(s, "result")' =>
        /\ Has(s, "input")'
        /\ \/ Unasked(s)'
           \/ Has(s, "rejections")' /\ Saved(s, "result")' = Scoped(Saved(s, "input").events', RawOf(s)')
  <2>1. CASE Has(s, "result")
    BY <2>1, <1>2, <1>4, <1>5 DEF MatchKept, Unasked, Vacant
  <2>2. CASE ~Has(s, "result")
    BY <2>2, <1>2, <1>3, <1>4, <1>5, <1>7, <1>8
  <2> QED BY <2>1, <2>2
<1>10. MatchKept(s)'
  <2>1. Has(s, "input")' => JournalKey \in DOMAIN disk'
    BY Remains DEF MatchKept, Grows
  <2> QED BY <2>1, <1>6, <1>7, <1>8, <1>9 DEF MatchKept, Spoiled, Outside, Scoped, Covered
<1>11. \A w \in FreezeMatch(phase, s) : ~Clashes(w)
  <2>1. ASSUME ~Has(s, "result")
        PROVE  /\ Has(s, "raw") => Saved(s, "raw") = raw
               /\ Has(s, "parse") => Saved(s, "parse") = parse
               /\ Has(s, "rejections") => Saved(s, "rejections") = rejections
    BY <1>3 DEF MatchKept, RawOf, parse, rejections, raw
  <2>2. Has(s, "result") => Saved(s, "result") = result
    BY <1>3
  <2> QED BY <2>1, <2>2, <1>1 DEF Audit, Once, Clashes, Fixed, Has, Saved
<1>12. Has(s, "result")' => Saved(s, "result")' = result
  BY <1>2, <1>3
<1>13. Has(s, "result")' => Rejected(s)' = Rejected(s)
  <2>1. ASSUME Has(s, "result")
        PROVE  /\ Has(s, "parse")' <=> Has(s, "parse")
               /\ Has(s, "rejections")' <=> Has(s, "rejections")
    BY <2>1, <1>2
  <2>2. CASE Has(s, "result")
    BY <2>1, <2>2, <1>2 DEF Rejected, Frozen
  <2>3. ASSUME ~Has(s, "result"), Has(s, "result")'
        PROVE  /\ Has(s, "parse")' /\ Saved(s, "parse")' = parse
               /\ Has(s, "rejections")' /\ Saved(s, "rejections")' = rejections
    <3>1. /\ Has(s, "raw") => Saved(s, "raw") = raw
          /\ Has(s, "parse") => Saved(s, "parse") = parse
          /\ Has(s, "rejections") => Saved(s, "rejections") = rejections
      BY <1>3 DEF MatchKept, RawOf, parse, rejections, raw
    <3>2. Has(s, "rejections")' /\ Has(s, "parse")'
      BY <2>3, <1>2, <1>8
    <3> QED BY <3>1, <3>2, <1>2
  <2>4. ASSUME ~Has(s, "result"), Has(s, "result")'
        PROVE  Rejected(s) = parse \cup rejections /\ Rejected(s)' = parse \cup rejections
    <3>1. Rejected(s) = parse \cup rejections
      BY <2>4 DEF Rejected, parse, rejections
    <3>2. Rejected(s)' = parse \cup rejections
      BY <2>4, <2>3 DEF Rejected, Frozen
    <3> QED BY <3>1, <3>2
  <2> QED BY <2>2, <2>4
<1>14. Has(s, "input")'
  BY <1>2
<1> QED BY <1>2, <1>4, <1>10, <1>11, <1>12, <1>13, <1>14 DEF result

LEMMA CallKeeps ==
  ASSUME NEW s \in Stages, NEW phase \in Nat, NEW input,
         NEW writes, Placed(writes), NEW W \in SUBSET writes, NEW next, Does(writes, W, next),
         Call(phase, s, input) \subseteq writes,
         \A w \in writes : \A part : w.key = At(s, part) => w \in Call(phase, s, input),
         Has(s, "input") => Saved(s, "input") = input
  PROVE  /\ \A part : part \notin {"input", "result"} =>
                        /\ Has(s, part)' <=> Has(s, part)
                        /\ Has(s, part) => Saved(s, part)' = Saved(s, part)
         /\ Has(s, "input") => Has(s, "input")'
         /\ Has(s, "input")' => Saved(s, "input")' = input
         /\ Has(s, "result") => Has(s, "result")' /\ Saved(s, "result")' = Saved(s, "result")
         /\ Has(s, "result")' /\ ~Has(s, "result") =>
              /\ NothingToAsk(s, input) /\ Has(s, "input")'
              /\ Saved(s, "result")' = [k \in DOMAIN input.events |-> {}]
         /\ Call(phase, s, input) \subseteq W =>
              Has(s, "input")' /\ (NothingToAsk(s, input) => Has(s, "result")')
         /\ \A w \in Call(phase, s, input) : ~Clashes(w)
         /\ Has(s, "input")' /\ ~Has(s, "input") =>
              \E w \in W : w.at = <<phase, 1>> /\ w.key = At(s, "input")
<1> DEFINE i == [at |-> <<phase, 1>>, key |-> At(s, "input"), value |-> input]
           t == [at |-> <<phase, 2>>, key |-> At(s, "result"), value |-> [k \in DOMAIN input.events |-> {}]]
<1>1. Call(phase, s, input) = {i} \cup (IF Has(s, "result") \/ ~NothingToAsk(s, input) THEN {} ELSE {t})
  BY DEF Call, Once
<1>2. /\ i.key # t.key
      /\ \A part : At(s, part) # JournalKey
      /\ \A part : part \notin {"input", "result"} => At(s, part) # i.key /\ At(s, part) # t.key
  BY OneKey
<1>3. \A w \in Call(phase, s, input) : Single(writes, w.key)
  <2>1. \A w \in Call(phase, s, input) : \E part : w.key = At(s, part)
    BY <1>1
  <2> QED BY <2>1, <1>1, <1>2 DEF Single
<1>4. Grows
  BY Remains
<1>5. i \in writes /\ Before(i, t)
  BY <1>1 DEF Before
<1>6. \A w \in W : w \in Call(phase, s, input) => w.key \in DOMAIN disk' /\ disk'[w.key] = w.value
  BY <1>3, Written
<1>7. \A key : key \in DOMAIN disk' => key \in DOMAIN disk \/ \E w \in W : w.key = key
  BY Appears
<1>8. \A part : At(s, part) \in DOMAIN disk' =>
         \/ At(s, part) \in DOMAIN disk
         \/ \E w \in W : w \in Call(phase, s, input) /\ w.key = At(s, part)
  BY <1>7
<1>9. /\ \A part : part \notin {"input", "result"} => (Has(s, part)' => Has(s, part))
      /\ Has(s, "input")' => Has(s, "input") \/ i \in W
      /\ Has(s, "result")' => Has(s, "result") \/ (t \in W /\ ~Has(s, "result") /\ NothingToAsk(s, input))
  BY <1>8, <1>1, <1>2 DEF Has
<1>10. t \in W => i \in W
  BY <1>5 DEF Does, Begun
<1>11. /\ i \in W => At(s, "input") \in DOMAIN disk' /\ disk'[At(s, "input")] = input
       /\ t \in W /\ ~Has(s, "result") /\ NothingToAsk(s, input) =>
            /\ At(s, "result") \in DOMAIN disk'
            /\ disk'[At(s, "result")] = [k \in DOMAIN input.events |-> {}]
  BY <1>1, <1>6
<1>12. \A part : Has(s, part) => Has(s, part)' /\ Saved(s, part)' = Saved(s, part)
  BY <1>4, <1>2 DEF Grows, Has, Saved
<1>13. \A w \in Call(phase, s, input) : ~Clashes(w)
  BY <1>1 DEF Clashes, Fixed, Has, Saved
<1>14. Call(phase, s, input) \subseteq W => Has(s, "input")' /\ (NothingToAsk(s, input) => Has(s, "result")')
  BY <1>1, <1>11, <1>12 DEF Has
<1>15. Has(s, "input")' => Saved(s, "input")' = input
  BY <1>9, <1>11, <1>12 DEF Has, Saved
<1>16. Has(s, "result")' /\ ~Has(s, "result") =>
         NothingToAsk(s, input) /\ Has(s, "input")' /\ Saved(s, "result")' = [k \in DOMAIN input.events |-> {}]
  BY <1>9, <1>10, <1>11 DEF Has, Saved
<1>17. Has(s, "input")' /\ ~Has(s, "input") => i \in W
  BY <1>9
<1> QED BY <1>9, <1>12, <1>13, <1>14, <1>15, <1>16, <1>17

\* Asking for a match, and for Signals.
LEMMA MatchCallKeeps ==
  ASSUME NEW s \in MatchStages, NEW phase \in Nat, NEW input,
         NEW writes, Placed(writes), NEW W \in SUBSET writes, NEW next, Does(writes, W, next),
         Call(phase, s, input) \subseteq writes,
         \A w \in writes : \A part : w.key = At(s, part) => w \in Call(phase, s, input),
         Has(s, "input") => Saved(s, "input") = input,
         (\E w \in W : w.at = <<phase, 1>> /\ w.key = At(s, "input")) => JournalKey \in DOMAIN disk',
         MatchKept(s)
  PROVE  MatchKept(s)'
<1>1. s \in Stages /\ s # Identity
  BY StageKinds, Kinds
<1>2. /\ \A part : part \notin {"input", "result"} =>
                        /\ Has(s, part)' <=> Has(s, part)
                        /\ Has(s, part) => Saved(s, part)' = Saved(s, part)
      /\ Has(s, "input") => Has(s, "input")'
      /\ Has(s, "input")' => Saved(s, "input")' = input
      /\ Has(s, "result") => Has(s, "result")' /\ Saved(s, "result")' = Saved(s, "result")
      /\ Has(s, "result")' /\ ~Has(s, "result") =>
              /\ NothingToAsk(s, input) /\ Has(s, "input")'
              /\ Saved(s, "result")' = [k \in DOMAIN input.events |-> {}]
      /\ Has(s, "input")' /\ ~Has(s, "input") =>
              \E w \in W : w.at = <<phase, 1>> /\ w.key = At(s, "input")
  BY <1>1, CallKeeps
<1>3. Grows
  BY Remains
<1>4. Has(s, "input")' => JournalKey \in DOMAIN disk'
  BY <1>2, <1>3 DEF Grows, MatchKept
<1>5. Answered(s)'
  BY <1>1, <1>2 DEF MatchKept, Answered, Asked, Vacant, RawOf, NothingToAsk
<1>6. Has(s, "raw") => RawOf(s)' = RawOf(s)
  BY <1>2 DEF RawOf
<1>7. Has(s, "parse")' => Has(s, "raw")' /\ Saved(s, "parse")' = Spoiled(RawOf(s)')
  BY <1>2, <1>6 DEF MatchKept
<1>8. Has(s, "rejections")' =>
         Has(s, "parse")' /\ Saved(s, "rejections")' = Outside(Saved(s, "input").events', RawOf(s)')
  BY <1>2, <1>6 DEF MatchKept, Answered, Asked
<1>9. Has(s, "result")' =>
         /\ Has(s, "input")'
         /\ \/ Unasked(s)'
            \/ Has(s, "rejections")' /\ Saved(s, "result")' = Scoped(Saved(s, "input").events', RawOf(s)')
  <2>1. CASE Has(s, "result")
    BY <2>1, <1>2, <1>6 DEF MatchKept, Unasked, Vacant
  <2>2. CASE ~Has(s, "result")
    <3>1. NothingToAsk(s, input) => ~Has(s, "raw")
      BY <1>1 DEF MatchKept, Answered, Asked, Vacant
    <3> QED BY <2>2, <3>1, <1>2 DEF Unasked, Vacant
  <2> QED BY <2>1, <2>2
<1> QED BY <1>4, <1>5, <1>7, <1>8, <1>9 DEF MatchKept, Spoiled, Outside, Scoped, Covered

\* A Function changes no Event of the journal for another.
JournalStays ==
  JournalKey \in DOMAIN disk => DOMAIN Journal' = DOMAIN Journal

\* Asking for the Signals of a class, and freezing them.
LEMMA SignalCallKeeps ==
  ASSUME NEW s \in SignalStages, NEW phase \in Nat, NEW input,
         NEW writes, Placed(writes), NEW W \in SUBSET writes, NEW next, Does(writes, W, next),
         Call(phase, s, input) \subseteq writes,
         \A w \in writes : \A part : w.key = At(s, part) => w \in Call(phase, s, input),
         Has(s, "input") => Saved(s, "input") = input,
         AssociationsReady, JournalKey \in DOMAIN disk, JournalStays,
         DOMAIN input.events \subseteq DOMAIN Journal,
         SignalKept(s)
  PROVE  SignalKept(s)'
<1>1. s \in Stages /\ s # Identity
  BY StageKinds, Kinds
<1>2. /\ \A part : part \notin {"input", "result"} =>
                        /\ Has(s, part)' <=> Has(s, part)
                        /\ Has(s, part) => Saved(s, part)' = Saved(s, part)
      /\ Has(s, "input") => Has(s, "input")'
      /\ Has(s, "input")' => Saved(s, "input")' = input
      /\ Has(s, "result") => Has(s, "result")' /\ Saved(s, "result")' = Saved(s, "result")
      /\ Has(s, "result")' /\ ~Has(s, "result") =>
              /\ NothingToAsk(s, input) /\ Has(s, "input")'
              /\ Saved(s, "result")' = [k \in DOMAIN input.events |-> {}]
      /\ Has(s, "input")' /\ ~Has(s, "input") =>
              \E w \in W : w.at = <<phase, 1>> /\ w.key = At(s, "input")
  BY <1>1, CallKeeps
<1>3. Grows
  BY Remains
<1>4. Has(s, "input")' =>
        /\ AssociationsReady' /\ JournalKey \in DOMAIN disk'
        /\ DOMAIN Saved(s, "input").events' \subseteq DOMAIN Journal'
  BY <1>2, <1>3 DEF Grows, JournalStays, AssociationsReady, Has
<1>5. Answered(s)'
  BY <1>1, <1>2 DEF SignalKept, Answered, Asked, Vacant, RawOf, NothingToAsk
<1>6. Has(s, "raw") => RawOf(s)' = RawOf(s)
  BY <1>2 DEF RawOf
<1>7. Has(s, "parse")' => Has(s, "raw")' /\ Saved(s, "parse")' = DOMAIN RawOf(s)' \ Usable(RawOf(s)')
  BY <1>2, <1>6 DEF SignalKept
<1>8. Has(s, "rejections")' =>
         Has(s, "parse")' /\ Saved(s, "rejections")' = FaultyRows(Saved(s, "input").events', RawOf(s)')
  BY <1>2, <1>6 DEF SignalKept, Answered, Asked
<1>9. Has(s, "result")' =>
         /\ Has(s, "input")'
         /\ \/ Unasked(s)'
            \/ Has(s, "rejections")' /\ Saved(s, "result")' = GoodPairs(Saved(s, "input").events', RawOf(s)')
  <2>1. CASE Has(s, "result")
    BY <2>1, <1>2, <1>6 DEF SignalKept, Unasked, Vacant
  <2>2. CASE ~Has(s, "result")
    <3>1. NothingToAsk(s, input) => ~Has(s, "raw")
      BY <1>1 DEF SignalKept, Answered, Asked, Vacant
    <3> QED BY <2>2, <3>1, <1>2 DEF Unasked, Vacant
  <2> QED BY <2>1, <2>2
<1>10. Has(s, "complete")' => Has(s, "result")' /\ Saved(s, "complete")' = TRUE
  BY <1>2 DEF SignalKept
<1> QED BY <1>4, <1>5, <1>7, <1>8, <1>9, <1>10 DEF SignalKept, Usable, FaultyRows, Faulty, Good, GoodPairs

LEMMA FreezeSignalsKeeps ==
  ASSUME NEW s \in SignalStages, JournalStays,
         NEW writes, Placed(writes), NEW W \in SUBSET writes, NEW next, Does(writes, W, next),
         FreezeSignals(s) \subseteq writes,
         \A w \in writes : \A part : w.key = At(s, part) => w \in FreezeSignals(s),
         SignalKept(s), Has(s, "input"),
         ~Has(s, "result") => Asked(s) /\ DOMAIN Raw(s) = DOMAIN Saved(s, "input").events
  PROVE  /\ SignalKept(s)'
         /\ \A w \in FreezeSignals(s) : ~Clashes(w)
         /\ FreezeSignals(s) \subseteq W => Has(s, "complete")'
         /\ Has(s, "complete")' /\ ~Has(s, "complete") =>
              [at |-> <<3, 1>>, key |-> At(s, "complete"), value |-> TRUE] \in W
         /\ Has(s, "rejections")' /\ ~Has(s, "rejections") =>
              /\ ~Has(s, "result")
              /\ [at |-> <<1, 4>>, key |-> At(s, "rejections"), value |-> FaultyKeys(s)] \in W
         /\ Has(s, "result")' => Saved(s, "result")' = SignalResult(s)
         /\ Has(s, "raw")' => RawOf(s)' = Raw(s)
         /\ Saved(s, "input")' = Saved(s, "input") /\ Has(s, "input")'
<1> DEFINE raw        == Raw(s)
           parse      == DOMAIN Raw(s) \ Usable(Raw(s))
           rejections == FaultyKeys(s)
           result     == SignalResult(s)
<1>s. s \in Stages
  BY StageKinds
<1> DEFINE A == Audit(s, 1, 4, raw, parse, rejections, result)
           wr == [at |-> <<1, 1>>, key |-> At(s, "raw"), value |-> raw]
           wp == [at |-> <<1, 2>>, key |-> At(s, "parse"), value |-> parse]
           wj == [at |-> <<1, 4>>, key |-> At(s, "rejections"), value |-> rejections]
           wt == [at |-> <<1, 5>>, key |-> At(s, "result"), value |-> result]
           c == [at |-> <<3, 1>>, key |-> At(s, "complete"), value |-> TRUE]
<1>1. FreezeSignals(s) = A \cup {c}
  BY DEF FreezeSignals, Audit, Once
<1>b. /\ FreezeSignals(s) = (IF Has(s, "result") THEN {} ELSE {wr, wp, wj}) \cup {wt, c}
      /\ A = (IF Has(s, "result") THEN {} ELSE {wr, wp, wj}) \cup {wt}
  BY <1>1 DEF Audit, Once
<1>k. /\ wr.key # wp.key /\ wr.key # wj.key /\ wr.key # wt.key /\ wr.key # c.key
      /\ wp.key # wj.key /\ wp.key # wt.key /\ wp.key # c.key
      /\ wj.key # wt.key /\ wj.key # c.key /\ wt.key # c.key
  BY <1>s, OneKey
<1>a. /\ Audit(s, 1, 4, raw, parse, rejections, result) \subseteq writes
      /\ \A w \in writes : \A part \in AuditParts :
           w.key = At(s, part) => w \in Audit(s, 1, 4, raw, parse, rejections, result)
  <2>1. \A part \in AuditParts : c.key # At(s, part)
    BY <1>s, OneKey DEF AuditParts
  <2> QED BY <2>1, <1>1
<1>2. /\ \A part : Has(s, part) => Has(s, part)' /\ Saved(s, part)' = Saved(s, part)
      /\ Has(s, "raw")' /\ ~Has(s, "raw") => ~Has(s, "result") /\ Saved(s, "raw")' = raw
      /\ Has(s, "parse")' /\ ~Has(s, "parse") =>
           ~Has(s, "result") /\ Has(s, "raw")' /\ Saved(s, "parse")' = parse
      /\ Has(s, "rejections")' /\ ~Has(s, "rejections") =>
           ~Has(s, "result") /\ Has(s, "parse")' /\ Saved(s, "rejections")' = rejections
      /\ Has(s, "result")' /\ ~Has(s, "result") =>
           Has(s, "rejections")' /\ Saved(s, "result")' = result
      /\ Audit(s, 1, 4, raw, parse, rejections, result) \subseteq W => Has(s, "result")'
  <2> HIDE DEF raw, parse, rejections, result
  <2>1. 1 \in Nat /\ 4 \in Nat /\ 4 > 2
    OBVIOUS
  <2> QED BY <1>s, <1>a, <2>1, Audited
<1>3. /\ Has(s, "raw") => raw = RawOf(s)
      /\ parse = DOMAIN raw \ Usable(raw)
      /\ ~Has(s, "result") => rejections = FaultyRows(Saved(s, "input").events, raw)
      /\ result = IF Has(s, "result") THEN Saved(s, "result") ELSE GoodPairs(Saved(s, "input").events, raw)
  BY DEF Raw, RawOf, Frozen, SignalResult, FaultyKeys
<1> HIDE DEF raw, parse, rejections, result
<1>4. /\ Saved(s, "input")' = Saved(s, "input")
      /\ Asked(s) => Asked(s)'
  BY <1>2 DEF Asked, Vacant
<1>5. /\ Has(s, "raw") => RawOf(s)' = RawOf(s)
      /\ Has(s, "raw")' => RawOf(s)' = raw
  BY <1>2, <1>3 DEF RawOf
<1>6. Answered(s)'
  <2>1. CASE Has(s, "raw")
    BY <2>1, <1>4, <1>5 DEF SignalKept, Answered
  <2>2. CASE ~Has(s, "raw")
    BY <2>2, <1>2, <1>4, <1>5 DEF Answered, raw
  <2> QED BY <2>1, <2>2
<1>7. Has(s, "parse")' => Has(s, "raw")' /\ Saved(s, "parse")' = DOMAIN RawOf(s)' \ Usable(RawOf(s)')
  BY <1>2, <1>5 DEF SignalKept, parse, raw
<1>8. Has(s, "rejections")' =>
        Has(s, "parse")' /\ Saved(s, "rejections")' = FaultyRows(Saved(s, "input").events', RawOf(s)')
  BY <1>2, <1>3, <1>4, <1>5, <1>7 DEF SignalKept
<1>9. Has(s, "result")' =>
        /\ Has(s, "input")'
        /\ \/ Unasked(s)'
           \/ Has(s, "rejections")' /\ Saved(s, "result")' = GoodPairs(Saved(s, "input").events', RawOf(s)')
  <2>1. CASE Has(s, "result")
    BY <2>1, <1>2, <1>4, <1>5 DEF SignalKept, Unasked, Vacant
  <2>2. CASE ~Has(s, "result")
    BY <2>2, <1>2, <1>3, <1>4, <1>5, <1>7, <1>8
  <2> QED BY <2>1, <2>2
<1>w. \A w \in W : w \in FreezeSignals(s) => w.key \in DOMAIN disk' /\ disk'[w.key] = w.value
  <2>1. ASSUME NEW w \in W, w \in FreezeSignals(s)  PROVE  Single(writes, w.key)
    <3>1. PICK part : w.key = At(s, part)
      BY <2>1 DEF FreezeSignals, Once
    <3>2. \A v \in FreezeSignals(s) : v.key = w.key => v = w
      <4> HIDE DEF wr, wp, wj, wt, c
      <4> QED BY <2>1, <1>b, <1>k
    <3> QED BY <3>1, <3>2 DEF Single
  <2> QED BY <2>1, Written
<1>c. /\ Has(s, "complete")' /\ ~Has(s, "complete") => c \in W
      /\ c \in W => Has(s, "complete")' /\ Saved(s, "complete")' = TRUE /\ Has(s, "result")'
  <2>1. Has(s, "complete")' /\ ~Has(s, "complete") => \E w \in W : w.key = At(s, "complete")
    BY Appears DEF Has
  <2>2. \A w \in FreezeSignals(s) : w.key = At(s, "complete") => w = c
    BY <1>b, <1>k
  <2>3. c \in W => Has(s, "complete")' /\ Saved(s, "complete")' = TRUE
    BY <1>w, <1>1 DEF Has, Saved
  <2>4. c \in W => A \subseteq W
    <3>1. \A w \in A : Before(w, c)
      BY DEF Audit, Once, Before
    <3> QED BY <3>1, <1>1 DEF Does, Begun
  <2> QED BY <2>1, <2>2, <2>3, <2>4, <1>2
<1>d. Has(s, "complete")' => Has(s, "result")' /\ Saved(s, "complete")' = TRUE
  BY <1>c, <1>2 DEF SignalKept
<1>j. Has(s, "rejections")' /\ ~Has(s, "rejections") =>
        /\ ~Has(s, "result")
        /\ [at |-> <<1, 4>>, key |-> At(s, "rejections"), value |-> FaultyKeys(s)] \in W
  <2>1. Has(s, "rejections")' /\ ~Has(s, "rejections") => \E w \in W : w.key = At(s, "rejections")
    BY Appears DEF Has
  <2>2. \A w \in FreezeSignals(s) : w.key = At(s, "rejections") =>
          w = [at |-> <<1, 4>>, key |-> At(s, "rejections"), value |-> FaultyKeys(s)]
    BY <1>b, <1>k DEF rejections
  <2> QED BY <2>1, <2>2, <1>2
<1>10. SignalKept(s)'
  <2>1. /\ AssociationsReady' /\ JournalKey \in DOMAIN disk'
        /\ DOMAIN Saved(s, "input").events' \subseteq DOMAIN Journal'
    <3>1. At(Associations, "ready") # JournalKey
      BY StageKinds, OneKey
    <3> QED BY <3>1, <1>4, Remains DEF SignalKept, Grows, AssociationsReady, Has, JournalStays
  <2> QED BY <2>1, <1>6, <1>7, <1>8, <1>9, <1>d
          DEF SignalKept, Usable, FaultyRows, Faulty, Good, GoodPairs
<1>11. \A w \in FreezeSignals(s) : ~Clashes(w)
  <2>1. ASSUME ~Has(s, "result")
        PROVE  /\ Has(s, "raw") => Saved(s, "raw") = raw
               /\ Has(s, "parse") => Saved(s, "parse") = parse
               /\ Has(s, "rejections") => Saved(s, "rejections") = rejections
    BY <2>1, <1>3 DEF SignalKept, RawOf
  <2>2. Has(s, "result") => Saved(s, "result") = result
    BY <1>3
  <2>3. Has(s, "complete") => Saved(s, "complete") = TRUE
    BY DEF SignalKept
  <2>4. ~Has(s, "result") => ~Clashes(wr) /\ ~Clashes(wp) /\ ~Clashes(wj)
    BY <2>1 DEF Clashes, Fixed, Has, Saved
  <2>5. ~Clashes(wt) /\ ~Clashes(c)
    BY <2>2, <2>3 DEF Clashes, Fixed, Has, Saved
  <2> HIDE DEF wr, wp, wj, wt, c
  <2> QED BY <2>4, <2>5, <1>b
<1>12. Has(s, "result")' => Saved(s, "result")' = result
  BY <1>2, <1>3
<1>13. (Has(s, "raw")' => RawOf(s)' = Raw(s)) /\ Has(s, "input")'
  BY <1>2, <1>5 DEF raw
<1> QED BY <1>1, <1>2, <1>4, <1>10, <1>11, <1>12, <1>13, <1>c, <1>j DEF result

-----------------------------------------------------------------------------
(* Places: the rows of an answer are finitely many.                        *)

LEMMA LeastElement ==
  ASSUME NEW T, T \subseteq Nat, T # {}
  PROVE  \E m \in T : \A n \in T : m <= n
<1> DEFINE R == {ss \in Nat \X Nat : ss[1] < ss[2]}
<1>0. IsWellFoundedOn(R, Nat)
  BY NatLessThanWellFounded DEF OpToRel
<1>1. \E m \in T : \A n \in T : <<n, m>> \notin R
  <2> HIDE DEF R
  <2> QED BY <1>0, WFMin
<1>2. PICK m \in T : \A n \in T : <<n, m>> \notin R
  BY <1>1
<1>3. \A n \in T : ~(n < m)
  BY <1>2
<1> QED BY <1>3

LEMMA GreatestElement ==
  ASSUME NEW T, T \subseteq Nat, T # {}, IsFiniteSet(T)
  PROVE  \E m \in T : \A n \in T : n <= m
<1> DEFINE Topless(S) == ~ \E m \in S : \A n \in S : n <= m
           C == {c \in Nat : \E S \in SUBSET Nat :
                   S # {} /\ IsFiniteSet(S) /\ Cardinality(S) = c /\ Topless(S)}
<1>1. SUFFICES C = {}
  BY FS_CardinalityType
<1>2. SUFFICES ASSUME C # {} PROVE FALSE
  OBVIOUS
<1>3. PICK c \in C : \A d \in C : c <= d
  <2> HIDE DEF C
  <2>1. C \subseteq Nat
    BY DEF C
  <2> QED BY <1>2, <2>1, LeastElement
<1>4. PICK S \in SUBSET Nat : S # {} /\ IsFiniteSet(S) /\ Cardinality(S) = c /\ Topless(S)
  BY <1>3
<1>5. PICK x \in S : TRUE
  BY <1>4
<1>6. IsFiniteSet(S \ {x}) /\ Cardinality(S \ {x}) = c - 1 /\ c - 1 \in Nat
  <2>1. IsFiniteSet(S \ {x}) /\ Cardinality(S \ {x}) = Cardinality(S) - 1
    BY <1>4, <1>5, FS_RemoveElement
  <2>2. Cardinality(S \ {x}) \in Nat
    BY <2>1, FS_CardinalityType
  <2> QED BY <2>1, <2>2, <1>4
<1>7. CASE S \ {x} = {}
  BY <1>4, <1>5, <1>7
<1>8. CASE S \ {x} # {}
  <2>1. c - 1 \notin C
    BY <1>3
  <2>2. ~Topless(S \ {x})
    BY <2>1, <1>4, <1>6, <1>8
  <2>3. PICK m \in S \ {x} : \A n \in S \ {x} : n <= m
    BY <2>2
  <2>4. \A n \in S : n <= IF x <= m THEN m ELSE x
    BY <2>3, <1>5
  <2> QED BY <2>3, <2>4, <1>4, <1>5
<1> QED BY <1>7, <1>8

\* What the extractor's rows become: finitely many rows with places.
LEMMA DraftRows ==
  ASSUME NEW a \in Extractions
  PROVE  LET rows == Draft(Filtered(a)).candidates
         IN  DOMAIN rows \subseteq Nat /\ IsFiniteSet(DOMAIN rows)
<1> DEFINE rows == Draft(Filtered(a)).candidates
<1>1. rows = RestrictValues(Filtered(a).candidates, Timed)
  BY DEF Draft
<1>2. DOMAIN rows \subseteq DOMAIN Filtered(a).candidates
  BY <1>1 DEF RestrictValues, Restrict
<1>3. Filtered(a).candidates = RestrictValues(Parsed(a), InBatch)
  BY DEF Filtered
<1>4. DOMAIN Filtered(a).candidates \subseteq DOMAIN Parsed(a)
  BY <1>3 DEF RestrictValues, Restrict
<1>5. DOMAIN Parsed(a) \subseteq DOMAIN a.candidates
  BY DEF Parsed, Read, Restrict
<1>6. DOMAIN rows \subseteq DOMAIN a.candidates
  BY <1>2, <1>4, <1>5
<1> QED BY <1>6, ExtractionsAssumption, FS_Subset

LEMMA PlacesGiven ==
  ASSUME NEW a \in Extractions, NEW world
  PROVE  LET input == IdentityInput(Draft(Filtered(a)), world)
         IN  /\ IsFiniteSet(DOMAIN input.events)
             /\ \A k \in DOMAIN input.events : input.events[k].rank \in Nat
<1> DEFINE rows  == Draft(Filtered(a)).candidates
           input == IdentityInput(Draft(Filtered(a)), world)
<1>1. DOMAIN rows \subseteq Nat /\ IsFiniteSet(DOMAIN rows)
  BY DraftRows
<1>2. DOMAIN input.events = {Key(r) : r \in Range(rows)}
  BY DEF IdentityInput
<1>3. IsFiniteSet(DOMAIN input.events)
  <2> DEFINE f == [i \in DOMAIN rows |-> Key(rows[i])]
  <2>1. f \in Surjection(DOMAIN rows, DOMAIN input.events)
    BY <1>2 DEF Surjection, Range
  <2> QED BY <2>1, <1>1, FS_Surjection
<1>4. ASSUME NEW k \in DOMAIN input.events  PROVE  input.events[k].rank \in Nat
  <2> DEFINE S == Places(rows, k)
             first == CHOOSE i \in S : \A j \in S : i <= j
  <2>1. PICK m : m \in S
    BY <1>2 DEF Range, Places
  <2>2. S \in SUBSET Nat
    BY <1>1 DEF Places
  <2>3. \E n \in S : \A j \in S : n <= j
    <3> HIDE DEF S
    <3>1. S \subseteq Nat /\ S # {}
      BY <2>1, <2>2
    <3> QED BY <3>1, LeastElement
  <2>4. first \in DOMAIN rows
    BY <2>3 DEF Places
  <2>5. input.events[k].rank = first
    BY <1>2 DEF IdentityInput
  <2> QED BY <2>4, <2>5, <1>1
<1> QED BY <1>3, <1>4

\* Reading a frozen extraction back changes it only if it is redundant, and
\* never what becomes of it.
LEMMA ReadBack ==
  ASSUME NEW a \in Extractions
  PROVE  /\ Draft(Validated(Filtered(a))) = Draft(Filtered(a))
         /\ Validated(Filtered(a)) # Filtered(a) => Redundant(Filtered(a))
<1> DEFINE r == Filtered(a)
           assigned == UNION {c.evidence : c \in Range(r.candidates)}
           fixed == [e \in Evidence |-> IF e \in assigned \/ r.no_event[e] = 0 THEN 0 ELSE 1]
<1>1. r = [candidates |-> r.candidates, no_event |-> r.no_event]
  BY DEF Filtered
<1>2. Validated(r) = [candidates |-> r.candidates, no_event |-> fixed]
  <2>1. Validated(r) = [r EXCEPT !.no_event = fixed]
    BY DEF Validated
  <2> HIDE DEF r, fixed
  <2> QED BY <1>1, <2>1
<1>3. Draft(Validated(r)) = Draft(r)
  BY <1>2 DEF Draft
<1>4. r.no_event = [e \in Evidence |-> a.no_event[e]] /\ \A e \in Evidence : r.no_event[e] \in Nat
  BY ExtractionsAssumption DEF Filtered
<1>5. ASSUME ~Redundant(r)  PROVE  fixed = r.no_event
  <2>1. ASSUME NEW e \in Evidence
        PROVE  r.no_event[e] = IF e \in assigned \/ r.no_event[e] = 0 THEN 0 ELSE 1
    BY <1>5, <1>4 DEF Redundant
  <2> QED BY <2>1, <1>4
<1> QED BY <1>1, <1>2, <1>3, <1>5

-----------------------------------------------------------------------------
(* The extraction and the identities.                                      *)

LEMMA FreezeExtractionKeeps ==
  ASSUME ExtractKept, ~Has(Extract, "result") => Raw(Extract) \in Extractions,
         NEW writes, Placed(writes), NEW W \in SUBSET writes, NEW next, Does(writes, W, next),
         FreezeExtraction \subseteq writes,
         \A w \in writes : \A part : w.key = At(Extract, part) => w \in FreezeExtraction
  PROVE  /\ ExtractKept'
         /\ \A w \in FreezeExtraction :
              Clashes(w) => Has(Extract, "result") /\ Redundant(Saved(Extract, "result"))
         /\ FreezeExtraction \subseteq W => Has(Extract, "draft")'
<1> DEFINE raw        == Raw(Extract)
           parse      == Unreadable(Raw(Extract))
           rejections == OutsideBatch(Raw(Extract))
           result     == Extracted
           A == Audit(Extract, 1, 3, raw, parse, rejections, result)
           wr == [at |-> <<1, 1>>, key |-> At(Extract, "raw"), value |-> raw]
           wp == [at |-> <<1, 2>>, key |-> At(Extract, "parse"), value |-> parse]
           wj == [at |-> <<1, 3>>, key |-> At(Extract, "rejections"), value |-> rejections]
           wt == [at |-> <<1, 4>>, key |-> At(Extract, "result"), value |-> result]
           wd == [at |-> <<1, 5>>, key |-> At(Extract, "draft"), value |-> Draft(Extracted)]
<1>s. Extract \in Stages
  BY StageKinds
<1>1. /\ FreezeExtraction = (IF Has(Extract, "result") THEN {} ELSE {wr, wp, wj}) \cup {wt, wd}
      /\ A = (IF Has(Extract, "result") THEN {} ELSE {wr, wp, wj}) \cup {wt}
  BY DEF FreezeExtraction, Audit, Once
<1>2. /\ wr.key # wp.key /\ wr.key # wj.key /\ wr.key # wt.key /\ wr.key # wd.key
      /\ wp.key # wj.key /\ wp.key # wt.key /\ wp.key # wd.key
      /\ wj.key # wt.key /\ wj.key # wd.key /\ wt.key # wd.key
      /\ At(Extract, "input") \notin {wr.key, wp.key, wj.key, wt.key, wd.key}
      /\ \A part : At(Extract, part) # JournalKey
  BY <1>s, OneKey
<1>3. /\ Audit(Extract, 1, 3, raw, parse, rejections, result) \subseteq writes
      /\ \A w \in writes : \A part \in AuditParts :
           w.key = At(Extract, part) => w \in Audit(Extract, 1, 3, raw, parse, rejections, result)
  <2>1. \A part \in AuditParts : wd.key # At(Extract, part)
    BY <1>s, OneKey DEF AuditParts
  <2> QED BY <2>1, <1>1
<1>4. /\ \A part : Has(Extract, part) => Has(Extract, part)' /\ Saved(Extract, part)' = Saved(Extract, part)
      /\ Has(Extract, "raw")' /\ ~Has(Extract, "raw") => ~Has(Extract, "result") /\ Saved(Extract, "raw")' = raw
      /\ Has(Extract, "parse")' /\ ~Has(Extract, "parse") =>
           ~Has(Extract, "result") /\ Has(Extract, "raw")' /\ Saved(Extract, "parse")' = parse
      /\ Has(Extract, "rejections")' /\ ~Has(Extract, "rejections") =>
           ~Has(Extract, "result") /\ Has(Extract, "parse")' /\ Saved(Extract, "rejections")' = rejections
      /\ Has(Extract, "result")' /\ ~Has(Extract, "result") =>
           Has(Extract, "rejections")' /\ Saved(Extract, "result")' = result
      /\ Audit(Extract, 1, 3, raw, parse, rejections, result) \subseteq W => Has(Extract, "result")'
  <2> HIDE DEF raw, parse, rejections, result
  <2>1. 1 \in Nat /\ 3 \in Nat /\ 3 > 2
    OBVIOUS
  <2> QED BY <1>s, <1>3, <2>1, Audited
<1>5. /\ Has(Extract, "raw") => raw = RawOf(Extract)
      /\ parse = Unreadable(raw) /\ rejections = OutsideBatch(raw)
      /\ Has(Extract, "result") => /\ Saved(Extract, "result") = Filtered(RawOf(Extract))
                                   /\ RawOf(Extract) \in Extractions
                                   /\ result = Validated(Saved(Extract, "result"))
      /\ ~Has(Extract, "result") => result = Filtered(raw)
  BY DEF Raw, RawOf, Frozen, Extracted, ExtractKept
<1>6. Has(Extract, "draft")' /\ ~Has(Extract, "draft") =>
        /\ Has(Extract, "result")'
        /\ Saved(Extract, "draft")' = Draft(result)
  <2>1. \A w \in FreezeExtraction : w.key = At(Extract, "draft") => w = wd
    BY <1>1, <1>2
  <2>2. Has(Extract, "draft")' /\ ~Has(Extract, "draft") => wd \in W
    <3>1. Has(Extract, "draft")' /\ ~Has(Extract, "draft") => \E w \in W : w.key = At(Extract, "draft")
      BY Appears DEF Has
    <3> QED BY <3>1, <2>1
  <2>3. wd \in W => wt \in W
    <3>1. Before(wt, wd) /\ wt \in writes
      BY <1>1 DEF Before
    <3> QED BY <3>1 DEF Does, Begun
  <2>4. wd \in W => disk'[At(Extract, "draft")] = Draft(result)
    <3>1. Single(writes, wd.key)
      BY <2>1 DEF Single
    <3> QED BY <3>1, Written
  <2>5. wt \in W => Has(Extract, "result")'
    <3>1. \A w \in FreezeExtraction : w.key = At(Extract, "result") => w = wt
      BY <1>1, <1>2
    <3>2. Single(writes, wt.key)
      BY <3>1 DEF Single
    <3> QED BY <3>2, Written DEF Has
  <2> QED BY <2>2, <2>3, <2>4, <2>5 DEF Saved
<1>7. /\ Has(Extract, "result") => Draft(result) = Draft(Saved(Extract, "result"))
      /\ Has(Extract, "result") /\ result # Saved(Extract, "result") => Redundant(Saved(Extract, "result"))
  BY <1>5, ReadBack
<1>8. FreezeExtraction \subseteq W => Has(Extract, "draft")'
  <2>1. \A w \in FreezeExtraction : w.key = At(Extract, "draft") => w = wd
    BY <1>1, <1>2
  <2>2. Single(writes, wd.key)
    BY <2>1 DEF Single
  <2>3. wd \in W => Has(Extract, "draft")'
    BY <2>2, Written DEF Has
  <2> QED BY <1>1, <2>3
<1>9. \A w \in FreezeExtraction :
        Clashes(w) => Has(Extract, "result") /\ Redundant(Saved(Extract, "result"))
  <2>1. ~Has(Extract, "result") => ~Clashes(wr) /\ ~Clashes(wp) /\ ~Clashes(wj)
    BY <1>5 DEF Clashes, Fixed, Has, Saved, ExtractKept, RawOf
  <2>2. Clashes(wt) => Has(Extract, "result") /\ Redundant(Saved(Extract, "result"))
    BY <1>7 DEF Clashes, Fixed, Has, Saved
  <2>3. ~Clashes(wd)
    BY <1>7 DEF Clashes, Fixed, Has, Saved, ExtractKept
  <2> HIDE DEF wr, wp, wj, wt, wd
  <2> QED BY <2>1, <2>2, <2>3, <1>1
<1> HIDE DEF raw, parse, rejections, result
<1>10. ExtractKept'
  <2>1. Has(Extract, "input")' => Saved(Extract, "input")' = <<>>
    <3>1. Has(Extract, "input")' => Has(Extract, "input")
      <4>1. \A w \in W : w.key # At(Extract, "input")
        BY <1>1, <1>2
      <4> QED BY <4>1, Appears DEF Has
    <3> QED BY <3>1, <1>4 DEF ExtractKept
  <2>2. /\ Has(Extract, "raw")' => RawOf(Extract)' \in Extractions
        /\ Has(Extract, "raw") => RawOf(Extract)' = RawOf(Extract)
        /\ Has(Extract, "raw")' => RawOf(Extract)' = raw
    BY <1>4, <1>5 DEF ExtractKept, RawOf, raw
  <2>3. Has(Extract, "parse")' =>
          Has(Extract, "raw")' /\ Saved(Extract, "parse")' = Unreadable(RawOf(Extract)')
    BY <2>2, <1>4, <1>5 DEF ExtractKept
  <2>4. Has(Extract, "rejections")' =>
          Has(Extract, "parse")' /\ Saved(Extract, "rejections")' = OutsideBatch(RawOf(Extract)')
    BY <2>2, <2>3, <1>4, <1>5 DEF ExtractKept
  <2>5. Has(Extract, "result")' =>
          Has(Extract, "rejections")' /\ Saved(Extract, "result")' = Filtered(RawOf(Extract)')
    BY <2>2, <2>3, <2>4, <1>4, <1>5 DEF ExtractKept
  <2>6. Has(Extract, "draft")' =>
          Has(Extract, "result")' /\ Saved(Extract, "draft")' = Draft(Saved(Extract, "result")')
    BY <1>4, <1>6, <1>7 DEF ExtractKept
  <2> QED BY <2>1, <2>2, <2>3, <2>4, <2>5, <2>6
          DEF ExtractKept
<1> QED BY <1>8, <1>9, <1>10

LEMMA IdentityCallKeeps ==
  ASSUME NEW phase \in Nat, NEW input,
         NEW writes, Placed(writes), NEW W \in SUBSET writes, NEW next, Does(writes, W, next),
         Call(phase, Identity, input) \subseteq writes,
         \A w \in writes : \A part : w.key = At(Identity, part) => w \in Call(phase, Identity, input),
         Has(Identity, "input") => Saved(Identity, "input") = input,
         (\E w \in W : w.at = <<phase, 1>> /\ w.key = At(Identity, "input")) => Has(Extract, "draft")',
         IsFiniteSet(DOMAIN input.events), \A k \in DOMAIN input.events : input.events[k].rank \in Nat,
         IdentityKept
  PROVE  IdentityKept'
<1>1. Identity \in Stages /\ Identity # Extract
  BY StageKinds, Kinds
<1>2. /\ \A part : part \notin {"input", "result"} =>
                        /\ Has(Identity, part)' <=> Has(Identity, part)
                        /\ Has(Identity, part) => Saved(Identity, part)' = Saved(Identity, part)
      /\ Has(Identity, "input") => Has(Identity, "input")'
      /\ Has(Identity, "input")' => Saved(Identity, "input")' = input
      /\ Has(Identity, "result") =>
           Has(Identity, "result")' /\ Saved(Identity, "result")' = Saved(Identity, "result")
      /\ Has(Identity, "result")' /\ ~Has(Identity, "result") =>
              /\ NothingToAsk(Identity, input) /\ Has(Identity, "input")'
              /\ Saved(Identity, "result")' = [k \in DOMAIN input.events |-> {}]
      /\ Has(Identity, "input")' /\ ~Has(Identity, "input") =>
              \E w \in W : w.at = <<phase, 1>> /\ w.key = At(Identity, "input")
  BY <1>1, CallKeeps
<1>3. Has(Identity, "input")' =>
        /\ Has(Extract, "draft")'
        /\ IsFiniteSet(DOMAIN Saved(Identity, "input").events')
        /\ \A k \in DOMAIN Saved(Identity, "input").events' : Saved(Identity, "input").events'[k].rank \in Nat
  <2>1. Has(Identity, "input") => Has(Extract, "draft")'
    <3>1. At(Extract, "draft") # JournalKey
      BY StageKinds, OneKey
    <3> QED BY <3>1, Remains DEF IdentityKept, Grows, Has
  <2> QED BY <2>1, <1>2
<1>4. NothingToAsk(Identity, input) <=> DOMAIN input.events = {}
  BY <1>1 DEF NothingToAsk
<1>5. Answered(Identity)'
  BY <1>2 DEF IdentityKept, Answered, Asked, Vacant, RawOf
<1>6. Has(Identity, "raw") => RawOf(Identity)' = RawOf(Identity)
  BY <1>2 DEF RawOf
<1>7. Has(Identity, "parse")' =>
        /\ Has(Identity, "raw")'
        /\ Saved(Identity, "parse")' = DOMAIN RawOf(Identity)' \ Usable(RawOf(Identity)')
  BY <1>2, <1>6 DEF IdentityKept
<1>8. Has(Identity, "result")' =>
         /\ Has(Identity, "input")'
         /\ \/ Unasked(Identity)'
            \/ /\ Has(Identity, "parse")'
               /\ Saved(Identity, "result")' = Restrict(RawOf(Identity)', Usable(RawOf(Identity)'))
  <2>1. CASE Has(Identity, "result")
    BY <2>1, <1>2, <1>6 DEF IdentityKept, Unasked, Vacant
  <2>2. CASE ~Has(Identity, "result")
    <3>1. NothingToAsk(Identity, input) => ~Has(Identity, "raw")
      BY DEF IdentityKept, Answered, Asked, Vacant
    <3> QED BY <2>2, <3>1, <1>2, <1>4 DEF Unasked, Vacant
  <2> QED BY <2>1, <2>2
<1> QED BY <1>3, <1>5, <1>7, <1>8 DEF IdentityKept, Place

LEMMA FreezeIdentityKeeps ==
  ASSUME IdentityKept, Has(Identity, "input"),
         ~Has(Identity, "result") =>
           Asked(Identity) /\ DOMAIN Raw(Identity) = DOMAIN Saved(Identity, "input").events,
         NEW writes, Placed(writes), NEW W \in SUBSET writes, NEW next, Does(writes, W, next),
         FreezeIdentity \subseteq writes,
         \A w \in writes : \A part : w.key = At(Identity, part) => w \in FreezeIdentity
  PROVE  /\ IdentityKept'
         /\ \A w \in FreezeIdentity : ~Clashes(w)
         /\ FreezeIdentity \subseteq W => Has(Identity, "result")'
         /\ Has(Identity, "result")' => Saved(Identity, "result")' = IdentityResult
         /\ Saved(Identity, "input")' = Saved(Identity, "input")
<1> DEFINE raw    == Raw(Identity)
           result == IdentityResult
           wr == [at |-> <<1, 1>>, key |-> At(Identity, "raw"), value |-> raw]
           wp == [at |-> <<1, 2>>, key |-> At(Identity, "parse"), value |-> DOMAIN raw \ Usable(raw)]
           wt == [at |-> <<1, 3>>, key |-> At(Identity, "result"), value |-> result]
<1>s. Identity \in Stages
  BY StageKinds
<1>1. FreezeIdentity = (IF Has(Identity, "result") THEN {} ELSE {wr, wp}) \cup {wt}
  BY DEF FreezeIdentity, Once
<1>2. /\ wr.key # wp.key /\ wr.key # wt.key /\ wp.key # wt.key
      /\ \A part : At(Identity, part) # JournalKey
  BY <1>s, OneKey
<1>3. \A w \in FreezeIdentity : Single(writes, w.key)
  <2>1. \A w \in FreezeIdentity : \E part : w.key = At(Identity, part)
    BY <1>1
  <2> QED BY <2>1, <1>1, <1>2 DEF Single
<1>4. \A part : Has(Identity, part) =>
        Has(Identity, part)' /\ Saved(Identity, part)' = Saved(Identity, part)
  BY <1>2, Remains DEF Grows, Has, Saved
<1>5. \A w \in W : w \in FreezeIdentity => w.key \in DOMAIN disk' /\ disk'[w.key] = w.value
  BY <1>3, Written
<1>6. /\ Has(Identity, "raw")' => Has(Identity, "raw") \/ (~Has(Identity, "result") /\ wr \in W)
      /\ Has(Identity, "parse")' => Has(Identity, "parse") \/ (~Has(Identity, "result") /\ wp \in W)
      /\ Has(Identity, "result")' => Has(Identity, "result") \/ wt \in W
  <2>1. \A key : key \in DOMAIN disk' => key \in DOMAIN disk \/ \E w \in W : w.key = key
    BY Appears
  <2>2. \A part : At(Identity, part) \in DOMAIN disk' =>
          \/ At(Identity, part) \in DOMAIN disk
          \/ \E w \in W : w \in FreezeIdentity /\ w.key = At(Identity, part)
    BY <2>1
  <2> QED BY <2>2, <1>1, <1>2 DEF Has
<1>7. /\ ~Has(Identity, "result") /\ wt \in W => wp \in W
      /\ ~Has(Identity, "result") /\ wp \in W => wr \in W
  <2>1. Before(wr, wp) /\ Before(wp, wt)
    BY DEF Before
  <2>2. ~Has(Identity, "result") => wr \in writes /\ wp \in writes
    BY <1>1
  <2> QED BY <2>1, <2>2 DEF Does, Begun
<1>8. /\ ~Has(Identity, "result") /\ wr \in W => Has(Identity, "raw")' /\ RawOf(Identity)' = raw
      /\ ~Has(Identity, "result") /\ wp \in W =>
           Has(Identity, "parse")' /\ Saved(Identity, "parse")' = DOMAIN raw \ Usable(raw)
      /\ wt \in W => Has(Identity, "result")' /\ Saved(Identity, "result")' = result
  BY <1>5, <1>1 DEF Has, Saved, RawOf
<1>9. /\ Has(Identity, "raw") => raw = RawOf(Identity)
      /\ result = IF Has(Identity, "result") THEN Saved(Identity, "result")
                  ELSE Restrict(raw, Usable(raw))
  BY DEF Raw, RawOf, Frozen, IdentityResult
<1>10. \A w \in FreezeIdentity : ~Clashes(w)
  <2>1. ~Has(Identity, "result") => ~Clashes(wr) /\ ~Clashes(wp)
    BY <1>9 DEF Clashes, Fixed, Has, Saved, IdentityKept, RawOf
  <2>2. ~Clashes(wt)
    BY <1>9 DEF Clashes, Fixed, Has, Saved
  <2> HIDE DEF wr, wp, wt
  <2> QED BY <2>1, <2>2, <1>1
<1> HIDE DEF result, wr, wp, wt
<1>11. /\ Saved(Identity, "input")' = Saved(Identity, "input")
       /\ Asked(Identity) => Asked(Identity)'
  BY <1>4 DEF Asked, Vacant
<1>12. /\ Has(Identity, "raw") => RawOf(Identity)' = RawOf(Identity)
       /\ Has(Identity, "raw")' => RawOf(Identity)' = raw
  BY <1>4, <1>6, <1>8, <1>9 DEF RawOf
<1>13. Answered(Identity)'
  BY <1>6, <1>11, <1>12, <1>4 DEF IdentityKept, Answered
<1>14. Has(Identity, "parse")' =>
        /\ Has(Identity, "raw")'
        /\ Saved(Identity, "parse")' = DOMAIN RawOf(Identity)' \ Usable(RawOf(Identity)')
  BY <1>4, <1>6, <1>7, <1>8, <1>12 DEF IdentityKept
<1>15. Has(Identity, "result")' => Saved(Identity, "result")' = result
  BY <1>4, <1>6, <1>8, <1>9
<1>16. Has(Identity, "result")' =>
         /\ Has(Identity, "input")'
         /\ \/ Unasked(Identity)'
            \/ /\ Has(Identity, "parse")'
               /\ Saved(Identity, "result")' = Restrict(RawOf(Identity)', Usable(RawOf(Identity)'))
  <2>1. CASE Has(Identity, "result")
    <3>1. ~Has(Identity, "raw") => ~Has(Identity, "raw")'
      BY <2>1, <1>6
    <3> QED BY <2>1, <3>1, <1>4, <1>11, <1>12 DEF IdentityKept, Unasked, Vacant
  <2>2. CASE ~Has(Identity, "result")
    BY <2>2, <1>4, <1>6, <1>7, <1>8, <1>9, <1>12, <1>15
  <2> QED BY <2>1, <2>2
<1>17. IdentityKept'
  <2>1. Has(Extract, "draft")'
    <3>1. At(Extract, "draft") # JournalKey
      BY StageKinds, OneKey
    <3> QED BY <3>1, Remains DEF IdentityKept, Grows, Has
  <2>2. /\ IsFiniteSet(DOMAIN Saved(Identity, "input").events')
        /\ \A k \in DOMAIN Saved(Identity, "input").events' : Place(k)' \in Nat
    BY <1>11 DEF IdentityKept, Place
  <2> QED BY <2>1, <2>2, <1>13, <1>14, <1>16 DEF IdentityKept
<1>18. FreezeIdentity \subseteq W => Has(Identity, "result")'
  BY <1>1, <1>8
<1> QED BY <1>10, <1>11, <1>15, <1>17, <1>18 DEF result

-----------------------------------------------------------------------------
(* What a Function that leaves a stage alone keeps of it.                  *)

LEMMA ExtractStays ==
  ASSUME Stays(Extract), ExtractKept
  PROVE  ExtractKept'
<1>1. \A part : /\ Has(Extract, part)' <=> Has(Extract, part)
                /\ Has(Extract, part) => Saved(Extract, part)' = Saved(Extract, part)
  BY DEF Stays, Has, Saved
<1> QED BY <1>1 DEF ExtractKept, RawOf

LEMMA IdentityStays ==
  ASSUME Stays(Identity), Grows, IdentityKept
  PROVE  IdentityKept'
<1>1. \A part : /\ Has(Identity, part)' <=> Has(Identity, part)
                /\ Has(Identity, part) => Saved(Identity, part)' = Saved(Identity, part)
  BY DEF Stays, Has, Saved
<1>2. Has(Extract, "draft") => Has(Extract, "draft")'
  BY DEF Grows, Has
<1>3. Answered(Identity) => Answered(Identity)'
  BY <1>1 DEF Answered, Asked, Vacant, RawOf
<1>4. Unasked(Identity) /\ Has(Identity, "input") /\ Has(Identity, "result") => Unasked(Identity)'
  BY <1>1 DEF Unasked, Vacant
<1> QED BY <1>1, <1>2, <1>3, <1>4 DEF IdentityKept, RawOf, Place

LEMMA MatchStays ==
  ASSUME NEW s, Stays(s), Grows, MatchKept(s)
  PROVE  MatchKept(s)'
<1>1. \A part : /\ Has(s, part)' <=> Has(s, part)
                /\ Has(s, part) => Saved(s, part)' = Saved(s, part)
  BY DEF Stays, Has, Saved
<1>2. JournalKey \in DOMAIN disk => JournalKey \in DOMAIN disk'
  BY DEF Grows
<1>3. Answered(s) => Answered(s)'
  BY <1>1 DEF Answered, Asked, Vacant, RawOf
<1>4. Unasked(s) /\ Has(s, "input") /\ Has(s, "result") => Unasked(s)'
  BY <1>1 DEF Unasked, Vacant
<1>5. Has(s, "raw") => Has(s, "input")
  BY DEF MatchKept, Answered, Asked
<1> QED BY <1>1, <1>2, <1>3, <1>4, <1>5 DEF MatchKept, RawOf

LEMMA SignalStays ==
  ASSUME NEW s, Stays(s), Grows, JournalStays, SignalKept(s)
  PROVE  SignalKept(s)'
<1>1. \A part : /\ Has(s, part)' <=> Has(s, part)
                /\ Has(s, part) => Saved(s, part)' = Saved(s, part)
  BY DEF Stays, Has, Saved
<1>2. /\ JournalKey \in DOMAIN disk => JournalKey \in DOMAIN disk'
      /\ AssociationsReady => AssociationsReady'
  BY DEF Grows, AssociationsReady, Has
<1>3. Answered(s) => Answered(s)'
  BY <1>1 DEF Answered, Asked, Vacant, RawOf
<1>4. Unasked(s) /\ Has(s, "input") /\ Has(s, "result") => Unasked(s)'
  BY <1>1 DEF Unasked, Vacant
<1>5. Has(s, "raw") => Has(s, "input")
  BY DEF SignalKept, Answered, Asked
<1> QED BY <1>1, <1>2, <1>3, <1>4, <1>5 DEF SignalKept, RawOf, JournalStays

-----------------------------------------------------------------------------
(* The journal a Function leaves.                                          *)

\* Among the journals a Function writes there is always a last one.
Ranked(writes) ==
  \A V \in SUBSET {w \in writes : w.key = JournalKey} :
    V # {} => \E w \in V : \A v \in V : ~Before(w, v)

LEMMA JournalWritten ==
  ASSUME NEW writes, Ranked(writes), NEW W \in SUBSET writes, NEW next, Does(writes, W, next),
         JournalKey \in DOMAIN disk'
  PROVE  \/ /\ JournalKey \in DOMAIN disk /\ Journal' = Journal
            /\ \A w \in W : w.key # JournalKey
         \/ \E w \in W : /\ w.key = JournalKey /\ Journal' = w.value
                         /\ \A v \in W : v.key = JournalKey => ~Before(w, v)
<1>1. disk' = Kept(W)
  BY DEF Does
<1>2. DOMAIN disk' = DOMAIN disk \cup KeysOf(W)
  BY <1>1, KeptDomain
<1>3. CASE JournalKey \notin KeysOf(W)
  <2>1. \A w \in W : w.key # JournalKey
    BY <1>3 DEF KeysOf
  <2>2. Journal' = Journal
    BY <1>1, <1>2, <1>3 DEF Kept, Journal
  <2> QED BY <2>1, <2>2, <1>2, <1>3
<1>4. CASE JournalKey \in KeysOf(W)
  <2> DEFINE V == {w \in W : w.key = JournalKey}
             l == Latest(W, JournalKey)
  <2>1. V # {} /\ V \in SUBSET {w \in writes : w.key = JournalKey}
    BY <1>4 DEF KeysOf
  <2>2. \E w \in W : w.key = JournalKey /\ \A v \in W : v.key = JournalKey => ~Before(w, v)
    BY <2>1 DEF Ranked
  <2>3. l \in W /\ l.key = JournalKey /\ \A v \in W : v.key = JournalKey => ~Before(l, v)
    BY <2>2 DEF Latest
  <2>4. disk'[JournalKey] = l.value
    BY <1>1, <1>2, <1>4 DEF Kept, Fixed
  <2> QED BY <2>3, <2>4 DEF Journal
<1> QED BY <1>3, <1>4

\* At most one of the writes is a journal.
LEMMA OneJournal ==
  ASSUME NEW writes, Placed(writes), Single(writes, JournalKey)
  PROVE  Ranked(writes)
BY DEF Ranked, Single, Before, Placed

LEMMA NoJournal ==
  ASSUME NEW writes, NEW W \in SUBSET writes, NEW next, Does(writes, W, next),
         \A w \in writes : w.key # JournalKey
  PROVE  /\ JournalKey \in DOMAIN disk' <=> JournalKey \in DOMAIN disk
         /\ JournalKey \in DOMAIN disk => Journal' = Journal
<1>1. Ranked(writes)
  BY DEF Ranked
<1>2. JournalKey \in DOMAIN disk' => JournalKey \in DOMAIN disk /\ Journal' = Journal
  BY <1>1, JournalWritten
<1>3. JournalKey \in DOMAIN disk => JournalKey \in DOMAIN disk'
  BY Remains DEF Grows
<1> QED BY <1>2, <1>3

-----------------------------------------------------------------------------
(* A run that goes on knows what it has heard.                             *)

LEMMA HeededStays ==
  ASSUME \A s \in DOMAIN said : Heeded(s), Grows,
         \A s \in DOMAIN said' : s \in DOMAIN said /\ said'[s] = said[s]
  PROVE  \A s \in DOMAIN said' : Heeded(s)'
<1>1. ASSUME NEW s \in DOMAIN said', Asked(s)  PROVE  Asked(s)' /\ Saved(s, "input")' = Saved(s, "input")
  <2>1. At(s, "input") # JournalKey
    BY DEF At, JournalKey
  <2>2. Has(s, "input")' /\ Saved(s, "input")' = Saved(s, "input")
    BY <1>1, <2>1 DEF Grows, Asked, Has, Saved
  <2> QED BY <1>1, <2>2 DEF Asked, Vacant
<1> QED BY <1>1 DEF Heeded

LEMMA DoesHeed ==
  ASSUME \A s \in DOMAIN said : Heeded(s),
         NEW writes, NEW W \in SUBSET writes, NEW next, Does(writes, W, next)
  PROVE  \A s \in DOMAIN said' : Heeded(s)'
<1>1. \A s \in DOMAIN said' : s \in DOMAIN said /\ said'[s] = said[s]
  BY DEF Does, Restrict, NoAnswers
<1> QED BY <1>1, Remains, HeededStays

-----------------------------------------------------------------------------
(* The checkpoints, Function by Function.                                  *)

LEMMA OthersStay ==
  ASSUME NEW T \in SUBSET Stages,
         NEW writes, NEW W \in SUBSET writes, NEW next, Does(writes, W, next),
         \A w \in writes : w.key = JournalKey \/ \E t \in T : \E part : w.key = At(t, part)
  PROVE  \A s \in Stages \ T : Stays(s)
<1> SUFFICES ASSUME NEW s \in Stages \ T PROVE Silent(writes, s)
  BY SilentStays
<1> QED BY OneKey DEF Silent

\* What stays when neither associations nor nodes are written.
LEMMA BarrierStays ==
  ASSUME Grows, Stays(Associations), Stays(Match("node")),
         Has(Match("node"), "input") => Has(Match("chain"), "result"),
         AssociationsReady => \A s \in MatchStages : Has(s, "result")
  PROVE  /\ Has(Match("node"), "input")' => Has(Match("chain"), "result")'
         /\ AssociationsReady' => \A s \in MatchStages : Has(s, "result")'
<1>1. \A s : Has(s, "result") => Has(s, "result")'
  BY DEF Grows, Has
<1>2. AssociationsReady' => AssociationsReady
  BY DEF Stays, AssociationsReady, Has
<1>3. Has(Match("node"), "input")' => Has(Match("node"), "input")
  BY DEF Stays, Has
<1> QED BY <1>1, <1>2, <1>3

LEMMA JournalKeptStays ==
  ASSUME Grows, Stays(Identity), JournalKept, IdentityKept,
         JournalKey \in DOMAIN disk' => JournalKey \in DOMAIN disk, JournalStays
  PROVE  JournalKept'
<1>1. \A part : /\ Has(Identity, part)' <=> Has(Identity, part)
                /\ Has(Identity, part) => Saved(Identity, part)' = Saved(Identity, part)
  BY DEF Stays, Has, Saved
<1> QED BY <1>1 DEF JournalKept, IdentityKept, JournalStays

Redundancy == Has(Extract, "result") /\ Redundant(Saved(Extract, "result"))

\* What every step does for the first half of the invariant.
StepKeeps ==
  /\ CheckpointsInv' /\ RunInv'
  /\ refused' # refused => Redundancy

\* A Function that leaves the journal and what follows the identities alone.
Untouched ==
  /\ JournalKey \in DOMAIN disk' <=> JournalKey \in DOMAIN disk
  /\ JournalKey \in DOMAIN disk => Journal' = Journal
  /\ \A s \in Stages \ {Extract, Identity} : Stays(s)

LEMMA ClaimKeeps ==
  ASSUME CheckpointsInv, RunInv, ClaimBatch
  PROVE  StepKeeps /\ Untouched
<1> DEFINE writes == Call(1, Extract, <<>>)
<1>p. Placed(writes)
  BY DEF Call, Once, Placed
<1>1. PICK W \in SUBSET writes : Does(writes, W, "extract")
  BY <1>p, Performed DEF ClaimBatch
<1>s. Extract \in Stages
  BY StageKinds
<1>t. \A w \in writes : \E part : w.key = At(Extract, part)
  BY DEF Call, Once
<1>2. \A s \in Stages \ {Extract} : Stays(s)
  BY <1>1, <1>s, <1>t, OthersStay
<1>3. Grows
  BY <1>1, Remains
<1>4. \A w \in writes : w.key # JournalKey
  BY <1>t, <1>s, OneKey
<1>5. /\ JournalKey \in DOMAIN disk' <=> JournalKey \in DOMAIN disk
      /\ JournalKey \in DOMAIN disk => Journal' = Journal
      /\ JournalStays
  BY <1>1, <1>4, NoJournal DEF JournalStays
<1>6. ExtractKept' /\ \A w \in writes : ~Clashes(w)
  <2>1. Has(Extract, "input") => Saved(Extract, "input") = <<>>
    BY DEF CheckpointsInv, ExtractKept
  <2>2. \A w \in writes : \A part : w.key = At(Extract, part) => w \in Call(1, Extract, <<>>)
    OBVIOUS
  <2>3. /\ \A part : part \notin {"input", "result"} =>
                        /\ Has(Extract, part)' <=> Has(Extract, part)
                        /\ Has(Extract, part) => Saved(Extract, part)' = Saved(Extract, part)
        /\ Has(Extract, "input")' => Saved(Extract, "input")' = <<>>
        /\ Has(Extract, "result") =>
             Has(Extract, "result")' /\ Saved(Extract, "result")' = Saved(Extract, "result")
        /\ Has(Extract, "result")' /\ ~Has(Extract, "result") => NothingToAsk(Extract, <<>>)
        /\ \A w \in writes : ~Clashes(w)
    BY <1>1, <1>p, <1>s, <2>1, <2>2, CallKeeps
  <2>4. ~NothingToAsk(Extract, <<>>)
    BY Kinds DEF NothingToAsk
  <2> QED BY <2>3, <2>4 DEF CheckpointsInv, ExtractKept, RawOf
<1>7. CheckpointsInv'
  <2>1. Stays(Identity) /\ Stays(Associations)
    BY <1>2, StageKinds, Kinds
  <2>2. \A s \in MatchStages : Stays(s)
    BY <1>2, StageKinds, Kinds
  <2>3. \A s \in SignalStages : Stays(s)
    BY <1>2, StageKinds, Kinds
  <2>4. IdentityKept' /\ JournalKept'
    BY <2>1, <1>3, <1>5, IdentityStays, JournalKeptStays DEF CheckpointsInv
  <2>5. \A s \in MatchStages : MatchKept(s)'
    BY <2>2, <1>3, MatchStays DEF CheckpointsInv
  <2>6. \A s \in SignalStages : SignalKept(s)'
    BY <2>3, <1>3, <1>5, SignalStays DEF CheckpointsInv
  <2>7. /\ Has(Match("node"), "input")' => Has(Match("chain"), "result")'
        /\ AssociationsReady' => \A s \in MatchStages : Has(s, "result")'
    BY <2>1, <2>2, <1>3, StageKinds, BarrierStays DEF CheckpointsInv
  <2> QED BY <2>4, <2>5, <2>6, <2>7, <1>6 DEF CheckpointsInv
<1>8. RunInv'
  <2>1. \A s \in DOMAIN said' : Heeded(s)'
    BY <1>1, DoesHeed DEF RunInv
  <2>2. pc' \in {"idle", "extract"}
    BY <1>1 DEF Does
  <2> QED BY <2>1, <2>2 DEF RunInv
<1>9. refused' = refused
  BY <1>1, <1>6 DEF Does
<1> QED BY <1>2, <1>5, <1>7, <1>8, <1>9 DEF StepKeeps, Untouched

LEMMA IdentityStep ==
  ASSUME CheckpointsInv, RunInv, NEW world, PrepareBatchIdentity(world)
  PROVE  StepKeeps /\ Untouched
<1> DEFINE input  == Prepared(Identity, IdentityInput(Draft(Extracted), world))
           writes == FreezeExtraction \cup Call(2, Identity, input)
<1>p. Placed(writes)
  BY DEF FreezeExtraction, Call, Once, Placed
<1>1. PICK W \in SUBSET writes : Does(writes, W, "identity")
  BY <1>p, Performed DEF PrepareBatchIdentity
<1>s. Extract \in Stages /\ Identity \in Stages /\ Extract # Identity
  BY StageKinds, Kinds
<1>t. /\ \A w \in FreezeExtraction : \E part : w.key = At(Extract, part)
      /\ \A w \in Call(2, Identity, input) : \E part : w.key = At(Identity, part)
  BY DEF FreezeExtraction, Call, Once
<1>o. /\ \A w \in writes : \A part : w.key = At(Extract, part) => w \in FreezeExtraction
      /\ \A w \in writes : \A part : w.key = At(Identity, part) => w \in Call(2, Identity, input)
  BY <1>t, <1>s, OneKey
<1>2. \A s \in Stages \ {Extract, Identity} : Stays(s)
  <2> DEFINE T == {Extract, Identity}
  <2>1. T \in SUBSET Stages
    BY <1>s
  <2>2. \A w \in writes : \E t \in T : \E part : w.key = At(t, part)
    <3> HIDE DEF input
    <3> QED BY <1>t
  <2> HIDE DEF T, writes
  <2>3. \A s \in Stages \ T : Stays(s)
    BY <1>1, <2>1, <2>2, OthersStay
  <2> QED BY <2>3 DEF T
<1>3. Grows
  BY <1>1, Remains
<1>4. \A w \in writes : w.key # JournalKey
  BY <1>t, <1>s, OneKey
<1>5. /\ JournalKey \in DOMAIN disk' <=> JournalKey \in DOMAIN disk
      /\ JournalKey \in DOMAIN disk => Journal' = Journal
  BY <1>1, <1>4, NoJournal
<1>r. Raw(Extract) \in Extractions
  BY DEF PrepareBatchIdentity, RunInv, Told, Heeded, Completed, CheckpointsInv, ExtractKept,
         Raw, RawOf, Frozen
<1>6. /\ ExtractKept'
      /\ \A w \in FreezeExtraction : Clashes(w) => Redundancy
      /\ FreezeExtraction \subseteq W => Has(Extract, "draft")'
  BY <1>p, <1>1, <1>o, <1>r, FreezeExtractionKeeps DEF CheckpointsInv, Redundancy
<1>7. IsFiniteSet(DOMAIN input.events) /\ \A k \in DOMAIN input.events : input.events[k].rank \in Nat
  <2>1. CASE Has(Identity, "input")
    BY <2>1 DEF Prepared, Frozen, CheckpointsInv, IdentityKept, Place
  <2>2. CASE ~Has(Identity, "input")
    <3>1. \E a \in Extractions : Draft(Extracted) = Draft(Filtered(a))
      <4>1. CASE Has(Extract, "result")
        BY <4>1, ReadBack DEF Extracted, CheckpointsInv, ExtractKept
      <4>2. CASE ~Has(Extract, "result")
        BY <4>2, <1>r DEF Extracted
      <4> QED BY <4>1, <4>2
    <3>2. PICK a \in Extractions : Draft(Extracted) = Draft(Filtered(a))
      BY <3>1
    <3>3. input = IdentityInput(Draft(Filtered(a)), world)
      BY <2>2, <3>2 DEF Prepared, Frozen
    <3> QED BY <3>3, PlacesGiven
  <2> QED BY <2>1, <2>2
<1>8. Has(Identity, "input") => Saved(Identity, "input") = input
  BY DEF Prepared, Frozen
<1>9. (\E w \in W : w.at = <<2, 1>> /\ w.key = At(Identity, "input")) => FreezeExtraction \subseteq W
  <2>1. \A v \in FreezeExtraction : \A w : w.at = <<2, 1>> => Before(v, w)
    BY DEF FreezeExtraction, Once, Before
  <2> QED BY <2>1, <1>1 DEF Does, Begun
<1>10. IdentityKept'
  BY <1>p, <1>1, <1>o, <1>6, <1>7, <1>8, <1>9, IdentityCallKeeps DEF CheckpointsInv
<1>11. /\ Call(2, Identity, input) \subseteq W =>
            Has(Identity, "input")' /\ (NothingToAsk(Identity, input) => Has(Identity, "result")')
       /\ Has(Identity, "input")' => Saved(Identity, "input")' = input
       /\ \A w \in Call(2, Identity, input) : ~Clashes(w)
       /\ Has(Identity, "result") =>
            Has(Identity, "result")' /\ Saved(Identity, "result")' = Saved(Identity, "result")
       /\ Has(Identity, "input") => Has(Identity, "input")'
  <2> HIDE DEF input
  <2>1. Call(2, Identity, input) \subseteq writes /\ 2 \in Nat
    OBVIOUS
  <2> HIDE DEF writes
  <2> QED BY <1>p, <1>1, <1>s, <1>o, <1>8, <2>1, CallKeeps
<1>12. JournalKept'
  BY <1>5, <1>8, <1>11 DEF CheckpointsInv, JournalKept, IdentityKept
<1>13. CheckpointsInv'
  <2>1. Stays(Associations)
    BY <1>2, StageKinds, Kinds
  <2>2. \A s \in MatchStages \cup SignalStages : Stays(s)
    BY <1>2, StageKinds, Kinds
  <2>3. JournalStays
    BY <1>5 DEF JournalStays
  <2>5. \A s \in MatchStages : MatchKept(s)'
    BY <2>2, <1>3, MatchStays DEF CheckpointsInv
  <2>6. \A s \in SignalStages : SignalKept(s)'
    BY <2>2, <2>3, <1>3, SignalStays DEF CheckpointsInv
  <2>7. /\ Has(Match("node"), "input")' => Has(Match("chain"), "result")'
        /\ AssociationsReady' => \A s \in MatchStages : Has(s, "result")'
    BY <2>1, <2>2, <1>3, StageKinds, BarrierStays DEF CheckpointsInv
  <2> QED BY <1>6, <1>10, <1>12, <2>5, <2>6, <2>7 DEF CheckpointsInv
<1>14. RunInv'
  <2>1. \A s \in DOMAIN said' : Heeded(s)'
    BY <1>1, DoesHeed DEF RunInv
  <2>2. CASE pc' = "idle"
    BY <2>1, <2>2 DEF RunInv
  <2>3. CASE pc' # "idle"
    <3>1. W = writes /\ pc' = "identity"
      BY <2>3, <1>1 DEF Does
    <3>2. Ready(Identity)'
      BY <3>1, <1>11 DEF Ready, Vacant
    <3> QED BY <2>1, <3>1, <3>2 DEF RunInv
  <2> QED BY <2>2, <2>3
<1>15. refused' # refused => Redundancy
  BY <1>1, <1>6, <1>11 DEF Does
<1> QED BY <1>2, <1>5, <1>13, <1>14, <1>15 DEF StepKeeps, Untouched

-----------------------------------------------------------------------------
(* The Agents.                                                             *)

LEMMA SameDisk ==
  ASSUME disk' = disk
  PROVE  /\ \A s, part : /\ Has(s, part)' <=> Has(s, part)
                         /\ Saved(s, part)' = Saved(s, part)
         /\ \A s : /\ Ready(s)' <=> Ready(s)
                   /\ Asked(s)' <=> Asked(s)
                   /\ Completed(s)' <=> Completed(s)
         /\ AssociationsReady' <=> AssociationsReady
         /\ Remaining' = Remaining /\ Current' = Current
         /\ Journal' = Journal /\ Unpublished' = Unpublished
<1>1. \A s, part : /\ Has(s, part)' <=> Has(s, part)
                   /\ Saved(s, part)' = Saved(s, part)
  BY DEF Has, Saved
<1>2. Journal' = Journal
  BY DEF Journal
<1>3. Remaining' = Remaining
  BY <1>1 DEF Remaining
<1>4. Unpublished' = Unpublished
  BY <1>2 DEF Unpublished
<1>5. Current' = Current
  BY <1>3 DEF Current
<1>6. \A s : /\ Ready(s)' <=> Ready(s)
             /\ Asked(s)' <=> Asked(s)
             /\ Completed(s)' <=> Completed(s)
  BY <1>1 DEF Ready, Asked, Vacant, Completed
<1>7. AssociationsReady' <=> AssociationsReady
  BY <1>1 DEF AssociationsReady
<1> QED BY <1>1, <1>2, <1>3, <1>4, <1>5, <1>6, <1>7

LEMMA SameCheckpoints ==
  ASSUME CheckpointsInv, disk' = disk
  PROVE  CheckpointsInv'
<1>1. \A s, part : /\ Has(s, part)' <=> Has(s, part)
                   /\ Saved(s, part)' = Saved(s, part)
  BY SameDisk
<1>2. \A s : Stays(s)
  BY DEF Stays
<1>3. Grows
  BY DEF Grows
<1>4. JournalStays /\ (JournalKey \in DOMAIN disk' => JournalKey \in DOMAIN disk)
  BY SameDisk DEF JournalStays
<1>5. ExtractKept' /\ IdentityKept' /\ JournalKept'
  BY <1>2, <1>3, <1>4, ExtractStays, IdentityStays, JournalKeptStays DEF CheckpointsInv
<1>6. \A s \in MatchStages : MatchKept(s)'
  BY <1>2, <1>3, MatchStays DEF CheckpointsInv
<1>7. \A s \in SignalStages : SignalKept(s)'
  BY <1>2, <1>3, <1>4, SignalStays DEF CheckpointsInv
<1>8. /\ Has(Match("node"), "input")' => Has(Match("chain"), "result")'
      /\ AssociationsReady' => \A s \in MatchStages : Has(s, "result")'
  BY <1>1, SameDisk DEF CheckpointsInv
<1> QED BY <1>5, <1>6, <1>7, <1>8 DEF CheckpointsInv

\* An Agent answers about what it was asked.
LEMMA AnswerHeeded ==
  ASSUME NEW s, s = Extract \/ Asked(s), disk' = disk,
         \A t \in DOMAIN said : Heeded(t),
         Answer(s)
  PROVE  s \in DOMAIN said' /\ \A t \in DOMAIN said' : Heeded(t)'
<1>1. PICK a \in Answers(s) : said' = Saying(s, a)
  BY DEF Answer
<1>2. /\ DOMAIN said' = DOMAIN said \cup {s} /\ said'[s] = a
      /\ \A t \in DOMAIN said : t # s => said'[t] = said[t]
  BY <1>1 DEF Saying
<1>3. s # Extract => DOMAIN a = DOMAIN Saved(s, "input").events
  BY <1>1 DEF Answers
<1>4. s = Extract => a \in Extractions
  BY <1>1 DEF Answers
<1>5. Heeded(s)'
  BY <1>2, <1>3, <1>4, SameDisk DEF Heeded
<1>6. \A t \in DOMAIN said : t # s => Heeded(t)'
  BY <1>2, SameDisk DEF Heeded
<1> QED BY <1>2, <1>5, <1>6

\* A step that asks goes on with an answer, or ends the run.
LEMMA AskedThen ==
  ASSUME CheckpointsInv, RunInv, NEW s, NEW next, s = Extract \/ Ready(s), AskThen(s, next)
  PROVE  /\ CheckpointsInv' /\ refused' = refused /\ disk' = disk /\ settled' = settled
         /\ \A t \in DOMAIN said' : Heeded(t)'
         /\ pc' = "idle" \/ (pc' = next /\ Told(s)')
<1>1. disk' = disk /\ refused' = refused /\ settled' = settled
  BY DEF AskThen
<1>2. CheckpointsInv'
  BY <1>1, SameCheckpoints
<1>3. CASE Completed(s) /\ UNCHANGED said /\ pc' = next
  BY <1>1, <1>2, <1>3, SameDisk DEF Told, RunInv, Heeded
<1>4. CASE ~Completed(s) /\ Answer(s) /\ pc' = next
  <2>1. s = Extract \/ Asked(s)
    BY <1>4 DEF Ready, Asked, Completed
  <2>2. s \in DOMAIN said' /\ \A t \in DOMAIN said' : Heeded(t)'
    BY <1>1, <1>4, <2>1, AnswerHeeded DEF RunInv
  <2> QED BY <1>1, <1>2, <1>4, <2>2 DEF Told
<1>5. CASE EndRun
  BY <1>1, <1>2, <1>5 DEF EndRun, NoAnswers
<1> QED BY <1>3, <1>4, <1>5 DEF AskThen

LEMMA AskSteps ==
  ASSUME CheckpointsInv, RunInv, AskExtractor \/ AskIdentity \/ AskSignals
  PROVE  StepKeeps
<1>1. CASE AskExtractor
  <2>1. /\ CheckpointsInv' /\ refused' = refused
        /\ \A t \in DOMAIN said' : Heeded(t)'
        /\ pc' = "idle" \/ (pc' = "prepare_identity" /\ Told(Extract)')
    BY <1>1, AskedThen DEF AskExtractor
  <2> QED BY <2>1 DEF StepKeeps, RunInv
<1>2. CASE AskIdentity
  <2>0. Ready(Identity)
    BY <1>2 DEF AskIdentity, RunInv
  <2>1. /\ CheckpointsInv' /\ refused' = refused /\ disk' = disk
        /\ \A t \in DOMAIN said' : Heeded(t)'
        /\ pc' = "idle" \/ (pc' = "prepare_matches" /\ Told(Identity)')
    BY <1>2, <2>0, AskedThen DEF AskIdentity
  <2>2. Ready(Identity)'
    BY <2>0, <2>1, SameDisk
  <2> QED BY <2>1, <2>2 DEF StepKeeps, RunInv
<1>3. CASE AskSignals
  <2>0. AssociationsReady /\ Remaining # {} /\ Ready(Current)
    BY <1>3 DEF AskSignals, RunInv
  <2>s. PICK s : s = Current
    OBVIOUS
  <2>1. /\ CheckpointsInv' /\ refused' = refused /\ disk' = disk
        /\ \A t \in DOMAIN said' : Heeded(t)'
        /\ pc' = "idle" \/ (pc' = "compile" /\ Told(s)')
    BY <1>3, <2>0, <2>s, AskedThen DEF AskSignals
  <2>2. Ready(s)' /\ AssociationsReady' /\ Remaining' # {} /\ Current' = s
    BY <2>0, <2>1, <2>s, SameDisk
  <2>3. Ready(Current)' /\ (pc' = "compile" => Told(Current)')
    BY <2>1, <2>2 DEF Ready, Vacant, Has, Saved, Told, Completed
  <2> QED BY <2>1, <2>2, <2>3 DEF StepKeeps, RunInv
<1> QED BY <1>1, <1>2, <1>3

LEMMA MatchStep ==
  ASSUME CheckpointsInv, RunInv, NEW s \in MatchStages, MatchBranch(s)
  PROVE  StepKeeps
<1>1. disk' = disk /\ pc' = pc /\ refused' = refused /\ pc = "match"
  BY DEF MatchBranch
<1>2. CheckpointsInv'
  BY <1>1, SameCheckpoints
<1>3. Asked(s)
  <2>1. CASE s = Match("node")
    BY <2>1, Kinds, StageKinds DEF MatchBranch, NodesPrepared, Asked, Vacant, NothingToAsk
  <2>2. CASE s # Match("node")
    <3>1. \E g \in Classes : s = Match(g)
      BY <2>2 DEF MatchStages
    <3>2. Ready(s)
      BY <1>1, <3>1 DEF RunInv
    <3> QED BY <3>2 DEF MatchBranch, Completed, Ready, Asked
  <2> QED BY <2>1, <2>2
<1>4. \A t \in DOMAIN said' : Heeded(t)'
  <2>1. CASE Answer(s)
    BY <1>1, <1>3, <2>1, AnswerHeeded DEF RunInv
  <2>2. CASE said' = Saying(s, Failure)
    <3>1. /\ DOMAIN said' = DOMAIN said \cup {s} /\ said'[s] = Failure
          /\ \A t \in DOMAIN said : t # s => said'[t] = said[t]
      BY <2>2 DEF Saying
    <3>2. s # Extract
      BY Kinds
    <3> QED BY <1>1, <3>1, <3>2, SameDisk DEF Heeded, RunInv
  <2> QED BY <2>1, <2>2 DEF MatchBranch
<1>5. \A g \in Classes : Ready(Match(g))'
  BY <1>1, SameDisk DEF RunInv
<1> QED BY <1>1, <1>2, <1>4, <1>5 DEF StepKeeps, RunInv

LEMMA GroupNames ==
  /\ \A i \in DOMAIN Groups : Groups[i] \in Classes /\ i \in Nat
  /\ \A g \in Classes : \E i \in DOMAIN Groups : g = Groups[i]
  /\ \A i, j \in DOMAIN Groups : Match(Groups[i]) = Match(Groups[j]) => i = j
  /\ \A i, j \in DOMAIN Groups : Signal(Groups[i]) = Signal(Groups[j]) => i = j
  /\ \A i \in DOMAIN Groups : Match(Groups[i]) \in MatchStages /\ Match(Groups[i]) # Match("node")
<1>1. \A i \in DOMAIN Groups : Groups[i] \in Classes /\ i \in Nat
  BY GroupsAssumption DEF Classes, Range
<1>2. \A g \in Classes : \E i \in DOMAIN Groups : g = Groups[i]
  BY DEF Classes, Range
<1> QED BY <1>1, <1>2, GroupsAssumption, Kinds, StageKinds

\* What a stage was asked, and what was heard.
LEMMA HeardRaw ==
  ASSUME CheckpointsInv, RunInv, NEW s \in {Identity} \cup MatchStages \cup SignalStages,
         ~Has(s, "result"), Told(s), s \in MatchStages => Heard(s)
  PROVE  Asked(s) /\ DOMAIN Raw(s) = DOMAIN Saved(s, "input").events
<1>1. s # Extract
  BY Kinds
<1>2. Answered(s)
  BY DEF CheckpointsInv, IdentityKept, MatchKept, SignalKept
<1>3. CASE Has(s, "raw")
  BY <1>2, <1>3 DEF Answered, Raw, RawOf, Frozen
<1>4. CASE ~Has(s, "raw")
  <2>1. s \in DOMAIN said /\ Raw(s) = said[s] /\ Heeded(s)
    BY <1>4 DEF Told, Completed, Raw, Frozen, RunInv
  <2>2. ~(s \in MatchStages /\ said[s] = Failure)
    BY <1>4 DEF Heard, Completed
  <2> QED BY <1>1, <2>1, <2>2 DEF Heeded
<1> QED BY <1>3, <1>4

\* Asking for matches opens the journal with what the identities resolve to.
MatchesAsked ==
  /\ JournalKey \in DOMAIN disk => Journal' = Journal /\ Opened = Journal
  /\ JournalKey \in DOMAIN disk' /\ JournalKey \notin DOMAIN disk =>
       Journal' = Opened /\ Opened = Origin'
  /\ \A s \in Stages : s # Identity /\ (\A g \in Classes : s # Match(g)) => Stays(s)
  /\ \A g \in Classes :
       Has(Match(g), "input")' /\ ~Has(Match(g), "input") =>
         DOMAIN Saved(Match(g), "input").events' = EventsOf(Opened, g)

LEMMA MatchesStep ==
  ASSUME CheckpointsInv, RunInv, NEW world, PrepareParallelMatches(world)
  PROVE  StepKeeps /\ MatchesAsked
<1> DEFINE opening == IF JournalKey \in DOMAIN disk THEN {} ELSE Save(<<1, 4>>, Opened)
           calls == UNION {MatchCall(i, world) : i \in DOMAIN Groups}
           writes == FreezeIdentity \cup opening \cup calls
           input(i) == Prepared(Match(Groups[i]), MatchInput(Opened, Groups[i], world))
<1>c. \A i \in DOMAIN Groups : MatchCall(i, world) = Call(i + 1, Match(Groups[i]), input(i))
  BY DEF MatchCall
<1>t. /\ \A w \in FreezeIdentity : (\E part : w.key = At(Identity, part)) /\ w.at \in Nat \X Nat /\ w.at[1] = 1 /\ w.at[2] < 4
      /\ \A w \in opening : w.key = JournalKey /\ w.at = <<1, 4>> /\ w.value = Opened
      /\ \A i \in DOMAIN Groups : \A w \in MatchCall(i, world) :
           (\E part : w.key = At(Match(Groups[i]), part)) /\ w.at \in Nat \X Nat /\ w.at[1] = i + 1
  <2>1. \A w \in FreezeIdentity : (\E part : w.key = At(Identity, part)) /\ w.at \in Nat \X Nat /\ w.at[1] = 1 /\ w.at[2] < 4
    BY DEF FreezeIdentity, Once
  <2>2. \A w \in opening : w.key = JournalKey /\ w.at = <<1, 4>> /\ w.value = Opened
    BY DEF Save
  <2>3. ASSUME NEW i \in DOMAIN Groups, NEW w \in MatchCall(i, world)
        PROVE  (\E part : w.key = At(Match(Groups[i]), part)) /\ w.at \in Nat \X Nat /\ w.at[1] = i + 1
    <3> HIDE DEF input
    <3> QED BY <2>3, <1>c, GroupNames DEF Call, Once
  <2> QED BY <2>1, <2>2, <2>3
<1>p. Placed(writes)
  <2> HIDE DEF opening
  <2>1. \A w \in writes : \/ w \in FreezeIdentity \/ w \in opening
                          \/ \E i \in DOMAIN Groups : w \in MatchCall(i, world)
    OBVIOUS
  <2>2. \A w \in opening : w.at \in Nat \X Nat
    BY <1>t
  <2> HIDE DEF writes
  <2> QED BY <2>1, <2>2, <1>t DEF Placed
<1>1. PICK W \in SUBSET writes : Does(writes, W, "match")
  BY <1>p, Performed DEF PrepareParallelMatches
<1> HIDE DEF input, opening
<1>s. /\ Identity \in Stages
      /\ \A i \in DOMAIN Groups : Match(Groups[i]) \in Stages /\ Match(Groups[i]) # Identity
  BY StageKinds, Kinds, GroupNames
<1>w. \A w \in writes : \/ w \in FreezeIdentity \/ w \in opening
                        \/ \E i \in DOMAIN Groups : w \in MatchCall(i, world)
  OBVIOUS
<1>o. /\ \A w \in writes : \A part : w.key = At(Identity, part) => w \in FreezeIdentity
      /\ \A i \in DOMAIN Groups : \A w \in writes : \A part :
           w.key = At(Match(Groups[i]), part) => w \in MatchCall(i, world)
  <2>1. ASSUME NEW w \in writes, NEW part, w.key = At(Identity, part)
        PROVE  w \in FreezeIdentity
    BY <2>1, <1>w, <1>t, <1>s, OneKey
  <2>2. ASSUME NEW i \in DOMAIN Groups, NEW w \in writes, NEW part, w.key = At(Match(Groups[i]), part)
        PROVE  w \in MatchCall(i, world)
    <3>1. ~(w \in FreezeIdentity \/ w \in opening)
      BY <2>2, <1>t, <1>s, OneKey
    <3>2. PICK j \in DOMAIN Groups : w \in MatchCall(j, world)
      BY <3>1, <1>w
    <3>3. Match(Groups[i]) = Match(Groups[j])
      BY <2>2, <3>2, <1>t, <1>s, OneKey
    <3> QED BY <3>2, <3>3, GroupNames
  <2> QED BY <2>1, <2>2
<1>2. \A s \in Stages : s # Identity /\ (\A i \in DOMAIN Groups : s # Match(Groups[i])) => Stays(s)
  <2> DEFINE T == {Identity} \cup {Match(Groups[i]) : i \in DOMAIN Groups}
  <2>1. T \in SUBSET Stages
    BY <1>s
  <2>2. \A w \in writes : w.key = JournalKey \/ \E t \in T : \E part : w.key = At(t, part)
    BY <1>w, <1>t
  <2> HIDE DEF T, writes
  <2>3. \A s \in Stages \ T : Stays(s)
    BY <1>1, <2>1, <2>2, OthersStay
  <2> QED BY <2>3 DEF T
<1>3. Grows
  BY <1>1, Remains
<1>4. ~Has(Identity, "result") => Asked(Identity) /\ DOMAIN Raw(Identity) = DOMAIN Saved(Identity, "input").events
  <2>1. Told(Identity) /\ Identity \notin MatchStages
    BY Kinds DEF PrepareParallelMatches, RunInv
  <2> QED BY <2>1, HeardRaw
<1>5. /\ IdentityKept'
      /\ \A w \in FreezeIdentity : ~Clashes(w)
      /\ FreezeIdentity \subseteq W => Has(Identity, "result")'
      /\ Saved(Identity, "input")' = Saved(Identity, "input")
      /\ Has(Identity, "result")' => Saved(Identity, "result")' = IdentityResult
  <2>1. IdentityKept /\ Has(Identity, "input") /\ FreezeIdentity \subseteq writes
    BY DEF PrepareParallelMatches, RunInv, Ready, CheckpointsInv
  <2> HIDE DEF writes
  <2> QED BY <1>p, <1>1, <1>o, <1>4, <2>1, FreezeIdentityKeeps
<1>6. \A w \in W : w \notin FreezeIdentity => FreezeIdentity \subseteq W
  <2>1. ASSUME NEW w \in W, w \notin FreezeIdentity, NEW v \in FreezeIdentity
        PROVE  Before(v, w)
    <3>1. v.at[1] = 1 /\ v.at[2] < 4
      BY <1>t
    <3>2. CASE w \in opening
      BY <3>1, <3>2, <1>t DEF Before
    <3>3. ASSUME NEW i \in DOMAIN Groups, w \in MatchCall(i, world)  PROVE  Before(v, w)
      BY <3>1, <3>3, <1>t, GroupsAssumption DEF Before
    <3> QED BY <3>2, <3>3, <2>1, <1>w
  <2> QED BY <2>1, <1>1 DEF Does, Begun
<1>7. \A i \in DOMAIN Groups : \A w \in W : w \in MatchCall(i, world) => JournalKey \in DOMAIN disk'
  <2>1. SUFFICES ASSUME NEW i \in DOMAIN Groups, NEW w \in W, w \in MatchCall(i, world),
                        JournalKey \notin DOMAIN disk
                 PROVE  JournalKey \in DOMAIN disk'
    BY <1>3 DEF Grows
  <2>2. PICK v \in opening : v.key = JournalKey
    BY <2>1 DEF opening, Save
  <2>3. i > 0
    BY GroupsAssumption
  <2>4. Before(v, w)
    BY <2>1, <2>2, <2>3, <1>t, GroupNames DEF Before
  <2>5. v \in W
    BY <2>4, <1>1 DEF Does, Begun
  <2>6. disk' = Kept(W)
    BY <1>1 DEF Does
  <2>7. JournalKey \in KeysOf(W)
    BY <2>2, <2>5 DEF KeysOf
  <2> QED BY <2>6, <2>7, KeptDomain
<1>8. \A w \in writes : w.key = JournalKey => w \in opening
  <2>1. ASSUME NEW w \in writes, w.key = JournalKey, w \notin opening PROVE FALSE
    BY <2>1, <1>w, <1>t, <1>s, OneKey
  <2> QED BY <2>1
<1>9. /\ JournalKey \in DOMAIN disk => Journal' = Journal
      /\ JournalKey \in DOMAIN disk' /\ JournalKey \notin DOMAIN disk =>
           Journal' = Opened /\ FreezeIdentity \subseteq W
  <2>1. Ranked(writes)
    <3>1. Single(writes, JournalKey)
      BY <1>8 DEF Single, opening, Save
    <3> QED BY <3>1, <1>p, OneJournal
  <2>2. JournalKey \in DOMAIN disk => \A w \in W : w.key # JournalKey
    BY <1>8 DEF opening
  <2>3. JournalKey \in DOMAIN disk' =>
          \/ /\ JournalKey \in DOMAIN disk /\ Journal' = Journal
             /\ \A w \in W : w.key # JournalKey
          \/ \E w \in W : w.key = JournalKey /\ Journal' = w.value
    BY <2>1, <1>1, JournalWritten
  <2>4. JournalKey \in DOMAIN disk => JournalKey \in DOMAIN disk'
    BY <1>3 DEF Grows
  <2>5. \A w \in opening : w \notin FreezeIdentity
    BY <1>t, <1>s, OneKey
  <2> QED BY <2>2, <2>3, <2>4, <2>5, <1>6, <1>8, <1>t
<1>10. JournalKept'
  <2>1. CASE JournalKey \in DOMAIN disk
    <3>1. Has(Identity, "result") => Has(Identity, "result")'
      BY <1>3 DEF Grows, Has, At, JournalKey
    <3> QED BY <2>1, <3>1, <1>5, <1>9 DEF CheckpointsInv, JournalKept
  <2>2. CASE JournalKey \notin DOMAIN disk
    <3>1. DOMAIN Opened = DOMAIN Saved(Identity, "input").events
      BY <2>2 DEF Opened, Resolved
    <3> QED BY <2>2, <3>1, <1>5, <1>9 DEF JournalKept
  <2> QED BY <2>1, <2>2
<1>11. ASSUME NEW i \in DOMAIN Groups
       PROVE  /\ MatchKept(Match(Groups[i]))'
              /\ \A w \in MatchCall(i, world) : ~Clashes(w)
              /\ W = writes => Ready(Match(Groups[i]))'
              /\ Has(Match(Groups[i]), "input")' /\ ~Has(Match(Groups[i]), "input") =>
                   DOMAIN Saved(Match(Groups[i]), "input").events' = EventsOf(Opened, Groups[i])
  <2> DEFINE s == Match(Groups[i])
  <2>0. s \in MatchStages /\ s \in Stages /\ i + 1 \in Nat
    BY GroupNames, StageKinds
  <2>1. MatchKept(s)
    BY <2>0 DEF CheckpointsInv
  <2>2. Has(s, "input") => Saved(s, "input") = input(i)
    BY DEF input, Prepared, Frozen
  <2>3. /\ Call(i + 1, s, input(i)) \subseteq writes
        /\ \A w \in writes : \A part : w.key = At(s, part) => w \in Call(i + 1, s, input(i))
        /\ \A w \in W : w.key = At(s, "input") => JournalKey \in DOMAIN disk'
    BY <1>c, <1>o, <1>7
  <2> HIDE DEF s, writes
  <2>4. MatchKept(s)'
    BY <1>p, <1>1, <2>0, <2>1, <2>2, <2>3, MatchCallKeeps
  <2>5. /\ Call(i + 1, s, input(i)) \subseteq W =>
             Has(s, "input")' /\ (NothingToAsk(s, input(i)) => Has(s, "result")')
        /\ Has(s, "input")' => Saved(s, "input")' = input(i)
        /\ \A w \in Call(i + 1, s, input(i)) : ~Clashes(w)
    BY <1>p, <1>1, <2>0, <2>2, <2>3, CallKeeps
  <2>6. W = writes => Ready(s)'
    BY <2>3, <2>5 DEF Ready, Vacant
  <2>7. ~Has(s, "input") => DOMAIN input(i).events = EventsOf(Opened, Groups[i])
    BY DEF input, Prepared, Frozen, MatchInput, Payload, s
  <2> QED BY <2>4, <2>5, <2>6, <2>7, <1>c DEF s
<1>12. CheckpointsInv'
  <2>1. Stays(Associations) /\ Stays(Extract) /\ Stays(Match("node"))
    BY <1>2, StageKinds, Kinds, GroupNames
  <2>2. \A s \in SignalStages : Stays(s)
    BY <1>2, StageKinds, Kinds, GroupNames
  <2>3. JournalStays
    BY <1>9 DEF JournalStays
  <2>4. ExtractKept'
    BY <2>1, ExtractStays DEF CheckpointsInv
  <2>5. \A s \in MatchStages : MatchKept(s)'
    <3>1. MatchKept(Match("node"))'
      BY <2>1, <1>3, StageKinds, MatchStays DEF CheckpointsInv
    <3>2. \A g \in Classes : MatchKept(Match(g))'
      BY <1>11, GroupNames
    <3> QED BY <3>1, <3>2 DEF MatchStages
  <2>6. \A s \in SignalStages : SignalKept(s)'
    BY <2>2, <2>3, <1>3, SignalStays DEF CheckpointsInv
  <2>7. /\ Has(Match("node"), "input")' => Has(Match("chain"), "result")'
        /\ AssociationsReady' => \A s \in MatchStages : Has(s, "result")'
    BY <2>1, <1>3, BarrierStays DEF CheckpointsInv
  <2> QED BY <1>5, <1>10, <2>4, <2>5, <2>6, <2>7 DEF CheckpointsInv
<1>13. RunInv'
  <2>1. \A s \in DOMAIN said' : Heeded(s)'
    BY <1>1, DoesHeed DEF RunInv
  <2>2. CASE pc' = "idle"
    BY <2>1, <2>2 DEF RunInv
  <2>3. CASE pc' # "idle"
    <3>1. W = writes /\ pc' = "match"
      BY <2>3, <1>1 DEF Does
    <3>2. \A g \in Classes : Ready(Match(g))'
      BY <3>1, <1>11, GroupNames
    <3> QED BY <2>1, <3>1, <3>2 DEF RunInv
  <2> QED BY <2>2, <2>3
<1>14. refused' = refused
  <2>1. \A w \in opening : ~Clashes(w)
    BY <1>t DEF Clashes, Fixed
  <2>2. \A w \in writes : ~Clashes(w)
    BY <2>1, <1>w, <1>5, <1>11
  <2> QED BY <2>2, <1>1 DEF Does
<1>15. JournalKey \in DOMAIN disk => Opened = Journal
  BY DEF Opened
<1>16. JournalKey \in DOMAIN disk' /\ JournalKey \notin DOMAIN disk => Opened = Origin'
  <2>1. Opened = Resolved(Saved(Identity, "input").events, IdentityResult) \/ JournalKey \in DOMAIN disk
    BY DEF Opened
  <2>2. Has(Identity, "result")' => Saved(Identity, "result")' = IdentityResult
    BY <1>5
  <2> QED BY <2>1, <2>2, <1>5, <1>9 DEF Origin
<1>17. \A g \in Classes :
         Has(Match(g), "input")' /\ ~Has(Match(g), "input") =>
           DOMAIN Saved(Match(g), "input").events' = EventsOf(Opened, g)
  BY <1>11, GroupNames
<1>18. \A s \in Stages : s # Identity /\ (\A g \in Classes : s # Match(g)) => Stays(s)
  BY <1>2, GroupNames
<1>19. MatchesAsked
  BY <1>9, <1>15, <1>16, <1>17, <1>18 DEF MatchesAsked
<1> QED BY <1>12, <1>13, <1>14, <1>19 DEF StepKeeps

LEMMA ReadyStays ==
  ASSUME Grows, NEW s, Ready(s)
  PROVE  Ready(s)'
<1>1. \A part : part \in {"input", "result"} /\ Has(s, part) =>
                  Has(s, part)' /\ Saved(s, part)' = Saved(s, part)
  BY DEF Grows, Has, Saved, At, JournalKey
<1> QED BY <1>1 DEF Ready, Vacant

\* Asking for nodes freezes the chains and what was rejected of them.
NodesAsked ==
  /\ JournalKey \in DOMAIN disk' <=> JournalKey \in DOMAIN disk
  /\ JournalKey \in DOMAIN disk => Journal' = Journal
  /\ \A s \in Stages \ {Match("chain"), Match("node")} : Stays(s)
  /\ Has(Match("chain"), "input") /\ Has(Match("chain"), "input")'
  /\ Has(Match("node"), "input")' /\ ~Has(Match("node"), "input") =>
       DOMAIN Saved(Match("node"), "input").events' = DOMAIN Saved(Match("chain"), "result")' \ Rejected(Match("chain"))'

LEMMA NodesStep ==
  ASSUME CheckpointsInv, RunInv, NEW world, PrepareNodeMatches(world)
  PROVE  StepKeeps /\ NodesAsked
<1> DEFINE chain == Match("chain")
           node == Match("node")
           input == Prepared(node, NodeInput(MatchResult(chain), Rejected(chain), world))
           writes == FreezeMatch(1, chain) \cup Call(2, node, input)
<1>t. /\ \A w \in FreezeMatch(1, chain) :
           (\E part : w.key = At(chain, part)) /\ w.at \in Nat \X Nat /\ w.at[1] = 1
      /\ \A w \in Call(2, node, input) : (\E part : w.key = At(node, part)) /\ w.at \in Nat \X Nat
  <2> HIDE DEF input
  <2> QED BY DEF FreezeMatch, Call, Once
<1>p. Placed(writes)
  <2> HIDE DEF input, chain, node
  <2> QED BY <1>t DEF Placed
<1>1. PICK W \in SUBSET writes : Does(writes, W, "match")
  BY <1>p, Performed DEF PrepareNodeMatches
<1>s. /\ chain \in MatchStages /\ node \in MatchStages /\ chain \in Stages /\ node \in Stages
      /\ chain # node
  BY StageKinds, Kinds, GroupsAssumption DEF Classes
<1>i. Has(node, "input") => Saved(node, "input") = input
  BY DEF Prepared, Frozen
<1>h. Heard(chain) /\ pc = "match"
  BY DEF PrepareNodeMatches
<1>n. (\A g \in Classes : Ready(Match(g))) /\ Ready(chain)
  BY <1>h, GroupsAssumption DEF RunInv, Classes
<1> HIDE DEF input, chain, node
<1>o. /\ \A w \in writes : \A part : w.key = At(chain, part) => w \in FreezeMatch(1, chain)
      /\ \A w \in writes : \A part : w.key = At(node, part) => w \in Call(2, node, input)
  BY <1>t, <1>s, OneKey
<1>2. \A s \in Stages \ {chain, node} : Stays(s)
  <2> DEFINE T == {chain, node}
  <2>1. T \in SUBSET Stages
    BY <1>s
  <2>2. \A w \in writes : \E t \in T : \E part : w.key = At(t, part)
    BY <1>t
  <2> HIDE DEF T, writes
  <2>3. \A s \in Stages \ T : Stays(s)
    BY <1>1, <2>1, <2>2, OthersStay
  <2> QED BY <2>3 DEF T
<1>3. Grows
  BY <1>1, Remains
<1>4. \A w \in writes : w.key # JournalKey
  BY <1>t, <1>s, OneKey
<1>5. /\ JournalKey \in DOMAIN disk' <=> JournalKey \in DOMAIN disk
      /\ JournalKey \in DOMAIN disk => Journal' = Journal
      /\ JournalStays
  BY <1>1, <1>4, NoJournal DEF JournalStays
<1>6. /\ MatchKept(chain)'
      /\ \A w \in FreezeMatch(1, chain) : ~Clashes(w)
      /\ FreezeMatch(1, chain) \subseteq W => Has(chain, "result")'
      /\ Has(chain, "result")' =>
           Saved(chain, "result")' = MatchResult(chain) /\ Rejected(chain)' = Rejected(chain)
      /\ Has(chain, "input") /\ Has(chain, "input")'
  <2>1. MatchKept(chain) /\ Has(chain, "input")
    BY <1>s, <1>n DEF CheckpointsInv, Ready
  <2>2. Told(chain)
    BY <1>h DEF Heard, Told
  <2>3. ~Has(chain, "result") => Asked(chain) /\ DOMAIN Raw(chain) = DOMAIN Saved(chain, "input").events
    BY <1>s, <1>h, <2>2, HeardRaw
  <2>4. FreezeMatch(1, chain) \subseteq writes /\ 1 \in Nat
    OBVIOUS
  <2> HIDE DEF writes
  <2> QED BY <1>s, <1>p, <1>1, <1>o, <2>1, <2>3, <2>4, FreezeMatchKeeps
<1>7. \A w \in W : w.at = <<2, 1>> /\ w.key = At(node, "input") => FreezeMatch(1, chain) \subseteq W
  <2>1. \A w : w.at = <<2, 1>> => \A v \in FreezeMatch(1, chain) : Before(v, w)
    BY <1>t DEF Before
  <2> QED BY <2>1, <1>1 DEF Does, Begun
<1>8. /\ MatchKept(node)'
      /\ \A w \in Call(2, node, input) : ~Clashes(w)
      /\ Has(node, "input")' /\ ~Has(node, "input") => FreezeMatch(1, chain) \subseteq W
      /\ Has(node, "input")' => Saved(node, "input")' = input
  <2>1. MatchKept(node)
    BY <1>s DEF CheckpointsInv
  <2>2. JournalKey \in DOMAIN disk'
    BY <1>s, <1>n, <1>5 DEF CheckpointsInv, MatchKept, Ready
  <2>3. Call(2, node, input) \subseteq writes /\ 2 \in Nat
    OBVIOUS
  <2> HIDE DEF writes
  <2>4. MatchKept(node)'
    BY <1>s, <1>p, <1>1, <1>o, <1>i, <2>1, <2>2, <2>3, MatchCallKeeps
  <2>6. node \in Stages /\ \A w \in writes : \A part : w.key = At(node, part) => w \in Call(2, node, input)
    BY <1>s, <1>o
  <2>7. PICK n, two : n = node /\ two = 2
    OBVIOUS
  <2>8. /\ \A w \in Call(two, n, input) : ~Clashes(w)
        /\ Has(n, "input")' /\ ~Has(n, "input") =>
             \E w \in W : w.at = <<two, 1>> /\ w.key = At(n, "input")
        /\ Has(n, "input")' => Saved(n, "input")' = input
    <3>1. /\ n \in Stages /\ two \in Nat /\ Call(two, n, input) \subseteq writes
          /\ \A w \in writes : \A part : w.key = At(n, part) => w \in Call(two, n, input)
          /\ Has(n, "input") => Saved(n, "input") = input
      BY <2>3, <2>6, <2>7, <1>i
    <3> QED BY <3>1, <1>p, <1>1, CallKeeps
  <2>5. /\ \A w \in Call(2, node, input) : ~Clashes(w)
        /\ Has(node, "input")' /\ ~Has(node, "input") =>
             \E w \in W : w.at = <<2, 1>> /\ w.key = At(node, "input")
        /\ Has(node, "input")' => Saved(node, "input")' = input
    BY <2>7, <2>8 DEF Has, Saved
  <2> QED BY <2>4, <2>5, <1>7
<1>9. CheckpointsInv'
  <2>1. Stays(Associations) /\ Stays(Extract) /\ Stays(Identity)
    BY <1>2, <1>s, StageKinds, Kinds
  <2>2. \A s \in SignalStages : Stays(s)
    BY <1>2, <1>s, StageKinds, Kinds
  <2>4. ExtractKept' /\ IdentityKept' /\ JournalKept'
    BY <2>1, <1>3, <1>5, ExtractStays, IdentityStays, JournalKeptStays DEF CheckpointsInv
  <2>5. \A s \in MatchStages : MatchKept(s)'
    <3>1. ASSUME NEW s \in MatchStages, s # chain, s # node  PROVE  MatchKept(s)'
      BY <3>1, <1>2, <1>3, StageKinds, MatchStays DEF CheckpointsInv
    <3> QED BY <3>1, <1>6, <1>8
  <2>6. \A s \in SignalStages : SignalKept(s)'
    BY <2>2, <1>3, <1>5, SignalStays DEF CheckpointsInv
  <2>7. \A s : Has(s, "result") => Has(s, "result")'
    BY <1>3 DEF Grows, Has, At, JournalKey
  <2>8. AssociationsReady' => \A s \in MatchStages : Has(s, "result")'
    BY <2>1, <2>7 DEF CheckpointsInv, Stays, AssociationsReady, Has
  <2>9. Has(node, "input")' => Has(chain, "result")'
    BY <1>6, <1>8, <2>7 DEF CheckpointsInv, node, chain
  <2> QED BY <2>4, <2>5, <2>6, <2>8, <2>9 DEF CheckpointsInv, node, chain
<1>10. RunInv'
  <2>1. \A s \in DOMAIN said' : Heeded(s)'
    BY <1>1, DoesHeed DEF RunInv
  <2>2. pc' \in {"idle", "match"}
    BY <1>1 DEF Does
  <2>3. \A g \in Classes : Ready(Match(g))'
    BY <1>3, <1>n, ReadyStays
  <2> QED BY <2>1, <2>2, <2>3 DEF RunInv
<1>11. refused' = refused
  BY <1>1, <1>6, <1>8 DEF Does
<1>12. Has(node, "input")' /\ ~Has(node, "input") =>
         DOMAIN Saved(node, "input").events' = DOMAIN Saved(chain, "result")' \ Rejected(chain)'
  <2>1. ~Has(node, "input") => DOMAIN input.events = DOMAIN MatchResult(chain) \ Rejected(chain)
    BY DEF input, Prepared, Frozen, NodeInput
  <2> QED BY <2>1, <1>6, <1>8
<1>13. NodesAsked
  BY <1>2, <1>5, <1>6, <1>12 DEF NodesAsked, chain, node
<1> QED BY <1>9, <1>10, <1>11, <1>13 DEF StepKeeps

LEMMA BranchNames ==
  /\ DOMAIN Branches = DOMAIN Groups
  /\ \A i \in DOMAIN Branches : Branches[i] \in MatchStages /\ i \in Nat /\ i <= Len(Groups)
  /\ \A i, j \in DOMAIN Branches : Branches[i] = Branches[j] => i = j
  /\ \A s \in MatchStages : s = Match("chain") \/ \E i \in DOMAIN Branches : s = Branches[i]
  /\ \E i \in DOMAIN Branches : Branches[i] = Match("node")
<1>1. /\ DOMAIN Branches = DOMAIN Groups
      /\ \A i \in DOMAIN Branches : Branches[i] \in MatchStages /\ i \in Nat /\ i <= Len(Groups)
  BY StageKinds, GroupNames, GroupsAssumption DEF Branches
<1>2. \A i, j \in DOMAIN Branches : Branches[i] = Branches[j] => i = j
  <2> SUFFICES ASSUME NEW i \in DOMAIN Groups, NEW j \in DOMAIN Groups, Branches[i] = Branches[j]
               PROVE  i = j
    BY <1>1
  <2>1. CASE Groups[i] = "chain" /\ Groups[j] = "chain"
    BY <2>1, GroupsAssumption
  <2>2. CASE Groups[i] # "chain" /\ Groups[j] # "chain"
    BY <2>2, GroupNames DEF Branches
  <2>3. CASE Groups[i] = "chain" /\ Groups[j] # "chain"
    BY <2>3, GroupNames DEF Branches
  <2>4. CASE Groups[i] # "chain" /\ Groups[j] = "chain"
    BY <2>4, GroupNames DEF Branches
  <2> QED BY <2>1, <2>2, <2>3, <2>4
<1>3. \E i \in DOMAIN Branches : Branches[i] = Match("node")
  BY GroupNames, GroupsAssumption DEF Branches, Range
<1>4. ASSUME NEW g \in Classes, g # "chain"  PROVE  \E i \in DOMAIN Branches : Match(g) = Branches[i]
  BY <1>4, GroupNames DEF Branches
<1> QED BY <1>1, <1>2, <1>3, <1>4 DEF MatchStages

\* A branch that was heard was asked, over a journal.
LEMMA HeardAsked ==
  ASSUME CheckpointsInv, RunInv, NEW s \in MatchStages, Heard(s)
  PROVE  Has(s, "input") /\ JournalKey \in DOMAIN disk
<1>1. MatchKept(s) /\ s # Extract
  BY Kinds DEF CheckpointsInv
<1>2. Has(s, "input")
  BY <1>1 DEF Heard, Completed, MatchKept, Answered, RunInv, Heeded, Asked
<1> QED BY <1>1, <1>2 DEF MatchKept

\* What the collector leaves: the journal, or all results and the journal with
\* their matches.
Collected ==
  /\ JournalKey \in DOMAIN disk' => JournalKey \in DOMAIN disk
  /\ JournalKey \in DOMAIN disk =>
       \/ Journal' = Journal
       \/ /\ Journal' = Associated(Journal) /\ ~AssociationsReady
          /\ \A s \in MatchStages : Has(s, "result")'
  /\ AssociationsReady' /\ ~AssociationsReady => Journal' = Associated(Journal)
  /\ \A s \in MatchStages :
       /\ Has(s, "input")' <=> Has(s, "input")
       /\ Has(s, "input") => Saved(s, "input")' = Saved(s, "input")
       /\ Has(s, "result")' => Saved(s, "result")' = MatchResult(s) /\ Rejected(s)' = Rejected(s)
  /\ \A s \in Stages \ (MatchStages \cup {Associations}) : Stays(s)

LEMMA CollectStep ==
  ASSUME CheckpointsInv, RunInv, CollectParallelMatches
  PROVE  StepKeeps /\ Collected
<1> DEFINE failed  == {s \in Range(Branches) : ~Heard(s)}
           save    == [at |-> <<Len(Groups) + 1, 1>>, key |-> JournalKey, value |-> Associated(Journal)]
           ready   == [at |-> <<Len(Groups) + 1, 2>>, key |-> At(Associations, "ready"), value |-> TRUE]
           closing == IF failed # {} \/ AssociationsReady THEN {} ELSE {save, ready}
           I       == {i \in DOMAIN Branches : ~Has(Branches[i], "result") /\ Heard(Branches[i])}
           writes  == SavedBranches \cup closing
           next    == IF failed # {} THEN "idle" ELSE "signals"
<1>a. Perform(writes, next)
  BY DEF CollectParallelMatches, Save, Once
<1>b. SavedBranches = UNION {FreezeMatch(i, Branches[i]) : i \in I}
  BY DEF SavedBranches
<1>i. \A i \in I : Branches[i] \in MatchStages /\ Branches[i] \in Stages /\ i \in Nat /\ i <= Len(Groups)
  BY BranchNames, StageKinds
<1> HIDE DEF I
<1>t. /\ \A i \in I : \A w \in FreezeMatch(i, Branches[i]) :
           (\E part : w.key = At(Branches[i], part)) /\ w.at \in Nat \X Nat /\ w.at[1] = i
      /\ save.at \in Nat \X Nat /\ ready.at \in Nat \X Nat
  <2>1. \A i \in I : \A w \in FreezeMatch(i, Branches[i]) :
           (\E part : w.key = At(Branches[i], part)) /\ w.at \in Nat \X Nat /\ w.at[1] = i
    BY <1>i DEF FreezeMatch, Once
  <2>2. save.at \in Nat \X Nat /\ ready.at \in Nat \X Nat
    BY GroupsAssumption
  <2> QED BY <2>1, <2>2
<1>v. /\ save.key = JournalKey /\ save.value = Associated(Journal) /\ save.at = <<Len(Groups) + 1, 1>>
      /\ ready.key = At(Associations, "ready") /\ ready.at = <<Len(Groups) + 1, 2>>
      /\ ready.value = TRUE
  OBVIOUS
<1> HIDE DEF save, ready, next
<1>w. \A w \in writes : \/ \E i \in I : w \in FreezeMatch(i, Branches[i])
                        \/ w \in {save, ready} /\ failed = {} /\ ~AssociationsReady
  BY <1>b
<1>u. /\ \A i \in I : FreezeMatch(i, Branches[i]) \subseteq writes
      /\ failed = {} /\ ~AssociationsReady => save \in writes /\ ready \in writes
  BY <1>b
<1> HIDE DEF failed, writes
<1>p. Placed(writes)
  BY <1>t, <1>w DEF Placed
<1>1. PICK W \in SUBSET writes : Does(writes, W, next)
  BY <1>a, <1>p, Performed
<1>s. Associations \in Stages /\ \A i \in I : Branches[i] # Associations
  BY StageKinds, Kinds, <1>i
<1>o. /\ \A i \in I : \A w \in writes : \A part : w.key = At(Branches[i], part) => w \in FreezeMatch(i, Branches[i])
      /\ \A w \in writes : \A part : w.key = At(Associations, part) => w = ready
      /\ \A w \in writes : w.key = JournalKey => w = save
  <2>1. ASSUME NEW i \in I, NEW w \in writes, NEW part, w.key = At(Branches[i], part)
        PROVE  w \in FreezeMatch(i, Branches[i])
    <3>1. w # save /\ w # ready
      BY <2>1, <1>v, <1>s, <1>i, OneKey
    <3>2. PICK j \in I : w \in FreezeMatch(j, Branches[j])
      BY <3>1, <1>w
    <3>3. Branches[i] = Branches[j]
      BY <2>1, <3>2, <1>t, <1>i, OneKey
    <3>4. i \in DOMAIN Branches /\ j \in DOMAIN Branches
      BY DEF I
    <3> QED BY <3>2, <3>3, <3>4, BranchNames
  <2>2. ASSUME NEW w \in writes, NEW part, w.key = At(Associations, part)  PROVE  w = ready
    BY <2>2, <1>w, <1>t, <1>v, <1>s, <1>i, OneKey
  <2>3. ASSUME NEW w \in writes, w.key = JournalKey  PROVE  w = save
    BY <2>3, <1>w, <1>t, <1>v, <1>s, <1>i, OneKey
  <2> QED BY <2>1, <2>2, <2>3
<1>2. \A s \in Stages : s # Associations /\ (\A i \in I : s # Branches[i]) => Stays(s)
  <2> DEFINE T == {Associations} \cup {Branches[i] : i \in I}
  <2>1. T \in SUBSET Stages
    BY <1>s, <1>i
  <2>2. \A w \in writes : w.key = JournalKey \/ \E t \in T : \E part : w.key = At(t, part)
    BY <1>w, <1>t, <1>v
  <2> HIDE DEF T
  <2>3. \A s \in Stages \ T : Stays(s)
    BY <1>1, <2>1, <2>2, OthersStay
  <2> QED BY <2>3 DEF T
<1>3. Grows
  BY <1>1, Remains
<1>4. \A i \in I : /\ MatchKept(Branches[i])'
                   /\ \A w \in FreezeMatch(i, Branches[i]) : ~Clashes(w)
                   /\ FreezeMatch(i, Branches[i]) \subseteq W => Has(Branches[i], "result")'
                   /\ Has(Branches[i], "result")' =>
                        /\ Saved(Branches[i], "result")' = MatchResult(Branches[i])
                        /\ Rejected(Branches[i])' = Rejected(Branches[i])
                   /\ Has(Branches[i], "input") /\ Has(Branches[i], "input")'
                   /\ Saved(Branches[i], "input")' = Saved(Branches[i], "input")
  <2> SUFFICES ASSUME NEW i \in I
               PROVE  /\ MatchKept(Branches[i])'
                      /\ \A w \in FreezeMatch(i, Branches[i]) : ~Clashes(w)
                      /\ FreezeMatch(i, Branches[i]) \subseteq W => Has(Branches[i], "result")'
                      /\ Has(Branches[i], "result")' =>
                           /\ Saved(Branches[i], "result")' = MatchResult(Branches[i])
                           /\ Rejected(Branches[i])' = Rejected(Branches[i])
                      /\ Has(Branches[i], "input") /\ Has(Branches[i], "input")'
                      /\ Saved(Branches[i], "input")' = Saved(Branches[i], "input")
    OBVIOUS
  <2>0. PICK s : s = Branches[i]
    OBVIOUS
  <2>1. s \in MatchStages /\ i \in Nat /\ ~Has(s, "result") /\ Heard(s)
    BY <2>0, <1>i DEF I
  <2>2. Told(s) /\ MatchKept(s)
    BY <2>1 DEF Heard, Told, CheckpointsInv
  <2>3. Asked(s) /\ DOMAIN Raw(s) = DOMAIN Saved(s, "input").events
    BY <2>1, <2>2, HeardRaw
  <2>4. Has(s, "input")
    BY <2>3 DEF Asked
  <2>5. FreezeMatch(i, s) \subseteq writes
    BY <2>0, <1>u
  <2>6. \A w \in writes : \A part : w.key = At(s, part) => w \in FreezeMatch(i, s)
    BY <2>0, <1>o
  <2>7. /\ MatchKept(s)'
        /\ \A w \in FreezeMatch(i, s) : ~Clashes(w)
        /\ FreezeMatch(i, s) \subseteq W => Has(s, "result")'
        /\ Has(s, "result")' => Saved(s, "result")' = MatchResult(s) /\ Rejected(s)' = Rejected(s)
        /\ Saved(s, "input")' = Saved(s, "input") /\ Has(s, "input")'
    BY <1>p, <1>1, <2>1, <2>2, <2>3, <2>4, <2>5, <2>6, FreezeMatchKeeps
  <2>8. s' = s /\ Branches[i]' = s
    BY <2>0 DEF Branches, Match
  <2> QED BY <2>0, <2>4, <2>7, <2>8
<1>5. \A s \in MatchStages :
        /\ MatchKept(s)'
        /\ Has(s, "input")' <=> Has(s, "input")
        /\ Has(s, "input") => Saved(s, "input")' = Saved(s, "input")
        /\ Has(s, "result")' => Saved(s, "result")' = MatchResult(s) /\ Rejected(s)' = Rejected(s)
  <2> SUFFICES ASSUME NEW s \in MatchStages
               PROVE  /\ MatchKept(s)'
                      /\ Has(s, "input")' <=> Has(s, "input")
                      /\ Has(s, "input") => Saved(s, "input")' = Saved(s, "input")
                      /\ Has(s, "result")' => Saved(s, "result")' = MatchResult(s) /\ Rejected(s)' = Rejected(s)
    OBVIOUS
  <2>1. CASE \E i \in I : s = Branches[i]
    <3>1. PICK i \in I : s = Branches[i]
      BY <2>1
    <3>2. s' = s /\ Branches[i]' = s
      BY <3>1 DEF Branches, Match
    <3> QED BY <3>1, <3>2, <1>4
  <2>2. CASE \A i \in I : s # Branches[i]
    <3>1. Stays(s)
      BY <2>2, <1>2, StageKinds, Kinds
    <3>2. MatchKept(s)'
      BY <3>1, <1>3, MatchStays DEF CheckpointsInv
    <3>3. \A part : /\ Has(s, part)' <=> Has(s, part)
                    /\ Has(s, part) => Saved(s, part)' = Saved(s, part)
      BY <3>1 DEF Stays, Has, Saved
    <3>4. Has(s, "input") => Saved(s, "input")' = Saved(s, "input")
      BY <3>3
    <3>5. Has(s, "result")' => Saved(s, "result")' = MatchResult(s) /\ Rejected(s)' = Rejected(s)
      BY <3>3 DEF MatchResult, Frozen, Rejected
    <3> QED BY <3>2, <3>3, <3>4, <3>5
  <2> QED BY <2>1, <2>2
<1>6. save \in W \/ ready \in W =>
        /\ failed = {} /\ ~AssociationsReady
        /\ \A i \in I : FreezeMatch(i, Branches[i]) \subseteq W
  <2>1. ASSUME NEW w \in {save, ready}, w \in W
        PROVE  failed = {} /\ ~AssociationsReady
    <3>1. \A i \in I : w \notin FreezeMatch(i, Branches[i])
      BY <2>1, <1>t, <1>v, <1>s, <1>i, OneKey
    <3> QED BY <3>1, <2>1, <1>w
  <2>2. ASSUME NEW i \in I, NEW v \in FreezeMatch(i, Branches[i]), NEW w \in {save, ready}, w \in W
        PROVE  v \in W
    <3>1. i <= Len(Groups) /\ Len(Groups) \in Nat /\ i \in Nat
      BY <1>i, GroupsAssumption
    <3>2. v.at[1] = i /\ w.at[1] = Len(Groups) + 1
      BY <2>2, <1>t, <1>v
    <3>3. Before(v, w)
      BY <3>1, <3>2 DEF Before
    <3>4. v \in writes
      BY <1>u
    <3> QED BY <3>3, <3>4, <2>2, <1>1 DEF Does, Begun
  <2> QED BY <2>1, <2>2
<1>7. ready \in W => save \in W
  <2>1. Before(save, ready)
    BY <1>v, GroupsAssumption DEF Before
  <2>2. ready \in W => save \in writes
    BY <1>6, <1>u
  <2> QED BY <2>1, <2>2, <1>1 DEF Does, Begun
<1>8. failed = {} => JournalKey \in DOMAIN disk
  BY BranchNames, HeardAsked DEF failed, Range
<1>9. save \in W => \A s \in MatchStages : Has(s, "result")'
  <2> SUFFICES ASSUME save \in W PROVE \A s \in MatchStages : Has(s, "result")'
    OBVIOUS
  <2>1. \A s : Has(s, "result") => Has(s, "result")'
    BY <1>3 DEF Grows, Has, At, JournalKey
  <2>2. ASSUME NEW i \in DOMAIN Branches, ~Has(Branches[i], "result")
        PROVE  Has(Branches[i], "result")'
    <3>1. i \in I
      BY <2>2, <1>6 DEF failed, I, Range
    <3> QED BY <3>1, <1>4, <1>6
  <2>3. ASSUME NEW i \in DOMAIN Branches  PROVE  \A s : s = Branches[i] => Has(s, "result")'
    <3> TAKE s
    <3> HAVE s = Branches[i]
    <3>1. s' = s /\ Branches[i]' = s
      BY DEF Branches, Match
    <3> QED BY <3>1, <2>1, <2>2
  <2>4. Has(Match("node"), "result")'
    BY <2>3, BranchNames
  <2>5. Has(Match("node"), "input")
    BY <2>4, <1>5, StageKinds DEF MatchKept
  <2>6. Has(Match("chain"), "result")'
    BY <2>1, <2>5 DEF CheckpointsInv
  <2> QED BY <2>3, <2>6, BranchNames
<1>10. /\ JournalKey \in DOMAIN disk' => JournalKey \in DOMAIN disk
       /\ JournalKey \in DOMAIN disk => Journal' = Journal \/ (save \in W /\ Journal' = Associated(Journal))
       /\ save \in W => JournalKey \in DOMAIN disk /\ Journal' = Associated(Journal)
  <2>1. Single(writes, JournalKey)
    BY <1>o DEF Single
  <2>2. Ranked(writes)
    BY <1>p, <2>1, OneJournal
  <2>3. JournalKey \in DOMAIN disk' =>
          \/ /\ JournalKey \in DOMAIN disk /\ Journal' = Journal
             /\ \A w \in W : w.key # JournalKey
          \/ \E w \in W : w.key = JournalKey /\ Journal' = w.value
    BY <2>2, <1>1, JournalWritten
  <2>4. JournalKey \in DOMAIN disk => JournalKey \in DOMAIN disk'
    BY <1>3 DEF Grows
  <2>5. JournalKey \in DOMAIN disk' =>
          \/ JournalKey \in DOMAIN disk /\ Journal' = Journal /\ save \notin W
          \/ save \in W /\ Journal' = Associated(Journal)
    BY <2>3, <1>o, <1>v
  <2>6. save \in W => JournalKey \in DOMAIN disk
    BY <1>6, <1>8
  <2> QED BY <2>4, <2>5, <2>6
<1>11. AssociationsReady' /\ ~AssociationsReady => ready \in W
  <2>1. AssociationsReady' /\ ~AssociationsReady => \E w \in W : w.key = At(Associations, "ready")
    BY <1>1, Appears DEF AssociationsReady, Has
  <2> QED BY <2>1, <1>o
<1>12. Stays(Extract) /\ Stays(Identity) /\ \A s \in Stages \ (MatchStages \cup {Associations}) : Stays(s)
  BY <1>2, <1>i, StageKinds, Kinds
<1>13. JournalStays
  BY <1>10 DEF JournalStays, Associated
<1>14. CheckpointsInv'
  <2>1. ExtractKept' /\ IdentityKept' /\ JournalKept'
    BY <1>3, <1>10, <1>12, <1>13, ExtractStays, IdentityStays, JournalKeptStays DEF CheckpointsInv
  <2>2. \A s \in SignalStages : SignalKept(s)'
    BY <1>3, <1>12, <1>13, StageKinds, Kinds, SignalStays DEF CheckpointsInv
  <2>3. \A s \in Stages : Has(s, "result") => Has(s, "result")'
    BY <1>3 DEF Grows, Has, At, JournalKey
  <2>4. Has(Match("node"), "input")' => Has(Match("chain"), "result")'
    BY <1>5, <2>3, StageKinds DEF CheckpointsInv
  <2>5. AssociationsReady' => \A s \in MatchStages : Has(s, "result")'
    BY <1>7, <1>9, <1>11, <2>3, StageKinds DEF CheckpointsInv
  <2> QED BY <1>5, <2>1, <2>2, <2>4, <2>5 DEF CheckpointsInv
<1>15. RunInv'
  <2>1. \A s \in DOMAIN said' : Heeded(s)'
    BY <1>1, DoesHeed DEF RunInv
  <2>2. CASE pc' = "idle"
    BY <2>1, <2>2 DEF RunInv
  <2>3. CASE pc' # "idle"
    <3>1. W = writes /\ pc' = next
      BY <2>3, <1>1 DEF Does
    <3>2. pc' = "signals" /\ failed = {}
      BY <2>3, <3>1 DEF next
    <3>3. AssociationsReady'
      <4>1. CASE AssociationsReady
        BY <4>1, <1>3 DEF Grows, AssociationsReady, Has, At, JournalKey
      <4>2. CASE ~AssociationsReady
        <5>1. ready \in W
          BY <4>2, <3>1, <3>2, <1>u
        <5>2. Single(writes, ready.key)
          BY <1>o, <1>v DEF Single
        <5>3. ready.key \in DOMAIN disk'
          BY <5>1, <5>2, <1>1, <1>p, Written
        <5> QED BY <5>3, <1>v DEF AssociationsReady, Has
      <4> QED BY <4>1, <4>2
    <3> QED BY <2>1, <3>2, <3>3 DEF RunInv
  <2> QED BY <2>2, <2>3
<1>16. refused' = refused
  <2>1. ASSUME NEW w \in writes  PROVE  ~Clashes(w)
    <3>1. CASE \E i \in I : w \in FreezeMatch(i, Branches[i])
      BY <3>1, <1>4
    <3>2. CASE w \in {save, ready} /\ ~AssociationsReady
      BY <3>2, <1>v DEF Clashes, Fixed, AssociationsReady, Has
    <3> QED BY <3>1, <3>2, <1>w
  <2> QED BY <2>1, <1>1 DEF Does
<1>17. Collected
  <2>1. AssociationsReady' /\ ~AssociationsReady => Journal' = Associated(Journal)
    BY <1>7, <1>10, <1>11
  <2>2. JournalKey \in DOMAIN disk =>
          \/ Journal' = Journal
          \/ /\ Journal' = Associated(Journal) /\ ~AssociationsReady
             /\ \A s \in MatchStages : Has(s, "result")'
    BY <1>6, <1>9, <1>10
  <2> QED BY <1>5, <1>10, <1>12, <2>1, <2>2 DEF Collected
<1> QED BY <1>14, <1>15, <1>16, <1>17 DEF StepKeeps

LEMMA CurrentNamed ==
  ASSUME Remaining # {}
  PROVE  \E i \in Remaining :
           /\ Current = Signal(Groups[i]) /\ \A j \in Remaining : i <= j
           /\ Groups[i] \in Classes /\ Current \in SignalStages /\ Current \in Stages
<1>1. Remaining \subseteq Nat
  BY GroupNames DEF Remaining
<1>2. \E i \in Remaining : \A j \in Remaining : i <= j
  BY <1>1, LeastElement
<1> DEFINE i == CHOOSE i \in Remaining : \A j \in Remaining : i <= j
<1>3. i \in Remaining /\ \A j \in Remaining : i <= j
  BY <1>2
<1>4. Groups[i] \in Classes
  BY <1>3, GroupNames DEF Remaining
<1> QED BY <1>3, <1>4, StageKinds DEF Current

\* Asking for Signals leaves the journal and the other stages alone.
SignalsAsked ==
  /\ JournalKey \in DOMAIN disk' <=> JournalKey \in DOMAIN disk
  /\ JournalKey \in DOMAIN disk => Journal' = Journal
  /\ \A s \in Stages \ SignalStages : Stays(s)
  /\ \A g \in Classes :
       LET s == Signal(g)
       IN  /\ Has(s, "input") => Has(s, "input")' /\ Saved(s, "input")' = Saved(s, "input")
           /\ Has(s, "input")' /\ ~Has(s, "input") => DOMAIN Saved(s, "input").events' = EventsOf(Journal, g)
           /\ \A part : part \notin {"input", "result"} =>
                /\ Has(s, part)' <=> Has(s, part)
                /\ Has(s, part) => Saved(s, part)' = Saved(s, part)
           /\ Has(s, "result") => Has(s, "result")' /\ Saved(s, "result")' = Saved(s, "result")

LEMMA StaysPut ==
  ASSUME NEW s, Stays(s)
  PROVE  \A part : /\ Has(s, part)' <=> Has(s, part)
                   /\ Has(s, part) => Saved(s, part)' = Saved(s, part)
BY DEF Stays, Has, Saved

LEMMA SignalsStep ==
  ASSUME CheckpointsInv, RunInv, NEW world, PrepareBatchSignals(world)
  PROVE  StepKeeps /\ SignalsAsked
<1>r. pc = "signals" /\ AssociationsReady
  BY DEF PrepareBatchSignals, RunInv
<1>j. JournalKey \in DOMAIN disk
  BY <1>r, StageKinds DEF CheckpointsInv, MatchKept
<1>1. CASE Remaining = {}
  <2>1. disk' = disk /\ pc' = "publish" /\ said' = said /\ refused' = refused
    BY <1>1 DEF PrepareBatchSignals
  <2>2. \A s : Stays(s)
    BY <2>1 DEF Stays
  <2>3. CheckpointsInv'
    BY <2>1, SameCheckpoints
  <2>4. AssociationsReady' /\ Remaining' = {} /\ \A s \in DOMAIN said' : Heeded(s)'
    BY <1>1, <1>r, <2>1, SameDisk DEF RunInv, Heeded
  <2>5. SignalsAsked
    <3>1. Journal' = Journal /\ DOMAIN disk' = DOMAIN disk
      BY <2>1, SameDisk
    <3>2. \A s, part : /\ Has(s, part)' <=> Has(s, part)
                       /\ Saved(s, part)' = Saved(s, part)
      BY <2>1, SameDisk
    <3> QED BY <2>2, <3>1, <3>2 DEF SignalsAsked
  <2> QED BY <2>1, <2>3, <2>4, <2>5 DEF StepKeeps, RunInv
<1>2. CASE Remaining # {}
  <2>1. PICK m \in Remaining :
           /\ Current = Signal(Groups[m]) /\ \A j \in Remaining : m <= j
           /\ Groups[m] \in Classes /\ Current \in SignalStages /\ Current \in Stages
    BY <1>2, CurrentNamed
  <2>2. PICK s : s = Signal(Groups[m])
    OBVIOUS
  <2> DEFINE input  == Prepared(s, SignalInput(s[2], world))
             writes == Call(1, s, input)
  <2>3. Perform(writes, "signal")
    BY <1>2, <2>1, <2>2 DEF PrepareBatchSignals
  <2>s. s \in SignalStages /\ s \in Stages /\ s[2] = Groups[m]
    BY <2>1, <2>2 DEF Signal
  <2>i. /\ Has(s, "input") => Saved(s, "input") = input
        /\ ~Has(s, "input") => DOMAIN input.events = EventsOf(Journal, Groups[m])
    BY <2>s DEF Prepared, Frozen, SignalInput, Payload
  <2>d. DOMAIN input.events \subseteq DOMAIN Journal
    BY <2>i, <2>s DEF EventsOf, CheckpointsInv, SignalKept
  <2> HIDE DEF input
  <2>p. Placed(writes)
    BY DEF Call, Once, Placed
  <2>t. \A w \in writes : \E part : w.key = At(s, part)
    BY DEF Call, Once
  <2>o. Call(1, s, input) \subseteq writes /\ \A w \in writes : \A part : w.key = At(s, part) => w \in Call(1, s, input)
    OBVIOUS
  <2> HIDE DEF writes
  <2>4. PICK W \in SUBSET writes : Does(writes, W, "signal")
    BY <2>p, <2>3, Performed
  <2>5. \A t \in Stages \ {s} : Stays(t)
    BY <2>s, <2>t, <2>4, OthersStay
  <2>6. Grows
    BY <2>4, Remains
  <2>7. \A w \in writes : w.key # JournalKey
    BY <2>t, <2>s, OneKey
  <2>8. /\ JournalKey \in DOMAIN disk' <=> JournalKey \in DOMAIN disk
        /\ JournalKey \in DOMAIN disk => Journal' = Journal
        /\ JournalStays
    BY <2>4, <2>7, NoJournal DEF JournalStays
  <2>9. SignalKept(s)'
    <3>1. SignalKept(s)
      BY <2>s DEF CheckpointsInv
    <3> QED BY <1>j, <1>r, <3>1, <2>s, <2>i, <2>d, <2>p, <2>o, <2>4, <2>8, SignalCallKeeps
  <2>10. /\ \A part : part \notin {"input", "result"} =>
                        /\ Has(s, part)' <=> Has(s, part)
                        /\ Has(s, part) => Saved(s, part)' = Saved(s, part)
         /\ Has(s, "input") => Has(s, "input")'
         /\ Has(s, "input")' => Saved(s, "input")' = input
         /\ Has(s, "result") => Has(s, "result")' /\ Saved(s, "result")' = Saved(s, "result")
         /\ Call(1, s, input) \subseteq W =>
              Has(s, "input")' /\ (NothingToAsk(s, input) => Has(s, "result")')
         /\ \A w \in Call(1, s, input) : ~Clashes(w)
    BY <2>s, <2>i, <2>p, <2>o, <2>4, CallKeeps
  <2>11. CheckpointsInv'
    <3>1. Stays(Associations) /\ Stays(Extract) /\ Stays(Identity) /\ Stays(Match("node"))
      BY <2>5, <2>s, StageKinds, Kinds
    <3>2. ExtractKept' /\ IdentityKept' /\ JournalKept'
      BY <3>1, <2>6, <2>8, ExtractStays, IdentityStays, JournalKeptStays DEF CheckpointsInv
    <3>3. \A t \in MatchStages : MatchKept(t)'
      BY <2>5, <2>6, <2>s, StageKinds, Kinds, MatchStays DEF CheckpointsInv
    <3>4. \A t \in SignalStages : SignalKept(t)'
      <4>1. ASSUME NEW t \in SignalStages, t # s  PROVE  SignalKept(t)'
        BY <4>1, <2>5, <2>6, <2>8, StageKinds, SignalStays DEF CheckpointsInv
      <4> QED BY <4>1, <2>9
    <3>5. /\ Has(Match("node"), "input")' => Has(Match("chain"), "result")'
          /\ AssociationsReady' => \A t \in MatchStages : Has(t, "result")'
      BY <3>1, <2>6, BarrierStays DEF CheckpointsInv
    <3> QED BY <3>2, <3>3, <3>4, <3>5 DEF CheckpointsInv
  <2>12. Remaining' = Remaining
    <3>1. ASSUME NEW i \in DOMAIN Groups
          PROVE  Has(Signal(Groups[i]), "complete")' <=> Has(Signal(Groups[i]), "complete")
      <4>1. CASE i = m
        BY <4>1, <2>2, <2>10
      <4>2. CASE i # m
        <5>1. Signal(Groups[i]) # s /\ Signal(Groups[i]) \in Stages
          BY <4>2, <2>1, <2>2, GroupNames, StageKinds DEF Remaining
        <5>2. Stays(Signal(Groups[i]))
          BY <5>1, <2>5
        <5> QED BY <5>2 DEF Stays, Has
      <4> QED BY <4>1, <4>2
    <3> QED BY <3>1 DEF Remaining
  <2>13. Current' = s
    BY <2>12, <2>1, <2>2 DEF Current
  <2>14. RunInv'
    <3>1. \A t \in DOMAIN said' : Heeded(t)'
      BY <2>4, DoesHeed DEF RunInv
    <3>2. CASE pc' = "idle"
      BY <3>1, <3>2 DEF RunInv
    <3>3. CASE pc' # "idle"
      <4>1. W = writes /\ pc' = "signal"
        BY <3>3, <2>4 DEF Does
      <4>2. Ready(s)'
        BY <4>1, <2>o, <2>10 DEF Ready, Vacant
      <4>3. Ready(Current)'
        BY <4>2, <2>13 DEF Ready, Vacant, Has, Saved
      <4>4. AssociationsReady'
        BY <1>r, <2>6 DEF Grows, AssociationsReady, Has, At, JournalKey
      <4> QED BY <3>1, <4>1, <4>3, <4>4, <1>2, <2>12 DEF RunInv
    <3> QED BY <3>2, <3>3
  <2>15. refused' = refused
    BY <2>4, <2>10 DEF Does, writes
  <2>16. SignalsAsked
    <3>1. \A t \in Stages \ SignalStages : Stays(t)
      BY <2>5, <2>s
    <3>2. ASSUME NEW g \in Classes
          PROVE  LET t == Signal(g)
                 IN  /\ Has(t, "input") => Has(t, "input")' /\ Saved(t, "input")' = Saved(t, "input")
                     /\ Has(t, "input")' /\ ~Has(t, "input") =>
                          DOMAIN Saved(t, "input").events' = EventsOf(Journal, g)
                     /\ \A part : part \notin {"input", "result"} =>
                          /\ Has(t, part)' <=> Has(t, part)
                          /\ Has(t, part) => Saved(t, part)' = Saved(t, part)
                     /\ Has(t, "result") => Has(t, "result")' /\ Saved(t, "result")' = Saved(t, "result")
      <4>1. CASE g = Groups[m]
        BY <4>1, <2>2, <2>i, <2>10
      <4>2. CASE g # Groups[m]
        <5>1. Signal(g) # s /\ Signal(g) \in Stages
          BY <4>2, <2>2, Kinds, StageKinds
        <5>2. Stays(Signal(g))
          BY <5>1, <2>5
        <5> QED BY <5>2, StaysPut
      <4> QED BY <4>1, <4>2
    <3> QED BY <3>1, <3>2, <2>8 DEF SignalsAsked
  <2> QED BY <2>11, <2>14, <2>15, <2>16 DEF StepKeeps
<1> QED BY <1>1, <1>2

\* The Events a class was asked about have places in the batch.
LEMMA PlacesKnown ==
  ASSUME CheckpointsInv, NEW s \in SignalStages, Has(s, "input")
  PROVE  /\ JournalKey \in DOMAIN disk /\ AssociationsReady
         /\ DOMAIN Saved(s, "input").events \subseteq DOMAIN Journal
         /\ IsFiniteSet({Place(k) : k \in DOMAIN Saved(s, "input").events})
         /\ \A k \in DOMAIN Saved(s, "input").events : Place(k) \in Nat
<1> DEFINE D == DOMAIN Saved(s, "input").events
           P == {Place(k) : k \in D}
<1>1. JournalKey \in DOMAIN disk /\ AssociationsReady /\ D \subseteq DOMAIN Journal
  BY DEF CheckpointsInv, SignalKept
<1>2. Has(Identity, "result") /\ DOMAIN Journal = DOMAIN Saved(Identity, "input").events /\ Has(Identity, "input")
  BY <1>1 DEF CheckpointsInv, JournalKept, IdentityKept
<1>3. /\ IsFiniteSet(DOMAIN Saved(Identity, "input").events)
      /\ \A k \in DOMAIN Saved(Identity, "input").events : Place(k) \in Nat
  BY <1>2 DEF CheckpointsInv, IdentityKept
<1>4. IsFiniteSet(D) /\ \A k \in D : Place(k) \in Nat
  BY <1>1, <1>2, <1>3, FS_Subset
<1>5. [k \in D |-> Place(k)] \in Surjection(D, P)
  BY DEF Surjection
<1>6. IsFiniteSet(P)
  <2> HIDE DEF D, P
  <2> QED BY <1>4, <1>5, FS_Surjection
<1> QED BY <1>1, <1>4, <1>6

\* What the Function leaves that freezes the Signals of a class s: the journal
\* first loses the Events with a bad answer, and is last that of the last Event.
SignalsFrozen(s) ==
  LET input == Saved(s, "input").events
  IN  /\ s \in SignalStages /\ Has(s, "input") /\ ~Has(s, "complete")
      /\ JournalKey \in DOMAIN disk'
      /\ \/ /\ Journal' = Journal
            /\ Has(s, "rejections")' => Has(s, "rejections")
            /\ ~Has(s, "complete")'
         \/ /\ Journal' = Sound(s)
            /\ Has(s, "result") \/ Has(s, "raw")'
            /\ Has(s, "complete")' => DOMAIN input = {}
         \/ \E k \in DOMAIN input :
              /\ Journal' = Analysed(Sound(s), input, SignalResult(s), k)
              /\ Has(s, "result") \/ Has(s, "raw")'
              /\ Has(s, "complete")' => \A l \in DOMAIN input : Place(l) <= Place(k)
      /\ Has(s, "result") \/ DOMAIN Raw(s) = DOMAIN input
      /\ Has(s, "rejections")' /\ ~Has(s, "rejections") => ~Has(s, "result")
      /\ Has(s, "raw")' => RawOf(s)' = Raw(s)
      /\ Saved(s, "input").events' = input /\ Has(s, "input")'
      /\ \A t \in Stages \ {s} : Stays(t)

LEMMA FreezeStep ==
  ASSUME CheckpointsInv, RunInv, FreezeBatchSignals
  PROVE  StepKeeps /\ \E s \in SignalStages : SignalsFrozen(s)
<1>r. pc = "compile" /\ AssociationsReady /\ Remaining # {} /\ Ready(Current) /\ Told(Current)
  BY DEF FreezeBatchSignals, RunInv
<1>m. PICK m \in Remaining :
         /\ Current = Signal(Groups[m]) /\ \A j \in Remaining : m <= j
         /\ Groups[m] \in Classes /\ Current \in SignalStages /\ Current \in Stages
  BY <1>r, CurrentNamed
<1>s. PICK s : s = Signal(Groups[m])
  OBVIOUS
<1>k. /\ s \in SignalStages /\ s \in Stages /\ s = Current /\ s \notin MatchStages /\ s # Associations
      /\ Has(s, "input") /\ Told(s) /\ ~Has(s, "complete")
  BY <1>r, <1>m, <1>s, Kinds DEF Ready, Remaining
<1>l. JournalKey \in DOMAIN disk
  BY <1>k, PlacesKnown
<1>h. ~Has(s, "result") => Asked(s) /\ DOMAIN Raw(s) = DOMAIN Saved(s, "input").events
  BY <1>k, HeardRaw
<1> DEFINE input    == Saved(s, "input").events
           sound    == [at |-> <<1, 3>>, key |-> JournalKey, value |-> Sound(s)]
           gains(k) == [at |-> <<2, Place(k)>>, key |-> JournalKey,
                        value |-> Analysed(Sound(s), input, SignalResult(s), k)]
           writes   == FreezeSignals(s) \cup JournalSignals(s)
           next     == IF Cardinality(Remaining) = 1 THEN "publish" ELSE "signals"
<1>a. Perform(writes, next)
  BY <1>k DEF FreezeBatchSignals
<1>b. JournalSignals(s) = {sound} \cup {gains(k) : k \in DOMAIN input}
  BY DEF JournalSignals, Save
<1>t. /\ \A w \in FreezeSignals(s) : (\E part : w.key = At(s, part)) /\ w.at \in Nat \X Nat
      /\ sound.key = JournalKey /\ sound.at = <<1, 3>> /\ sound.value = Sound(s)
      /\ \A k \in DOMAIN input :
           /\ gains(k).key = JournalKey /\ gains(k).at = <<2, Place(k)>> /\ Place(k) \in Nat
           /\ gains(k).value = Analysed(Sound(s), input, SignalResult(s), k)
  <2>1. \A w \in FreezeSignals(s) : (\E part : w.key = At(s, part)) /\ w.at \in Nat \X Nat
    BY DEF FreezeSignals, Once
  <2>2. sound.key = JournalKey /\ sound.at = <<1, 3>> /\ sound.value = Sound(s)
    OBVIOUS
  <2>3. ASSUME NEW k \in DOMAIN input
        PROVE  /\ gains(k).key = JournalKey /\ gains(k).at = <<2, Place(k)>> /\ Place(k) \in Nat
               /\ gains(k).value = Analysed(Sound(s), input, SignalResult(s), k)
    BY <1>k, PlacesKnown
  <2> HIDE DEF sound, gains
  <2> QED BY <2>1, <2>2, <2>3
<1> HIDE DEF sound, gains, next
<1>w. \A w \in writes : w \in FreezeSignals(s) \/ w = sound \/ \E k \in DOMAIN input : w = gains(k)
  BY <1>b
<1>u. FreezeSignals(s) \subseteq writes /\ sound \in writes /\ \A k \in DOMAIN input : gains(k) \in writes
  BY <1>b
<1> HIDE DEF writes
<1>p. Placed(writes)
  <2> SUFFICES ASSUME NEW w \in writes PROVE w.at \in Nat \X Nat
    BY DEF Placed
  <2>1. CASE w = sound
    BY <2>1, <1>t
  <2>2. ASSUME NEW k \in DOMAIN input, w = gains(k)  PROVE  w.at \in Nat \X Nat
    <3>1. w.at = <<2, Place(k)>> /\ Place(k) \in Nat
      BY <2>2, <1>t
    <3>2. <<2, Place(k)>> \in Nat \X Nat
      BY <3>1
    <3> QED BY <3>1, <3>2
  <2> QED BY <2>1, <2>2, <1>w, <1>t
<1>1. PICK W \in SUBSET writes : Does(writes, W, next)
  BY <1>a, <1>p, Performed
<1>o. /\ \A w \in writes : \A part : w.key = At(s, part) => w \in FreezeSignals(s)
      /\ \A w \in writes : w.key = JournalKey => w = sound \/ \E k \in DOMAIN input : w = gains(k)
  BY <1>w, <1>t, <1>k, OneKey
<1>2. \A t \in Stages \ {s} : Stays(t)
  <2>1. \A w \in writes : w.key = JournalKey \/ \E t \in {s} : \E part : w.key = At(t, part)
    BY <1>w, <1>t
  <2> QED BY <2>1, <1>1, <1>k, OthersStay
<1>3. Grows
  BY <1>1, Remains
<1>4. Ranked(writes)
  <2> SUFFICES ASSUME NEW V \in SUBSET {w \in writes : w.key = JournalKey}, V # {}
               PROVE  \E w \in V : \A v \in V : ~Before(w, v)
    BY DEF Ranked
  <2> DEFINE P == {Place(k) : k \in DOMAIN input}
             T == {n \in P : \E w \in V : w.at = <<2, n>>}
  <2>0. \A w \in V : w.at = <<1, 3>> \/ \E n \in T : w.at = <<2, n>>
    BY <1>o, <1>t
  <2>1. T \subseteq Nat /\ IsFiniteSet(T)
    <3>1. IsFiniteSet(P) /\ P \subseteq Nat
      BY <1>k, PlacesKnown
    <3> HIDE DEF P
    <3> QED BY <3>1, FS_Subset
  <2>4. \A n \in T : \E w \in V : w.at = <<2, n>>
    OBVIOUS
  <2> HIDE DEF T
  <2>2. CASE T = {}
    BY <2>0, <2>2 DEF Before
  <2>3. CASE T # {}
    <3>1. PICK n \in T : \A l \in T : l <= n
      BY <2>1, <2>3, GreatestElement
    <3>2. PICK w \in V : w.at = <<2, n>>
      BY <2>4
    <3>3. \A v \in V : ~Before(w, v)
      BY <2>0, <2>1, <3>1, <3>2 DEF Before
    <3> QED BY <3>3
  <2> QED BY <2>2, <2>3
<1>5. /\ JournalKey \in DOMAIN disk'
      /\ \/ /\ Journal' = Journal
            /\ \A w \in W : w.key # JournalKey
         \/ \E w \in W : /\ w.key = JournalKey /\ Journal' = w.value
                         /\ \A v \in W : v.key = JournalKey => ~Before(w, v)
  <2>1. JournalKey \in DOMAIN disk'
    BY <1>l, <1>3 DEF Grows
  <2> QED BY <2>1, <1>1, <1>4, JournalWritten
<1>6. JournalStays
  <2>1. \A w \in writes : w.key = JournalKey => DOMAIN w.value = DOMAIN Journal
    <3>1. DOMAIN Sound(s) = DOMAIN Journal
      BY DEF Sound, Skipped
    <3>2. \A k : DOMAIN Analysed(Sound(s), input, SignalResult(s), k) = DOMAIN Sound(s)
      BY DEF Analysed
    <3> QED BY <3>1, <3>2, <1>o, <1>t
  <2> QED BY <2>1, <1>5 DEF JournalStays
<1>7. /\ SignalKept(s)'
      /\ \A w \in FreezeSignals(s) : ~Clashes(w)
      /\ FreezeSignals(s) \subseteq W => Has(s, "complete")'
      /\ Has(s, "complete")' /\ ~Has(s, "complete") =>
              [at |-> <<3, 1>>, key |-> At(s, "complete"), value |-> TRUE] \in W
      /\ Has(s, "rejections")' /\ ~Has(s, "rejections") =>
              /\ ~Has(s, "result")
              /\ [at |-> <<1, 4>>, key |-> At(s, "rejections"), value |-> FaultyKeys(s)] \in W
      /\ Has(s, "raw")' => RawOf(s)' = Raw(s)
      /\ Saved(s, "input")' = Saved(s, "input") /\ Has(s, "input")'
  <2>1. SignalKept(s)
    BY <1>k DEF CheckpointsInv
  <2> QED BY <1>k, <1>h, <1>p, <1>u, <1>1, <1>o, <1>6, <2>1, FreezeSignalsKeeps
<1>8. CheckpointsInv'
  <2>1. Stays(Associations) /\ Stays(Extract) /\ Stays(Identity) /\ Stays(Match("node"))
    BY <1>2, <1>k, StageKinds, Kinds
  <2>2. ExtractKept' /\ IdentityKept' /\ JournalKept'
    BY <2>1, <1>l, <1>3, <1>6, ExtractStays, IdentityStays, JournalKeptStays DEF CheckpointsInv
  <2>3. \A t \in MatchStages : MatchKept(t)'
    BY <1>2, <1>3, <1>k, StageKinds, MatchStays DEF CheckpointsInv
  <2>4. \A t \in SignalStages : SignalKept(t)'
    <3>1. ASSUME NEW t \in SignalStages, t # s  PROVE  SignalKept(t)'
      BY <3>1, <1>2, <1>3, <1>6, StageKinds, SignalStays DEF CheckpointsInv
    <3> QED BY <3>1, <1>7
  <2>5. /\ Has(Match("node"), "input")' => Has(Match("chain"), "result")'
        /\ AssociationsReady' => \A t \in MatchStages : Has(t, "result")'
    BY <2>1, <1>3, BarrierStays DEF CheckpointsInv
  <2> QED BY <2>2, <2>3, <2>4, <2>5 DEF CheckpointsInv
<1>9. RunInv'
  <2>1. \A t \in DOMAIN said' : Heeded(t)'
    BY <1>1, DoesHeed DEF RunInv
  <2>2. CASE pc' = "idle"
    BY <2>1, <2>2 DEF RunInv
  <2>3. CASE pc' # "idle"
    <3>1. W = writes /\ pc' = next
      BY <2>3, <1>1 DEF Does
    <3>2. AssociationsReady'
      BY <1>r, <1>3 DEF Grows, AssociationsReady, Has, At, JournalKey
    <3>3. Cardinality(Remaining) = 1 => Remaining' = {}
      <4> SUFFICES ASSUME Cardinality(Remaining) = 1 PROVE Remaining' = {}
        OBVIOUS
      <4>1. Remaining = {m}
        <5>0. IsFiniteSet(DOMAIN Groups) /\ Remaining \in SUBSET DOMAIN Groups
          <6>1. IsFiniteSet(1 .. Len(Groups))
            BY GroupsAssumption, FS_Interval
          <6> QED BY <6>1, GroupsAssumption DEF Remaining
        <5>1. IsFiniteSet(Remaining)
          BY <5>0, FS_Subset
        <5>2. IsFiniteSet(Remaining \ {m}) /\ Cardinality(Remaining \ {m}) = 0
          BY <5>1, <1>m, FS_RemoveElement
        <5> QED BY <5>2, <1>m, FS_EmptySet
      <4>2. \A i \in DOMAIN Groups :
              Has(Signal(Groups[i]), "complete") => Has(Signal(Groups[i]), "complete")'
        BY <1>3 DEF Grows, Has, At, JournalKey
      <4>3. Has(s, "complete")'
        BY <3>1, <1>u, <1>7
      <4>4. Has(Signal(Groups[m]), "complete")'
        <5>1. s' = s /\ Signal(Groups[m])' = s
          BY <1>s DEF Signal
        <5> QED BY <5>1, <4>3
      <4> QED BY <4>1, <4>2, <4>4 DEF Remaining
    <3>4. pc' \in {"publish", "signals"} /\ (pc' = "publish" => Remaining' = {})
      BY <3>1, <3>3 DEF next
    <3> QED BY <2>1, <3>2, <3>4 DEF RunInv
  <2> QED BY <2>2, <2>3
<1>10. refused' = refused
  <2>1. \A w \in writes : ~Clashes(w)
    BY <1>w, <1>t, <1>7 DEF Clashes, Fixed
  <2> QED BY <2>1, <1>1 DEF Does
<1>11. SignalsFrozen(s)
  <2>1. Has(s, "complete")' => \A w \in writes : w.key = JournalKey => w \in W
    <3>1. \A w \in writes : w.key = JournalKey =>
            Before(w, [at |-> <<3, 1>>, key |-> At(s, "complete"), value |-> TRUE])
      BY <1>o, <1>t DEF Before
    <3> QED BY <3>1, <1>k, <1>7, <1>1 DEF Does, Begun
  <2>2. Has(s, "rejections")' /\ ~Has(s, "rejections") => sound \in W
    <3>1. Before(sound, [at |-> <<1, 4>>, key |-> At(s, "rejections"), value |-> FaultyKeys(s)])
      BY <1>t DEF Before
    <3> QED BY <3>1, <1>u, <1>7, <1>1 DEF Does, Begun
  <2>3. CASE Journal' = Journal /\ \A w \in W : w.key # JournalKey
    <3>1. ~Has(s, "complete")' /\ (Has(s, "rejections")' => Has(s, "rejections"))
      BY <2>1, <2>2, <2>3, <1>u, <1>t
    <3> QED BY <2>3, <3>1, <1>k, <1>h, <1>5, <1>7, <1>2 DEF SignalsFrozen
  <2>5. ASSUME NEW w \in W, w.key = JournalKey
        PROVE  Has(s, "result") \/ Has(s, "raw")'
    <3>1. SUFFICES ASSUME ~Has(s, "result")  PROVE At(s, "raw") \in KeysOf(W)
      BY <1>1, KeptDomain DEF Does, Has
    <3>2. PICK r \in FreezeSignals(s) : r.key = At(s, "raw") /\ r.at = <<1, 1>>
      <4> DEFINE q == [at |-> <<1, 1>>, key |-> At(s, "raw"), value |-> Raw(s)]
      <4>1. q \in FreezeSignals(s)
        BY <3>1 DEF FreezeSignals, Once
      <4>2. q.key = At(s, "raw") /\ q.at = <<1, 1>>
        OBVIOUS
      <4> QED BY <4>1, <4>2
    <3>3. w.at = <<1, 3>> \/ \E n \in Nat : w.at = <<2, n>>
      BY <2>5, <1>o, <1>t
    <3>4. Before(r, w)
      BY <3>2, <3>3 DEF Before
    <3> QED BY <3>2, <3>4, <2>5, <1>u, <1>1 DEF Does, Begun, KeysOf
  <2>4. ASSUME NEW w \in W, w.key = JournalKey, Journal' = w.value,
               \A v \in W : v.key = JournalKey => ~Before(w, v)
        PROVE  SignalsFrozen(s)
    <3>1. CASE w = sound
      <4>1. Has(s, "complete")' => DOMAIN input = {}
        <5>1. \A k \in DOMAIN input : Before(sound, gains(k))
          BY <1>t DEF Before
        <5> QED BY <5>1, <2>1, <2>4, <3>1, <1>u, <1>t
      <4> QED BY <4>1, <2>4, <2>5, <3>1, <1>t, <1>k, <1>h, <1>5, <1>7, <1>2 DEF SignalsFrozen
    <3>2. ASSUME NEW k \in DOMAIN input, w = gains(k)  PROVE  SignalsFrozen(s)
      <4>1. Has(s, "complete")' => \A l \in DOMAIN input : Place(l) <= Place(k)
        <5>1. \A l \in DOMAIN input : Place(k) < Place(l) => Before(gains(k), gains(l))
          BY <1>t DEF Before
        <5>2. Has(s, "complete")' => \A l \in DOMAIN input : ~(Place(k) < Place(l))
          BY <5>1, <2>1, <2>4, <3>2, <1>u, <1>t
        <5> QED BY <5>2, <1>t
      <4>2. Journal' = Analysed(Sound(s), input, SignalResult(s), k)
        BY <2>4, <3>2, <1>t
      <4> QED BY <4>1, <4>2, <2>4, <2>5, <1>k, <1>h, <1>5, <1>7, <1>2 DEF SignalsFrozen
    <3> QED BY <3>1, <3>2, <2>4, <1>o
  <2> QED BY <2>3, <2>4, <1>5
<1> QED BY <1>8, <1>9, <1>10, <1>11, <1>k DEF StepKeeps

\* What the Function leaves that publishes an Event.
EventSettled ==
  /\ AssociationsReady /\ Remaining = {} /\ JournalKey \in DOMAIN disk /\ JournalKey \in DOMAIN disk'
  /\ \A s \in Stages \ {Publication} : Stays(s)
  /\ Has(Publication, "package") =>
       Has(Publication, "package")' /\ Saved(Publication, "package")' = Saved(Publication, "package")
  /\ Has(Publication, "package")' /\ ~Has(Publication, "package") =>
       Saved(Publication, "package")' = Package(Journal)
  /\ \/ Journal' = Journal
     \/ /\ Has(Publication, "package")'
        /\ \E k \in Unpublished, accepted \in BOOLEAN :
             Journal' = [Journal EXCEPT ![k] = Acknowledged(@, accepted)]

Settling(saves, next) ==
  \/ saves = {} /\ next = "complete" /\ Unpublished = {}
  \/ next = "publish" /\ \E k \in Unpublished, accepted \in BOOLEAN :
       saves = Save(<<1, 2>>, [Journal EXCEPT ![k] = Acknowledged(@, accepted)])

LEMMA SettleKeeps ==
  ASSUME CheckpointsInv, RunInv, AssociationsReady, Remaining = {}, JournalKey \in DOMAIN disk,
         NEW next, NEW saves,
         Perform(FreezePackage \cup saves, next), Settling(saves, next)
  PROVE  StepKeeps /\ EventSettled
<1> DEFINE writes == FreezePackage \cup saves
           package == [at |-> <<1, 1>>, key |-> At(Publication, "package"), value |-> Package(Journal)]
           Changed(j) == \E k \in Unpublished, accepted \in BOOLEAN :
                           j = [Journal EXCEPT ![k] = Acknowledged(@, accepted)]
<1>v. \/ saves = {} /\ next = "complete" /\ Unpublished = {}
      \/ /\ next = "publish"
         /\ \E journal : saves = {[at |-> <<1, 2>>, key |-> JournalKey, value |-> journal]} /\ Changed(journal)
  BY DEF Save, Settling
<1> HIDE DEF Changed
<1>w. \A w \in saves : w.key = JournalKey /\ w.at = <<1, 2>> /\ Changed(w.value)
  <2>1. CASE saves = {}
    BY <2>1
  <2>2. ASSUME NEW journal, saves = {[at |-> <<1, 2>>, key |-> JournalKey, value |-> journal]},
               Changed(journal)
        PROVE  \A w \in saves : w.key = JournalKey /\ w.at = <<1, 2>> /\ Changed(w.value)
    BY <2>2
  <2> QED BY <2>1, <2>2, <1>v
<1>f. FreezePackage = IF Has(Publication, "package") THEN {} ELSE {package}
  BY DEF FreezePackage, Once
<1>g. package.key = At(Publication, "package") /\ package.at = <<1, 1>> /\ package.value = Package(Journal)
  OBVIOUS
<1> HIDE DEF package
<1>t. \A w \in writes : \/ w = package /\ ~Has(Publication, "package")
                        \/ w \in saves
  BY <1>f
<1>u. saves \subseteq writes /\ (~Has(Publication, "package") => package \in writes)
  BY <1>f
<1> HIDE DEF writes
<1>a. Perform(writes, next)
  BY DEF writes
<1>p. Placed(writes)
  BY <1>t, <1>w, <1>g DEF Placed
<1>1. PICK W \in SUBSET writes : Does(writes, W, next)
  BY <1>a, <1>p, Performed
<1>s. Publication \in Stages /\ At(Publication, "package") # JournalKey
  BY StageKinds, OneKey
<1>2. \A s \in Stages \ {Publication} : Stays(s)
  <2>1. \A w \in writes : w.key = JournalKey \/ \E t \in {Publication} : \E part : w.key = At(t, part)
    BY <1>t, <1>w, <1>g
  <2> QED BY <2>1, <1>1, <1>s, OthersStay
<1>3. Grows
  BY <1>1, Remains
<1>4. Ranked(writes)
  <2>1. Single(writes, JournalKey)
    BY <1>t, <1>v, <1>g, <1>s DEF Single
  <2> QED BY <2>1, <1>p, OneJournal
<1>5. /\ JournalKey \in DOMAIN disk'
      /\ \/ Journal' = Journal
         \/ \E w \in W : w \in saves /\ Journal' = w.value
  <2>1. JournalKey \in DOMAIN disk'
    BY <1>3 DEF Grows
  <2>2. \/ Journal' = Journal
        \/ \E w \in W : w.key = JournalKey /\ Journal' = w.value
    BY <2>1, <1>1, <1>4, JournalWritten
  <2>3. \A w \in W : w.key = JournalKey => w \in saves
    BY <1>t, <1>g, <1>s
  <2> QED BY <2>1, <2>2, <2>3
<1>6. JournalStays
  <2>1. \A w \in saves : DOMAIN w.value = DOMAIN Journal
    BY <1>w DEF Changed
  <2> QED BY <2>1, <1>5 DEF JournalStays
<1>7. /\ Has(Publication, "package") =>
           Has(Publication, "package")' /\ Saved(Publication, "package")' = Saved(Publication, "package")
      /\ Has(Publication, "package")' /\ ~Has(Publication, "package") =>
           Saved(Publication, "package")' = Package(Journal)
      /\ \A w \in W : w \in saves => Has(Publication, "package")'
  <2>1. Has(Publication, "package") =>
          Has(Publication, "package")' /\ Saved(Publication, "package")' = Saved(Publication, "package")
    BY <1>3, <1>s DEF Grows, Has, Saved
  <2>2. Single(writes, package.key)
    BY <1>t, <1>w, <1>g, <1>s DEF Single
  <2>3. package \in W => At(Publication, "package") \in DOMAIN disk' /\ disk'[At(Publication, "package")] = Package(Journal)
    BY <1>1, <1>p, <1>g, <2>2, Written
  <2>4. Has(Publication, "package")' /\ ~Has(Publication, "package") => package \in W
    <3>1. Has(Publication, "package")' /\ ~Has(Publication, "package") =>
            \E w \in W : w.key = At(Publication, "package")
      BY <1>1, Appears DEF Has
    <3> QED BY <3>1, <1>t, <1>w, <1>s
  <2>5. ASSUME NEW w \in W, w \in saves, ~Has(Publication, "package")  PROVE  package \in W
    <3>1. Before(package, w)
      BY <2>5, <1>w, <1>g DEF Before
    <3> QED BY <3>1, <2>5, <1>u, <1>1 DEF Does, Begun
  <2> QED BY <2>1, <2>3, <2>4, <2>5 DEF Has, Saved
<1>8. /\ Stays(Extract) /\ Stays(Identity) /\ Stays(Associations)
      /\ \A s \in MatchStages \cup SignalStages : Stays(s)
  BY <1>2, StageKinds, Kinds
<1>9. CheckpointsInv'
  <2>2. ExtractKept' /\ IdentityKept' /\ JournalKept'
    BY <1>3, <1>6, <1>8, ExtractStays, IdentityStays, JournalKeptStays DEF CheckpointsInv
  <2>3. \A s \in MatchStages : MatchKept(s)'
    BY <1>3, <1>8, MatchStays DEF CheckpointsInv
  <2>4. \A s \in SignalStages : SignalKept(s)'
    BY <1>3, <1>6, <1>8, SignalStays DEF CheckpointsInv
  <2>5. /\ Has(Match("node"), "input")' => Has(Match("chain"), "result")'
        /\ AssociationsReady' => \A s \in MatchStages : Has(s, "result")'
    BY <1>3, <1>8, StageKinds, BarrierStays DEF CheckpointsInv
  <2> QED BY <2>2, <2>3, <2>4, <2>5 DEF CheckpointsInv
<1>10. AssociationsReady' /\ Remaining' = {}
  <2>1. AssociationsReady'
    BY <1>8 DEF Stays, AssociationsReady, Has
  <2>2. \A i \in DOMAIN Groups :
          Has(Signal(Groups[i]), "complete") => Has(Signal(Groups[i]), "complete")'
    BY <1>3 DEF Grows, Has, At, JournalKey
  <2> QED BY <2>1, <2>2 DEF Remaining
<1>11. RunInv'
  <2>1. \A t \in DOMAIN said' : Heeded(t)'
    BY <1>1, DoesHeed DEF RunInv
  <2>2. pc' \in {"idle", next} /\ next \in {"publish", "complete"}
    BY <1>1, <1>v DEF Does
  <2>3. next = "complete" => Unpublished' = {}
    <3>1. next = "complete" => Journal' = Journal /\ Unpublished = {}
      BY <1>v, <1>5
    <3> QED BY <3>1 DEF Unpublished
  <2> QED BY <2>1, <2>2, <2>3, <1>10 DEF RunInv
<1>12. refused' = refused
  <2>1. ~Has(Publication, "package") => ~Clashes(package)
    BY <1>g DEF Clashes, Fixed, Has
  <2>2. \A w \in writes : ~Clashes(w)
    BY <2>1, <1>t, <1>w DEF Clashes, Fixed
  <2> QED BY <2>2, <1>1 DEF Does
<1>13. EventSettled
  <2>1. \/ Journal' = Journal
        \/ Has(Publication, "package")' /\ Changed(Journal')
    BY <1>5, <1>7, <1>w
  <2> QED BY <2>1, <1>2, <1>5, <1>7 DEF EventSettled, Changed
<1> QED BY <1>9, <1>11, <1>12, <1>13 DEF StepKeeps

LEMMA PublishStep ==
  ASSUME CheckpointsInv, RunInv, PublishPreparedEvent
  PROVE  StepKeeps /\ EventSettled
<1>1. AssociationsReady /\ Remaining = {}
  BY DEF PublishPreparedEvent, RunInv
<1>2. JournalKey \in DOMAIN disk
  BY <1>1, StageKinds DEF CheckpointsInv, MatchKept
<1>3. CASE Unpublished = {} /\ Perform(FreezePackage, "complete")
  <2>1. Perform(FreezePackage \cup {}, "complete")
    BY <1>3, FreezePackage \cup {} = FreezePackage
  <2> QED BY <1>1, <1>2, <1>3, <2>1, SettleKeeps DEF Settling
<1>4. CASE \E k \in Unpublished, accepted \in BOOLEAN :
             Perform(FreezePackage
                       \cup Save(<<1, 2>>, [Journal EXCEPT ![k] = Acknowledged(@, accepted)]), "publish")
  BY <1>1, <1>2, <1>4, SettleKeeps DEF Settling
<1> QED BY <1>3, <1>4 DEF PublishPreparedEvent

LEMMA CompleteStep ==
  ASSUME CheckpointsInv, RunInv, CompleteBatch
  PROVE  StepKeeps
<1>1. disk' = disk /\ said' = said /\ refused' = refused /\ pc' = "done" /\ pc = "complete"
  BY DEF CompleteBatch
<1>2. CheckpointsInv'
  BY <1>1, SameCheckpoints
<1>3. /\ AssociationsReady' /\ Remaining' = {} /\ Unpublished' = {}
      /\ \A s \in DOMAIN said' : Heeded(s)'
  BY <1>1, SameDisk DEF RunInv, Heeded
<1> QED BY <1>1, <1>2, <1>3 DEF StepKeeps, RunInv

LEMMA StutterKeeps ==
  ASSUME CheckpointsInv, RunInv, UNCHANGED vars
  PROVE  StepKeeps
<1>1. disk' = disk /\ said' = said /\ refused' = refused /\ pc' = pc
  BY DEF vars
<1>2. CheckpointsInv'
  BY <1>1, SameCheckpoints
<1>3. RunInv'
  BY <1>1 DEF RunInv, Heeded, Told, Ready, Asked, Vacant, Completed, Has, Saved, AssociationsReady,
              Remaining, Current, Unpublished, Journal
<1> QED BY <1>1, <1>2, <1>3 DEF StepKeeps

LEMMA EveryStep ==
  ASSUME CheckpointsInv, RunInv, [Next]_vars
  PROVE  StepKeeps
<1>1. CASE Step
  BY <1>1, ClaimKeeps, AskSteps, IdentityStep, MatchesStep, NodesStep, SignalsStep, MatchStep,
     CollectStep, FreezeStep, PublishStep, CompleteStep DEF Step
<1>2. CASE UNCHANGED vars
  BY <1>2, StutterKeeps
<1> QED BY <1>1, <1>2 DEF Next, Complete

LEMMA InitKeeps ==
  ASSUME Init
  PROVE  CheckpointsInv /\ RunInv
<1>1. \A s, part : ~Has(s, part)
  BY DEF Init, Has
<1>2. JournalKey \notin DOMAIN disk
  BY DEF Init
<1>3. CheckpointsInv
  BY <1>1, <1>2 DEF CheckpointsInv, ExtractKept, IdentityKept, JournalKept, MatchKept, SignalKept,
                    Answered, AssociationsReady
<1>4. RunInv
  BY DEF Init, RunInv, NoAnswers
<1> QED BY <1>3, <1>4

\* No step takes a checkpoint back.
LEMMA StepGrows ==
  ASSUME [Next]_vars
  PROVE  Grows
<1>1. ASSUME NEW writes, NEW next, Perform(writes, next)  PROVE  Grows
  BY <1>1, KeptGrows DEF Perform
<1>2. CASE disk' = disk
  BY <1>2 DEF Grows
<1>3. CASE ClaimBatch \/ CollectParallelMatches \/ FreezeBatchSignals \/ PublishPreparedEvent
  BY <1>1, <1>3 DEF ClaimBatch, CollectParallelMatches, FreezeBatchSignals, PublishPreparedEvent
<1>4. ASSUME NEW world, \/ PrepareBatchIdentity(world) \/ PrepareParallelMatches(world)
                        \/ PrepareNodeMatches(world) \/ PrepareBatchSignals(world)
      PROVE  Grows
  BY <1>1, <1>2, <1>4
  DEF PrepareBatchIdentity, PrepareParallelMatches, PrepareNodeMatches, PrepareBatchSignals
<1>5. CASE AskExtractor \/ AskIdentity \/ AskSignals \/ CompleteBatch \/ Complete \/ UNCHANGED vars
  BY <1>2, <1>5 DEF AskExtractor, AskIdentity, AskSignals, AskThen, CompleteBatch, Complete, vars
<1>6. ASSUME NEW s, MatchBranch(s)  PROVE  Grows
  BY <1>2, <1>6 DEF MatchBranch
<1> QED BY <1>3, <1>4, <1>5, <1>6 DEF Next, Step

LEMMA RedundancyStays ==
  ASSUME Grows, Redundancy
  PROVE  Redundancy'
<1>1. Has(Extract, "result")' /\ Saved(Extract, "result")' = Saved(Extract, "result")
  BY DEF Redundancy, Grows, Has, Saved, At, JournalKey
<1> QED BY <1>1 DEF Redundancy, Redundant

\* The first half of the invariant is one by itself.
THEOREM CheckpointsHold == Spec => [](CheckpointsInv /\ RunInv /\ OnlyRedundancyBlocks)
<1>1. Init => CheckpointsInv /\ RunInv /\ OnlyRedundancyBlocks
  BY InitKeeps DEF Init, OnlyRedundancyBlocks
<1>2. CheckpointsInv /\ RunInv /\ OnlyRedundancyBlocks /\ [Next]_vars
        => (CheckpointsInv /\ RunInv /\ OnlyRedundancyBlocks)'
  <2> SUFFICES ASSUME CheckpointsInv, RunInv, OnlyRedundancyBlocks, [Next]_vars
               PROVE  CheckpointsInv' /\ RunInv' /\ OnlyRedundancyBlocks'
    OBVIOUS
  <2>1. CheckpointsInv' /\ RunInv' /\ (refused' # refused => Redundancy)
    BY EveryStep DEF StepKeeps
  <2>2. (refused => Redundancy) /\ (Redundancy => Redundancy')
    BY StepGrows, RedundancyStays DEF OnlyRedundancyBlocks, Redundancy
  <2>3. refused' => Redundancy'
    BY <2>1, <2>2
  <2> QED BY <2>1, <2>3 DEF OnlyRedundancyBlocks, Redundancy
<1> QED BY <1>1, <1>2, PTL DEF Spec

\* Whatever dies between two writes and whatever catalogs answer later, a
\* resumed batch agrees with its own checkpoints, but for an extractor that
\* lists an Evidence twice or as no event beside a candidate.
THEOREM OnlyRedundancyHolds == Spec => []OnlyRedundancyBlocks
BY CheckpointsHold, PTL

-----------------------------------------------------------------------------
(* What is once settled of a stage.                                        *)

Asking == {Identity} \cup MatchStages \cup SignalStages

Shape(s) ==
  /\ Has(s, "raw") => Asked(s) /\ DOMAIN RawOf(s) = DOMAIN Saved(s, "input").events
  /\ Has(s, "parse") => Has(s, "raw")
  /\ s # Identity /\ Has(s, "rejections") => Has(s, "parse")
  /\ Has(s, "result") =>
       /\ Has(s, "input")
       /\ \/ Vacant(s) /\ ~Has(s, "raw")
          \/ Has(s, "parse") /\ (s # Identity => Has(s, "rejections"))

LEMMA Shapes ==
  CheckpointsInv => \A s \in Asking : Shape(s)
BY DEF Asking, Shape, CheckpointsInv, IdentityKept, MatchKept, SignalKept, Answered, Unasked

LEMMA ShapesNext ==
  CheckpointsInv' => (\A s \in Asking : Shape(s))'
BY Shapes, PTL

Fixedly(s, part) ==
  /\ Has(s, part)' <=> Has(s, part)
  /\ Has(s, part) => Saved(s, part)' = Saved(s, part)

LEMMA KeptParts ==
  ASSUME Grows, NEW s, NEW part, part # ""
  PROVE  Has(s, part) => Has(s, part)' /\ Saved(s, part)' = Saved(s, part)
BY DEF Grows, Has, Saved, At, JournalKey

\* Once a stage has its result, what it was asked and what came of it is fixed.
LEMMA ResultFixed ==
  ASSUME CheckpointsInv, CheckpointsInv', Grows, NEW s \in Asking, Has(s, "result")
  PROVE  /\ Fixedly(s, "input") /\ Fixedly(s, "raw") /\ Fixedly(s, "parse") /\ Fixedly(s, "result")
         /\ s # Identity => Fixedly(s, "rejections")
         /\ Has(s, "input")
<1>1. Shape(s)
  BY Shapes
<1>2. Shape(s)'
  <2>1. (\A t \in Asking : Shape(t))'
    BY ShapesNext
  <2>2. Asking' = Asking
    BY DEF Asking, MatchStages, SignalStages
  <2> QED BY <2>1, <2>2
<1>3. \A part \in {"input", "raw", "parse", "rejections", "result"} :
        Has(s, part) => Has(s, part)' /\ Saved(s, part)' = Saved(s, part)
  BY KeptParts
<1>4. Has(s, "input") /\ (Vacant(s) => Vacant(s)')
  BY <1>1, <1>3 DEF Shape, Vacant
<1>5. CASE Vacant(s) /\ ~Has(s, "raw")
  <2>1. ~Has(s, "raw")' /\ ~Has(s, "parse")' /\ (s # Identity => ~Has(s, "rejections")')
    BY <1>2, <1>4, <1>5 DEF Shape, Asked
  <2> QED BY <2>1, <1>1, <1>3, <1>4, <1>5 DEF Shape, Fixedly
<1>6. CASE Has(s, "parse") /\ (s # Identity => Has(s, "rejections"))
  BY <1>1, <1>3, <1>4, <1>6 DEF Shape, Fixedly
<1> QED BY <1>1, <1>5, <1>6 DEF Shape

LEMMA AskingStages ==
  /\ Identity \in Asking /\ \A s \in MatchStages \cup SignalStages : s \in Asking /\ s # Identity
  /\ \A s \in Asking : s \in Stages
BY StageKinds, Kinds DEF Asking

\* The identities are settled before there is a journal.
LEMMA OriginStays ==
  ASSUME CheckpointsInv, CheckpointsInv', Grows, JournalKey \in DOMAIN disk
  PROVE  /\ Origin' = Origin
         /\ Saved(Identity, "input")' = Saved(Identity, "input")
         /\ Saved(Identity, "result")' = Saved(Identity, "result")
         /\ Has(Identity, "raw")' <=> Has(Identity, "raw")
         /\ Has(Identity, "raw") => RawOf(Identity)' = RawOf(Identity)
<1>1. Has(Identity, "result")
  BY DEF CheckpointsInv, JournalKept
<1>2. /\ Fixedly(Identity, "input") /\ Fixedly(Identity, "raw") /\ Fixedly(Identity, "result")
      /\ Has(Identity, "input")
  BY <1>1, AskingStages, ResultFixed
<1>3. /\ Saved(Identity, "input")' = Saved(Identity, "input")
      /\ Saved(Identity, "result")' = Saved(Identity, "result")
  BY <1>1, <1>2 DEF Fixedly
<1>4. Origin' = Origin
  BY <1>3 DEF Origin
<1> QED BY <1>2, <1>3, <1>4 DEF Fixedly, RawOf

\* So are the matches before they reach the journal.
LEMMA MatchesStay ==
  ASSUME CheckpointsInv, CheckpointsInv', Grows, \A s \in MatchStages : Has(s, "result")
  PROVE  /\ \A s \in MatchStages : MatchResult(s)' = MatchResult(s) /\ Rejected(s)' = Rejected(s)
         /\ \A k : PairsOf(k)' = PairsOf(k) /\ RejectionsOf(k)' = RejectionsOf(k)
         /\ \A journal : Associated(journal)' = Associated(journal)
<1>1. ASSUME NEW s \in MatchStages
      PROVE  MatchResult(s)' = MatchResult(s) /\ Rejected(s)' = Rejected(s)
  <2>1. Fixedly(s, "result") /\ Fixedly(s, "parse") /\ Fixedly(s, "rejections") /\ Has(s, "result")
    BY AskingStages, ResultFixed
  <2> QED BY <2>1 DEF Fixedly, MatchResult, Rejected, Frozen
<1>2. \A k : PairsOf(k)' = PairsOf(k)
  BY <1>1 DEF PairsOf, MatchStages, Match
<1>3. \A k : RejectionsOf(k)' = RejectionsOf(k)
  BY <1>1 DEF RejectionsOf, MatchStages, Match
<1>4. \A journal : Associated(journal)' = Associated(journal)
  BY <1>2, <1>3 DEF Associated
<1> QED BY <1>1, <1>2, <1>3, <1>4

-----------------------------------------------------------------------------
(* The entries of the journal.                                             *)

LEMMA FailedChanges ==
  ASSUME NEW e, DOMAIN e = EntryFields
  PROVE  LET f == Failed(e)
         IN  /\ DOMAIN f = EntryFields /\ f.done = TRUE /\ f.failed = TRUE
             /\ f.evidence = e.evidence /\ f.class = e.class /\ f.decision = e.decision
             /\ f.matches = e.matches /\ f.signals = e.signals
             /\ f.analysed = e.analysed /\ f.published = e.published
<1>1. "done" \in DOMAIN e /\ "failed" \in DOMAIN e
  BY DEF EntryFields
<1> QED BY <1>1 DEF Failed

LEMMA GainedChanges ==
  ASSUME NEW e, DOMAIN e = EntryFields, NEW pairs
  PROVE  LET f == Gained(e, pairs)
         IN  /\ DOMAIN f = EntryFields /\ f.signals = pairs /\ f.analysed = TRUE
             /\ f.evidence = e.evidence /\ f.class = e.class /\ f.decision = e.decision
             /\ f.matches = e.matches /\ f.done = e.done
             /\ f.failed = e.failed /\ f.published = e.published
<1>1. "signals" \in DOMAIN e /\ "analysed" \in DOMAIN e
  BY DEF EntryFields
<1> QED BY <1>1 DEF Gained

LEMMA AcknowledgedChanges ==
  ASSUME NEW e, DOMAIN e = EntryFields, NEW accepted \in BOOLEAN
  PROVE  LET f == Acknowledged(e, accepted)
         IN  /\ DOMAIN f = EntryFields
             /\ f.done = TRUE /\ f.published = accepted /\ f.failed = ~accepted
             /\ f.evidence = e.evidence /\ f.class = e.class /\ f.decision = e.decision
             /\ f.matches = e.matches /\ f.signals = e.signals /\ f.analysed = e.analysed
<1>1. "done" \in DOMAIN e /\ "failed" \in DOMAIN e /\ "published" \in DOMAIN e
  BY DEF EntryFields
<1> QED BY <1>1 DEF Acknowledged

LEMMA JoinedChanges ==
  ASSUME NEW e, DOMAIN e = EntryFields, NEW pairs, NEW rejections, e.failed \in BOOLEAN, e.done \in BOOLEAN
  PROVE  LET f     == Joined(e, pairs, rejections)
             bad   == e.failed \/ rejections # {}
             ended == e.done \/ bad \/ pairs = {}
         IN  /\ DOMAIN f = EntryFields
             /\ f.matches = pairs /\ f.done = ended /\ f.failed = bad
             /\ f.decision = IF ended /\ ~bad /\ Publishable(e) THEN "IGNORED" ELSE e.decision
             /\ f.evidence = e.evidence /\ f.class = e.class /\ f.signals = e.signals
             /\ f.analysed = e.analysed /\ f.published = e.published
<1>1. /\ "done" \in DOMAIN e /\ "failed" \in DOMAIN e /\ "matches" \in DOMAIN e /\ "decision" \in DOMAIN e
  BY DEF EntryFields
<1> DEFINE bad   == e.failed \/ rejections # {}
           ended == e.done \/ bad \/ pairs = {}
           decision == IF ended /\ ~bad /\ Publishable(e) THEN "IGNORED" ELSE e.decision
           f == [e EXCEPT !.matches = pairs, !.decision = decision, !.done = ended, !.failed = bad]
<1>2. Joined(e, pairs, rejections) = f
  BY DEF Joined
<1> HIDE DEF bad, ended, decision
<1>3. /\ DOMAIN f = EntryFields
      /\ f.matches = pairs /\ f.done = ended /\ f.failed = bad /\ f.decision = decision
      /\ f.evidence = e.evidence /\ f.class = e.class /\ f.signals = e.signals
      /\ f.analysed = e.analysed /\ f.published = e.published
  BY <1>1
<1> QED BY <1>2, <1>3 DEF bad, ended, decision

\* What is held against an Event: its identity, a match, a Signal, a refusal.
Identities ==
  LET rows == IF Has(Identity, "raw") THEN RawOf(Identity) ELSE <<>>
  IN  [l \in Usable(rows) |-> rows[l]]

Disqualified(k) == NonCompliant(Saved(Identity, "input").events, Identities, k)

BadMatch(s, k) ==
  /\ Has(s, "raw") /\ k \in DOMAIN RawOf(s)
  /\ RawOf(s)[k].form # "row" \/ ~(RawOf(s)[k].matches \subseteq Saved(s, "input").events[k])

BadSignal(s, k) ==
  /\ Has(s, "raw") /\ k \in DOMAIN RawOf(s)
  /\ RawOf(s)[k] = None \/ Faulty(Saved(s, "input").events[k], RawOf(s)[k])

Refused(k) == Journal[k].analysed /\ Journal[k].done /\ ~Journal[k].published

LEMMA Verdicts ==
  ASSUME NEW k
  PROVE  Condemned(k) <=> \/ Disqualified(k) \/ Refused(k)
                          \/ \E s \in MatchStages : BadMatch(s, k)
                          \/ \E s \in SignalStages : BadSignal(s, k)
BY DEF Condemned, Disqualified, Identities, BadMatch, BadSignal, Refused, AnswersOf

LEMMA IdentitiesFrozen ==
  ASSUME CheckpointsInv, Has(Identity, "result"), NEW k \in DOMAIN Saved(Identity, "input").events
  PROVE  Identities = Saved(Identity, "result")
<1>1. ~Vacant(Identity)
  BY Kinds DEF Vacant, NothingToAsk
<1>2. /\ Has(Identity, "raw")
      /\ Saved(Identity, "result") = Restrict(RawOf(Identity), Usable(RawOf(Identity)))
  BY <1>1 DEF CheckpointsInv, IdentityKept, Unasked
<1> QED BY <1>2 DEF Identities, Restrict

\* What a stage rejected is what was bad in its answer.
LEMMA RejectedIsBad ==
  ASSUME CheckpointsInv, NEW s \in MatchStages, Has(s, "result"), NEW k
  PROVE  k \in Rejected(s) <=> BadMatch(s, k)
<1>1. MatchKept(s) /\ Shape(s)
  BY Shapes DEF CheckpointsInv, Asking
<1>2. CASE ~Has(s, "raw")
  <2>1. ~Has(s, "parse") /\ ~Has(s, "rejections")
    BY <1>1, <1>2 DEF MatchKept
  <2> QED BY <2>1, <1>2 DEF Rejected, Frozen, BadMatch
<1>3. CASE Has(s, "raw")
  <2>1. /\ Has(s, "parse") /\ Saved(s, "parse") = Spoiled(RawOf(s))
        /\ Has(s, "rejections") /\ Saved(s, "rejections") = Outside(Saved(s, "input").events, RawOf(s))
    BY <1>1, <1>3 DEF MatchKept, Unasked
  <2>2. Rejected(s) = Spoiled(RawOf(s)) \cup Outside(Saved(s, "input").events, RawOf(s))
    BY <2>1 DEF Rejected, Frozen
  <2> QED BY <2>2, <1>3 DEF Spoiled, Outside, Covered, BadMatch
<1> QED BY <1>2, <1>3

\* Nothing held against an Event is forgotten.
LEMMA VerdictsStay ==
  ASSUME CheckpointsInv, CheckpointsInv', Grows
  PROVE  \A s \in MatchStages \cup SignalStages : \A k :
           /\ BadMatch(s, k) => BadMatch(s, k)'
           /\ BadSignal(s, k) => BadSignal(s, k)'
<1> SUFFICES ASSUME NEW s \in MatchStages \cup SignalStages, Has(s, "raw")
             PROVE  /\ Has(s, "raw")' /\ RawOf(s)' = RawOf(s)
                    /\ Saved(s, "input")' = Saved(s, "input")
  BY DEF BadMatch, BadSignal
<1>1. Has(s, "input")
  BY Shapes, AskingStages DEF Shape, Asked
<1> QED BY <1>1, KeptParts DEF RawOf

LEMMA CondemnedStays ==
  ASSUME CheckpointsInv, CheckpointsInv', Grows, JournalKey \in DOMAIN disk,
         NEW k, Condemned(k), Refused(k) => Refused(k)'
  PROVE  Condemned(k)'
<1>1. Disqualified(k) => Disqualified(k)'
  <2>1. Has(Identity, "result")
    BY AskingStages DEF CheckpointsInv, JournalKept
  <2>2. Identities' = Identities /\ Saved(Identity, "input")' = Saved(Identity, "input")
    BY OriginStays DEF Identities
  <2> QED BY <2>2 DEF Disqualified
<1>2. \A s \in MatchStages \cup SignalStages :
        (BadMatch(s, k) => BadMatch(s, k)') /\ (BadSignal(s, k) => BadSignal(s, k)')
  BY VerdictsStay
<1>3. Condemned(k)' <=> \/ Disqualified(k)' \/ Refused(k)'
                        \/ \E s \in MatchStages : BadMatch(s, k)'
                        \/ \E s \in SignalStages : BadSignal(s, k)'
  <2>1. (Condemned(k) <=> \/ Disqualified(k) \/ Refused(k)
                          \/ \E s \in MatchStages : BadMatch(s, k)
                          \/ \E s \in SignalStages : BadSignal(s, k))'
    BY Verdicts, PTL
  <2> QED BY <2>1 DEF MatchStages, SignalStages, Match, Signal
<1> QED BY <1>1, <1>2, <1>3, Verdicts

\* The entries as identity resolution gives them.
LEMMA OriginEntries ==
  ASSUME NEW k \in DOMAIN Origin
  PROVE  /\ DOMAIN Origin[k] = EntryFields
         /\ Origin[k].matches = {} /\ Origin[k].signals = {}
         /\ Origin[k].analysed = FALSE /\ Origin[k].published = FALSE
         /\ Origin[k].done = NonCompliant(Saved(Identity, "input").events, Saved(Identity, "result"), k)
         /\ Origin[k].failed = NonCompliant(Saved(Identity, "input").events, Saved(Identity, "result"), k)
<1> DEFINE bad == NonCompliant(Saved(Identity, "input").events, Saved(Identity, "result"), k)
<1>1. \E evidence, class, decision :
        Origin[k] = [evidence |-> evidence, class |-> class, decision |-> decision,
                     matches |-> {}, signals |-> {}, analysed |-> FALSE,
                     done |-> bad, failed |-> bad, published |-> FALSE]
  BY DEF Origin, Resolved
<1> HIDE DEF bad
<1>2. \A evidence, class, decision :
        LET o == [evidence |-> evidence, class |-> class, decision |-> decision,
                     matches |-> {}, signals |-> {}, analysed |-> FALSE,
                     done |-> bad, failed |-> bad, published |-> FALSE]
        IN /\ DOMAIN o = EntryFields /\ o.matches = {} /\ o.signals = {}
           /\ o.analysed = FALSE /\ o.published = FALSE /\ o.done = bad /\ o.failed = bad
  BY DEF EntryFields
<1>3. /\ DOMAIN Origin[k] = EntryFields
         /\ Origin[k].matches = {} /\ Origin[k].signals = {}
         /\ Origin[k].analysed = FALSE /\ Origin[k].published = FALSE
         /\ Origin[k].done = bad /\ Origin[k].failed = bad
  BY <1>1, <1>2
<1> QED BY <1>3 DEF bad

\* What the barrier makes of them.
LEMMA JoinedEntries ==
  ASSUME CheckpointsInv, JournalKey \in DOMAIN disk, Journal = Associated(Origin),
         \A s \in MatchStages : Has(s, "result")
  PROVE  \A k \in DOMAIN Journal : EntryInv(k)
<1>1. Has(Identity, "result") /\ DOMAIN Journal = DOMAIN Saved(Identity, "input").events
  BY DEF CheckpointsInv, JournalKept
<1>2. DOMAIN Journal = DOMAIN Origin
  BY DEF Associated
<1> SUFFICES ASSUME NEW k \in DOMAIN Journal  PROVE EntryInv(k)
  OBVIOUS
<1> DEFINE o == Origin[k]
           e == Journal[k]
           bad == NonCompliant(Saved(Identity, "input").events, Saved(Identity, "result"), k)
<1>3. e = Joined(o, PairsOf(k), RejectionsOf(k))
  BY <1>2 DEF Associated
<1>4. /\ DOMAIN o = EntryFields /\ o.matches = {} /\ o.signals = {}
      /\ o.analysed = FALSE /\ o.published = FALSE /\ o.done = bad /\ o.failed = bad
  BY <1>2, OriginEntries
<1>5. bad \in BOOLEAN
  BY DEF NonCompliant
<1> HIDE DEF bad, o, e
<1>6. /\ DOMAIN e = EntryFields
      /\ e.matches = PairsOf(k)
      /\ e.done = (o.done \/ (o.failed \/ RejectionsOf(k) # {}) \/ PairsOf(k) = {})
      /\ e.failed = (o.failed \/ RejectionsOf(k) # {})
      /\ e.decision = IF /\ o.done \/ (o.failed \/ RejectionsOf(k) # {}) \/ PairsOf(k) = {}
                         /\ ~(o.failed \/ RejectionsOf(k) # {}) /\ Publishable(o)
                      THEN "IGNORED" ELSE o.decision
      /\ e.evidence = o.evidence /\ e.class = o.class /\ e.signals = o.signals
      /\ e.analysed = o.analysed /\ e.published = o.published
  BY <1>3, <1>4, <1>5, JoinedChanges
<1>7. bad \/ RejectionsOf(k) # {} => Condemned(k)
  <2>1. bad => Disqualified(k)
    BY <1>1, IdentitiesFrozen DEF bad, Disqualified
  <2>2. RejectionsOf(k) # {} => \E s \in MatchStages : BadMatch(s, k)
    BY RejectedIsBad DEF RejectionsOf
  <2> QED BY <2>1, <2>2, Verdicts
<1>8. /\ {e.analysed, e.done, e.failed, e.published} \subseteq BOOLEAN
      /\ ~e.done => e.decision = o.decision
      /\ e.failed => e.done /\ ~e.published /\ (bad \/ RejectionsOf(k) # {})
      /\ bad => e.failed
      /\ ~e.analysed /\ ~e.published /\ e.signals = {}
      /\ ~e.done => e.matches # {}
      /\ RejectionsOf(k) # {} => e.failed
  BY <1>4, <1>5, <1>6
<1> QED BY <1>6, <1>7, <1>8 DEF EntryInv, e, o, bad

\* A result is about what the stage was offered.
LEMMA ResultsOffered ==
  ASSUME CheckpointsInv, NEW s \in MatchStages, Has(s, "result"), NEW k \in DOMAIN MatchResult(s)
  PROVE  /\ Has(s, "input") /\ k \in DOMAIN Saved(s, "input").events
         /\ MatchResult(s)[k] \subseteq Saved(s, "input").events[k]
<1>1. MatchKept(s) /\ Shape(s)
  BY Shapes, AskingStages DEF CheckpointsInv
<1>2. MatchResult(s) = Saved(s, "result")
  BY DEF MatchResult, Frozen
<1>3. CASE Unasked(s)
  BY <1>1, <1>2, <1>3 DEF Unasked, MatchKept
<1>4. CASE Has(s, "rejections") /\ Saved(s, "result") = Scoped(Saved(s, "input").events, RawOf(s))
  <2>1. Has(s, "raw") /\ DOMAIN RawOf(s) = DOMAIN Saved(s, "input").events
    BY <1>1, <1>4, AskingStages DEF Shape
  <2> QED BY <2>1, <1>1, <1>2, <1>4 DEF Scoped, Covered, MatchKept
<1> QED BY <1>1, <1>3, <1>4 DEF MatchKept

\* An Event with matches was found worth publishing, and they were offered.
LEMMA MatchesOffered ==
  ASSUME CheckpointsInv, OffersInv, \A s \in MatchStages : Has(s, "result"),
         NEW k, PairsOf(k) # {}
  PROVE  /\ k \in DOMAIN Origin /\ Publishable(Origin[k]) /\ ~Origin[k].done
         /\ Origin[k].class \in Classes
         /\ PairsOf(k) \subseteq
              UNION {Saved(s, "input").events[k] :
                       s \in {s \in MatchStages : Has(s, "input") /\ k \in DOMAIN Saved(s, "input").events}}
<1>1. \A g \in Classes : Match(g) \in MatchStages
  BY StageKinds
<1>2. ASSUME NEW g \in Classes, k \in DOMAIN MatchResult(Match(g))
      PROVE  k \in EventsOf(Origin, g)
  BY <1>1, <1>2, ResultsOffered DEF OffersInv
<1>3. PICK s \in MatchStages : k \in DOMAIN MatchResult(s)
  BY DEF PairsOf
<1>4. \E g \in Classes : k \in EventsOf(Origin, g)
  <2>1. CASE s = Match("node")
    <3>1. Has(s, "input") /\ k \in DOMAIN Saved(s, "input").events
      BY <1>3, ResultsOffered
    <3>2. k \in DOMAIN Saved(Match("chain"), "result")
      BY <3>1, <2>1 DEF OffersInv
    <3>3. "chain" \in Classes
      BY GroupsAssumption DEF Classes
    <3>4. k \in DOMAIN MatchResult(Match("chain"))
      BY <3>2, <3>3, <1>1 DEF MatchResult, Frozen
    <3> QED BY <3>3, <3>4, <1>2
  <2>2. ASSUME NEW g \in Classes, s = Match(g)  PROVE \E h \in Classes : k \in EventsOf(Origin, h)
    BY <2>2, <1>2, <1>3
  <2> QED BY <2>1, <2>2 DEF MatchStages
<1>5. k \in DOMAIN Origin /\ Publishable(Origin[k]) /\ ~Origin[k].done /\ Origin[k].class \in Classes
  BY <1>4 DEF EventsOf
<1>6. \A t \in MatchStages : k \in DOMAIN MatchResult(t) =>
        /\ Has(t, "input") /\ k \in DOMAIN Saved(t, "input").events
        /\ MatchResult(t)[k] \subseteq Saved(t, "input").events[k]
  BY ResultsOffered
<1> QED BY <1>5, <1>6 DEF PairsOf

\* An open Event of a batch with its matches is of some class.
LEMMA OpenEvents ==
  ASSUME CheckpointsInv, OffersInv, JournalInv, AssociationsReady, JournalKey \in DOMAIN disk,
         NEW k \in DOMAIN Journal, ~Journal[k].done
  PROVE  Journal[k].class \in Classes /\ k \in EventsOf(Journal, Journal[k].class)
<1>1. EntryInv(k)
  BY DEF JournalInv
<1>2. PairsOf(k) # {} /\ Journal[k].decision = Origin[k].decision /\ Journal[k].class = Origin[k].class
  BY <1>1 DEF EntryInv
<1>3. Publishable(Origin[k]) /\ Origin[k].class \in Classes
  BY <1>2, MatchesOffered DEF CheckpointsInv
<1> QED BY <1>2, <1>3 DEF EventsOf, Publishable

-----------------------------------------------------------------------------
(* What the other half of the invariant says, step by step.                *)

\* What an entry with its matches is judged by.
LEMMA EntryContext ==
  ASSUME CheckpointsInv, CheckpointsInv', Grows, JournalKey \in DOMAIN disk, AssociationsReady
  PROVE  /\ AssociationsReady' /\ JournalKey \in DOMAIN disk'
         /\ Origin' = Origin
         /\ \A k : PairsOf(k)' = PairsOf(k) /\ RejectionsOf(k)' = RejectionsOf(k)
         /\ Saved(Identity, "input")' = Saved(Identity, "input")
         /\ Saved(Identity, "result")' = Saved(Identity, "result")
         /\ \A s : Has(s, "input") => Has(s, "input")' /\ Saved(s, "input")' = Saved(s, "input")
         /\ Has(Publication, "package") =>
              /\ Has(Publication, "package")'
              /\ Saved(Publication, "package")' = Saved(Publication, "package")
<1>1. \A s \in MatchStages : Has(s, "result")
  BY DEF CheckpointsInv
<1>2. AssociationsReady'
  BY KeptParts DEF AssociationsReady
<1>3. JournalKey \in DOMAIN disk'
  BY DEF Grows
<1>4. \A k : PairsOf(k)' = PairsOf(k) /\ RejectionsOf(k)' = RejectionsOf(k)
  BY <1>1, MatchesStay
<1> QED BY <1>2, <1>3, <1>4, OriginStays, KeptParts

LEMMA EntryStays ==
  ASSUME CheckpointsInv, CheckpointsInv', Grows, JournalKey \in DOMAIN disk, AssociationsReady,
         NEW k, EntryInv(k), Journal[k]' = Journal[k]
  PROVE  EntryInv(k)'
<1> DEFINE e == Journal[k]
<1>1. e' = e
  OBVIOUS
<1>2. Condemned(k) => Condemned(k)'
  BY CondemnedStays DEF Refused
<1>3. /\ Origin' = Origin
      /\ PairsOf(k)' = PairsOf(k) /\ RejectionsOf(k)' = RejectionsOf(k)
      /\ Saved(Identity, "input")' = Saved(Identity, "input")
      /\ Saved(Identity, "result")' = Saved(Identity, "result")
      /\ Has(Publication, "package") => Has(Publication, "package")'
      /\ \A s : Has(s, "input") => Has(s, "input")' /\ Saved(s, "input")' = Saved(s, "input")
  BY EntryContext
<1>4. Has(Signal(e.class), "input") =>
        /\ Has(Signal(e.class), "input")'
        /\ Saved(Signal(e.class), "input")' = Saved(Signal(e.class), "input")
  <2>1. PICK c : c = e.class
    OBVIOUS
  <2>2. Has(Signal(c), "input") =>
          Has(Signal(c), "input")' /\ Saved(Signal(c), "input")' = Saved(Signal(c), "input")
    BY <1>3
  <2> QED BY <1>1, <2>1, <2>2 DEF Has, Saved, Signal, At
<1> QED BY <1>1, <1>2, <1>3, <1>4 DEF EntryInv

LEMMA OffersKept ==
  ASSUME CheckpointsInv, CheckpointsInv', Grows, OffersInv,
         \A g \in Classes :
           Has(Match(g), "input")' /\ ~Has(Match(g), "input") =>
             DOMAIN Saved(Match(g), "input").events' = EventsOf(Origin', g),
         Has(Match("node"), "input")' /\ ~Has(Match("node"), "input") =>
           DOMAIN Saved(Match("node"), "input").events' = DOMAIN Saved(Match("chain"), "result")' \ Rejected(Match("chain"))'
  PROVE  OffersInv'
<1>1. \A s : Has(s, "input") => Saved(s, "input")' = Saved(s, "input")
  BY KeptParts
<1>2. ASSUME NEW g \in Classes, Has(Match(g), "input")'
      PROVE  DOMAIN Saved(Match(g), "input").events' = EventsOf(Origin', g)
  <2>1. CASE Has(Match(g), "input")
    <3>1. JournalKey \in DOMAIN disk
      BY <2>1, StageKinds DEF CheckpointsInv, MatchKept
    <3> QED BY <2>1, <3>1, <1>1, OriginStays DEF OffersInv
  <2> QED BY <2>1, <1>2
<1>3. ASSUME Has(Match("node"), "input")'
      PROVE  DOMAIN Saved(Match("node"), "input").events' = DOMAIN Saved(Match("chain"), "result")' \ Rejected(Match("chain"))'
  <2>1. CASE Has(Match("node"), "input")
    <3>1. Has(Match("chain"), "result") /\ Match("chain") \in Asking /\ Match("chain") # Identity
      BY <2>1, StageKinds, AskingStages DEF CheckpointsInv
    <3>2. PICK s : s = Match("chain")
      OBVIOUS
    <3>3. Fixedly(s, "result") /\ Fixedly(s, "parse") /\ Fixedly(s, "rejections") /\ Has(s, "result")
      BY <3>1, <3>2, ResultFixed
    <3>4. Saved(s, "result")' = Saved(s, "result") /\ Rejected(s)' = Rejected(s)
      BY <3>3 DEF Fixedly, Rejected, Frozen
    <3>5. Saved(Match("chain"), "result")' = Saved(s, "result") /\ Rejected(Match("chain"))' = Rejected(s)
      BY <3>4, <3>2 DEF Match
    <3> QED BY <2>1, <3>2, <3>5, <1>1 DEF OffersInv
  <2> QED BY <2>1, <1>3
<1>4. /\ \A g : Match(g)' = Match(g)
      /\ Classes' = Classes
  BY DEF Match, Classes
<1> QED BY <1>2, <1>3, <1>4 DEF OffersInv

LEMMA BarrierJournal ==
  ASSUME CheckpointsInv, AssociationsReady
  PROVE  JournalKey \in DOMAIN disk
<1>1. "chain" \in Classes
  BY GroupsAssumption DEF Classes
<1>2. PICK s \in MatchStages : TRUE
  BY <1>1, StageKinds
<1> QED BY <1>2 DEF CheckpointsInv, MatchKept

\* A journal that is left as it is, or opened.
LEMMA JournalStill ==
  ASSUME CheckpointsInv, CheckpointsInv', Grows, JournalInv,
         AssociationsReady' => AssociationsReady,
         JournalKey \in DOMAIN disk => Journal' = Journal,
         JournalKey \in DOMAIN disk' /\ JournalKey \notin DOMAIN disk => Journal' = Origin'
  PROVE  JournalInv'
<1>1. AssociationsReady => JournalKey \in DOMAIN disk
  BY BarrierJournal
<1>2. AssociationsReady => AssociationsReady'
  BY KeptParts DEF AssociationsReady
<1> SUFFICES ASSUME JournalKey \in DOMAIN disk'
             PROVE  IF AssociationsReady' THEN \A k \in DOMAIN Journal' : EntryInv(k)'
                    ELSE \/ Journal' = Origin'
                         \/ /\ Journal' = Associated(Origin)'
                            /\ \A s \in MatchStages : Has(s, "result")'
  BY DEF JournalInv, MatchStages, Match
<1>3. CASE AssociationsReady
  <2>1. Journal' = Journal /\ \A k \in DOMAIN Journal : EntryInv(k)
    BY <1>1, <1>3 DEF JournalInv
  <2>2. \A k \in DOMAIN Journal : EntryInv(k)'
    BY <1>1, <1>3, <2>1, EntryStays
  <2> QED BY <1>2, <1>3, <2>1, <2>2
<1>4. CASE ~AssociationsReady /\ JournalKey \in DOMAIN disk
  <2>1. Origin' = Origin /\ Journal' = Journal
    BY <1>4, OriginStays
  <2>2. CASE Journal = Origin
    BY <2>1, <2>2, <1>4
  <2>3. CASE Journal = Associated(Origin) /\ \A s \in MatchStages : Has(s, "result")
    <3>1. \A journal : Associated(journal)' = Associated(journal)
      BY <2>3, MatchesStay
    <3>2. Associated(Origin)' = Associated(Origin)
      <4>1. PICK o : o = Origin
        OBVIOUS
      <4>2. o = Origin' /\ Associated(o)' = Associated(o)
        BY <4>1, <2>1, <3>1
      <4> QED BY <4>1, <4>2, <3>1, <2>1 DEF Associated
    <3>3. \A s \in MatchStages : Has(s, "result")'
      BY <2>3, KeptParts
    <3> QED BY <2>1, <2>3, <3>2, <3>3, <1>4
  <2> QED BY <2>2, <2>3, <1>4 DEF JournalInv
<1>5. CASE ~AssociationsReady /\ JournalKey \notin DOMAIN disk
  BY <1>5
<1> QED BY <1>3, <1>4, <1>5

\* A journal that closes Events and takes nothing back.
Advances ==
  /\ DOMAIN Journal' = DOMAIN Journal
  /\ \A k \in DOMAIN Journal :
       LET e == Journal[k]
           f == Journal'[k]
       IN  /\ f.class = e.class /\ f.decision = e.decision /\ f.evidence = e.evidence
           /\ e.done => f.done
           /\ e.failed => f.failed
           /\ e.analysed => f.analysed

LEMMA ClassStays ==
  ASSUME CheckpointsInv, NEW g \in Classes, ClassInv(g), Stays(Signal(g)),
         Has(Signal(g), "input") => Advances
  PROVE  ClassInv(g)'
<1> DEFINE s == Signal(g)
<1>1. \A part : /\ Has(s, part)' <=> Has(s, part)
                /\ Has(s, part) => Saved(s, part)' = Saved(s, part)
  BY StaysPut
<1>2. SignalKept(s) /\ Shape(s)
  BY StageKinds, Shapes, AskingStages DEF CheckpointsInv
<1>3. CASE ~Has(s, "input")
  <2>1. ~Has(s, "rejections") /\ ~Has(s, "complete")
    BY <1>2, <1>3 DEF SignalKept, Answered, Asked
  <2> QED BY <2>1, <1>1, <1>3 DEF ClassInv
<1>4. CASE Has(s, "input")
  <2> DEFINE input == Saved(s, "input").events
  <2>1. /\ Has(s, "input")' /\ Saved(s, "input").events' = input
        /\ Has(s, "rejections")' <=> Has(s, "rejections")
        /\ Has(s, "rejections")' => RawOf(s)' = RawOf(s)
        /\ Has(s, "complete")' <=> Has(s, "complete")
    BY <1>1, <1>2, <1>4, AskingStages DEF SignalKept, RawOf
  <2>2. \A k \in DOMAIN input : k \in DOMAIN Journal' /\ Journal'[k].class = g
    BY <1>4 DEF ClassInv, Advances
  <2>3. \A k \in EventsOf(Journal', g) : k \in EventsOf(Journal, g)
    BY <1>4 DEF EventsOf, Advances, Publishable
  <2>4. \A k \in EventsOf(Journal', g) : k \in DOMAIN input
    BY <2>3, <1>4 DEF ClassInv
  <2>5. Has(s, "rejections") => DOMAIN RawOf(s) = DOMAIN input
    BY <1>2 DEF SignalKept, Answered
  <2>6. Has(s, "rejections") =>
          \A k \in DOMAIN RawOf(s) :
            RawOf(s)[k] = None \/ k \in FaultyRows(input, RawOf(s)) => Journal'[k].failed
    BY <1>4, <2>5 DEF ClassInv, Advances
  <2>7. Has(s, "complete") => \A k \in DOMAIN input : Journal'[k].done \/ Journal'[k].analysed
    BY <1>4 DEF ClassInv, Advances
  <2> HIDE DEF s
  <2>8. ClassInv(g)' <=>
          /\ Has(s, "input")' =>
               /\ \A k \in DOMAIN Saved(s, "input").events' : k \in DOMAIN Journal' /\ Journal'[k].class = g
               /\ \A k \in EventsOf(Journal', g) : k \in DOMAIN Saved(s, "input").events'
          /\ Has(s, "rejections")' =>
               \A k \in DOMAIN RawOf(s)' :
                 RawOf(s)'[k] = None \/ k \in FaultyRows(Saved(s, "input").events', RawOf(s)') => Journal'[k].failed
          /\ Has(s, "complete")' =>
               \A k \in DOMAIN Saved(s, "input").events' : Journal'[k].done \/ Journal'[k].analysed
    BY DEF ClassInv, s
  <2> QED BY <2>1, <2>2, <2>4, <2>6, <2>7, <2>8
<1> QED BY <1>3, <1>4

LEMMA PackageStays ==
  ASSUME CheckpointsInv, Grows, PackageInv,
         Has(Publication, "package")' => Has(Publication, "package"),
         Has(Publication, "package") => Advances
  PROVE  PackageInv'
<1> SUFFICES ASSUME Has(Publication, "package")
             PROVE  /\ AssociationsReady' /\ Remaining' = {}
                    /\ \A k \in DOMAIN Journal' :
                         Saved(Publication, "package")'[k].evidence = Journal'[k].evidence
  BY DEF PackageInv
<1>1. AssociationsReady'
  BY KeptParts DEF PackageInv, AssociationsReady
<1>2. Remaining' = {}
  BY KeptParts DEF PackageInv, Remaining
<1>3. Saved(Publication, "package")' = Saved(Publication, "package")
  BY KeptParts
<1> QED BY <1>1, <1>2, <1>3 DEF PackageInv, Advances

LEMMA SameJournal ==
  ASSUME Journal' = Journal
  PROVE  Advances
BY DEF Advances

\* The other half of the invariant, but for what is recorded at the end.
RestInv ==
  /\ OffersInv /\ JournalInv /\ PackageInv
  /\ \A g \in Classes : ClassInv(g)

LEMMA ClassesStay ==
  ASSUME CheckpointsInv, \A g \in Classes : ClassInv(g),
         \A s \in SignalStages : Stays(s),
         JournalKey \in DOMAIN disk /\ AssociationsReady => Advances
  PROVE  (\A g \in Classes : ClassInv(g))'
<1>1. ASSUME NEW g \in Classes  PROVE ClassInv(g)'
  <2>1. Stays(Signal(g)) /\ SignalKept(Signal(g))
    BY StageKinds DEF CheckpointsInv
  <2>2. Has(Signal(g), "input") => Advances
    BY <2>1 DEF SignalKept
  <2> QED BY <2>1, <2>2, ClassStays
<1> QED BY <1>1 DEF Classes

LEMMA UntouchedRest ==
  ASSUME CheckpointsInv, CheckpointsInv', Grows, RestInv, Untouched
  PROVE  RestInv'
<1>1. /\ Stays(Associations) /\ Stays(Publication)
      /\ \A s \in MatchStages \cup SignalStages : Stays(s)
  BY StageKinds, Kinds DEF Untouched
<1>2. AssociationsReady' => AssociationsReady
  BY <1>1, StaysPut DEF AssociationsReady
<1>3. \A s \in MatchStages : Has(s, "input")' <=> Has(s, "input")
  BY <1>1, StaysPut
<1>4. OffersInv'
  <2>1. \A g \in Classes : Match(g) \in MatchStages
    BY StageKinds
  <2>2. Match("node") \in MatchStages
    BY StageKinds
  <2> QED BY <1>3, <2>1, <2>2, OffersKept DEF RestInv
<1>5. JournalInv'
  BY <1>2, JournalStill DEF RestInv, Untouched
<1>6. (\A g \in Classes : ClassInv(g))'
  BY <1>1, SameJournal, ClassesStay DEF RestInv, Untouched
<1>7. PackageInv'
  <2>1. Has(Publication, "package")' => Has(Publication, "package")
    BY <1>1, StaysPut
  <2>2. Has(Publication, "package") => Advances
    BY BarrierJournal, SameJournal DEF RestInv, PackageInv, Untouched
  <2> QED BY <2>1, <2>2, PackageStays DEF RestInv
<1> QED BY <1>4, <1>5, <1>6, <1>7 DEF RestInv

LEMMA MatchesRest ==
  ASSUME CheckpointsInv, CheckpointsInv', Grows, RestInv, MatchesAsked
  PROVE  RestInv'
<1>1. Stays(Associations) /\ Stays(Publication) /\ Stays(Match("node")) /\ \A s \in SignalStages : Stays(s)
  <2>1. /\ Associations # Identity /\ Publication # Identity /\ Match("node") # Identity
        /\ \A g \in Classes : Associations # Match(g) /\ Publication # Match(g) /\ Match("node") # Match(g)
        /\ \A s \in SignalStages : s # Identity /\ \A g \in Classes : s # Match(g)
    BY StageKinds, Kinds
  <2> QED BY <2>1, StageKinds DEF MatchesAsked
<1>2. AssociationsReady' => AssociationsReady
  BY <1>1, StaysPut DEF AssociationsReady
<1>3. JournalInv'
  BY <1>2, JournalStill DEF RestInv, MatchesAsked
<1>4. OffersInv'
  <2>1. Has(Match("node"), "input")' => Has(Match("node"), "input")
    BY <1>1, StaysPut
  <2>2. ASSUME NEW g \in Classes, Has(Match(g), "input")', ~Has(Match(g), "input")
        PROVE  DOMAIN Saved(Match(g), "input").events' = EventsOf(Origin', g)
    <3>1. DOMAIN Saved(Match(g), "input").events' = EventsOf(Opened, g)
      BY <2>2 DEF MatchesAsked
    <3>2. JournalKey \in DOMAIN disk'
      <4>1. Match(g) \in MatchStages /\ MatchStages' = MatchStages
        BY StageKinds DEF MatchStages, Match
      <4>2. MatchKept(Match(g))'
        BY <4>1 DEF CheckpointsInv, MatchStages, Match
      <4> QED BY <2>2, <4>2 DEF MatchKept
    <3>3. CASE JournalKey \notin DOMAIN disk
      BY <3>1, <3>2, <3>3 DEF MatchesAsked
    <3>4. CASE JournalKey \in DOMAIN disk
      <4>1. ~\A s \in MatchStages : Has(s, "result")
        <5>1. Match(g) \in MatchStages /\ MatchKept(Match(g))
          BY StageKinds DEF CheckpointsInv
        <5> QED BY <5>1, <2>2 DEF MatchKept
      <4>2. Journal = Origin
        BY <3>4, <4>1 DEF RestInv, JournalInv, CheckpointsInv
      <4>3. Origin' = Origin
        BY <3>4, OriginStays
      <4> QED BY <3>1, <3>4, <4>2, <4>3 DEF MatchesAsked
    <3> QED BY <3>3, <3>4
  <2> QED BY <2>1, <2>2, OffersKept DEF RestInv
<1>5. (\A g \in Classes : ClassInv(g))'
  BY <1>1, SameJournal, ClassesStay DEF RestInv, MatchesAsked
<1>6. PackageInv'
  <2>1. Has(Publication, "package")' => Has(Publication, "package")
    BY <1>1, StaysPut
  <2>2. Has(Publication, "package") => Advances
    BY BarrierJournal, SameJournal DEF RestInv, PackageInv, MatchesAsked
  <2> QED BY <2>1, <2>2, PackageStays DEF RestInv
<1> QED BY <1>3, <1>4, <1>5, <1>6 DEF RestInv

LEMMA NodesRest ==
  ASSUME CheckpointsInv, CheckpointsInv', Grows, RestInv, NodesAsked
  PROVE  RestInv'
<1>1. /\ Stays(Associations) /\ Stays(Publication) /\ \A s \in SignalStages : Stays(s)
      /\ \A g \in Classes : Match(g) # Match("chain") => Stays(Match(g))
  BY StageKinds, Kinds DEF NodesAsked
<1>2. AssociationsReady' => AssociationsReady
  BY <1>1, StaysPut DEF AssociationsReady
<1>3. JournalInv'
  BY <1>2, JournalStill DEF RestInv, NodesAsked
<1>4. OffersInv'
  <2>1. ASSUME NEW g \in Classes  PROVE Has(Match(g), "input")' => Has(Match(g), "input")
    BY <1>1, StaysPut DEF NodesAsked
  <2> QED BY <2>1, OffersKept DEF RestInv, NodesAsked
<1>5. (\A g \in Classes : ClassInv(g))'
  BY <1>1, SameJournal, ClassesStay DEF RestInv, NodesAsked
<1>6. PackageInv'
  <2>1. Has(Publication, "package")' => Has(Publication, "package")
    BY <1>1, StaysPut
  <2>2. Has(Publication, "package") => Advances
    BY BarrierJournal, SameJournal DEF RestInv, PackageInv, NodesAsked
  <2> QED BY <2>1, <2>2, PackageStays DEF RestInv
<1> QED BY <1>3, <1>4, <1>5, <1>6 DEF RestInv

\* Joining twice changes nothing.
LEMMA JoinedTwice ==
  Associated(Associated(Origin)) = Associated(Origin)
<1>1. ASSUME NEW k \in DOMAIN Origin
      PROVE  Joined(Joined(Origin[k], PairsOf(k), RejectionsOf(k)), PairsOf(k), RejectionsOf(k))
               = Joined(Origin[k], PairsOf(k), RejectionsOf(k))
  <2> DEFINE bad == NonCompliant(Saved(Identity, "input").events, Saved(Identity, "result"), k)
  <2>1. PICK o, pairs, rejections : o = Origin[k] /\ pairs = PairsOf(k) /\ rejections = RejectionsOf(k)
    OBVIOUS
  <2>2. /\ DOMAIN o = EntryFields
        /\ o.done = bad /\ o.failed = bad
    BY <2>1, OriginEntries
  <2>3. bad \in BOOLEAN
    BY DEF NonCompliant
  <2> HIDE DEF bad
  <2>4. /\ "done" \in DOMAIN o /\ "failed" \in DOMAIN o /\ "matches" \in DOMAIN o /\ "decision" \in DOMAIN o
    BY <2>2 DEF EntryFields
  <2> DEFINE f == Joined(o, pairs, rejections)
             ended == bad \/ rejections # {} \/ pairs = {}
  <2>5. Joined(f, pairs, rejections) = f
    <3>1. /\ f = [o EXCEPT !.matches = pairs, !.decision = f.decision, !.done = f.done, !.failed = f.failed]
          /\ f.done = (o.done \/ (o.failed \/ rejections # {}) \/ pairs = {})
          /\ f.failed = (o.failed \/ rejections # {})
          /\ f.decision \in {"IGNORED", o.decision} /\ f.matches = pairs /\ DOMAIN f = DOMAIN o
          /\ (f.decision # o.decision) => f.decision = "IGNORED"
          /\ f.done /\ ~f.failed /\ Publishable(o) => f.decision = "IGNORED"
      BY <2>2, <2>3, <2>4 DEF Joined
    <3> QED BY <2>2, <2>3, <2>4, <3>1 DEF Joined, Publishable
  <2> QED BY <2>1, <2>5
<1> QED BY <1>1 DEF Associated

LEMMA JoinedInv ==
  /\ CheckpointsInv /\ JournalKey \in DOMAIN disk /\ Journal = Associated(Origin)
  /\ \A s \in MatchStages : Has(s, "result")
  => \A k \in DOMAIN Journal : EntryInv(k)
BY JoinedEntries

LEMMA JoinedNext ==
  ASSUME CheckpointsInv', JournalKey \in DOMAIN disk', Journal' = Associated(Origin)',
         \A s \in MatchStages : Has(s, "result")'
  PROVE  \A k \in DOMAIN Journal' : EntryInv(k)'
<1>1. (/\ CheckpointsInv /\ JournalKey \in DOMAIN disk /\ Journal = Associated(Origin)
       /\ \A s \in MatchStages : Has(s, "result")
       => \A k \in DOMAIN Journal : EntryInv(k))'
  BY JoinedInv, PTL
<1>2. JournalKey' = JournalKey /\ MatchStages' = MatchStages
  BY DEF JournalKey, MatchStages, Match
<1> QED BY <1>1, <1>2

LEMMA CollectedRest ==
  ASSUME CheckpointsInv, CheckpointsInv', Grows, RestInv, Collected
  PROVE  RestInv'
<1>1. /\ Stays(Publication)
      /\ \A s \in SignalStages : Stays(s)
  BY StageKinds, Kinds DEF Collected
<1>2. OffersInv'
  <2>1. Match("node") \in MatchStages /\ \A g \in Classes : Match(g) \in MatchStages
    BY StageKinds
  <2>2. \A s \in MatchStages : Has(s, "input")' <=> Has(s, "input")
    BY DEF Collected
  <2> QED BY <2>1, <2>2, OffersKept DEF RestInv
<1>3. JournalInv'
  <2>1. SUFFICES ASSUME JournalKey \in DOMAIN disk, JournalKey \in DOMAIN disk'  PROVE JournalInv'
    BY DEF Collected, JournalInv
  <2>2. CASE Journal' = Journal /\ (AssociationsReady' => AssociationsReady)
    BY <2>1, <2>2, JournalStill DEF RestInv
  <2>3. CASE Journal' = Associated(Journal) /\ ~AssociationsReady /\ \A s \in MatchStages : Has(s, "result")'
    <3>1. \A s \in MatchStages : MatchResult(s)' = MatchResult(s) /\ Rejected(s)' = Rejected(s)
      BY <2>3 DEF Collected, MatchResult, Frozen
    <3>2. \A k : PairsOf(k)' = PairsOf(k)
      BY <3>1 DEF PairsOf, MatchStages, Match
    <3>3. \A k : RejectionsOf(k)' = RejectionsOf(k)
      BY <3>1 DEF RejectionsOf, MatchStages, Match
    <3>4. Origin' = Origin
      BY <2>1, OriginStays
    <3>5. Associated(Origin)' = Associated(Origin)
      BY <3>2, <3>3, <3>4 DEF Associated
    <3>6. Journal' = Associated(Origin)'
      BY <2>1, <2>3, <3>5, JoinedTwice DEF RestInv, JournalInv
    <3>7. \A k \in DOMAIN Journal' : EntryInv(k)'
      BY <2>1, <2>3, <3>6, JoinedNext
    <3>8. MatchStages' = MatchStages
      BY DEF MatchStages, Match
    <3> QED BY <2>3, <3>6, <3>7, <3>8 DEF JournalInv
  <2>4. AssociationsReady' => \A s \in MatchStages : Has(s, "result")'
    BY DEF CheckpointsInv, MatchStages, Match
  <2> QED BY <2>1, <2>2, <2>3, <2>4 DEF Collected
<1>4. AssociationsReady => Journal' = Journal
  BY BarrierJournal DEF Collected
<1>5. (\A g \in Classes : ClassInv(g))'
  BY <1>1, <1>4, SameJournal, ClassesStay DEF RestInv
<1>6. PackageInv'
  <2>1. Has(Publication, "package")' => Has(Publication, "package")
    BY <1>1, StaysPut
  <2>2. Has(Publication, "package") => Advances
    BY <1>4, SameJournal DEF RestInv, PackageInv
  <2> QED BY <2>1, <2>2, PackageStays DEF RestInv
<1> QED BY <1>2, <1>3, <1>5, <1>6 DEF RestInv

LEMMA AskedRest ==
  ASSUME CheckpointsInv, CheckpointsInv', Grows, RestInv, SignalsAsked
  PROVE  RestInv'
<1>1. /\ Stays(Associations) /\ Stays(Publication)
      /\ \A s \in MatchStages : Stays(s)
  BY StageKinds, Kinds DEF SignalsAsked
<1>2. AssociationsReady' => AssociationsReady
  BY <1>1, StaysPut DEF AssociationsReady
<1>3. JournalInv'
  BY <1>2, JournalStill DEF RestInv, SignalsAsked
<1>4. OffersInv'
  <2>1. Match("node") \in MatchStages /\ \A g \in Classes : Match(g) \in MatchStages
    BY StageKinds
  <2>2. \A s \in MatchStages : Has(s, "input")' <=> Has(s, "input")
    BY <1>1, StaysPut
  <2> QED BY <2>1, <2>2, OffersKept DEF RestInv
<1>5. PackageInv'
  <2>1. Has(Publication, "package")' => Has(Publication, "package")
    BY <1>1, StaysPut
  <2>2. Has(Publication, "package") => Advances
    BY BarrierJournal, SameJournal DEF RestInv, PackageInv, SignalsAsked
  <2> QED BY <2>1, <2>2, PackageStays DEF RestInv
<1>6. ASSUME NEW g \in Classes  PROVE ClassInv(g)'
  <2> DEFINE s == Signal(g)
  <2>1. /\ Has(s, "input") => Has(s, "input")' /\ Saved(s, "input")' = Saved(s, "input")
        /\ Has(s, "input")' /\ ~Has(s, "input") => DOMAIN Saved(s, "input").events' = EventsOf(Journal, g)
        /\ \A part : part \notin {"input", "result"} =>
             /\ Has(s, part)' <=> Has(s, part)
             /\ Has(s, part) => Saved(s, part)' = Saved(s, part)
    BY DEF SignalsAsked
  <2>2. /\ Has(s, "rejections")' <=> Has(s, "rejections")
        /\ Has(s, "complete")' <=> Has(s, "complete")
        /\ Has(s, "raw") => RawOf(s)' = RawOf(s)
    BY <2>1 DEF RawOf
  <2>3. SignalKept(s) /\ SignalKept(s)'
    <3>1. s \in SignalStages /\ SignalStages' = SignalStages
      BY StageKinds DEF SignalStages, Signal
    <3> QED BY <3>1 DEF CheckpointsInv
  <2>4. ClassInv(g)
    BY DEF RestInv
  <2>5. Has(s, "input")' => JournalKey \in DOMAIN disk /\ Journal' = Journal
    BY <2>3 DEF SignalKept, SignalsAsked
  <2>6. /\ Has(s, "rejections") => Has(s, "raw") /\ Has(s, "input")
        /\ Has(s, "complete") => Has(s, "input")
    BY <2>3 DEF SignalKept, Answered, Asked
  <2>7. Has(s, "input")' =>
          /\ \A k \in DOMAIN Saved(s, "input").events' : k \in DOMAIN Journal /\ Journal[k].class = g
          /\ \A k \in EventsOf(Journal, g) : k \in DOMAIN Saved(s, "input").events'
    <3>1. CASE Has(s, "input")
      BY <3>1, <2>1, <2>4 DEF ClassInv
    <3>2. CASE ~Has(s, "input")
      BY <3>2, <2>1 DEF EventsOf
    <3> QED BY <3>1, <3>2
  <2>8. Has(s, "rejections")' =>
          \A k \in DOMAIN RawOf(s)' :
            RawOf(s)'[k] = None \/ k \in FaultyRows(Saved(s, "input").events', RawOf(s)') => Journal[k].failed
    BY <2>1, <2>2, <2>4, <2>6 DEF ClassInv
  <2>9. Has(s, "complete")' => \A k \in DOMAIN Saved(s, "input").events' : Journal[k].done \/ Journal[k].analysed
    BY <2>1, <2>2, <2>4, <2>6 DEF ClassInv
  <2>10. Has(s, "rejections")' \/ Has(s, "complete")' => Has(s, "input")'
    BY <2>1, <2>2, <2>6
  <2> HIDE DEF s
  <2>11. ClassInv(g)' <=>
          /\ Has(s, "input")' =>
               /\ \A k \in DOMAIN Saved(s, "input").events' : k \in DOMAIN Journal' /\ Journal'[k].class = g
               /\ \A k \in EventsOf(Journal', g) : k \in DOMAIN Saved(s, "input").events'
          /\ Has(s, "rejections")' =>
               \A k \in DOMAIN RawOf(s)' :
                 RawOf(s)'[k] = None \/ k \in FaultyRows(Saved(s, "input").events', RawOf(s)') => Journal'[k].failed
          /\ Has(s, "complete")' =>
               \A k \in DOMAIN Saved(s, "input").events' : Journal'[k].done \/ Journal'[k].analysed
    BY DEF ClassInv, s
  <2> QED BY <2>5, <2>7, <2>8, <2>9, <2>10, <2>11
<1>7. (\A g \in Classes : ClassInv(g))'
  BY <1>6 DEF Classes
<1> QED BY <1>3, <1>4, <1>5, <1>7 DEF RestInv

\* What an Event can still be held responsible for when it is published.
LEMMA OpenAnalysed ==
  ASSUME CheckpointsInv, RestInv, AssociationsReady, Remaining = {},
         NEW k \in DOMAIN Journal, ~Journal[k].done
  PROVE  Journal[k].analysed
<1>1. JournalKey \in DOMAIN disk
  BY BarrierJournal
<1> DEFINE g == Journal[k].class
           s == Signal(g)
<1>2. g \in Classes /\ k \in EventsOf(Journal, g)
  BY <1>1, OpenEvents DEF RestInv
<1>3. Has(s, "complete")
  BY <1>2, GroupNames DEF Remaining
<1>4. Has(s, "input")
  BY <1>2, <1>3, StageKinds DEF CheckpointsInv, SignalKept
<1> HIDE DEF g
<1>5. k \in DOMAIN Saved(s, "input").events
  BY <1>2, <1>4 DEF RestInv, ClassInv
<1> QED BY <1>2, <1>3, <1>5 DEF RestInv, ClassInv

LEMMA CondemnedNext ==
  ASSUME NEW k
  PROVE  \/ Disqualified(k)' \/ Refused(k)'
         \/ \E s \in MatchStages : BadMatch(s, k)'
         \/ \E s \in SignalStages : BadSignal(s, k)'
         => Condemned(k)'
<1>1. (Condemned(k) <=> \/ Disqualified(k) \/ Refused(k)
                        \/ \E s \in MatchStages : BadMatch(s, k)
                        \/ \E s \in SignalStages : BadSignal(s, k))'
  BY Verdicts, PTL
<1> QED BY <1>1 DEF MatchStages, SignalStages, Match, Signal

LEMMA AcknowledgedEntry ==
  ASSUME CheckpointsInv, CheckpointsInv', Grows, RestInv, AssociationsReady, Remaining = {},
         Has(Publication, "package")',
         NEW k \in DOMAIN Journal, ~Journal[k].done, NEW accepted \in BOOLEAN,
         Journal[k]' = Acknowledged(Journal[k], accepted)
  PROVE  EntryInv(k)'
<1> DEFINE e == Journal[k]
           f == Journal[k]'
<1>0. JournalKey \in DOMAIN disk
  BY BarrierJournal
<1>1. EntryInv(k)
  BY <1>0 DEF RestInv, JournalInv
<1>2. DOMAIN e = EntryFields /\ e.analysed \in BOOLEAN
  BY <1>1 DEF EntryInv
<1>3. /\ DOMAIN f = EntryFields
      /\ f.done = TRUE /\ f.published = accepted /\ f.failed = ~accepted
      /\ f.evidence = e.evidence /\ f.class = e.class /\ f.decision = e.decision
      /\ f.matches = e.matches /\ f.signals = e.signals /\ f.analysed = e.analysed
  <2>1. PICK old : old = e
    OBVIOUS
  <2>2. DOMAIN old = EntryFields /\ f = Acknowledged(old, accepted)
    BY <2>1, <1>2
  <2> HIDE DEF e, f
  <2>3. LET a == Acknowledged(old, accepted)
        IN  /\ DOMAIN a = EntryFields
            /\ a.done = TRUE /\ a.published = accepted /\ a.failed = ~accepted
            /\ a.evidence = old.evidence /\ a.class = old.class /\ a.decision = old.decision
            /\ a.matches = old.matches /\ a.signals = old.signals /\ a.analysed = old.analysed
    BY <2>2, AcknowledgedChanges
  <2> QED BY <2>1, <2>2, <2>3
<1>4. e.analysed
  BY OpenAnalysed
<1>5. /\ Origin' = Origin
      /\ PairsOf(k)' = PairsOf(k) /\ RejectionsOf(k)' = RejectionsOf(k)
      /\ Saved(Identity, "input")' = Saved(Identity, "input")
      /\ Saved(Identity, "result")' = Saved(Identity, "result")
      /\ \A s : Has(s, "input") => Has(s, "input")' /\ Saved(s, "input")' = Saved(s, "input")
  BY <1>0, EntryContext
<1>6. ~accepted => Condemned(k)'
  <2>1. ~accepted => Refused(k)'
    BY <1>3, <1>4 DEF Refused
  <2> QED BY <2>1, CondemnedNext
<1>7. /\ Has(Signal(e.class), "input")' /\ k \in DOMAIN Saved(Signal(e.class), "input").events'
      /\ f.signals \subseteq Saved(Signal(e.class), "input").events'[k]
  <2>1. PICK c : c = e.class
    OBVIOUS
  <2>2. Has(Signal(c), "input") /\ k \in DOMAIN Saved(Signal(c), "input").events
    BY <1>1, <1>4, <2>1 DEF EntryInv
  <2>3. Has(Signal(c), "input")' /\ Saved(Signal(c), "input")' = Saved(Signal(c), "input")
    BY <1>5, <2>2
  <2>4. e.signals \subseteq Saved(Signal(c), "input").events[k]
    BY <1>1, <1>4, <2>1 DEF EntryInv
  <2>5. e.class' = c
    BY <1>3, <2>1
  <2> QED BY <1>3, <2>1, <2>2, <2>3, <2>4, <2>5 DEF Has, Saved, Signal, At
<1>8. /\ e.evidence = Origin[k].evidence /\ e.class = Origin[k].class
      /\ ~NonCompliant(Saved(Identity, "input").events, Saved(Identity, "result"), k)
      /\ RejectionsOf(k) = {} /\ e.matches = PairsOf(k) /\ e.matches # {}
  BY <1>1 DEF EntryInv
<1> QED BY <1>3, <1>4, <1>5, <1>6, <1>7, <1>8 DEF EntryInv

LEMMA EventRest ==
  ASSUME CheckpointsInv, CheckpointsInv', Grows, RestInv, EventSettled
  PROVE  RestInv'
<1>1. /\ Stays(Associations)
      /\ \A s \in MatchStages \cup SignalStages : Stays(s)
  BY StageKinds, Kinds DEF EventSettled
<1>0. JournalKey \in DOMAIN disk /\ AssociationsReady /\ Remaining = {}
  BY DEF EventSettled
<1>2. AssociationsReady' /\ JournalKey \in DOMAIN disk'
  BY <1>0, EntryContext
<1>3. \A k \in DOMAIN Journal : EntryInv(k)
  BY <1>0 DEF RestInv, JournalInv
<1>4. Advances /\ \A k \in DOMAIN Journal : EntryInv(k)'
  <2>1. CASE Journal' = Journal
    <3>1. \A k \in DOMAIN Journal : EntryInv(k)'
      BY <2>1, <1>0, <1>3, EntryStays
    <3> QED BY <2>1, <3>1, SameJournal
  <2>2. ASSUME Has(Publication, "package")', NEW l \in Unpublished, NEW accepted \in BOOLEAN,
               Journal' = [Journal EXCEPT ![l] = Acknowledged(@, accepted)]
        PROVE  Advances /\ \A k \in DOMAIN Journal : EntryInv(k)'
    <3>1. l \in DOMAIN Journal /\ ~Journal[l].done
      BY DEF Unpublished
    <3>2. /\ DOMAIN Journal' = DOMAIN Journal
          /\ Journal'[l] = Acknowledged(Journal[l], accepted)
          /\ \A k \in DOMAIN Journal : k # l => Journal'[k] = Journal[k]
      BY <2>2, <3>1
    <3>3. ASSUME NEW k \in DOMAIN Journal  PROVE EntryInv(k)'
      <4>1. CASE k = l
        <5>1. Journal[k]' = Acknowledged(Journal[k], accepted) /\ ~Journal[k].done
          BY <4>1, <3>1, <3>2
        <5> QED BY <5>1, <1>0, <2>2, AcknowledgedEntry
      <4>2. CASE k # l
        <5>1. Journal[k]' = Journal[k]
          BY <4>2, <3>2
        <5> QED BY <5>1, <1>0, <1>3, EntryStays
      <4> QED BY <4>1, <4>2
    <3>4. PICK old : old = Journal[l]
      OBVIOUS
    <3>5. DOMAIN old = EntryFields /\ (old.failed => old.done) /\ ~old.done
      BY <3>1, <3>4, <1>3 DEF EntryInv
    <3>6. LET a == Acknowledged(old, accepted)
          IN  /\ a.done = TRUE /\ a.class = old.class /\ a.decision = old.decision
              /\ a.evidence = old.evidence /\ a.analysed = old.analysed
      BY <3>5, AcknowledgedChanges
    <3>7. Advances
      <4> DEFINE f == Journal'[l]
      <4>1. /\ f.class = old.class /\ f.decision = old.decision /\ f.evidence = old.evidence
            /\ f.done = TRUE /\ f.analysed = old.analysed
        BY <3>2, <3>4, <3>6
      <4> QED BY <3>2, <3>4, <3>5, <4>1 DEF Advances
    <3> QED BY <3>3, <3>7
  <2> QED BY <2>1, <2>2 DEF EventSettled
<1>5. OffersInv'
  <2>1. Match("node") \in MatchStages /\ \A g \in Classes : Match(g) \in MatchStages
    BY StageKinds
  <2>2. \A s \in MatchStages : Has(s, "input")' <=> Has(s, "input")
    BY <1>1, StaysPut
  <2> QED BY <2>1, <2>2, OffersKept DEF RestInv
<1>6. JournalInv'
  BY <1>2, <1>4 DEF JournalInv, Advances
<1>7. (\A g \in Classes : ClassInv(g))'
  BY <1>1, <1>4, ClassesStay DEF RestInv
<1>8. PackageInv'
  <2>1. CASE Has(Publication, "package")
    BY <2>1, <1>4, PackageStays DEF RestInv
  <2>2. CASE ~Has(Publication, "package")
    <3>1. SUFFICES ASSUME Has(Publication, "package")'  PROVE PackageInv'
      BY DEF PackageInv
    <3>2. Saved(Publication, "package")' = Package(Journal)
      BY <2>2, <3>1 DEF EventSettled
    <3>3. Remaining' = {}
      BY <1>0, KeptParts DEF Remaining
    <3>4. \A k \in DOMAIN Journal' : Saved(Publication, "package")'[k].evidence = Journal'[k].evidence
      BY <3>2, <1>4 DEF Package, Advances
    <3> QED BY <1>2, <3>3, <3>4 DEF PackageInv
  <2> QED BY <2>1, <2>2
<1> QED BY <1>5, <1>6, <1>7, <1>8 DEF RestInv

\* The Events a class loses when its Signals are frozen.
Lost(s) == (DOMAIN Saved(s, "input").events \ DOMAIN SignalResult(s)) \cup FaultyKeys(s)

LEMMA LostIsBad ==
  ASSUME CheckpointsInv, CheckpointsInv', Grows, NEW s \in SignalStages,
         SignalsFrozen(s), Has(s, "result") \/ Has(s, "raw")', NEW k \in Lost(s)
  PROVE  BadSignal(s, k)'
<1>1. SignalKept(s) /\ Shape(s)
  BY Shapes, AskingStages DEF CheckpointsInv
<1>2. CASE Has(s, "result")
  <2>1. FaultyKeys(s) = {} /\ SignalResult(s) = Saved(s, "result")
    BY <1>2 DEF FaultyKeys, SignalResult, Frozen
  <2>2. ~Unasked(s)
    BY <2>1 DEF Unasked, Lost
  <2>3. /\ Has(s, "raw") /\ DOMAIN RawOf(s) = DOMAIN Saved(s, "input").events
        /\ Saved(s, "result") = GoodPairs(Saved(s, "input").events, RawOf(s))
    BY <1>1, <1>2, <2>2 DEF SignalKept, Answered
  <2>4. k \in DOMAIN RawOf(s) /\ RawOf(s)[k] = None
    BY <2>1, <2>3 DEF Lost, GoodPairs, Usable
  <2>5. BadSignal(s, k)
    BY <2>3, <2>4 DEF BadSignal
  <2> QED BY <2>5, VerdictsStay
<1>3. CASE ~Has(s, "result")
  <2>1. /\ SignalResult(s) = GoodPairs(Saved(s, "input").events, Raw(s))
        /\ FaultyKeys(s) = FaultyRows(Saved(s, "input").events, Raw(s))
        /\ DOMAIN Raw(s) = DOMAIN Saved(s, "input").events
    BY <1>3 DEF FaultyKeys, SignalResult, Frozen, SignalsFrozen
  <2>2. k \in DOMAIN Raw(s) /\ (Raw(s)[k] = None \/ Faulty(Saved(s, "input").events[k], Raw(s)[k]))
    BY <2>1 DEF Lost, GoodPairs, Usable, FaultyRows
  <2>3. Has(s, "raw")' /\ RawOf(s)' = Raw(s) /\ Saved(s, "input").events' = Saved(s, "input").events
    BY <1>3 DEF SignalsFrozen
  <2> QED BY <2>2, <2>3 DEF BadSignal
<1> QED BY <1>2, <1>3

LEMMA SignalsOffered ==
  ASSUME CheckpointsInv, NEW s \in SignalStages, Has(s, "input"), NEW k \in DOMAIN SignalResult(s),
         k \in DOMAIN Saved(s, "input").events
  PROVE  SignalResult(s)[k] \subseteq Saved(s, "input").events[k]
<1>1. \A rows : k \in DOMAIN GoodPairs(Saved(s, "input").events, rows) =>
        GoodPairs(Saved(s, "input").events, rows)[k] \subseteq Saved(s, "input").events[k]
  BY DEF GoodPairs, Good
<1>2. SignalKept(s)
  BY DEF CheckpointsInv
<1>3. CASE Has(s, "result")
  <2>1. SignalResult(s) = Saved(s, "result")
    BY <1>3 DEF SignalResult, Frozen
  <2> QED BY <2>1, <1>1, <1>2, <1>3 DEF SignalKept, Unasked
<1>4. CASE ~Has(s, "result")
  <2>1. SignalResult(s) = GoodPairs(Saved(s, "input").events, Raw(s))
    BY <1>4 DEF SignalResult, Frozen
  <2> QED BY <2>1, <1>1
<1> QED BY <1>3, <1>4

\* What becomes of an Event when the Signals of a class are frozen.
Gains(s, k) ==
  /\ k \in DOMAIN Saved(s, "input").events \cap DOMAIN SignalResult(s)
  /\ ~Journal[k].done /\ ~Journal[k].analysed
  /\ Journal'[k] = Gained(Journal[k], SignalResult(s)[k])

Resumes(s) ==
  /\ Journal' = Journal
  /\ Has(s, "rejections")' => Has(s, "rejections")
  /\ ~Has(s, "complete")'

Proceeds(s) ==
  /\ DOMAIN Journal' = DOMAIN Journal
  /\ Has(s, "result") \/ Has(s, "raw")'
  /\ \A k \in DOMAIN Journal :
       IF k \in Lost(s) THEN Journal'[k] = Failed(Journal[k])
       ELSE \/ Journal'[k] = Journal[k]
            \/ Gains(s, k)
  /\ Has(s, "complete")' =>
       \A k \in DOMAIN Saved(s, "input").events \cap DOMAIN Journal :
         k \in Lost(s) \/ Journal[k].done \/ Journal[k].analysed \/ Gains(s, k)

LEMMA FrozenCases ==
  ASSUME NEW s \in SignalStages, SignalsFrozen(s),
         \A k \in DOMAIN Journal : DOMAIN Journal[k] = EntryFields
  PROVE  Resumes(s) \/ Proceeds(s)
<1> DEFINE input == Saved(s, "input").events
           result == SignalResult(s)
<1>1. /\ DOMAIN Sound(s) = DOMAIN Journal
      /\ \A k \in DOMAIN Journal :
           Sound(s)[k] = IF k \in Lost(s) THEN Failed(Journal[k]) ELSE Journal[k]
  BY DEF Sound, Skipped, Lost
<1>2. \A k \in DOMAIN Journal : Failed(Journal[k]).done
  BY FailedChanges
<1>3. CASE Resumes(s)
  BY <1>3
<1>4. CASE /\ Journal' = Sound(s)
            /\ (Has(s, "complete")' => DOMAIN input = {}) /\ (Has(s, "result") \/ Has(s, "raw")')
  BY <1>1, <1>4 DEF Proceeds
<1>5. ASSUME NEW l \in DOMAIN input, Has(s, "result") \/ Has(s, "raw")',
             Journal' = Analysed(Sound(s), input, result, l),
             Has(s, "complete")' => \A k \in DOMAIN input : Place(k) <= Place(l)
      PROVE  Proceeds(s)
  <2>1. DOMAIN Journal' = DOMAIN Journal
    BY <1>1, <1>5 DEF Analysed
  <2>2. \A k \in DOMAIN Journal :
          Journal'[k] = IF /\ k \in DOMAIN input \cap DOMAIN result
                           /\ Place(k) <= Place(l)
                           /\ ~Sound(s)[k].done /\ ~Sound(s)[k].analysed
                        THEN Gained(Sound(s)[k], result[k])
                        ELSE Sound(s)[k]
    BY <1>1, <1>5 DEF Analysed
  <2>3. \A k \in DOMAIN Journal : k \in Lost(s) => Journal'[k] = Failed(Journal[k])
    BY <1>1, <1>2, <2>2
  <2>4. \A k \in DOMAIN Journal : k \notin Lost(s) => Journal'[k] = Journal[k] \/ Gains(s, k)
    BY <1>1, <2>2 DEF Gains
  <2>5. ASSUME Has(s, "complete")', NEW k \in DOMAIN input \cap DOMAIN Journal, k \notin Lost(s),
               ~Journal[k].done, ~Journal[k].analysed
        PROVE  Gains(s, k)
    <3>1. k \in DOMAIN result
      BY <2>5 DEF Lost
    <3> QED BY <3>1, <1>1, <1>5, <2>2, <2>5 DEF Gains
  <2>6. Has(s, "result") \/ Has(s, "raw")'
    BY <1>5
  <2> HIDE DEF input, result
  <2>7. DOMAIN input = DOMAIN Saved(s, "input").events
    BY DEF input
  <2> QED BY <2>1, <2>3, <2>4, <2>5, <2>6, <2>7 DEF Proceeds
<1> QED BY <1>3, <1>4, <1>5 DEF SignalsFrozen, Resumes

\* Nothing is published before the last class is complete.
LEMMA NonePublished ==
  ASSUME RestInv, NEW g \in Classes, ~Has(Signal(g), "complete")
  PROVE  ~Has(Publication, "package")
<1>1. Remaining # {}
  BY GroupNames DEF Remaining
<1> QED BY <1>1 DEF RestInv, PackageInv

LEMMA FailedEntry ==
  ASSUME CheckpointsInv, CheckpointsInv', Grows, JournalKey \in DOMAIN disk, AssociationsReady,
         ~Has(Publication, "package"), NEW k, EntryInv(k), Condemned(k)',
         Journal[k]' = Failed(Journal[k])
  PROVE  EntryInv(k)'
<1> DEFINE e == Journal[k]
           f == Journal[k]'
<1>1. /\ DOMAIN f = EntryFields /\ f.done = TRUE /\ f.failed = TRUE
      /\ f.evidence = e.evidence /\ f.class = e.class /\ f.decision = e.decision
      /\ f.matches = e.matches /\ f.signals = e.signals
      /\ f.analysed = e.analysed /\ f.published = e.published
  <2>1. PICK old : old = e
    OBVIOUS
  <2>2. DOMAIN old = EntryFields /\ f = Failed(old)
    BY <2>1 DEF EntryInv
  <2> HIDE DEF e, f
  <2>3. LET a == Failed(old)
        IN  /\ DOMAIN a = EntryFields /\ a.done = TRUE /\ a.failed = TRUE
            /\ a.evidence = old.evidence /\ a.class = old.class /\ a.decision = old.decision
            /\ a.matches = old.matches /\ a.signals = old.signals
            /\ a.analysed = old.analysed /\ a.published = old.published
    BY <2>2, FailedChanges
  <2> QED BY <2>1, <2>2, <2>3
<1>2. /\ Origin' = Origin
      /\ PairsOf(k)' = PairsOf(k) /\ RejectionsOf(k)' = RejectionsOf(k)
      /\ \A s : Has(s, "input") => Has(s, "input")' /\ Saved(s, "input")' = Saved(s, "input")
  BY EntryContext
<1>3. /\ e.analysed \in BOOLEAN /\ e.published = FALSE
      /\ e.evidence = Origin[k].evidence /\ e.class = Origin[k].class
      /\ e.matches = PairsOf(k)
      /\ ~e.analysed => e.signals = {}
  BY DEF EntryInv
<1>4. e.analysed =>
        /\ Has(Signal(e.class), "input")' /\ k \in DOMAIN Saved(Signal(e.class), "input").events'
        /\ f.signals \subseteq Saved(Signal(e.class), "input").events'[k]
  <2>1. PICK c : c = e.class
    OBVIOUS
  <2>2. e.analysed => Has(Signal(c), "input") /\ k \in DOMAIN Saved(Signal(c), "input").events
    BY <2>1 DEF EntryInv
  <2>3. e.analysed => Has(Signal(c), "input")' /\ Saved(Signal(c), "input")' = Saved(Signal(c), "input")
    BY <1>2, <2>2
  <2>4. e.analysed => e.signals \subseteq Saved(Signal(c), "input").events[k]
    BY <2>1 DEF EntryInv
  <2>5. e.class' = c
    BY <1>1, <2>1
  <2> QED BY <1>1, <2>1, <2>2, <2>3, <2>4, <2>5 DEF Has, Saved, Signal, At
<1> QED BY <1>1, <1>2, <1>3, <1>4 DEF EntryInv

LEMMA GainedEntry ==
  ASSUME CheckpointsInv, CheckpointsInv', Grows, JournalKey \in DOMAIN disk, AssociationsReady,
         NEW k, EntryInv(k), ~Journal[k].done, NEW g, Journal[k].class = g, Has(Signal(g), "input"),
         k \in DOMAIN Saved(Signal(g), "input").events,
         NEW pairs, pairs \subseteq Saved(Signal(g), "input").events[k],
         Journal[k]' = Gained(Journal[k], pairs)
  PROVE  EntryInv(k)'
<1> DEFINE e == Journal[k]
           f == Journal[k]'
<1>1. /\ DOMAIN f = EntryFields /\ f.signals = pairs /\ f.analysed = TRUE
      /\ f.evidence = e.evidence /\ f.class = e.class /\ f.decision = e.decision
      /\ f.matches = e.matches /\ f.done = e.done
      /\ f.failed = e.failed /\ f.published = e.published
  <2>1. PICK old : old = e
    OBVIOUS
  <2>2. DOMAIN old = EntryFields /\ f = Gained(old, pairs)
    BY <2>1 DEF EntryInv
  <2> HIDE DEF e, f
  <2>3. LET a == Gained(old, pairs)
        IN  /\ DOMAIN a = EntryFields /\ a.signals = pairs /\ a.analysed = TRUE
            /\ a.evidence = old.evidence /\ a.class = old.class /\ a.decision = old.decision
            /\ a.matches = old.matches /\ a.done = old.done
            /\ a.failed = old.failed /\ a.published = old.published
    BY <2>2, GainedChanges
  <2> QED BY <2>1, <2>2, <2>3
<1>2. /\ Origin' = Origin
      /\ PairsOf(k)' = PairsOf(k) /\ RejectionsOf(k)' = RejectionsOf(k)
      /\ Saved(Identity, "input")' = Saved(Identity, "input")
      /\ Saved(Identity, "result")' = Saved(Identity, "result")
      /\ \A s : Has(s, "input") => Has(s, "input")' /\ Saved(s, "input")' = Saved(s, "input")
  BY EntryContext
<1>3. /\ e.done = FALSE /\ e.failed = FALSE /\ e.published = FALSE
      /\ e.evidence = Origin[k].evidence /\ e.class = Origin[k].class /\ e.decision = Origin[k].decision
      /\ ~NonCompliant(Saved(Identity, "input").events, Saved(Identity, "result"), k)
      /\ e.matches = PairsOf(k) /\ e.matches # {} /\ RejectionsOf(k) = {}
  BY DEF EntryInv
<1>4. /\ Has(Signal(e.class), "input")' /\ k \in DOMAIN Saved(Signal(e.class), "input").events'
      /\ f.signals \subseteq Saved(Signal(e.class), "input").events'[k]
  <2>1. Has(Signal(g), "input")' /\ Saved(Signal(g), "input")' = Saved(Signal(g), "input")
    BY <1>2
  <2>2. e.class' = g
    BY <1>1
  <2> QED BY <1>1, <2>1, <2>2 DEF Has, Saved, Signal, At
<1> QED BY <1>1, <1>2, <1>3, <1>4 DEF EntryInv

LEMMA FrozenRest ==
  ASSUME CheckpointsInv, CheckpointsInv', Grows, RestInv, NEW s \in SignalStages, SignalsFrozen(s)
  PROVE  RestInv'
<1>g. PICK g \in Classes : s = Signal(g)
  BY DEF SignalStages
<1>k. /\ SignalKept(s) /\ SignalKept(s)' /\ Shape(s)
      /\ Has(s, "input") /\ ~Has(s, "complete")
      /\ Saved(s, "input").events' = Saved(s, "input").events /\ Has(s, "input")'
  <2>1. SignalKept(s)'
    BY <1>g DEF CheckpointsInv, SignalStages, Signal
  <2> QED BY <2>1, Shapes, AskingStages DEF CheckpointsInv, SignalsFrozen
<1> DEFINE input == Saved(s, "input").events
<1>b. JournalKey \in DOMAIN disk /\ AssociationsReady /\ JournalKey \in DOMAIN disk' /\ AssociationsReady'
  BY <1>k, EntryContext DEF SignalKept
<1>e. \A k \in DOMAIN Journal : EntryInv(k)
  BY <1>b DEF RestInv, JournalInv
<1>f. /\ \A k \in DOMAIN Journal : DOMAIN Journal[k] = EntryFields
      /\ \A k \in DOMAIN Journal : Journal[k].failed => Journal[k].done
  BY <1>e DEF EntryInv
<1>p. ~Has(Publication, "package")
  BY <1>g, <1>k, NonePublished
<1>c. ClassInv(g)
  BY DEF RestInv
<1>1. /\ Stays(Associations) /\ Stays(Publication)
      /\ \A t \in MatchStages : Stays(t)
      /\ \A h \in Classes : h # g => Stays(Signal(h))
  BY <1>g, StageKinds, Kinds DEF SignalsFrozen
<1>2. Resumes(s) \/ Proceeds(s)
  BY <1>f, FrozenCases
\* The entries.
<1>3. /\ Advances
      /\ \A k \in DOMAIN Journal : EntryInv(k)'
      /\ Proceeds(s) => \A k \in DOMAIN Journal : k \in Lost(s) => Journal'[k].failed
      /\ \A k \in DOMAIN Journal : Gains(s, k) => Journal'[k].analysed
  <2>1. ASSUME NEW k \in DOMAIN Journal, Journal[k]' = Journal[k]
        PROVE  EntryInv(k)'
    BY <2>1, <1>b, <1>e, EntryStays
  <2>2. ASSUME NEW k \in DOMAIN Journal, k \in Lost(s), Proceeds(s)
        PROVE  /\ EntryInv(k)'
               /\ Journal'[k].class = Journal[k].class /\ Journal'[k].decision = Journal[k].decision
               /\ Journal'[k].evidence = Journal[k].evidence
               /\ Journal'[k].done = TRUE /\ Journal'[k].failed = TRUE
               /\ Journal'[k].analysed = Journal[k].analysed
    <3>1. Journal'[k] = Failed(Journal[k]) /\ (Has(s, "result") \/ Has(s, "raw")')
      BY <2>2 DEF Proceeds
    <3>2. BadSignal(s, k)'
      BY <2>2, <3>1, LostIsBad
    <3>3. Condemned(k)'
      BY <3>2, CondemnedNext
    <3>4. EntryInv(k)'
      BY <1>b, <1>e, <1>p, <3>1, <3>3, FailedEntry
    <3>5. PICK old : old = Journal[k]
      OBVIOUS
    <3>6. DOMAIN old = EntryFields /\ Journal'[k] = Failed(old)
      BY <3>1, <3>5, <1>f
    <3>7. LET f == Failed(old)
          IN  /\ f.done = TRUE /\ f.failed = TRUE
              /\ f.evidence = old.evidence /\ f.class = old.class /\ f.decision = old.decision
              /\ f.analysed = old.analysed
      BY <3>6, FailedChanges
    <3> QED BY <3>4, <3>5, <3>6, <3>7
  <2>3. ASSUME NEW k \in DOMAIN Journal, Gains(s, k)
        PROVE  /\ EntryInv(k)'
               /\ Journal'[k].class = Journal[k].class /\ Journal'[k].decision = Journal[k].decision
               /\ Journal'[k].evidence = Journal[k].evidence
               /\ Journal'[k].done = Journal[k].done /\ Journal'[k].failed = Journal[k].failed
               /\ Journal'[k].analysed = TRUE
    <3>1. /\ k \in DOMAIN input /\ k \in DOMAIN SignalResult(s) /\ ~Journal[k].done
          /\ Journal'[k] = Gained(Journal[k], SignalResult(s)[k])
      BY <2>3 DEF Gains
    <3>2. SignalResult(s)[k] \subseteq input[k]
      BY <3>1, <1>k, SignalsOffered
    <3>3. Journal[k].class = g
      BY <3>1, <1>c, <1>g, <1>k DEF ClassInv
    <3>5. PICK old, pairs : old = Journal[k] /\ pairs = SignalResult(s)[k]
      OBVIOUS
    <3>4. EntryInv(k)'
      <4>1. /\ Has(Signal(g), "input") /\ k \in DOMAIN Saved(Signal(g), "input").events
            /\ pairs \subseteq Saved(Signal(g), "input").events[k]
            /\ Journal[k]' = Gained(Journal[k], pairs)
        BY <1>g, <1>k, <3>1, <3>2, <3>5
      <4> QED BY <4>1, <1>b, <1>e, <3>1, <3>3, GainedEntry
    <3>6. DOMAIN old = EntryFields /\ Journal'[k] = Gained(old, pairs)
      BY <3>1, <3>5, <1>f
    <3>7. LET f == Gained(old, pairs)
          IN  /\ f.analysed = TRUE
              /\ f.evidence = old.evidence /\ f.class = old.class /\ f.decision = old.decision
              /\ f.done = old.done /\ f.failed = old.failed
      BY <3>6, GainedChanges
    <3> QED BY <3>4, <3>5, <3>6, <3>7
  <2>4. CASE Resumes(s)
    <3>1. Journal' = Journal
      BY <2>4 DEF Resumes
    <3>2. Proceeds(s) => \A k \in DOMAIN Journal : k \in Lost(s) => Journal'[k].failed
      BY <2>2
    <3>3. \A k \in DOMAIN Journal : Gains(s, k) => Journal'[k].analysed
      BY <2>3
    <3> QED BY <3>1, <3>2, <3>3, <2>1, SameJournal
  <2>5. CASE Proceeds(s)
    <3>1. /\ DOMAIN Journal' = DOMAIN Journal
          /\ \A k \in DOMAIN Journal : k \in Lost(s) \/ Journal'[k] = Journal[k] \/ Gains(s, k)
      BY <2>5 DEF Proceeds
    <3>2. \A k \in DOMAIN Journal : EntryInv(k)'
      BY <3>1, <2>1, <2>2, <2>3, <2>5
    <3>3. Advances
      BY <3>1, <2>2, <2>3, <2>5 DEF Advances
    <3> QED BY <3>2, <3>3, <2>2, <2>3
  <2> QED BY <2>4, <2>5, <1>2
<1>4. OffersInv'
  <2>1. Match("node") \in MatchStages /\ \A h \in Classes : Match(h) \in MatchStages
    BY StageKinds
  <2>2. \A t \in MatchStages : Has(t, "input")' <=> Has(t, "input")
    BY <1>1, StaysPut
  <2> QED BY <2>1, <2>2, OffersKept DEF RestInv
<1>5. JournalInv'
  BY <1>b, <1>3 DEF JournalInv, Advances
<1>6. PackageInv'
  <2>1. ~Has(Publication, "package")'
    BY <1>1, <1>p, StaysPut
  <2> QED BY <2>1 DEF PackageInv
\* The class itself.
<1>7. ClassInv(g)'
  <2>1. \A k \in DOMAIN input : k \in DOMAIN Journal' /\ Journal'[k].class = g
    BY <1>c, <1>g, <1>k, <1>3 DEF ClassInv, Advances
  <2>2. \A k \in EventsOf(Journal', g) : k \in DOMAIN input
    <3>1. \A k \in EventsOf(Journal', g) : k \in EventsOf(Journal, g)
      BY <1>3 DEF EventsOf, Advances, Publishable
    <3> QED BY <3>1, <1>c, <1>g, <1>k DEF ClassInv
  <2>3. ASSUME Has(s, "rejections")', NEW k \in DOMAIN RawOf(s)',
               RawOf(s)'[k] = None \/ k \in FaultyRows(input, RawOf(s)')
        PROVE  Journal'[k].failed
    <3>1. /\ Has(s, "raw")' /\ RawOf(s)' = Raw(s) /\ DOMAIN RawOf(s)' = DOMAIN input
      BY <2>3, <1>k DEF SignalKept, Answered, SignalsFrozen
    <3>2. k \in DOMAIN Journal
      BY <2>3, <3>1, <1>c, <1>g, <1>k DEF ClassInv
    <3>3. CASE Has(s, "rejections")
      <4>1. Has(s, "raw") /\ RawOf(s) = Raw(s)
        BY <3>3, <1>k DEF SignalKept, RawOf, Raw, Frozen
      <4>2. Journal[k].failed
        BY <4>1, <3>1, <3>3, <2>3, <1>c, <1>g DEF ClassInv
      <4> QED BY <4>2, <3>2, <1>3 DEF Advances
    <3>4. CASE ~Has(s, "rejections")
      <4>1. ~Has(s, "result") /\ Proceeds(s)
        BY <2>3, <3>4, <1>2 DEF SignalsFrozen, Resumes
      <4>2. /\ SignalResult(s) = GoodPairs(input, Raw(s))
            /\ FaultyKeys(s) = FaultyRows(input, Raw(s))
        BY <4>1 DEF FaultyKeys, SignalResult, Frozen
      <4>3. k \in Lost(s)
        BY <4>2, <3>1, <2>3 DEF Lost, GoodPairs, Usable
      <4> QED BY <4>1, <4>3, <3>2, <1>3
    <3> QED BY <3>3, <3>4
  <2>4. ASSUME Has(s, "complete")', NEW k \in DOMAIN input
        PROVE  Journal'[k].done \/ Journal'[k].analysed
    <3>1. k \in DOMAIN Journal /\ Proceeds(s)
      BY <2>1, <2>4, <1>2, <1>3 DEF Resumes, Advances
    <3>2. k \in Lost(s) \/ Journal[k].done \/ Journal[k].analysed \/ Gains(s, k)
      BY <2>4, <3>1 DEF Proceeds
    <3>3. Journal'[k].failed => Journal'[k].done
      <4>1. EntryInv(k)'
        BY <3>1, <1>3
      <4> QED BY <4>1 DEF EntryInv
    <3> QED BY <3>1, <3>2, <3>3, <1>3 DEF Advances
  <2> HIDE DEF input
  <2>5. Saved(s, "input").events' = input
    BY <1>k DEF input
  <2>6. ClassInv(g)' <=>
          /\ Has(s, "input")' =>
               /\ \A k \in DOMAIN Saved(s, "input").events' : k \in DOMAIN Journal' /\ Journal'[k].class = g
               /\ \A k \in EventsOf(Journal', g) : k \in DOMAIN Saved(s, "input").events'
          /\ Has(s, "rejections")' =>
               \A k \in DOMAIN RawOf(s)' :
                 RawOf(s)'[k] = None \/ k \in FaultyRows(Saved(s, "input").events', RawOf(s)') => Journal'[k].failed
          /\ Has(s, "complete")' =>
               \A k \in DOMAIN Saved(s, "input").events' : Journal'[k].done \/ Journal'[k].analysed
    BY <1>g DEF ClassInv, Has, Saved, RawOf, Signal, At
  <2> QED BY <2>1, <2>2, <2>3, <2>4, <2>5, <2>6
<1>8. (\A h \in Classes : ClassInv(h))'
  <2>1. ASSUME NEW h \in Classes, h # g  PROVE ClassInv(h)'
    BY <2>1, <1>1, <1>3, ClassStays DEF RestInv
  <2> QED BY <2>1, <1>7 DEF Classes
<1> QED BY <1>4, <1>5, <1>6, <1>8 DEF RestInv

LEMMA DiskUntouched ==
  ASSUME disk' = disk
  PROVE  Untouched
<1>1. Journal' = Journal
  BY SameDisk
<1> QED BY <1>1 DEF Untouched, Stays

LEMMA RestStep ==
  ASSUME CheckpointsInv, RunInv, RestInv, [Next]_vars
  PROVE  RestInv'
<1>1. CheckpointsInv' /\ Grows
  BY EveryStep, StepGrows DEF StepKeeps
<1>2. CASE \/ AskExtractor \/ AskIdentity \/ AskSignals \/ CompleteBatch \/ UNCHANGED vars
           \/ \E s \in MatchStages : MatchBranch(s)
  <2>1. disk' = disk
    BY <1>2 DEF AskExtractor, AskIdentity, AskSignals, AskThen, CompleteBatch, vars, MatchBranch
  <2> QED BY <2>1, <1>1, DiskUntouched, UntouchedRest
<1>3. CASE ClaimBatch
  BY <1>1, <1>3, ClaimKeeps, UntouchedRest
<1>4. ASSUME NEW world \in Worlds, PrepareBatchIdentity(world)  PROVE RestInv'
  BY <1>1, <1>4, IdentityStep, UntouchedRest
<1>5. ASSUME NEW world \in Worlds, PrepareParallelMatches(world)  PROVE RestInv'
  BY <1>1, <1>5, MatchesStep, MatchesRest
<1>6. ASSUME NEW world \in Worlds, PrepareNodeMatches(world)  PROVE RestInv'
  BY <1>1, <1>6, NodesStep, NodesRest
<1>7. CASE CollectParallelMatches
  BY <1>1, <1>7, CollectStep, CollectedRest
<1>8. ASSUME NEW world \in Worlds, PrepareBatchSignals(world)  PROVE RestInv'
  BY <1>1, <1>8, SignalsStep, AskedRest
<1>9. CASE FreezeBatchSignals
  BY <1>1, <1>9, FreezeStep, FrozenRest
<1>10. CASE PublishPreparedEvent
  BY <1>1, <1>10, PublishStep, EventRest
<1> QED BY <1>2, <1>3, <1>4, <1>5, <1>6, <1>7, <1>8, <1>9, <1>10 DEF Next, Step, Complete

\* A batch is done when it was completed, and stays so.
LEMMA SettledStep ==
  ASSUME SettledInv, [Next]_vars
  PROVE  SettledInv'
<1>1. SUFFICES ASSUME pc' = "done"  PROVE SettledInv'
  BY DEF SettledInv
<1>2. \A writes, next : next # "done" => ~Perform(writes, next)
  BY <1>1 DEF Perform, EndRun
<1>3. \A s, next : next # "done" => ~AskThen(s, next)
  BY <1>1 DEF AskThen, EndRun
<1>4. ~\/ ClaimBatch \/ AskExtractor \/ AskIdentity \/ AskSignals
       \/ \E world \in Worlds :
            \/ PrepareBatchIdentity(world) \/ PrepareParallelMatches(world)
            \/ PrepareNodeMatches(world) \/ PrepareBatchSignals(world)
       \/ CollectParallelMatches \/ FreezeBatchSignals \/ PublishPreparedEvent
       \/ \E s \in MatchStages : MatchBranch(s)
  <2>1. ~(ClaimBatch \/ \E world \in Worlds :
            \/ PrepareBatchIdentity(world) \/ PrepareParallelMatches(world)
            \/ PrepareNodeMatches(world))
    BY <1>2 DEF ClaimBatch, PrepareBatchIdentity, PrepareParallelMatches, PrepareNodeMatches
  <2>2. ~(AskExtractor \/ AskIdentity \/ AskSignals)
    BY <1>3 DEF AskExtractor, AskIdentity, AskSignals
  <2>3. ~\E world \in Worlds : PrepareBatchSignals(world)
    BY <1>1, <1>2 DEF PrepareBatchSignals
  <2>4. ~(CollectParallelMatches \/ FreezeBatchSignals \/ PublishPreparedEvent)
    BY <1>2 DEF CollectParallelMatches, FreezeBatchSignals, PublishPreparedEvent
  <2>5. ~\E s \in MatchStages : MatchBranch(s)
    BY <1>1 DEF MatchBranch
  <2> QED BY <2>1, <2>2, <2>3, <2>4, <2>5
<1>5. CASE CompleteBatch
  <2>1. disk' = disk
    BY <1>5 DEF CompleteBatch
  <2>2. /\ Journal' = Journal
        /\ Saved(Extract, "parse")' = Saved(Extract, "parse")
        /\ Saved(Extract, "rejections")' = Saved(Extract, "rejections")
    BY <2>1, SameDisk
  <2> QED BY <2>2, <1>5 DEF CompleteBatch, SettledInv
<1>6. CASE UNCHANGED vars
  <2>1. disk' = disk /\ settled' = settled /\ pc = "done"
    BY <1>1, <1>6 DEF vars
  <2>2. /\ Journal' = Journal
        /\ Saved(Extract, "parse")' = Saved(Extract, "parse")
        /\ Saved(Extract, "rejections")' = Saved(Extract, "rejections")
    BY <2>1, SameDisk
  <2> QED BY <2>1, <2>2 DEF SettledInv
<1> QED BY <1>4, <1>5, <1>6 DEF Next, Step, Complete

LEMMA RestInit ==
  ASSUME Init
  PROVE  RestInv /\ SettledInv
<1>1. \A s, part : ~Has(s, part)
  BY DEF Init, Has
<1>2. JournalKey \notin DOMAIN disk
  BY DEF Init
<1> QED BY <1>1, <1>2 DEF Init, RestInv, OffersInv, JournalInv, PackageInv, ClassInv, SettledInv

\* The whole invariant of a batch.
THEOREM BatchHolds == Spec => []BatchInv
<1>1. Init => RestInv /\ SettledInv
  BY RestInit
<1>2. (CheckpointsInv /\ RunInv /\ OnlyRedundancyBlocks) /\ RestInv /\ SettledInv /\ [Next]_vars
        => RestInv' /\ SettledInv'
  BY RestStep, SettledStep
<1>3. (CheckpointsInv /\ RunInv /\ OnlyRedundancyBlocks) /\ RestInv /\ SettledInv => BatchInv
  BY DEF BatchInv, RestInv
<1> QED BY <1>1, <1>2, <1>3, CheckpointsHold, PTL DEF Spec

-----------------------------------------------------------------------------
(* What a batch settles and publishes.                                     *)

\* When no class is left, what is held against an Event has failed it.
LEMMA CondemnedFails ==
  ASSUME CheckpointsInv, RestInv, AssociationsReady, Remaining = {},
         NEW k \in DOMAIN Journal, Condemned(k)
  PROVE  Journal[k].failed
<1>1. JournalKey \in DOMAIN disk
  BY BarrierJournal
<1>2. EntryInv(k)
  BY <1>1 DEF RestInv, JournalInv
<1>3. Has(Identity, "result") /\ k \in DOMAIN Saved(Identity, "input").events
  BY <1>1 DEF CheckpointsInv, JournalKept
<1>4. CASE Disqualified(k)
  <2>1. NonCompliant(Saved(Identity, "input").events, Saved(Identity, "result"), k)
    BY <1>3, <1>4, IdentitiesFrozen DEF Disqualified
  <2> QED BY <2>1, <1>2 DEF EntryInv
<1>5. CASE Refused(k)
  BY <1>2, <1>5 DEF Refused, EntryInv
<1>6. ASSUME NEW s \in MatchStages, BadMatch(s, k)  PROVE Journal[k].failed
  <2>1. k \in Rejected(s)
    BY <1>6, RejectedIsBad DEF CheckpointsInv
  <2> QED BY <2>1, <1>2 DEF EntryInv, RejectionsOf
<1>7. ASSUME NEW s \in SignalStages, BadSignal(s, k)  PROVE Journal[k].failed
  <2>1. PICK g \in Classes : s = Signal(g)
    BY DEF SignalStages
  <2>2. Has(s, "complete")
    BY <2>1, GroupNames DEF Remaining
  <2>3. Has(s, "rejections")
    BY <1>7, <2>2 DEF CheckpointsInv, SignalKept, Unasked, BadSignal
  <2>4. ClassInv(g)
    BY DEF RestInv
  <2>5. /\ k \in DOMAIN RawOf(s)
        /\ RawOf(s)[k] = None \/ k \in FaultyRows(Saved(s, "input").events, RawOf(s))
    BY <1>7 DEF BadSignal, FaultyRows, Usable
  <2> QED BY <2>1, <2>3, <2>4, <2>5 DEF ClassInv
<1> QED BY <1>4, <1>5, <1>6, <1>7, Verdicts

\* The rows an Agent gave of the Events.
LEMMA IdentityRowsKnown ==
  ASSUME CheckpointsInv, Has(Identity, "result")
  PROVE  DOMAIN Saved(Identity, "result") \subseteq DOMAIN Saved(Identity, "input").events
BY DEF CheckpointsInv, IdentityKept, Unasked, Answered, Restrict, Usable

LEMMA DoneSettles ==
  ASSUME BatchInv
  PROVE  SettledAsAnswered
<1> SUFFICES ASSUME pc = "done"  PROVE SettledAsAnswered
  BY DEF SettledAsAnswered
<1> DEFINE input  == Saved(Identity, "input").events
           rows   == Saved(Identity, "result")
           copies(k) == {d \in DOMAIN input : IsDuplicate(input, rows, d) /\ rows[d].duplicate_of = k}
           heirs(k) == {k} \cup (IF IsDuplicate(input, rows, k) THEN {rows[k].duplicate_of} ELSE {})
<1>1. CheckpointsInv /\ RestInv /\ AssociationsReady /\ Remaining = {} /\ Unpublished = {}
  BY DEF BatchInv, RestInv, RunInv
<1>2. JournalKey \in DOMAIN disk
  BY <1>1, BarrierJournal
<1>3. Has(Identity, "result") /\ DOMAIN Journal = DOMAIN input
  BY <1>1, <1>2 DEF CheckpointsInv, JournalKept
<1>4. DOMAIN rows \subseteq DOMAIN input
  BY <1>1, <1>3, IdentityRowsKnown
<1>5. \A k \in DOMAIN Journal : EntryInv(k)
  BY <1>1, <1>2 DEF RestInv, JournalInv
<1>6. \A k \in DOMAIN Journal : Journal[k].failed <=> Condemned(k)
  BY <1>1, <1>5, CondemnedFails DEF EntryInv
<1>7. \A k \in DOMAIN Journal :
        Journal[k].evidence = input[k].evidence \cup UNION {input[d].evidence : d \in copies(k)}
  <2>1. \A k \in DOMAIN input :
          Origin[k].evidence = input[k].evidence \cup UNION {input[d].evidence : d \in copies(k)}
    BY DEF Origin, Resolved
  <2> HIDE DEF input, copies
  <2> QED BY <2>1, <1>3, <1>5 DEF EntryInv
<1>8. /\ Saved(Extract, "parse") = Unreadable(RawOf(Extract))
      /\ Saved(Extract, "rejections") = OutsideBatch(RawOf(Extract))
  BY <1>1, <1>3 DEF CheckpointsInv, IdentityKept, ExtractKept
<1>9. \A k \in DOMAIN input : IsDuplicate(input, rows, k) => rows[k].duplicate_of \in DOMAIN input
  BY <1>4 DEF IsDuplicate
<1> HIDE DEF input, rows
<1>10. UNION {Journal[k].evidence : k \in {k \in DOMAIN Journal : Journal[k].failed}}
         = UNION {input[k].evidence : k \in {k \in DOMAIN input : \E h \in heirs(k) : Condemned(h)}}
  <2>1. ASSUME NEW k \in DOMAIN Journal, Journal[k].failed, NEW e \in Journal[k].evidence
        PROVE  \E d \in DOMAIN input : e \in input[d].evidence /\ \E h \in heirs(d) : Condemned(h)
    <3>1. Condemned(k)
      BY <2>1, <1>6
    <3>2. CASE e \in input[k].evidence
      BY <3>1, <3>2, <1>3, <2>1
    <3>3. ASSUME NEW d \in copies(k), e \in input[d].evidence
          PROVE  \E c \in DOMAIN input : e \in input[c].evidence /\ \E h \in heirs(c) : Condemned(h)
      <4>1. d \in DOMAIN input /\ k \in heirs(d)
        OBVIOUS
      <4> QED BY <4>1, <3>1, <3>3
    <3> QED BY <3>2, <3>3, <2>1, <1>7
  <2>2. ASSUME NEW k \in DOMAIN input, NEW h \in heirs(k), Condemned(h), NEW e \in input[k].evidence
        PROVE  \E l \in DOMAIN Journal : Journal[l].failed /\ e \in Journal[l].evidence
    <3>1. h \in DOMAIN Journal /\ (h = k \/ k \in copies(h))
      BY <2>2, <1>3, <1>9
    <3>2. e \in Journal[h].evidence
      BY <3>1, <2>2, <1>7
    <3> QED BY <3>1, <3>2, <2>2, <1>6
  <2> HIDE DEF heirs, copies
  <2> QED BY <2>1, <2>2
<1>11. settled = Evidence \cap
         (Saved(Extract, "parse") \cup Saved(Extract, "rejections")
            \cup UNION {Journal[k].evidence : k \in {k \in DOMAIN Journal : Journal[k].failed}})
  BY DEF BatchInv, SettledInv
<1> QED BY <1>8, <1>10, <1>11 DEF SettledAsAnswered, input, rows

LEMMA PublishedOffered ==
  ASSUME BatchInv
  PROVE  PublishesWhatWasOffered
<1> SUFFICES ASSUME JournalKey \in DOMAIN disk, NEW k \in DOMAIN Journal, Journal[k].published
             PROVE  LET offers == {s \in MatchStages : Has(s, "input") /\ k \in DOMAIN Saved(s, "input").events}
                    IN  /\ Journal[k].matches # {}
                        /\ Journal[k].matches \subseteq UNION {Saved(s, "input").events[k] : s \in offers}
                        /\ Journal[k].signals \subseteq Saved(Signal(Journal[k].class), "input").events[k]
                        /\ Saved(Identity, "result")[k].duplicate_of = None
                        /\ Journal[k].evidence = Saved(Publication, "package")[k].evidence
                        /\ ~Condemned(k)
  BY DEF PublishesWhatWasOffered
<1>1. CheckpointsInv /\ RestInv
  BY DEF BatchInv, RestInv
<1>2. AssociationsReady
  <2>1. SUFFICES ASSUME ~AssociationsReady  PROVE FALSE
    OBVIOUS
  <2>2. Journal = Origin \/ Journal = Associated(Origin)
    BY <1>1, <2>1 DEF RestInv, JournalInv
  <2>3. k \in DOMAIN Origin
    BY <2>2 DEF Associated
  <2>4. Origin[k].published = FALSE /\ DOMAIN Origin[k] = EntryFields
    BY <2>3, OriginEntries
  <2>5. Joined(Origin[k], PairsOf(k), RejectionsOf(k)).published = Origin[k].published
    BY <2>4 DEF Joined, EntryFields
  <2> QED BY <2>2, <2>3, <2>4, <2>5 DEF Associated
<1>3. EntryInv(k)
  BY <1>1, <1>2 DEF RestInv, JournalInv
<1>4. /\ Journal[k].matches # {} /\ Journal[k].matches = PairsOf(k)
      /\ ~Journal[k].failed /\ Has(Publication, "package")
      /\ Journal[k].signals \subseteq Saved(Signal(Journal[k].class), "input").events[k]
      /\ ~NonCompliant(Saved(Identity, "input").events, Saved(Identity, "result"), k)
  BY <1>3 DEF EntryInv
<1>5. Remaining = {} /\ Journal[k].evidence = Saved(Publication, "package")[k].evidence
  BY <1>1, <1>4 DEF RestInv, PackageInv
<1>6. ~Condemned(k)
  BY <1>1, <1>2, <1>4, <1>5, CondemnedFails
<1>7. /\ k \in DOMAIN Origin /\ Publishable(Origin[k])
      /\ PairsOf(k) \subseteq
           UNION {Saved(s, "input").events[k] :
                    s \in {s \in MatchStages : Has(s, "input") /\ k \in DOMAIN Saved(s, "input").events}}
  BY <1>1, <1>2, <1>4, MatchesOffered DEF RestInv, CheckpointsInv
<1>8. Saved(Identity, "result")[k].duplicate_of = None
  <2>1. SUFFICES ASSUME Saved(Identity, "result")[k].duplicate_of # None  PROVE FALSE
    OBVIOUS
  <2>2. IsDuplicate(Saved(Identity, "input").events, Saved(Identity, "result"), k)
    BY <2>1, <1>4 DEF NonCompliant
  <2>3. Origin[k].decision = "IGNORED"
    BY <2>2, <1>7 DEF Origin, Resolved
  <2> QED BY <2>3, <1>7 DEF Publishable
<1> QED BY <1>4, <1>5, <1>6, <1>7, <1>8

\* The Evidence of a batch fails exactly when an answer about it was bad,
\* whatever died in between and whatever would have been answered later.
THEOREM SettledAsAnsweredHolds == Spec => []SettledAsAnswered
BY BatchHolds, DoneSettles, PTL

\* Only what was offered is published, and no Event judged a duplicate or
\* condemned by an answer.
THEOREM PublishesWhatWasOfferedHolds == Spec => []PublishesWhatWasOffered
BY BatchHolds, PublishedOffered, PTL

=============================================================================
