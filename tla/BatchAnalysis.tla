---------------------------- MODULE BatchAnalysis ----------------------------
(***************************************************************************)
(* The semantic stages of one claimed Event batch. Between two Agent calls *)
(* a Function turns the frozen answer into durable checkpoints, written    *)
(* once each, and into the journal. A run may die between any two of those *)
(* writes; the next one starts again at the claim, calls no Agent whose    *)
(* answer is frozen, and repeats every Function over what it finds. The    *)
(* lease and the effects of publication are in EventBatch.                 *)
(* Sources: src/capabilities/event/functions/{batch,storyline,extraction}  *)
(* .py, src/capabilities/event/internal/{batch_models,batch_response,      *)
(* storage}.py, src/workflows/event_extraction.py.                         *)
(***************************************************************************)
EXTENDS Naturals, Sequences, FiniteSets, Functions

CONSTANTS
  Evidence,           \* of the batch
  SourceTime,         \* those of them with a publication or collection time
  Groups,             \* the Event classes in order; "chain" is the one with nodes
  Worlds,             \* what history and catalogs can answer, at different times
  Extractions,        \* raw answers of the extractor; their rows are numbered
  IdentityRows(_, _), \* rows an Agent may give an Event, by input and key
  MatchRows(_, _),
  SignalRows(_, _),
  MaxItems,           \* rows accepted of one answer (50 in the source)
  MaxFaults,          \* deaths of a run and failures of an Agent
  None

\* Rows are finitely many, and an Evidence is listed some number of times.
ASSUME ExtractionsAssumption ==
  \A a \in Extractions :
    /\ DOMAIN a.candidates \subseteq Nat /\ IsFiniteSet(DOMAIN a.candidates)
    /\ \A e \in Evidence : a.no_event[e] \in Nat

\* Each class is named once; the nodes have no class of their own.
ASSUME GroupsAssumption ==
  /\ DOMAIN Groups = 1 .. Len(Groups) /\ Len(Groups) \in Nat
  /\ \A i, j \in DOMAIN Groups : Groups[i] = Groups[j] => i = j
  /\ "chain" \in Range(Groups) /\ "node" \notin Range(Groups)

VARIABLES
  disk,      \* checkpoints, draft and journal of the pending batch
  pc,        \* where the run is; "idle" when there is none
  said,      \* answers of this run's Agents, per stage
  faults,
  refused,   \* some run found a checkpoint it could not agree with
  settled    \* the Evidence recorded as failed, once the batch is complete

vars == <<disk, pc, said, faults, refused, settled>>

Extract  == <<"extract", "">>
Identity == <<"identity", "">>
Match(g)  == <<"match", g>>
Signal(g) == <<"signal", g>>
At(stage, part) == <<stage[1], stage[2], part>>

Classes == Range(Groups)
MatchStages == {Match(g) : g \in Classes \cup {"node"}}
SignalStages == {Signal(g) : g \in Classes}

NoAnswers == [s \in {} |-> None]
Failure == [failed |-> TRUE]

Has(stage, part) == At(stage, part) \in DOMAIN disk
Saved(stage, part) == disk[At(stage, part)]
Frozen(stage, part, fresh) == IF Has(stage, part) THEN Saved(stage, part) ELSE fresh

\* Fault: what was prepared for an Agent is prepared again.
ReadAgain(stage, fresh) == fresh

\* History and catalogs are asked once per stage; later runs find the answer.
Prepared(stage, fresh) == Frozen(stage, "input", fresh)

Completed(stage) == Has(stage, "result") \/ Has(stage, "raw")

JournalKey == <<"journal", "", "">>
Journal == disk[JournalKey]

-----------------------------------------------------------------------------
(* Durable writes *)

\* A write and its place among those of its Function. A checkpoint is written
\* once, the journal again and again.
Once(at, stage, part, value) == {[at |-> at, key |-> At(stage, part), value |-> value]}
Save(at, journal) == {[at |-> at, key |-> JournalKey, value |-> journal]}

Before(v, w) == v.at[1] < w.at[1] \/ (v.at[1] = w.at[1] /\ v.at[2] < w.at[2])

Fixed(key) == key \in DOMAIN disk /\ key # JournalKey
Clashes(w) == Fixed(w.key) /\ disk[w.key] # w.value

KeysOf(writes) == {w.key : w \in writes}

Latest(writes, key) ==
  CHOOSE w \in writes : w.key = key /\ \A v \in writes : v.key = key => ~Before(w, v)

Kept(writes) ==
  [key \in DOMAIN disk \cup KeysOf(writes) |->
     IF Fixed(key) \/ key \notin KeysOf(writes) THEN disk[key] ELSE Latest(writes, key).value]

EndRun == pc' = "idle" /\ said' = NoAnswers

\* A Function does all its writes; or it stops before one of them, because
\* the run dies or this is a checkpoint with another content.
Perform(writes, next) ==
  LET clashing == {w \in writes : Clashes(w)}
  IN  /\ UNCHANGED settled
      /\ \/ /\ clashing = {}
            /\ disk' = Kept(writes)
            /\ pc' = next
            /\ said' = Restrict(said, {t \in DOMAIN said : next # "idle" /\ At(t, "raw") \notin DOMAIN disk'})
            /\ UNCHANGED <<faults, refused>>
         \/ \E w \in writes :
              /\ \A c \in clashing : ~Before(c, w)
              /\ disk' = Kept({v \in writes : Before(v, w)})
              /\ EndRun
              /\ \/ faults < MaxFaults /\ faults' = faults + 1 /\ UNCHANGED refused
                 \/ w \in clashing /\ refused' = TRUE /\ UNCHANGED faults

\* What an Agent is given: what each Event may be matched with or said to move,
\* and all candidates (anchors) among which it is asked to choose.
Payload(events) == [events |-> events, candidates |-> UNION Range(events)]

NothingToAsk(stage, input) ==
  CASE stage = Extract -> FALSE
    [] stage = Identity -> DOMAIN input.events = {}
    [] OTHER -> DOMAIN input.events = {} \/ input.candidates = {}

\* The prepared input of an Agent, and the answer the code gives itself when
\* there is nothing to ask.
Call(phase, stage, input) ==
  Once(<<phase, 1>>, stage, "input", input)
    \cup (IF Has(stage, "result") \/ ~NothingToAsk(stage, input) THEN {}
          ELSE Once(<<phase, 2>>, stage, "result", [k \in DOMAIN input.events |-> {}]))

-----------------------------------------------------------------------------
(* Agents *)

RowsFor(stage, input, key) ==
  CASE stage = Identity -> IdentityRows(input, key)
    [] stage \in MatchStages -> MatchRows(input, key)
    [] OTHER -> SignalRows(input, key)

Answers(stage) ==
  IF stage = Extract THEN Extractions
  ELSE LET input == Saved(stage, "input").events
           keys  == DOMAIN input
           rows  == UNION {RowsFor(stage, input, k) : k \in keys}
       IN  {a \in [keys -> rows] : \A k \in keys : a[k] \in RowsFor(stage, input, k)}

Saying(stage, answer) ==
  [t \in DOMAIN said \cup {stage} |-> IF t = stage THEN answer ELSE said[t]]

Answer(stage) ==
  /\ \E a \in Answers(stage) : said' = Saying(stage, a)
  /\ UNCHANGED faults

\* A step whose answer is frozen is skipped; one that fails ends the run.
AskThen(stage, next) ==
  /\ UNCHANGED <<disk, refused, settled>>
  /\ \/ /\ IF Completed(stage) THEN UNCHANGED <<said, faults>> ELSE Answer(stage)
        /\ pc' = next
     \/ /\ ~Completed(stage)
        /\ faults < MaxFaults
        /\ faults' = faults + 1
        /\ EndRun

Raw(stage) == Frozen(stage, "raw", said[stage])

-----------------------------------------------------------------------------
(* Extraction *)

ClaimBatch ==
  /\ pc = "idle"
  /\ Perform(Call(1, Extract, <<>>), "extract")

AskExtractor == pc = "extract" /\ AskThen(Extract, "prepare_identity")

\* Rows are read one by one until the answer's capacity is used up; an answer
\* that is no object with its lists reads as one without rows.
Precede(rows, i) == Cardinality({j \in 1 .. i - 1 : rows[j].wellformed})
Read(rows) == {i \in DOMAIN rows : Precede(rows, i) < MaxItems}

Parsed(answer) ==
  Restrict(answer.candidates,
           {i \in Read(answer.candidates) : answer.candidates[i].wellformed})

\* The Evidence named by rows that could not be read.
Unreadable(answer) ==
  LET rows == answer.candidates
  IN  UNION {rows[i].evidence : i \in {i \in Read(rows) : ~rows[i].wellformed}}

InBatch(row) == row.evidence \subseteq Evidence

OutsideBatch(answer) ==
  UNION {r.evidence : r \in {r \in Range(Parsed(answer)) : ~InBatch(r)}}

\* Dispositions are counted per Evidence; the accepted rows are constructed
\* without the validator of the whole answer.
Filtered(answer) ==
  [candidates |-> RestrictValues(Parsed(answer), InBatch),
   no_event   |-> [e \in Evidence |-> answer.no_event[e]]]

\* A frozen result is validated when it is read back: no disposition for an
\* Evidence with a candidate, and one at most for the others.
Validated(result) ==
  LET assigned == UNION {r.evidence : r \in Range(result.candidates)}
  IN  [result EXCEPT !.no_event =
         [e \in Evidence |-> IF e \in assigned \/ @[e] = 0 THEN 0 ELSE 1]]

Extracted ==
  IF Has(Extract, "result") THEN Validated(Saved(Extract, "result"))
  ELSE Filtered(Raw(Extract))

\* The time of a candidate is its own, or the earliest of its Evidence.
Timed(row) == row.timed \/ row.evidence \cap SourceTime # {}

Draft(result) ==
  LET timed == RestrictValues(result.candidates, Timed)
  IN  [candidates |-> timed,
       no_event   |-> Evidence \ UNION {r.evidence : r \in Range(timed)}]

Key(row) == <<row.what, row.evidence>>

Places(rows, k) == {i \in DOMAIN rows : Key(rows[i]) = k}

\* Rows with one key are one Event: at the place of the first, of the class of
\* the last.
IdentityInput(draft, world) ==
  LET rows     == draft.candidates
      first(k) == CHOOSE i \in Places(rows, k) : \A j \in Places(rows, k) : i <= j
      last(k)  == CHOOSE i \in Places(rows, k) : \A j \in Places(rows, k) : j <= i
  IN  [events |->
         [k \in {Key(r) : r \in Range(rows)} |->
            [rank    |-> first(k), evidence |-> k[2], class |-> rows[last(k)].class,
             history |-> world.history]]]

FreezeExtraction ==
  (IF Has(Extract, "result") THEN {}
   ELSE Once(<<1, 1>>, Extract, "raw", Raw(Extract))
        \cup Once(<<1, 2>>, Extract, "parse", Unreadable(Raw(Extract)))
        \cup Once(<<1, 3>>, Extract, "rejections", OutsideBatch(Raw(Extract))))
  \cup Once(<<1, 4>>, Extract, "result", Extracted)
  \cup Once(<<1, 5>>, Extract, "draft", Draft(Extracted))

PrepareBatchIdentity(world) ==
  LET input == Prepared(Identity, IdentityInput(Draft(Extracted), world))
  IN  /\ pc = "prepare_identity"
      /\ Perform(FreezeExtraction \cup Call(2, Identity, input), "identity")

-----------------------------------------------------------------------------
(* Identity *)

AskIdentity == pc = "identity" /\ AskThen(Identity, "prepare_matches")

\* rows[k] is None when the answer has no row for k, several, or no readable
\* one.
Usable(rows) == {k \in DOMAIN rows : rows[k] # None}
Place(k) == Saved(Identity, "input").events[k].rank

IdentityResult == Frozen(Identity, "result", Restrict(Raw(Identity), Usable(Raw(Identity))))

Compliant(event, row) == row.matched \subseteq event.history

\* An accepted duplicate names an earlier Event that is none and stays.
IsDuplicate(input, rows, k) ==
  /\ k \in DOMAIN rows
  /\ rows[k].duplicate_of # None
  /\ Compliant(input[k], rows[k])
  /\ LET t == rows[k].duplicate_of
     IN  /\ t \in DOMAIN rows
         /\ input[t].rank < input[k].rank
         /\ rows[t].duplicate_of = None
         /\ Compliant(input[t], rows[t])
         /\ rows[t].decision # "IGNORED"

NonCompliant(input, rows, k) ==
  \/ k \notin DOMAIN rows
  \/ rows[k].duplicate_of # None /\ ~IsDuplicate(input, rows, k)
  \/ ~Compliant(input[k], rows[k])

\* An Event takes over the Evidence of its duplicates in the batch.
Resolved(input, rows) ==
  [k \in DOMAIN input |->
     LET copies == {d \in DOMAIN input : IsDuplicate(input, rows, d) /\ rows[d].duplicate_of = k}
         bad    == NonCompliant(input, rows, k)
     IN  [evidence  |-> input[k].evidence \cup UNION {input[d].evidence : d \in copies},
          class     |-> input[k].class,
          decision  |-> IF bad \/ IsDuplicate(input, rows, k) THEN "IGNORED" ELSE rows[k].decision,
          matches   |-> {}, signals |-> {}, analysed |-> FALSE,
          done      |-> bad, failed |-> bad, published |-> FALSE]]

Publishable(entry) == entry.decision \in {"NEW_EVENT", "RELATED_BUT_DISTINCT"}

EventsOf(journal, g) ==
  {k \in DOMAIN journal : journal[k].class = g /\ ~journal[k].done /\ Publishable(journal[k])}

\* What each Event of a class may be matched with: the whole catalog of the
\* class, or the companies its own actors and objects name.
MatchInput(journal, g, world) ==
  Payload([k \in EventsOf(journal, g) |->
            IF g = "company" THEN world.companies[k[1]] ELSE world.subjects[g]])

FreezeIdentity ==
  (IF Has(Identity, "result") THEN {}
   ELSE Once(<<1, 1>>, Identity, "raw", Raw(Identity))
        \cup Once(<<1, 2>>, Identity, "parse", DOMAIN Raw(Identity) \ Usable(Raw(Identity))))
  \cup Once(<<1, 3>>, Identity, "result", IdentityResult)

\* The journal is opened with what the identities resolve to.
Opened ==
  IF JournalKey \in DOMAIN disk THEN Journal ELSE Resolved(Saved(Identity, "input").events, IdentityResult)

MatchCall(i, world) ==
  LET s     == Match(Groups[i])
      input == Prepared(s, MatchInput(Opened, Groups[i], world))
  IN  Call(i + 1, s, input)

PrepareParallelMatches(world) ==
  /\ pc = "prepare_matches"
  /\ Perform(FreezeIdentity
               \cup (IF JournalKey \in DOMAIN disk THEN {} ELSE Save(<<1, 4>>, Opened))
               \cup UNION {MatchCall(i, world) : i \in DOMAIN Groups}, "match")

-----------------------------------------------------------------------------
(* Association: one branch per class; the chain branch goes on to its nodes *)

NodesPrepared ==
  /\ Has(Match("node"), "input")
  /\ Completed(Match("node")) \/ ~NothingToAsk(Match("node"), Saved(Match("node"), "input"))

\* A branch that fails says so to the collector.
MatchBranch(s) ==
  /\ pc = "match"
  /\ s = Match("node") => NodesPrepared
  /\ ~Completed(s) /\ s \notin DOMAIN said
  /\ \/ Answer(s)
     \/ /\ faults < MaxFaults
        /\ faults' = faults + 1
        /\ said' = Saying(s, Failure)
  /\ UNCHANGED <<disk, pc, refused, settled>>

Heard(s) == Completed(s) \/ (s \in DOMAIN said /\ said[s] # Failure)

\* row.form: "row"; "spoiled", a usable row beside an unreadable one of the
\* same Event; "missing", no usable row.
Spoiled(rows) == {k \in DOMAIN rows : rows[k].form # "row"}
Covered(rows) == {k \in DOMAIN rows : rows[k].form # "missing"}
Outside(input, rows) == {k \in Covered(rows) : ~(rows[k].matches \subseteq input[k])}

Scoped(input, rows) == [k \in Covered(rows) |-> rows[k].matches \cap input[k]]

MatchResult(s) == Frozen(s, "result", Scoped(Saved(s, "input").events, Raw(s)))

\* Fault: the result is written before what was rejected for it.
FreezeMatchResultFirst(phase, s) ==
  Once(<<phase, 1>>, s, "result", MatchResult(s))
    \cup (IF Has(s, "result") THEN {}
          ELSE Once(<<phase, 2>>, s, "parse", Spoiled(Raw(s)))
               \cup Once(<<phase, 3>>, s, "rejections", Outside(Saved(s, "input").events, Raw(s))))

\* Rejections are written before the result.
FreezeMatch(phase, s) ==
  (IF Has(s, "result") THEN {}
   ELSE Once(<<phase, 1>>, s, "raw", Raw(s))
        \cup Once(<<phase, 2>>, s, "parse", Spoiled(Raw(s)))
        \cup Once(<<phase, 3>>, s, "rejections", Outside(Saved(s, "input").events, Raw(s))))
  \cup Once(<<phase, 4>>, s, "result", MatchResult(s))

\* Fault: out-of-scope matches are dropped and their Event goes on.
RejectedUnreadable(s) ==
  IF Has(s, "result") THEN Frozen(s, "parse", {})
  ELSE Spoiled(Raw(s))

\* The keys a stage rejected something of, as audited beside its result.
Rejected(s) ==
  IF Has(s, "result") THEN Frozen(s, "parse", {}) \cup Frozen(s, "rejections", {})
  ELSE Spoiled(Raw(s)) \cup Outside(Saved(s, "input").events, Raw(s))

\* Only Events whose chain answer was sound are matched with nodes; the Agent
\* is shown those of every matched chain, of a rejected answer as well.
NodeInput(chains, rejected, world) ==
  LET Nodes(matched) == UNION {world.nodes[c] : c \in matched}
  IN  [events     |-> [k \in DOMAIN chains \ rejected |-> Nodes(chains[k])],
       candidates |-> Nodes(UNION Range(chains))]

PrepareNodeMatches(world) ==
  LET chain == Match("chain")
      input == Prepared(Match("node"), NodeInput(MatchResult(chain), Rejected(chain), world))
  IN  /\ pc = "match"
      /\ Heard(chain) /\ ~NodesPrepared
      /\ Perform(FreezeMatch(1, chain) \cup Call(2, Match("node"), input), "match")

\* The branches in the order they are joined; the industry branch ends with
\* the nodes.
Branches == [i \in DOMAIN Groups |-> IF Groups[i] = "chain" THEN Match("node") ELSE Match(Groups[i])]

BranchEnded(s) ==
  \/ s # Match("node") /\ (Completed(s) \/ s \in DOMAIN said)
  \/ s = Match("node") /\ NodesPrepared /\ (Completed(s) \/ s \in DOMAIN said)
  \/ s = Match("node") /\ Match("chain") \in DOMAIN said /\ ~Heard(Match("chain"))

SavedBranches ==
  UNION {FreezeMatch(i, Branches[i]) :
           i \in {i \in DOMAIN Branches : ~Has(Branches[i], "result") /\ Heard(Branches[i])}}

PairsOf(k) ==
  UNION {MatchResult(s)[k] : s \in {s \in MatchStages : k \in DOMAIN MatchResult(s)}}

RejectionsOf(k) == {s \in MatchStages : k \in Rejected(s)}

\* An Event that was rejected, or has nothing to be about, is closed.
Joined(old, pairs, rejections) ==
  LET bad   == old.failed \/ rejections # {}
      ended == old.done \/ bad \/ pairs = {}
  IN  [old EXCEPT !.matches  = pairs,
                  !.decision = IF ended /\ ~bad /\ Publishable(old) THEN "IGNORED" ELSE @,
                  !.done     = ended,
                  !.failed   = bad]

Associated(journal) ==
  [k \in DOMAIN journal |-> Joined(journal[k], PairsOf(k), RejectionsOf(k))]

Associations == <<"associations", "">>
AssociationsReady == Has(Associations, "ready")

\* Good branches are saved even when another one failed.
CollectParallelMatches ==
  LET failed == {s \in Range(Branches) : ~Heard(s)}
  IN  /\ pc = "match"
      /\ \A s \in Range(Branches) : BranchEnded(s)
      /\ IF failed # {} THEN Perform(SavedBranches, "idle")
         ELSE Perform(SavedBranches
                        \cup (IF AssociationsReady THEN {}
                              ELSE Save(<<Len(Groups) + 1, 1>>, Associated(Journal))
                                   \cup Once(<<Len(Groups) + 1, 2>>, Associations, "ready", TRUE)),
                      "signals")

-----------------------------------------------------------------------------
(* Signals, class by class *)

\* Classes are taken in their order.
Remaining == {i \in DOMAIN Groups : ~Has(Signal(Groups[i]), "complete")}
Current == Signal(Groups[CHOOSE i \in Remaining : \A j \in Remaining : i <= j])

\* Per Event, the anchors of its matches and of its own words, with the
\* variables that may be said of them.
SignalInput(g, world) ==
  Payload([k \in EventsOf(Journal, g) |->
            ((Journal[k].matches \cup world.mentioned) \cap world.anchors) \X world.variables])

PrepareBatchSignals(world) ==
  /\ pc = "signals"
  /\ IF Remaining = {}
     THEN pc' = "publish" /\ UNCHANGED <<disk, said, faults, refused, settled>>
     ELSE LET input == Prepared(Current, SignalInput(Current[2], world))
          IN  Perform(Call(1, Current, input), "signal")

AskSignals == pc = "signal" /\ AskThen(Current, "compile")

\* proposals: a sequence of [pair, sound]; the first good one of a pair counts.
Good(offered, p) == p.pair \in offered /\ p.sound

Faulty(offered, proposals) ==
  \E i \in DOMAIN proposals :
    /\ ~Good(offered, proposals[i])
    /\ proposals[i].pair \in offered =>
         \A j \in 1 .. i - 1 : proposals[j].pair = proposals[i].pair => ~Good(offered, proposals[j])

FaultyRows(input, rows) == {k \in Usable(rows) : Faulty(input[k], rows[k])}
GoodPairs(input, rows) ==
  [k \in Usable(rows) |-> {p.pair : p \in {p \in Range(rows[k]) : Good(input[k], p)}}]

SignalResult(s) == Frozen(s, "result", GoodPairs(Saved(s, "input").events, Raw(s)))
FaultyKeys(s) == IF Has(s, "result") THEN {} ELSE FaultyRows(Saved(s, "input").events, Raw(s))

Failed(entry) == [entry EXCEPT !.done = TRUE, !.failed = TRUE]

Skipped(journal, keys) ==
  [k \in DOMAIN journal |-> IF k \in keys THEN Failed(journal[k]) ELSE journal[k]]

Gained(entry, pairs) == [entry EXCEPT !.signals = pairs, !.analysed = TRUE]

\* The Signals of the Events up to k, in the order of the batch.
Analysed(journal, input, result, k) ==
  [l \in DOMAIN journal |->
     IF /\ l \in DOMAIN input \cap DOMAIN result
        /\ Place(l) <= Place(k)
        /\ ~journal[l].done /\ ~journal[l].analysed
     THEN Gained(journal[l], result[l])
     ELSE journal[l]]

\* The journal first loses the Events with a bad answer, then the result is
\* frozen, then the journal gains the Signals of one Event after another.
FreezeSignals(s) ==
  (IF Has(s, "result") THEN {}
   ELSE Once(<<1, 1>>, s, "raw", Raw(s))
        \cup Once(<<1, 2>>, s, "parse", DOMAIN Raw(s) \ Usable(Raw(s)))
        \cup Once(<<1, 4>>, s, "rejections", FaultyKeys(s)))
  \cup Once(<<1, 5>>, s, "result", SignalResult(s))
  \cup Once(<<3, 1>>, s, "complete", TRUE)

Sound(s) ==
  Skipped(Journal, (DOMAIN Saved(s, "input").events \ DOMAIN SignalResult(s)) \cup FaultyKeys(s))

JournalSignals(s) ==
  Save(<<1, 3>>, Sound(s))
    \cup UNION {Save(<<2, Place(k)>>, Analysed(Sound(s), Saved(s, "input").events, SignalResult(s), k)) :
                  k \in DOMAIN Saved(s, "input").events}

FreezeBatchSignals ==
  /\ pc = "compile"
  /\ Perform(FreezeSignals(Current) \cup JournalSignals(Current),
             IF Cardinality(Remaining) = 1 THEN "publish" ELSE "signals")

-----------------------------------------------------------------------------
(* Publication and completion *)

Package(journal) ==
  [k \in DOMAIN journal |->
     [evidence |-> journal[k].evidence, decision |-> journal[k].decision,
      matches  |-> journal[k].matches,  signals  |-> journal[k].signals]]

Publication == <<"publication", "">>

Unpublished == {k \in DOMAIN Journal : ~Journal[k].done}

FreezePackage ==
  IF Has(Publication, "package") THEN {}
  ELSE Once(<<1, 1>>, Publication, "package", Package(Journal))

\* A publication is acknowledged or refused for good.
Acknowledged(entry, accepted) ==
  [entry EXCEPT !.done = TRUE, !.published = accepted, !.failed = ~accepted]

PublishPreparedEvent ==
  /\ pc = "publish"
  /\ \/ /\ Unpublished = {}
        /\ Perform(FreezePackage, "complete")
     \/ \E k \in Unpublished, accepted \in BOOLEAN :
          /\ \A l \in Unpublished : Place(k) <= Place(l)
          /\ Perform(FreezePackage
                       \cup Save(<<1, 2>>, [Journal EXCEPT ![k] = Acknowledged(@, accepted)]), "publish")

CompleteBatch ==
  /\ pc = "complete"
  /\ settled' = Evidence \cap
       (Saved(Extract, "parse") \cup Saved(Extract, "rejections")
          \cup UNION {Journal[k].evidence : k \in {k \in DOMAIN Journal : Journal[k].failed}})
  /\ pc' = "done"
  /\ UNCHANGED <<disk, said, faults, refused>>

-----------------------------------------------------------------------------
Init ==
  /\ disk = [key \in {} |-> None]
  /\ pc = "idle"
  /\ said = NoAnswers
  /\ faults = 0
  /\ refused = FALSE
  /\ settled = None

Step ==
  \/ ClaimBatch \/ AskExtractor \/ AskIdentity
  \/ \E world \in Worlds :
       \/ PrepareBatchIdentity(world) \/ PrepareParallelMatches(world)
       \/ PrepareNodeMatches(world) \/ PrepareBatchSignals(world)
  \/ \E s \in MatchStages : MatchBranch(s)
  \/ CollectParallelMatches
  \/ AskSignals \/ FreezeBatchSignals
  \/ PublishPreparedEvent \/ CompleteBatch

\* Nothing is left to do; a batch that stops anywhere else is a deadlock.
Complete == pc = "done" /\ UNCHANGED vars

Next == Step \/ Complete

Spec == Init /\ [][Next]_vars

-----------------------------------------------------------------------------
(* Properties *)

RawOf(stage) == Saved(stage, "raw")
AnswersOf(stages) == {s \in stages : Has(s, "raw")}

\* What the first answers say of an Event, read without the journal.
Condemned(k) ==
  LET rows == IF Has(Identity, "raw") THEN RawOf(Identity) ELSE <<>>
      told == [l \in Usable(rows) |-> rows[l]]
  IN  \/ NonCompliant(Saved(Identity, "input").events, told, k)
      \/ \E s \in AnswersOf(MatchStages) :
           /\ k \in DOMAIN RawOf(s)
           /\ \/ RawOf(s)[k].form # "row"
              \/ ~(RawOf(s)[k].matches \subseteq Saved(s, "input").events[k])
      \/ \E s \in AnswersOf(SignalStages) :
           /\ k \in DOMAIN RawOf(s)
           /\ RawOf(s)[k] = None \/ Faulty(Saved(s, "input").events[k], RawOf(s)[k])
      \/ Journal[k].analysed /\ Journal[k].done /\ ~Journal[k].published

\* The Evidence of a batch fails exactly when an answer about it was bad: a
\* row of the extractor that names it could not be used, or an Event it
\* supports, itself or as a duplicate, got an unusable answer at some stage or
\* was refused. Where runs died in between, and what Agents would have said
\* when asked again, makes no difference (complete_storyline_batch).
SettledAsAnswered ==
  pc = "done" =>
    LET input  == Saved(Identity, "input").events
        rows   == Saved(Identity, "result")
        heirs(k) == {k} \cup (IF IsDuplicate(input, rows, k) THEN {rows[k].duplicate_of} ELSE {})
        raw    == RawOf(Extract)
    IN  settled = Evidence \cap
          (Unreadable(raw) \cup OutsideBatch(raw)
             \cup UNION {input[k].evidence :
                           k \in {k \in DOMAIN input : \E h \in heirs(k) : Condemned(h)}})

\* What is published is what was on offer: every match was offered to that
\* Event, a chain node only under a chain it was matched with by a sound
\* answer, every Signal joins an anchor and a variable offered to it, and an
\* Event of this batch judged the duplicate of another is not published.
PublishesWhatWasOffered ==
  \A k \in IF JournalKey \in DOMAIN disk THEN DOMAIN Journal ELSE {} :
    Journal[k].published =>
      LET offers == {s \in MatchStages : Has(s, "input") /\ k \in DOMAIN Saved(s, "input").events}
      IN  /\ Journal[k].matches # {}
          /\ Journal[k].matches \subseteq UNION {Saved(s, "input").events[k] : s \in offers}
          /\ Journal[k].signals \subseteq Saved(Signal(Journal[k].class), "input").events[k]
          /\ Saved(Identity, "result")[k].duplicate_of = None
          /\ Journal[k].evidence = Saved(Publication, "package")[k].evidence
          /\ ~Condemned(k)

\* Resume reuses what is frozen: no run is refused a checkpoint it recomputed.
ResumeReusesFrozen == ~refused

Redundant(result) ==
  \E e \in Evidence :
    \/ result.no_event[e] > 1
    \/ result.no_event[e] = 1 /\ \E r \in Range(result.candidates) : e \in r.evidence

\* Whatever dies between two writes, and whatever catalogs answer later, a
\* resumed batch agrees with its own checkpoints; only an extractor that lists
\* an Evidence twice, or as no event beside a candidate, stands in the way.
OnlyRedundancyBlocks ==
  refused => Has(Extract, "result") /\ Redundant(Saved(Extract, "result"))

-----------------------------------------------------------------------------
(* The inductive invariant *)

\* An Agent is asked when there is something to ask.
Vacant(s) == NothingToAsk(s, Saved(s, "input"))
Asked(s) == Has(s, "input") /\ ~Vacant(s)
Ready(s) == Has(s, "input") /\ (Vacant(s) => Has(s, "result"))

\* An answer is about what was asked.
Answered(s) == Has(s, "raw") => Asked(s) /\ DOMAIN RawOf(s) = DOMAIN Saved(s, "input").events

\* Nothing was asked, and the code gave itself the result.
Unasked(s) ==
  /\ Vacant(s) /\ ~Has(s, "raw")
  /\ Saved(s, "result") = [k \in DOMAIN Saved(s, "input").events |-> {}]

\* Each checkpoint has those before it, and is what they make of one another.
ExtractKept ==
  /\ Has(Extract, "input") => Saved(Extract, "input") = <<>>
  /\ Has(Extract, "raw") => RawOf(Extract) \in Extractions
  /\ Has(Extract, "parse") =>
       Has(Extract, "raw") /\ Saved(Extract, "parse") = Unreadable(RawOf(Extract))
  /\ Has(Extract, "rejections") =>
       Has(Extract, "parse") /\ Saved(Extract, "rejections") = OutsideBatch(RawOf(Extract))
  /\ Has(Extract, "result") =>
       Has(Extract, "rejections") /\ Saved(Extract, "result") = Filtered(RawOf(Extract))
  /\ Has(Extract, "draft") =>
       Has(Extract, "result") /\ Saved(Extract, "draft") = Draft(Saved(Extract, "result"))

IdentityKept ==
  /\ Has(Identity, "input") =>
       /\ Has(Extract, "draft")
       /\ IsFiniteSet(DOMAIN Saved(Identity, "input").events)
       /\ \A k \in DOMAIN Saved(Identity, "input").events : Place(k) \in Nat
  /\ Answered(Identity)
  /\ Has(Identity, "parse") =>
       /\ Has(Identity, "raw")
       /\ Saved(Identity, "parse") = DOMAIN RawOf(Identity) \ Usable(RawOf(Identity))
  /\ Has(Identity, "result") =>
       /\ Has(Identity, "input")
       /\ \/ Unasked(Identity)
          \/ /\ Has(Identity, "parse")
             /\ Saved(Identity, "result") = Restrict(RawOf(Identity), Usable(RawOf(Identity)))

MatchKept(s) ==
  /\ Has(s, "input") => JournalKey \in DOMAIN disk
  /\ Answered(s)
  /\ Has(s, "parse") => Has(s, "raw") /\ Saved(s, "parse") = Spoiled(RawOf(s))
  /\ Has(s, "rejections") =>
       Has(s, "parse") /\ Saved(s, "rejections") = Outside(Saved(s, "input").events, RawOf(s))
  /\ Has(s, "result") =>
       /\ Has(s, "input")
       /\ \/ Unasked(s)
          \/ /\ Has(s, "rejections")
             /\ Saved(s, "result") = Scoped(Saved(s, "input").events, RawOf(s))

SignalKept(s) ==
  /\ Has(s, "input") =>
       /\ AssociationsReady /\ JournalKey \in DOMAIN disk
       /\ DOMAIN Saved(s, "input").events \subseteq DOMAIN Journal
  /\ Answered(s)
  /\ Has(s, "parse") => Has(s, "raw") /\ Saved(s, "parse") = DOMAIN RawOf(s) \ Usable(RawOf(s))
  /\ Has(s, "rejections") =>
       Has(s, "parse") /\ Saved(s, "rejections") = FaultyRows(Saved(s, "input").events, RawOf(s))
  /\ Has(s, "result") =>
       /\ Has(s, "input")
       /\ \/ Unasked(s)
          \/ /\ Has(s, "rejections")
             /\ Saved(s, "result") = GoodPairs(Saved(s, "input").events, RawOf(s))
  /\ Has(s, "complete") => Has(s, "result") /\ Saved(s, "complete") = TRUE

JournalKept ==
  JournalKey \in DOMAIN disk =>
    Has(Identity, "result") /\ DOMAIN Journal = DOMAIN Saved(Identity, "input").events

CheckpointsInv ==
  /\ ExtractKept /\ IdentityKept /\ JournalKept
  /\ \A s \in MatchStages : MatchKept(s)
  /\ \A s \in SignalStages : SignalKept(s)
  /\ Has(Match("node"), "input") => Has(Match("chain"), "result")
  /\ AssociationsReady => \A s \in MatchStages : Has(s, "result")

\* What the run at work has heard, and where it is.
Heeded(s) ==
  IF s = Extract THEN said[s] \in Extractions
  ELSE \/ s \in MatchStages /\ said[s] = Failure
       \/ Asked(s) /\ DOMAIN said[s] = DOMAIN Saved(s, "input").events

Told(s) == Completed(s) \/ s \in DOMAIN said

RunInv ==
  /\ \A s \in DOMAIN said : Heeded(s)
  /\ pc = "prepare_identity" => Told(Extract)
  /\ pc \in {"identity", "prepare_matches"} => Ready(Identity)
  /\ pc = "prepare_matches" => Told(Identity)
  /\ pc = "match" => \A g \in Classes : Ready(Match(g))
  /\ pc \in {"signals", "signal", "compile", "publish", "complete", "done"} => AssociationsReady
  /\ pc \in {"signal", "compile"} => Remaining # {} /\ Ready(Current)
  /\ pc = "compile" => Told(Current)
  /\ pc \in {"publish", "complete", "done"} => Remaining = {}
  /\ pc \in {"complete", "done"} => Unpublished = {}

\* The Events of the batch and the matches they were asked for.
Origin == Resolved(Saved(Identity, "input").events, Saved(Identity, "result"))

OffersInv ==
  /\ \A g \in Classes :
       Has(Match(g), "input") => DOMAIN Saved(Match(g), "input").events = EventsOf(Origin, g)
  /\ Has(Match("node"), "input") =>
       DOMAIN Saved(Match("node"), "input").events
         = DOMAIN Saved(Match("chain"), "result") \ Rejected(Match("chain"))

EntryFields == {"evidence", "class", "decision", "matches", "signals",
                "analysed", "done", "failed", "published"}

\* What the journal says of an Event with its matches, and the answers that
\* made it say so.
EntryInv(k) ==
  LET e == Journal[k]
      o == Origin[k]
  IN  /\ DOMAIN e = EntryFields
      /\ {e.analysed, e.done, e.failed, e.published} \subseteq BOOLEAN
      /\ e.evidence = o.evidence /\ e.class = o.class
      /\ ~e.done => e.decision = o.decision
      /\ e.failed => e.done /\ ~e.published /\ Condemned(k)
      /\ NonCompliant(Saved(Identity, "input").events, Saved(Identity, "result"), k) => e.failed
      /\ e.analysed /\ e.done /\ ~e.published => e.failed
      /\ e.published => e.done /\ Has(Publication, "package")
      /\ e.analysed => Has(Signal(e.class), "input") /\ k \in DOMAIN Saved(Signal(e.class), "input").events
      /\ IF e.analysed THEN e.signals \subseteq Saved(Signal(e.class), "input").events[k]
         ELSE e.signals = {}
      /\ e.matches = PairsOf(k)
      /\ ~e.done \/ e.published => e.matches # {}
      /\ RejectionsOf(k) # {} => e.failed

JournalInv ==
  JournalKey \in DOMAIN disk =>
    IF AssociationsReady THEN \A k \in DOMAIN Journal : EntryInv(k)
    ELSE \/ Journal = Origin
         \/ Journal = Associated(Origin) /\ \A s \in MatchStages : Has(s, "result")

\* A class of Events between its input and its completion.
ClassInv(g) ==
  LET s     == Signal(g)
      input == Saved(s, "input").events
  IN  /\ Has(s, "input") =>
           /\ \A k \in DOMAIN input : k \in DOMAIN Journal /\ Journal[k].class = g
           /\ \A k \in EventsOf(Journal, g) : k \in DOMAIN input
      /\ Has(s, "rejections") =>
           \A k \in DOMAIN RawOf(s) :
             RawOf(s)[k] = None \/ k \in FaultyRows(input, RawOf(s)) => Journal[k].failed
      /\ Has(s, "complete") => \A k \in DOMAIN input : Journal[k].done \/ Journal[k].analysed

PackageInv ==
  Has(Publication, "package") =>
    /\ AssociationsReady /\ Remaining = {}
    /\ \A k \in DOMAIN Journal : Saved(Publication, "package")[k].evidence = Journal[k].evidence

\* What is recorded of the batch is what the journal says of it.
SettledInv ==
  pc = "done" =>
    settled = Evidence \cap
      (Saved(Extract, "parse") \cup Saved(Extract, "rejections")
         \cup UNION {Journal[k].evidence : k \in {k \in DOMAIN Journal : Journal[k].failed}})

BatchInv ==
  /\ CheckpointsInv /\ RunInv /\ OnlyRedundancyBlocks
  /\ OffersInv /\ JournalInv /\ PackageInv /\ SettledInv
  /\ \A g \in Classes : ClassInv(g)

=============================================================================
