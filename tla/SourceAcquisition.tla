-------------------------- MODULE SourceAcquisition --------------------------
(***************************************************************************)
(* How both raw collection workflows acquire: one complete Source Snapshot *)
(* from Data, every channel asked once, a failing channel cut off from its *)
(* siblings, and each complete answer kept as a batch file of the run.     *)
(* Sources: src/capabilities/collection/internal/{source_snapshot,         *)
(* acquisition,buffer}.py, channels/models.py, dispatchers/fetch.py, and   *)
(* src/capabilities/collection_v2/internal/acquisition.py.                 *)
(*                                                                         *)
(* An execution is one call of a workflow with a run id; a repeat is       *)
(* another execution.  A candidate is told from every other one by who     *)
(* fetched it, from which channel and in which place (a fresh UUID).       *)
(***************************************************************************)
EXTENDS Naturals, Sequences, FiniteSets, TLC

CONSTANTS
  Run,        \* run ids, numbered in the order they are first used
  Exec,       \* executions, numbered in the order they start
  Scenarios,  \* [workflow, starts, snapshots]: "v1" or "v2" for each run, the number
              \* of executions, and the sequences of sources Data may serve
  Answers,    \* Answers[code]: what a channel may answer, Failure or articles
  Failure,    \* an error, a timeout, an adapter that is not configured
  Canonical,  \* Canonical[url]: the URL without its tracking parameters
  Blank,      \* a body with nothing in it
  NoTitle,    \* a title with nothing left once normalized
  NoFile

\* What the channels can bring, and the candidates made of it.
Codes == DOMAIN Answers
Answered == (UNION {Answers[code] : code \in Codes}) \ {Failure}
Places == UNION {DOMAIN answer : answer \in Answered}
Articles == UNION {{answer[i] : i \in DOMAIN answer} : answer \in Answered}
CandidateIds == Exec \X Codes \X Places
CandidateType == [id : CandidateIds, article : Articles]
BatchType == [by : Exec, code : Codes, candidates : SUBSET CandidateType]

ASSUME AcquisitionAssumption ==
  /\ Exec \cup Run \cup Codes \cup Places \subseteq Nat
  /\ \A a \in Articles : a.url \in Nat /\ a.connector \in Nat
  /\ \A s \in Scenarios :
       /\ s.workflow \in [Run -> {"v1", "v2"}] /\ s.starts \in Nat
       /\ \A sources \in s.snapshots : \A i \in DOMAIN sources : sources[i].code \in Codes
  /\ NoFile \notin CandidateType

VARIABLES
  scenario,
  batches,    \* batches/*.json of each run
  store,      \* the object store: key -> content (external)
  exec

\* What the stages after acquisition hold in memory comes last.
Idle ==
  [pc |-> "idle", run |-> NoFile, pending |-> {}, got |-> {}, failed |-> {},
   todo |-> {}, hand |-> NoFile, asked |-> {}, items |-> {}]

Go(e, next) == exec' = [exec EXCEPT ![e] = next]
Goto(e, pc) == exec' = [exec EXCEPT ![e].pc = pc]
End(e) == Go(e, [Idle EXCEPT !.pc = "ended", !.run = exec[e].run])
Active(e, r) == exec[e].run = r /\ exec[e].pc # "ended"

AcquisitionInit ==
  /\ batches = [r \in Run |-> {}] /\ store = <<>>
  /\ \E s \in Scenarios :
       /\ scenario = s
       /\ exec = [e \in Exec |-> IF e <= s.starts THEN Idle ELSE [Idle EXCEPT !.pc = "ended"]]

\* Executions, and runs, are numbered in the order they start.
Begin(e, r, pc) ==
  /\ exec[e].pc = "idle" /\ \A d \in Exec : d < e => exec[d].pc # "idle"
  /\ \A s \in Run : s < r => \E d \in Exec : exec[d].run = s
  /\ Go(e, [Idle EXCEPT !.pc = pc, !.run = r])
  /\ UNCHANGED <<scenario, batches>>

-----------------------------------------------------------------------------
(* The Source Snapshot *)

TypeRank == [api |-> 1, rss |-> 2, web_search |-> 3]

\* _ADAPTER_CHANNEL_TYPES
Speaks ==
  [a \in {"bocha", "tavily", "parallel"} |-> "web_search"]
  @@ [a \in {"cls", "eastmoney_fast", "eastmoney_stock", "stcn"} |-> "api"]
  @@ [a \in {"generic_rss"} |-> "rss"]

Executable(source) ==
  /\ Speaks[source.adapter] = source.type
  /\ source.ownership = "dynamic" => source.adapter = "generic_rss"

Precedes(s, t) ==
  \/ TypeRank[s.type] < TypeRank[t.type]
  \/ s.type = t.type /\ s.priority < t.priority
  \/ s.type = t.type /\ s.priority = t.priority /\ s.code < t.code

\* All or nothing: one bad source, or one out of order, and the run aborts.
Complete(sources) ==
  /\ \A i \in DOMAIN sources : sources[i].enabled /\ Executable(sources[i])
  /\ \A i, j \in DOMAIN sources :
       i < j => /\ sources[i].id # sources[j].id /\ sources[i].code # sources[j].code
                /\ Precedes(sources[i], sources[j])
  /\ Cardinality({i \in DOMAIN sources : sources[i].type = "web_search"}) <= 1

LoadSnapshot(e) ==
  /\ exec[e].pc = "snapshot"
  /\ \E sources \in scenario.snapshots :
       IF Complete(sources)
       THEN Go(e, [exec[e] EXCEPT !.pc = "fetch",
                                  !.pending = {sources[i].code : i \in DOMAIN sources}])
       ELSE End(e)
  /\ UNCHANGED <<scenario, batches, store>>

-----------------------------------------------------------------------------
(* The channels *)

\* An article of another channel fails the whole answer.
Usable(code, answer) ==
  answer # Failure /\ \A i \in DOMAIN answer : answer[i].connector = code

Batch(e, code, answer) ==
  [by |-> e, code |-> code,
   candidates |-> {[id |-> <<e, code, i>>, article |-> answer[i]] : i \in DOMAIN answer}]

\* One channel after another in any order; what was kept survives the failure
\* of a sibling and the death of the execution.
Fetch(e) ==
  LET me == exec[e] IN
  /\ me.pc = "fetch" /\ me.pending # {}
  /\ \E code \in me.pending : \E answer \in Answers[code] :
       LET rest == [me EXCEPT !.pending = @ \ {code}] IN
       IF Usable(code, answer)
       THEN /\ batches' = [batches EXCEPT ![me.run] = @ \cup {Batch(e, code, answer)}]
            /\ Go(e, [rest EXCEPT !.got = @ \cup {Batch(e, code, answer)}])
       ELSE /\ Go(e, [rest EXCEPT !.failed = @ \cup {code}])
            /\ UNCHANGED batches
  /\ UNCHANGED <<scenario, store>>

Fetched(e) == exec[e].pc = "fetch" /\ exec[e].pending = {}

Candidates(found) == UNION {b.candidates : b \in found}

\* Comparison of two keys place by place.
Below(key, other) ==
  \E i \in DOMAIN key : key[i] < other[i] /\ \A k \in 1..i - 1 : key[k] = other[k]

\* The order by URL, channel and candidate id; URLs are numbered in their order.
Earlier(c, d) ==
  LET key(x) == <<x.article.url, x.article.connector, x.id[1], x.id[2], x.id[3]>> IN
  Below(key(c), key(d))

-----------------------------------------------------------------------------
(* The object store *)

\* publish_markdown: an object that is there must be the same, and is never
\* overwritten.
Storable(key, content) == key \in DOMAIN store => store[key] = content
Added(files, key, content) ==
  [k \in DOMAIN files \cup {key} |-> IF k \in DOMAIN files THEN files[k] ELSE content]
Put(key, content) == store' = Added(store, key, content)

\* A call that fails does so before or after the object is stored.
PutFails(key, content) == Put(key, content) \/ UNCHANGED store
=============================================================================
