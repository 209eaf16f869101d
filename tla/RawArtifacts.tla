----------------------------- MODULE RawArtifacts -----------------------------
(***************************************************************************)
(* The Functions of Raw Collection from before the article queue, which    *)
(* Studio versions published then still call: acquire into the staging     *)
(* directory of the run, ask the filter Agent about every candidate, build *)
(* the artifact set against the title index, and publish it file by file,  *)
(* the manifest and its feed line last. No lock orders two runs.           *)
(* Sources: src/capabilities/collection/functions/collection.py,           *)
(* src/capabilities/collection/internal/{acquisition,buffer,artifacts}.py. *)
(***************************************************************************)
EXTENDS SourceAcquisition

CONSTANTS
  MaxBatch,      \* candidates per filter batch
  MaxOmissions,  \* RAW_EVIDENCE_FILTER_MAX_OMISSIONS
  Judgements,    \* what the filter may say of a candidate, "omitted" included
  Near,          \* pairs of titles within the simhash radius
  LegacyUrls     \* canonical URLs of the index before titles

VARIABLES
  curation,    \* staging, title-decisions.json: candidate id -> judgement
  omissions,   \* staging, omission-counts.json: candidate id -> count
  staged,      \* staging: the artifact set built last
  documents,   \* documents/ of the root
  ledger,      \* runs/<id>/candidates.jsonl
  index,       \* indexes/title-dedup-index.tsv
  published,   \* runs/<id>/manifest.json
  feed         \* indexes/manifest-index.jsonl

staging == <<curation, omissions, staged>>
root == <<documents, ledger, index, published, feed>>
artifactVars == <<staging, root>>

ArtifactInit ==
  /\ curation = [r \in Run |-> <<>>] /\ omissions = [r \in Run |-> <<>>]
  /\ staged = [r \in Run |-> NoFile]
  /\ documents = {} /\ index = {} /\ feed = {}
  /\ ledger = [r \in Run |-> NoFile] /\ published = [r \in Run |-> NoFile]

\* One execution of a run id at a time; a repeat acquires once more, into the
\* same staging directory.
StartStaged(e) ==
  /\ \E r \in Run :
       /\ scenario.workflow[r] = "v1"
       /\ \A d \in Exec : ~Active(d, r)
       /\ Begin(e, r, "snapshot")
  /\ UNCHANGED <<artifactVars, store>>

Collected(e) ==
  /\ Fetched(e) /\ scenario.workflow[exec[e].run] = "v1"
  /\ Goto(e, "prepare")
  /\ UNCHANGED <<scenario, batches, store, artifactVars>>

-----------------------------------------------------------------------------
(* The filter loop *)

IdsOf(candidates) == {c.id : c \in candidates}

\* Batches are read in one order; the character budget may end the selection
\* early, but never before its first candidate.
Selections(undecided) ==
  {asked \in SUBSET undecided :
     /\ Cardinality(asked) <= MaxBatch /\ (asked = {} => undecided = {})
     /\ \A id \in asked, other \in undecided \ asked : Below(id, other)}

Prepare(e) ==
  LET r == exec[e].run IN
  /\ exec[e].pc = "prepare"
  /\ \E asked \in Selections(IdsOf(Candidates(batches[r])) \ DOMAIN curation[r]) :
       Go(e, [exec[e] EXCEPT !.pc = "filter", !.asked = asked])
  /\ UNCHANGED <<scenario, batches, store, artifactVars>>

\* Fault: the decisions of this response replace the file.
Replaced(saved, said) == said

Merged(saved, said) ==
  [id \in DOMAIN saved \cup DOMAIN said |-> IF id \in DOMAIN said THEN said[id] ELSE saved[id]]

\* The response is filed in two writes. First what it decides...
SaveDecisions(e) ==
  LET me == exec[e]  r == me.run IN
  /\ me.pc = "filter"
  /\ \E draft \in [me.asked -> Judgements] :
       LET missing == {id \in me.asked : draft[id] = "omitted"} IN
       curation' = [curation EXCEPT ![r] =
                      Merged(@, [id \in me.asked \ missing |-> draft[id]])]
  /\ Goto(e, "count")
  /\ UNCHANGED <<scenario, batches, store, omissions, staged, root>>

\* A decided candidate loses its count, one left out again gains one.
Counted(counts, asked, missing) ==
  [id \in (DOMAIN counts \ asked) \cup missing |->
     (IF id \in DOMAIN counts THEN counts[id] ELSE 0) + (IF id \in missing THEN 1 ELSE 0)]

\* ... then whom it left out, which a death in between leaves uncounted. The
\* counts are on file before one that is too high aborts the run.
SaveCounts(e) ==
  LET me      == exec[e]
      r       == me.run
      missing == me.asked \ DOMAIN curation[r]
      counts  == Counted(omissions[r], me.asked, missing)
      decided == IdsOf(Candidates(batches[r])) = DOMAIN curation[r]
  IN
  /\ me.pc = "count"
  /\ omissions' = [omissions EXCEPT ![r] = counts]
  /\ IF \E id \in missing : counts[id] >= MaxOmissions THEN End(e)
     ELSE Go(e, [me EXCEPT !.asked = {}, !.pc = IF decided THEN "build" ELSE "prepare"])
  /\ UNCHANGED <<scenario, batches, store, curation, staged, root>>

\* A draft that repeats a candidate or names one it was not asked about.
RefuseDraft(e) ==
  /\ exec[e].pc = "filter" /\ exec[e].asked # {}
  /\ End(e)
  /\ UNCHANGED <<scenario, batches, store, artifactVars>>

-----------------------------------------------------------------------------
(* build_artifact_set *)

Line(c) == [url |-> Canonical[c.article.url], title |-> c.article.title]

DispositionNames ==
  {"irrelevant", "invalid_result", "known_url", "exact_duplicate", "near_duplicate", "accepted"}

\* The disposition of a candidate against the lines known so far.
Disposition(c, judgement, known) ==
  CASE judgement = "irrelevant" -> "irrelevant"
    [] judgement = "relevant" /\ c.article.title = NoTitle -> "invalid_result"
    [] OTHER ->
         IF Line(c).url \in LegacyUrls \cup {l.url : l \in known} THEN "known_url"
         ELSE IF \E l \in known : l.title = c.article.title THEN "exact_duplicate"
         ELSE IF \E l \in known : {l.title, c.article.title} \in Near THEN "near_duplicate"
         ELSE "accepted"

\* Lines of earlier runs and of this one.
Known(known, accepted) == known \cup {Line(c) : c \in accepted}

\* Each candidate is compared with those accepted before it, in their order.
Ruling(c, judged, accepted) ==
  Disposition(c, judged[c.id], Known(index, {d \in accepted : Earlier(d, c)}))

\* What the loop accepts: the one set that its own rulings yield.
Accepted(candidates, judged) ==
  {accepted \in SUBSET candidates :
     accepted = {c \in candidates : Ruling(c, judged, accepted) = "accepted"}}

Ledger(candidates, judged, accepted) ==
  [rows |-> {[id |-> c.id, disposition |-> Ruling(c, judged, accepted)] : c \in candidates}]

\* A manifest also names its builder: it carries the time of the build.
Build(e) ==
  LET me == exec[e]  r == me.run
      candidates == Candidates(batches[r])
  IN
  /\ me.pc = "build"
  /\ \/ batches[r] = {} /\ End(e) /\ UNCHANGED staged
     \/ /\ batches[r] # {}
        /\ \E accepted \in Accepted(candidates, curation[r]) :
             LET lines == Ledger(candidates, curation[r], accepted) IN
             /\ staged' = [staged EXCEPT ![r] =
                  [ledger |-> lines, index |-> index \cup {Line(c) : c \in accepted},
                   manifest |-> [by |-> e, ledger |-> lines, accepted |-> accepted]]]
             /\ Go(e, [me EXCEPT !.pc = "objects", !.todo = accepted])
  /\ UNCHANGED <<scenario, batches, store, curation, omissions, root>>

-----------------------------------------------------------------------------
(* publish_artifact_set *)

\* An object is named after its content, so it never conflicts.
UploadDocument(e) ==
  LET me == exec[e] IN
  /\ me.pc = "objects" /\ me.todo # {}
  /\ \E c \in me.todo :
       /\ Put(<<"v1", c>>, c)
       /\ Go(e, [me EXCEPT !.todo = @ \ {c}])
  /\ UNCHANGED <<scenario, batches, artifactVars>>

\* An exception of the store aborts the run, before or after the object.
UploadDocumentFails(e) ==
  /\ exec[e].pc = "objects" /\ exec[e].todo # {}
  /\ \E c \in exec[e].todo : PutFails(<<"v1", c>>, c)
  /\ End(e)
  /\ UNCHANGED <<scenario, batches, artifactVars>>

PublishDocuments(e) ==
  LET me == exec[e] IN
  /\ me.pc = "objects" /\ me.todo = {}
  /\ documents' = documents \cup staged[me.run].manifest.accepted
  /\ Goto(e, "ledger")
  /\ UNCHANGED <<scenario, batches, store, staging, ledger, index, published, feed>>

\* Fault: a file of an earlier execution is replaced.
Replacing(file, content) == TRUE

\* _publish_file: what is there must be the same.
Publishable(file, content) == file \in {NoFile, content}

PublishLedger(e) ==
  LET r == exec[e].run IN
  /\ exec[e].pc = "ledger"
  /\ IF Publishable(ledger[r], staged[r].ledger)
     THEN ledger' = [ledger EXCEPT ![r] = staged[r].ledger] /\ Goto(e, "index")
     ELSE End(e) /\ UNCHANGED ledger
  /\ UNCHANGED <<scenario, batches, store, staging, documents, index, published, feed>>

\* The whole index as it was when the set was built, plus this run.
PublishIndex(e) ==
  /\ exec[e].pc = "index"
  /\ index' = staged[exec[e].run].index
  /\ Goto(e, "manifest")
  /\ UNCHANGED <<scenario, batches, store, staging, documents, ledger, published, feed>>

PublishManifest(e) ==
  LET r == exec[e].run IN
  /\ exec[e].pc = "manifest"
  /\ IF Publishable(published[r], staged[r].manifest)
     THEN published' = [published EXCEPT ![r] = staged[r].manifest] /\ Goto(e, "feed")
     ELSE End(e) /\ UNCHANGED published
  /\ UNCHANGED <<scenario, batches, store, staging, documents, ledger, index, feed>>

\* _append_manifest_index: one line per run.
AppendFeed(e) ==
  LET r == exec[e].run  line == [run |-> r, manifest |-> published[r]] IN
  /\ exec[e].pc = "feed"
  /\ IF \E l \in feed : l.run = r /\ l # line THEN End(e) /\ UNCHANGED feed
     ELSE feed' = feed \cup {line} /\ Goto(e, "clean")
  /\ UNCHANGED <<scenario, batches, store, staging, documents, ledger, index, published>>

\* The staging directory goes, batches and decisions included.
Clean(e) ==
  LET r == exec[e].run IN
  /\ exec[e].pc = "clean"
  /\ batches' = [batches EXCEPT ![r] = {}]
  /\ curation' = [curation EXCEPT ![r] = <<>>]
  /\ omissions' = [omissions EXCEPT ![r] = <<>>]
  /\ staged' = [staged EXCEPT ![r] = NoFile]
  /\ End(e)
  /\ UNCHANGED <<scenario, store, root>>

ArtifactStep(e) ==
  \/ Collected(e) \/ Prepare(e) \/ SaveDecisions(e) \/ SaveCounts(e) \/ RefuseDraft(e)
  \/ Build(e)
  \/ UploadDocument(e) \/ UploadDocumentFails(e) \/ PublishDocuments(e) \/ PublishLedger(e)
  \/ PublishIndex(e) \/ PublishManifest(e) \/ AppendFeed(e) \/ Clean(e)

-----------------------------------------------------------------------------
(* Properties *)

Apart(accepted) ==
  \A c, d \in accepted : c # d =>
    /\ Line(c).url # Line(d).url /\ Line(c).title # Line(d).title
    /\ {Line(c).title, Line(d).title} \notin Near

\* A visible manifest is whole, after any crash, repeat or refused upload: its
\* documents are in the store and under the root, its ledger is the one on
\* file, no two of its documents share a URL or a title or have near titles,
\* and a line of the feed describes the manifest as it is.
PublishedIsWhole ==
  /\ \A r \in Run : published[r] # NoFile =>
       LET m == published[r] IN
       /\ m.accepted \subseteq documents /\ ledger[r] = m.ledger
       /\ \A c \in m.accepted : <<"v1", c>> \in DOMAIN store
       /\ Apart(m.accepted)
  /\ \A line \in feed : published[line.run] = line.manifest

DecisionStands(r, id) ==
  \/ id \in DOMAIN curation'[r] /\ curation'[r][id] = curation[r][id]
  \/ \E line \in feed : line.run = r /\ id \in IdsOf(line.manifest.ledger.rows)

OmissionStands(r, id) ==
  \/ id \in DOMAIN omissions'[r] /\ omissions'[r][id] >= omissions[r][id]
  \/ id \in DOMAIN curation'[r] \/ batches'[r] = {}

AllStands ==
  /\ \A r \in Run :
       /\ \A id \in DOMAIN curation[r] : DecisionStands(r, id)
       /\ \A id \in DOMAIN omissions[r] : OmissionStands(r, id)
       /\ published[r] # NoFile => published'[r] = published[r]
       /\ ledger[r] # NoFile => ledger'[r] = ledger[r]
  /\ feed \subseteq feed'

\* What the filter once said of a candidate, and how often it is on file to have
\* left one out (an answer whose run dies before the counts are written is not
\* counted), stands through partial answers, repeats and crashes until the manifest of
\* the run is in the feed (an omission until the candidate is decided); and no
\* published manifest, ledger or feed line is ever changed or withdrawn.
DecisionsStand == [][AllStands]_<<artifactVars>>

-----------------------------------------------------------------------------
(* The inductive invariant behind them *)

Rows == [id : CandidateIds, disposition : DispositionNames]
LedgerType == [rows : SUBSET Rows]
ManifestType == [by : Exec, ledger : LedgerType, accepted : SUBSET CandidateType]
StagedType ==
  [ledger : LedgerType, index : SUBSET {Line(c) : c \in CandidateType}, manifest : ManifestType]

ASSUME ArtifactAssumption ==
  NoFile \notin LedgerType /\ NoFile \notin ManifestType

Staging ==
  {"prepare", "filter", "count", "build", "objects", "ledger", "index", "manifest", "feed", "clean"}

\* One execution works on a run of this workflow, and only on such runs.
StagingInv ==
  /\ \A e \in Exec : exec[e].pc \in Staging => scenario.workflow[exec[e].run] = "v1"
  /\ \A d, e \in Exec : d # e /\ {exec[d].pc, exec[e].pc} \cap {"idle", "ended"} = {} =>
       exec[d].run # exec[e].run \/ scenario.workflow[exec[d].run] = "v2"

\* A channel is asked once by an execution, so an id names one candidate.
CandidatesInv ==
  \A r \in Run : \A c \in Candidates(batches[r]) :
    /\ exec[c.id[1]].pc \notin {"idle", "snapshot"}
    /\ exec[c.id[1]].pc = "fetch" => c.id[2] \notin exec[c.id[1]].pending
    /\ \A d \in Candidates(batches[r]) : c.id = d.id => c = d

Stored(c) == <<"v1", c>> \in DOMAIN store

\* How far the set of a run has come, by the place of its execution.
Reached(e) ==
  LET me == exec[e]  r == me.run  m == staged[r].manifest IN
  /\ me.pc = "filter" => me.asked \in SUBSET (CandidateIds \ DOMAIN curation[r])
  /\ me.pc \in Staging \ {"prepare", "filter", "count"} =>
       DOMAIN curation[r] = IdsOf(Candidates(batches[r]))
  /\ me.pc \in Staging \ {"prepare", "filter", "count", "build"} =>
       /\ staged[r] \in StagedType /\ staged[r].ledger = m.ledger
       /\ IdsOf(m.ledger.rows) = DOMAIN curation[r] /\ Apart(m.accepted)
       /\ \A c \in m.accepted \ me.todo : Stored(c)
  /\ me.pc \in {"ledger", "index", "manifest", "feed", "clean"} =>
       me.todo = {} /\ m.accepted \subseteq documents
  /\ me.pc \in {"index", "manifest", "feed", "clean"} => ledger[r] = m.ledger
  /\ me.pc \in {"feed", "clean"} => published[r] = m
  /\ me.pc = "clean" => [run |-> r, manifest |-> m] \in feed

ArtifactInv ==
  StagingInv /\ CandidatesInv /\ (\A e \in Exec : Reached(e)) /\ PublishedIsWhole
=============================================================================
