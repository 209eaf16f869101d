------------------------------ MODULE RawArchive ------------------------------
(***************************************************************************)
(* Raw Collection V2: acquire once, then archive every article version to  *)
(* the object store and write the run's manifest. A publish lock per run   *)
(* and a lock per article version coordinate executions that share one     *)
(* file system; both fall with the process that holds them.                *)
(* Sources: src/capabilities/collection_v2/functions/collection.py,        *)
(* src/capabilities/collection_v2/internal/{acquisition,storage}.py,       *)
(* src/capabilities/collection/internal/object_storage.py.                 *)
(***************************************************************************)
EXTENDS SourceAcquisition

VARIABLES
  acquisition,  \* acquisition.json of each run
  document,     \* document.json of each article version: the candidate frozen
  original,     \* versions whose original.md exists
  archived,     \* versions whose archived.json exists
  lastError,    \* versions whose last-error.json exists
  manifest      \* manifest.json of each run

archiveVars == <<acquisition, document, original, archived, lastError, manifest>>

ArchiveInit ==
  /\ acquisition = [r \in Run |-> NoFile]
  /\ manifest = [r \in Run |-> NoFile]
  /\ document = <<>> /\ original = {} /\ archived = {} /\ lastError = {}

KeepArticles == UNCHANGED <<document, original, archived, lastError>>

\* The version of an article: canonical URL and body.
Version(c) == <<Canonical[c.article.url], c.article.body>>

-----------------------------------------------------------------------------
(* acquire *)

\* Executions of one run id may overlap; the file is looked for once.
StartArchive(e) ==
  /\ \E r \in Run :
       /\ scenario.workflow[r] = "v2"
       /\ Begin(e, r, IF acquisition[r] = NoFile THEN "snapshot" ELSE "publish")
  /\ UNCHANGED <<archiveVars, store>>

SaveAcquisition(e) ==
  LET me == exec[e] IN
  /\ Fetched(e) /\ scenario.workflow[me.run] = "v2"
  /\ acquisition' = [acquisition EXCEPT ![me.run] = [batches |-> me.got, failed |-> me.failed]]
  /\ Go(e, [me EXCEPT !.pc = "publish", !.got = {}, !.failed = {}])
  /\ UNCHANGED <<scenario, batches, manifest, store>> /\ KeepArticles

-----------------------------------------------------------------------------
(* _publish *)

Publishing == {"archive", "freeze", "original", "upload", "archived"}

\* The run's publish lock; a saved manifest is returned as it is.
LockPublish(e) ==
  LET me == exec[e]  r == me.run IN
  /\ me.pc = "publish"
  /\ \A d \in Exec \ {e} : ~(exec[d].run = r /\ exec[d].pc \in Publishing)
  /\ IF manifest[r] # NoFile THEN End(e)
     ELSE Go(e, [me EXCEPT !.pc = "archive", !.failed = acquisition[r].failed,
                           !.todo = Candidates(acquisition[r].batches)])
  /\ UNCHANGED <<scenario, batches, archiveVars, store>>

\* The candidate with none before it.
First(todo) == {c \in todo : \A d \in todo \ {c} : Earlier(c, d)}

Verdicts == {"archived", "duplicate", "failed", "invalid"}
Item(c, status) == [id |-> c.id, version |-> Version(c), status |-> status]

\* Fault: only versions that reached the store count as handled.
SuccessesHandled(c, items) ==
  {i \in items : i.version = Version(c) /\ i.status \in {"archived", "duplicate"}}

\* What this run already said of the version.
Handled(c, items) == {i \in items : i.version = Version(c)}

\* A candidate is done with: its item joins the list.
Settle(e, c, status) ==
  Go(e, [exec[e] EXCEPT !.pc = "archive", !.todo = @ \ {c}, !.hand = NoFile,
                        !.items = @ \cup {Item(c, status)}])

\* The lock of the article version is free.
ArticleFree(e, v) ==
  \A d \in Exec \ {e} : exec[d].hand # NoFile /\ exec[d].pc \in Publishing
                          => Version(exec[d].hand) # v

\* One attempt per version and run, failed ones included.
NextCandidate(e) ==
  LET me == exec[e] IN
  /\ me.pc = "archive"
  /\ \E c \in First(me.todo) :
       LET said == Handled(c, me.items) IN
       IF c.article.body = Blank THEN Settle(e, c, "invalid")
       ELSE IF said # {}
       THEN Settle(e, c, IF \A i \in said : i.status = "failed" THEN "failed" ELSE "duplicate")
       ELSE /\ ArticleFree(e, Version(c))
            /\ Go(e, [me EXCEPT !.pc = "freeze", !.hand = c])
  /\ UNCHANGED <<scenario, batches, archiveVars, store>>

-----------------------------------------------------------------------------
(* archive_candidate *)

\* The first candidate of a version is frozen; later ones take its bytes.
Freeze(e) ==
  LET c == exec[e].hand  v == Version(c) IN
  /\ exec[e].pc = "freeze"
  /\ document' = Added(document, v, c)
  /\ Goto(e, "original")
  /\ UNCHANGED <<scenario, batches, acquisition, original, archived, lastError, manifest, store>>

\* original.md is written, then the receipt is looked for.
Inspect(e) ==
  LET c == exec[e].hand IN
  /\ exec[e].pc = "original"
  /\ original' = original \cup {Version(c)}
  /\ IF Version(c) \in archived THEN Settle(e, c, "duplicate") ELSE Goto(e, "upload")
  /\ UNCHANGED <<scenario, batches, acquisition, document, archived, lastError, manifest, store>>

\* Fault: the document is rendered from the candidate at hand.
RenderedAnew(c) == c

\* render_raw_markdown of the frozen document
Rendered(c) == document[Version(c)]

Upload(e) ==
  LET c == exec[e].hand  key == <<"v2", Version(c)>> IN
  /\ exec[e].pc = "upload"
  /\ Storable(key, Rendered(c)) /\ Put(key, Rendered(c))
  /\ Goto(e, "archived")
  /\ UNCHANGED <<scenario, batches, archiveVars>>

\* Any exception of the store: its type is kept and the run goes on.
UploadFails(e) ==
  LET c == exec[e].hand  key == <<"v2", Version(c)>> IN
  /\ exec[e].pc = "upload"
  /\ PutFails(key, Rendered(c))
  /\ lastError' = lastError \cup {Version(c)}
  /\ Settle(e, c, "failed")
  /\ UNCHANGED <<scenario, batches, acquisition, document, original, archived, manifest>>

SaveReceipt(e) ==
  LET c == exec[e].hand IN
  /\ exec[e].pc = "archived"
  /\ archived' = archived \cup {Version(c)}
  /\ Settle(e, c, "archived")
  /\ UNCHANGED <<scenario, batches, acquisition, document, original, lastError, manifest, store>>

Outcome(items, failedChannels) ==
  LET failed == failedChannels # {} \/ \E i \in items : i.status \in {"failed", "invalid"}
      usable == \E i \in items : i.status \in {"archived", "duplicate"}
  IN  CASE failed /\ usable -> "partial"
        [] failed /\ ~usable -> "failed"
        [] ~failed /\ \E i \in items : i.status = "archived" -> "completed"
        [] OTHER -> "no_change"

WriteManifest(e) ==
  LET me == exec[e] IN
  /\ me.pc = "archive" /\ me.todo = {}
  /\ manifest' = [manifest EXCEPT ![me.run] =
                    [items |-> me.items, outcome |-> Outcome(me.items, me.failed)]]
  /\ End(e)
  /\ UNCHANGED <<scenario, batches, acquisition, store>> /\ KeepArticles

ArchiveStep(e) ==
  \/ SaveAcquisition(e) \/ LockPublish(e) \/ NextCandidate(e)
  \/ Freeze(e) \/ Inspect(e) \/ Upload(e) \/ UploadFails(e)
  \/ SaveReceipt(e) \/ WriteManifest(e)

-----------------------------------------------------------------------------
(* Properties *)

Saved == {r \in Run : manifest[r] # NoFile}

\* An object is the version as it was first frozen, whoever uploaded it after
\* which failures; a receipt, and every manifest that calls a version archived
\* or a duplicate, has such an object behind it.
ReceiptsAreTrue ==
  /\ \A key \in DOMAIN store : key[1] = "v2" => store[key] = document[key[2]]
  /\ \A v \in archived : <<"v2", v>> \in DOMAIN store
  /\ \A r \in Saved : \A i \in manifest[r].items :
       i.status \in {"archived", "duplicate"} => i.version \in archived

\* Overlapping runs, repeats and crashes between the upload and its receipt
\* included, one item of all manifests archives a version; and within a
\* manifest the candidates of a version agree on whether it reached the store.
OneVerdictPerVersion ==
  \A r, s \in Saved : \A i \in manifest[r].items, j \in manifest[s].items :
    i.version = j.version =>
      /\ i.status = "archived" /\ j.status = "archived" => r = s /\ i = j
      /\ r = s /\ i.status = "failed" => j.status = "failed"

-----------------------------------------------------------------------------
(* The inductive invariant behind them *)

Versions == {Version(c) : c \in CandidateType}
ItemType == [id : CandidateIds, version : Versions, status : Verdicts]
AcquisitionType == [batches : SUBSET BatchType, failed : SUBSET Codes]
ArchiveManifestType ==
  [items : SUBSET ItemType, outcome : {"partial", "failed", "completed", "no_change"}]

ASSUME ArchiveAssumption == NoFile \notin ArchiveManifestType

Handling == Publishing \ {"archive"}
HandVersion(e) == Version(exec[e].hand)

\* What each step has established for the next one of its execution.
AtWork(e) ==
  LET me == exec[e] IN
  /\ me.pc \in Publishing \cup {"publish"} => acquisition[me.run] \in AcquisitionType
  /\ me.pc \in Publishing => manifest[me.run] = NoFile
  /\ me.pc \notin Publishing => me.items = {}
  /\ me.pc \notin Handling => me.hand = NoFile
  /\ me.pc \in Handling =>
       /\ me.hand \in CandidateType /\ me.hand.article.body # Blank
       /\ Handled(me.hand, me.items) = {}
  /\ me.pc \in {"original", "upload", "archived"} => HandVersion(e) \in DOMAIN document
  /\ me.pc \in {"upload", "archived"} => HandVersion(e) \notin archived
  /\ me.pc = "archived" => <<"v2", HandVersion(e)>> \in DOMAIN store

\* One execution publishes a run, and one handles a version.
LocksInv ==
  \A d, e \in Exec : d # e =>
    /\ {exec[d].pc, exec[e].pc} \subseteq Publishing => exec[d].run # exec[e].run
    /\ {exec[d].pc, exec[e].pc} \subseteq Handling => HandVersion(d) # HandVersion(e)

StoreInv ==
  /\ \A key \in DOMAIN store : key[1] = "v2" =>
       key = <<"v2", key[2]>> /\ key[2] \in DOMAIN document /\ store[key] = document[key[2]]
  /\ \A v \in archived : <<"v2", v>> \in DOMAIN store

Coherent(items) ==
  /\ \A i \in items :
       /\ i.status \in {"archived", "duplicate"} => i.version \in archived
       /\ i.status = "invalid" <=> i.version[2] = Blank
  /\ \A i, j \in items : i.version = j.version =>
       /\ i.status = "failed" => j.status = "failed"
       /\ i.status = "archived" /\ j.status = "archived" => i = j

ArchivedIn(items) == {i.version : i \in {j \in items : j.status = "archived"}}

\* A version is archived by one item, of a manifest or still in memory.
ItemsInv ==
  /\ \A e \in Exec : Coherent(exec[e].items)
  /\ \A r \in Saved : Coherent(manifest[r].items)
  /\ \A d, e \in Exec : d # e =>
       ArchivedIn(exec[d].items) \cap ArchivedIn(exec[e].items) = {}
  /\ \A r, s \in Saved : r # s =>
       ArchivedIn(manifest[r].items) \cap ArchivedIn(manifest[s].items) = {}
  /\ \A e \in Exec, r \in Saved :
       ArchivedIn(exec[e].items) \cap ArchivedIn(manifest[r].items) = {}

ArchiveInv == (\A e \in Exec : AtWork(e)) /\ LocksInv /\ StoreInv /\ ItemsInv
=============================================================================
