# Verification of tidewise-agent-os

TLA+ models of the AgentOS pipeline: collection of articles, their review and publication as
Evidence, extraction of Events, the knowledge graph and its projections, and the reasoning,
reports and research built on them. TLC checks the models on small instances; TLAPS proves
for every instance what each of them promises: the Event batch and its stages, the article
queue, raw collection, the projections, the geopolitical research, and the investment
reasoning with its report and its publication. Every safety property a passing run checks is
proved as well. Paths below are relative to the repository root.

## 1. The system

One uvicorn process (one worker, `Dockerfile`) hosts Agno workflows. Steps are
Python Functions or Agent (LLM) calls; synchronous Functions run on the event
loop, `await`s and threads carry the HTTP calls. The durable state of a pipeline
stage is a directory tree: JSON files written by write-to-temporary and rename,
queues made of marker files, `flock` around each read-modify-write. Schedules
start collection hourly and Event extraction every minute; runs can also be
started by hand, and a schedule's lock is taken over after two hours, so runs of
one workflow may overlap. Leases and claims with expiry, not the scheduler, keep
overlapping runs apart. The graph is written by command lines outside that
process; of these only the Company commands exclude each other.

    sources -> raw collection: channels -> filter or archive
                     |
                     v
               article queue -> Reviewer -> Evidence publication
                                                  |  Event queue
                                                  v
               event-extraction: leased batch -> Agents -> Data, graph, Signals
                                                                     |
    Data -> projections (command lines) -> graph ---------------------+
                                                                     v
                        investment reasoning -> conclusion -> report -> Data
                        geopolitical research: story selection -> remote teams -> reports

### Inventory

| Component | State | Operations | Hard behaviour | What makes it correct |
|---|---|---|---|---|
| Event queue (`capabilities/event/internal/queue.py`) | marker files `pending`, `processing/<batch>`, `completed`, `failed` | enqueue, reconcile into processing, finalize | crash between renames | an Evidence is in one place, none lost |
| Leased batch (`capabilities/event/internal/storage.py`) | `.pending/<batch>`: input, lease, checkpoints, journal, manifest; `batches/` | claim or resume, freeze, save journal, renew, release, complete | lease lapses under a waiting run; crash in the claim or the completion | one batch; always resumable; writes fenced by the lease |
| Event extraction workflow (`functions/batch.py`, `functions/storyline.py`, `functions/extraction.py`) | checkpoints of each stage; what a run holds in memory | extract, identity, four matching branches, Signals, package, publish, settle | deaths between the writes of one step, changed catalogs, partial and malformed answers | a resumed run agrees with its checkpoints; the batch is settled as first answered |
| Article queue (`capabilities/collection/internal/article_queue.py`) | `items/<key>/state.json`, `review.json`, `publication.json`; markers | enqueue, claim and sweep, save, finish, fail, upload | claim expiry, crash between archive and state | reviewed once, settled once |
| Article review workflow (`functions/review.py`, `app/workflow_runtime.py`) | the run's claim | prepare, review, publish, record failure | failure records that fail | a run never hides a failure |
| Evidence publication (`capabilities/evidence/`) | pending and final Artifacts, bindings, legacy cursor | curate, publish, reuse, cutover | final manifest before Event queue | published Evidence reaches the Event queue |
| Raw acquisition, title filter, artifact set (`capabilities/collection/`) | staging directory, documents, ledger, title index, manifests, feed | snapshot, fetch, filter loop, build, publish file by file | partial answers, a repeat after any file, two runs over one index | every candidate decided once; a visible manifest is whole |
| Collection V2 (`capabilities/collection_v2/`) | acquisition, frozen document, receipt, run manifest | acquire, archive, write manifest | store that fails after storing, upload without receipt, overlap | one archive per article version, true receipts |
| Geopolitical research (`capabilities/geopolitical_research/`, `workflows/investment_reasoning.py`) | `runs/<run>/plan.json`, `result.json`; `jobs/<key>/receipt.json`, `report.md`; two kinds of lock | select, dispatch, poll, resume | unknown dispatch outcome, resumption by another run, another service | at most one paid remote run per job; receipt, report and results agree |
| Investment reasoning (`capabilities/investment/internal/{context,engine,local_runtime}.py`) | what a run holds in memory | read context, assess layers, relate, propagate in rounds, repair, synthesize, gate | any answers of agents and reviewers within their contracts; cut contexts; cycles | every accepted conclusion is grounded in Signals of the window |
| Investment report (`internal/{reporting,report_contract}.py`) | one report document | assemble, rewrite prose, build the publication | dangling keys, basis and Evidence of claims | what is published is closed and founded |
| Investment publication (`internal/{storage,report_publication}.py`) | write-once `conclusions/<run>.json`, `reports/<run>.json`; records at Data | create once, publish with bounded retries | overlapping executions, lost answers, late requests | one report per run, true outcomes |
| Sematica projections (`src/sematica/projection/`, `initialization/`) | the graph | load, plan, preflight, sweep, write in batches, verify | no lock, Data moving between pages, deaths between batches | a quiet run converges; held facts stay |
| Company projection (`projection/company*.py`) | run directory: manifest, decisions; the graph | plan, infer, stage, activate, replace, verify | resumption over a moved catalog or another graph | relations grounded in the frozen manifest |
| Story query | - | rank stored Events | - | - |
| Scheduler lock (`db/scheduler_postgres.py`) | rows of the library | claim due schedule | stale lock of a live run | bounded overlap |
| Agents, registry, initialization, deployment scripts | configuration | - | - | - |

`PROJECT.json` lists every component with its status and every hazard with its
source line and the properties aimed at it.

## 2. Plan

The order is by importance to the pipeline.

Done:

1. `EventBatch`: queue, lease, decisions, receipts; refinement of `EvidenceLedger`;
   proofs in `EventBatchProofs`.
2. `ArticleQueue`: claims, reviews, publication, cutover; proofs in `ArticleQueueProofs`.
3. `GeopoliticalResearch`: receipts, locks, polling; proofs in `GeopoliticalResearchProofs`.
4. `BatchAnalysis`: the stages behind the single answer of `EventBatch`; proofs in
   `BatchAnalysisProofs`.
5. `InvestmentEngine`, `InvestmentContext`, `InvestmentRounds`, `InvestmentReport`,
   composed in `InvestmentReporting`; proofs in `InvestmentReasoningProofs`.
6. `InvestmentPublication` with its abstract `ReportLedger`; proofs and the refinement
   in `InvestmentPublicationProofs`.
7. `KnowledgeGraph`, `EntityPlans`, `EntityProjections`, `CompanyDecisions`, composed in
   `CompanyProjection`; proofs in `CompanyProjectionProofs`.
8. `SourceAcquisition`, `RawArchive`, `RawArtifacts`, composed in `RawCollection`; proofs
   in `RawCollectionProofs`.

Left, in this order:

1. Evidence publication: failure records of a Data POST, the legacy cursor over raw
   manifests, and the composition with the Event queue of `EventBatch`.
2. The measure of the input budget and the streaming variants of the Event Steps.
3. The story query and the selection of stories as algorithms against reference
   definitions.
4. The scheduler's two-hour takeover, as a source of the overlap assumed here.

## 3. Modules

### EventBatch

A run of the workflow is a `Worker`; what it holds in memory is `job[w]`.
Everything done under `.claim.lock` is one action. A call that leaves the lock
(an Agent, the Data POST, the graph) is a step of its own, so a lease may lapse
and another run may take over between any two of a run's steps.

| Action | Code |
|---|---|
| `Enqueue` | `enqueue_evidence_artifact`. It takes no lock, but nothing else runs on the event loop meanwhile |
| `Resume`, `ClaimFresh` | the two halves of `claim_event_batch` |
| `Pin`, `PinRefused` | `claim_parallel_batch` after the claim |
| `AgentAnswers`, `FreezeAnswer` | an Agent Step, then `_response` and `freeze_batch_checkpoint` |
| `OverBudget` | `_call`: the input is frozen and then refused, by this run and every later one |
| `Compile` | `freeze_batch_associations` ... `freeze_publication_package` |
| `StartPublication`, `Post`, `SaveAck`, `Project` | `publish_next_batch_event`, `LocalEventWorkflowRuntime.publish`, Signal projection |
| `FinishCandidate`, `RejectCandidate` | `finish_storyline_candidate`, the handler of permanent rejections |
| `SaveRefused`, `PublicationFails`, `FreezeRefused` | failures; only the storyline Functions release the lease. `FreezeRefused` is a lost lease, or a checkpoint that differs from the frozen one |
| `Complete` | `complete_storyline_batch` and `complete_batch` |
| `...Cut`, `Crash` | a prefix of the file operations took place |

Abstractions. A batch id is a hash of its Evidence ids, so a batch *is* its set
of Evidence. There is one candidate per Evidence. All Agent answers of a batch
are one answer, a verdict per candidate: publish, ignore (no Event, duplicate),
reject (an invalid answer). A lease is its token and whether it is unexpired;
renewal keeps it so. Data and graph effects are sets because their identities
are deterministic (`submission_id`, Episode and Signal uuids). Progress of a
candidate is open, started (checkpoint before the POST), acked (event id
journaled), then done, ignored or rejected.

`blocked` are the batches whose own checkpoints stop every later run: an input over
the budget, or an extraction that a later run reads back shorter than it was frozen
(the finding `batch_resume`). Which batches those are depends on data this module
leaves out, so it is chosen where the checkpoint is frozen: by `OverBudget`, or by
`FreezeAnswer`, after which the run that asked goes on and every other one is refused
(`ReadsBackShorter`). Which checkpoint it is, and when reading it back is shorter, is
in `BatchAnalysis`. In the code the batch is blocked from the first of the extraction's
checkpoints on; here, where all answers are one, from their freeze on.

### EvidenceLedger and EventBatchLedger

`EvidenceLedger` is what Event extraction promises: an Evidence is queued once,
decided once with its batch, recorded in Data only when the decision was to
publish, and settled once, as decided. `EventBatchLedger` defines the refinement
mapping: place from the queue directories, decision from the journal once the
publication package is frozen, recorded from the acknowledged POSTs. `event_liveness`
checks the refinement on its instance and `EventBatchProofs` proves it.

### ArticleQueue

A raw-collection run is a `Worker`. `status`, `attempts`, `token`, `live` and
`lastError` are `state.json`, `marker` the files of `pending/`, `completed/`,
`excluded/`, `failed/`; `review` and `publication` the immutable payloads;
`uploaded`, `data`, `evidence` and `eventMarks` what left the queue.

| Action | Code |
|---|---|
| `Collect`, `CollectCut` | `collect_articles`, `_enqueue` |
| `Claim`, `ClaimNothing`, `SweepCut` | `claim_next(fresh_only=True)` with the sweep of markers it passes |
| `ReusePublished`, `Prepare` | `prepare_evidence_review` |
| `AgentReviews`, `StepFails` | the guarded Reviewer Step (`app/workflow_runtime.py`) and any call that raises |
| `SaveReview`, `Exclude`, `RejectReview`, `SavePublication` | `save_article_review`, `validate_article_review`, `curate_evidence` |
| `CheckUpload`, `Upload` | `upload_article`: the claim is checked, then the lock is given back |
| `PostEvidence`, `WriteManifest`, `PublishAgain` | `publish_evidence` |
| `CompleteArticle`, `FinishCut` | `finish_claim` |
| `RecordFailure`, `RecordFailureCut`, `RecordingRefused` | `fail_claim` and `record_article_failure` |
| `LegacyPublish`, `StopConsumers`, `Cutover`, `CutoverExcluded` and their cuts | the legacy consumer and `scripts/cutover_article_workflow.py` |

Abstractions. What the Reviewer returns is what curation makes of it: irrelevant,
no canonical proposition, unknown category or invalid, publishable. Markers are
swept in any order (the code orders by modification time). A sweep may stop at
the article it claims, so any subset of the others may have been swept.

### GeopoliticalResearch

A workflow run is an id; an `Exec` is one execution of it in the process, since a
run that was interrupted is executed again, and two runs may research the same
job. A job is the digest that `job_key` makes of a story with its Events, the
window and the market. `exec[x]` is what an execution holds: the awaits inside
`research_story` are its program points, and the run's and the job's `flock` are
held exactly at those points. `remote` is the research service: it may create a
run for a POST whose answer is lost, and its runs end whenever they like.

| Action | Code |
|---|---|
| `Start`, `Select` | `select_geopolitical_stories`; the await is `load_geopolitical_event_window` |
| `RunBusy`, `Finish` | `research_next_geopolitical_story` that finds the lock taken, or nothing left |
| `JobBusy`, `Reuse`, `OriginRefused` | one iteration that sends nothing: another execution has the job, its receipt settles it, or its service is another one |
| `Submit`, `Post`, `PostUnknown`, `SaveRunId` | the receipt "submitting", `ResearchClient.create`, its error path, the checkpoint of the id |
| `Resume` | a "running" receipt with its id |
| `PollFailed`, `PollCompleted`, `PollRejected`, `PollMalformed`, `WaitEnds` | the branches of the polling loop and its two handlers |
| `ReportCut`, the second half of `Conclude`, `Interrupt`, `Redeploy` | death between `report.md` and the receipt, between the receipt and `result.json`, at any await; a restart with another base URL |

`PollMalformed` is an answer that fails validation. It is as final as a failed
run: the handler of `ValueError` writes "failed", and no later execution asks again.

Abstractions. Selection is any set of jobs, in the order of the story ids. A report
is named by the remote run that wrote it, and the service does not change a report
it has returned. "failed" stands for failed and cancelled. `error_code` and the
checksums are left out.

### BatchAnalysis

The stages of one claimed batch between the claim and the settlement. `disk` is the pending
batch as a map from (stage, part, part) to what is frozen there, `said` the answers the run
at work has heard, `pc` its Step. A Function is given as the set of its durable writes, each
with its place among them, and performs them in that order (`Perform`): the run may die
before any of them, and a write that finds another content under its key is refused
(`Clashes`), which ends the run. The next run starts at the claim and repeats every Function
over what it finds.

| Action | Code |
|---|---|
| `ClaimBatch` | `claim_parallel_batch` |
| `AskExtractor`, `PrepareBatchIdentity` | the extractor Step; `parse_batch_response`, the partition of the batch, the draft, the identity input |
| `AskIdentity`, `PrepareParallelMatches` | the identity Step; `freeze_batch_identity` with the duplicates it resolves, the inputs of the matching branches |
| `MatchBranch`, `NodesPrepared`, `FreezeMatch`, `PrepareNodeMatches` | the parallel branches, of which the chain branch continues with its nodes |
| `CollectParallelMatches` | `collect_parallel_matches` and `freeze_batch_associations`, the barrier |
| `PrepareBatchSignals`, `AskSignals`, `FreezeBatchSignals` | one Signal pass per Event class |
| `FreezePackage`, `PublishPreparedEvent`, `CompleteBatch` | `publish_prepared_batch_event`, one candidate after another, and the audit of `complete_storyline_batch` that says which Evidence failed |

Abstractions. Answers are chosen from small sets of rows that include every kind of bad row:
unreadable, outside the batch, outside the offer, missing, repeated, over the capacity. As
in the code, nodes are offered of every chain a result matched, and a key given twice has
the class of its last row. History and catalogs are a "world" that may differ at each
reading. One run at a time: overlap and fencing are those of `EventBatch`. Publication is
one acknowledged or refused step: unknown outcomes are those of `EventBatch`. Mapping
batches are read as one. Worth knowing while reading: an extractor answer that is no JSON
object or lacks its lists, and rows over the capacity, are recorded without Evidence ids, so
their Evidence completes as `unassigned_by_model` instead of failing. `storyline._pages`
belongs to the superseded workflow and is not modelled.

### InvestmentContext, InvestmentEngine, InvestmentRounds, InvestmentReport

`InvestmentContext` reads the frozen context from a graph: which facts of the Event
window hold now, which nodes they anchor, which chains those belong to.
`InvestmentEngine` has the deterministic rules as operators: eligibility of Signals,
layer assessments, cross-layer relations, frontiers and candidate moves of a round,
the judgement of a proposal with its score and confidence, normalisation of a draft
and the hard issues of the gate. `InvestmentRounds` is the workflow over them.

| Action | Code |
|---|---|
| `AssessLayer` | `_analyze_layer`, `_reason_layer` |
| `RelateLayers`, `FinishRelations`, `ReviewRelations`, `RepairRelation`, `SettleRelations` | `_analyze_cross_layer`, `_review_and_repair_cross_layer`: proposals, the reviewer, one repair each, hypotheses for the rest |
| `ExpandIndustry` | `analyze_industry`: the industry context with mechanisms, roots and the cut to the fact limit |
| `StartRound`, `Propose`, `FinishRound`, `ReviewRound`, `Repair`, `SettleRound` | one hop of propagation; `_review_and_repair_node_round` |
| `Synthesize`, `Gate`, `RepairDraft`, `Regate` | `_synthesize`, `review_and_finalize`: the draft, its normalisation, the deterministic gate, the semantic review and its one repair |
| `Generate`, `WriteAndEdit` (`InvestmentReporting`) | `generate_investment_report`; `write_and_edit_report`, the writer and the editor that rewrite prose |

`InvestmentReport` holds the report and its publication as operators: anchors, paths,
chains with gaps, cards, the rewriting of sections, `BuildPublication`.

Abstractions. An agent returns any value of its contract, a reviewer flags any subset of
what it is shown; proposals are taken one by one, in any order, and there may be none. The
draft of a synthesis has a claim of its own for every node, or none for some. A chain card
shows the first `MaxListed` nodes of the report, five in the code, in one fixed order.
Scores are integers in units of 1/10000. Times are integers with the decision at 0. Prose is
left out except the conclusion of a section, kept as its version because it appears twice.
Retrieval finds a given set; its limits and receipts are left out, and with them the gate's
checks of receipts (`reasoning.py:134`, `:159`). So are the limits of a contract on how many
ids a list may hold (at most 30 supporting ids, `models.py:471`), which end a run with a
validation error and publish nothing. The facts of each layer are cut to 1200
(`local_runtime.py:319`) before the industry context is cut to the fact limit; only the
second cut is modelled. The first takes facts away earlier in the same way, and the proofs
use nothing of which facts are left. A node is displayed as "direct_evidence" and
"confirmed" when any of its evidence is direct, even if the direction of one horizon rests
on a transmission only: the model states the basis of the node, as the code does. The
Functions of this workflow are still registered (`app/registry.py`), though the id
`investment-reasoning` now names the geopolitical research.

### InvestmentPublication and ReportLedger

An `Execution` is one execution of the workflow under a run identity; several may
overlap and arrive at different analyses and wordings. Whether an accepted conclusion can be
published depends on the Event archive (`reporting.py:141`), which grows, so one execution may
skip what another publishes. `conclusions` and `reports` are
the write-once files, `records` what Data keeps, `requests` what is still in the network.

| Action | Code |
|---|---|
| `Start`, `Conclude` | an execution with its analysis; `review_and_finalize`, `write_conclusion_artifact`: `_atomic_create_json` by hard link |
| `Generate`, `WriteReport` | `generate_investment_report` (or SKIPPED), `write_report_artifact` |
| `Publish`, `TryAgain`, `Timeout`, `TotalTimeout` | `publish_investment_report`, the attempts of `_publish_with_retries` and what ends them |
| `Serve`, `Refuse`, `Lose` | the service: records, replays, conflicts, refuses; a request or its answer is lost |
| `Die` | the process, anywhere |

The Data service is external; it is modelled as `MockReportPublisher`, its file-backed
substitute in the source, keeps its records. A late request may be served after its
sender gave up or died. A run that died after its conclusion can only be finished by an
execution that arrives at the same content. `ReportLedger` is the promise: one
conclusion per run, at most one report, written from it, and at most one record, of
that report.

### KnowledgeGraph, EntityPlans, EntityProjections

`KnowledgeGraph` is what writers do to the shared graph: upsert of nodes, MERGE of edges
whose endpoints exist, deletion of edges, DETACH deletion of nodes (external, as the
queries in `authoritative_writer.py` use them). `EntityPlans` makes the plan of each of the
seven projections from the facts of Data, with every refusal. `EntityProjections` runs
the command lines side by side; `version` is how far Data has moved.

| Action | Code |
|---|---|
| `Publish` | Data changes (external) |
| `Start`, `Load` | the command line; paged or single reads, validation, the plan |
| `PreflightTargets`, `PreflightStorylines`, `Recheck` | `execute_plan`: the checks before the first write |
| `ReadStale`, `SweepEdges`, `SweepNodes` | `_remove_stale_projection_facts`: read first, removed later |
| `SaveNodeBatch`, `SaveEdgeBatch` | `write_projection`, one batch |
| `Inspect`, `Die` | the verification; a kill between any two steps |

Abstractions. Facts of a kind are families: items, links and the entities they are asked
for, numbered in the order of their ids. Pages come in that order, and each page is as old
as its request; an inspection is one step. A text stands for all compared content of a node,
its name included. Descriptions, definitions and embeddings are left out. The smoke test of
countries and regions (`--limit n`) writes the first triplet only, n is 1. The counts
201 and 22 that a verification expects are `BaseCountries` and `BaseRegions`.

### CompanyDecisions, CompanyProjection

`CompanyDecisions` is the staged inference: root industries, the tree below the accepted
roots, chains and nodes around the accepted industries, each stage with the confidence it
needs, and the audits that a decision must pass when it is read back. `CompanyProjection`
has the command line and composes it with the entity projections over one graph.

| Action | Code |
|---|---|
| `Begin`, `Preflight` | the command with its directory; namespace and relations clean |
| `Plan`, `Infer`, `Decide` | the manifest frozen once with its catalog; one company at a time; its decision frozen |
| `Assemble`, `Diff` | the plan from the snapshot and the frozen decisions; what is stale |
| `WriteNodes`, `WriteEdges`, `CompanySweepEdges`, `CompanySweepNodes`, `Finish` | staging, activation, replacement |
| `Verify`, `CompanyDie` | parity of plan and graph; a kill |

Abstractions. What models answer is an opinion per target; embeddings and the ranking of
candidates are the order of ids. A catalog read while industries change is torn: it only
makes a manifest that never matches again. A decision names its run. `infer --limit` is a
session that ends early. The deployment constants in the manifest do not vary.

### SourceAcquisition, RawArchive, RawArtifacts, RawCollection

`SourceAcquisition` is what the two raw collection workflows share: one complete Source
Snapshot, each channel asked once, a batch file per channel, a store external to both.
`RawArchive` is Collection V2, `RawArtifacts` the Functions from before the article queue
that earlier Studio versions still call. `RawCollection` runs both.

| Action | Code |
|---|---|
| `LoadSnapshot`, `Fetch` | `source_snapshot.py`; `dispatch_channels`, `write_tool_batch`, or the failure recorded |
| `StartArchive`, `SaveAcquisition` | `acquire` of Collection V2: skipped when its file exists |
| `LockPublish`, `NextCandidate`, `Freeze`, `Inspect`, `Upload`, `UploadFails`, `SaveReceipt`, `WriteManifest` | `_publish` and `archive_candidate`, under the publish lock of the run and the lock of the version |
| `StartStaged`, `Collected`, `Prepare`, `RefuseDraft` | acquisition into the staging directory; the filter loop |
| `SaveDecisions`, `SaveCounts` | the two writes of `save_raw_evidence_filter_batch`: a death between them leaves the omissions of that answer uncounted |
| `Build`, `UploadDocument`, `UploadDocumentFails` | the artifact set against the title index |
| `PublishDocuments`, `PublishLedger`, `PublishIndex`, `PublishManifest`, `AppendFeed`, `Clean` | `publish_artifact_set`, file by file |
| `Die` | an exception that ends the run, or a kill |

Abstractions. A candidate is told from every other by who fetched it, from which channel and
in which place (in the code a fresh UUID). Channels answer one after another, in any order.
V1 runs one execution of a run id at a time and reads batches in one fixed order, that of
their executions, where the code sorts names that carry random ids; V2 executions of one run
id may overlap. Near titles are a relation, simhash is not computed. Content-addressed
object keys of V1 never conflict. Queries, objectives and checksums are left out, and so is
`summary.md` with its check against a published one (`artifacts.py:471`). The documents of a
run are published in one step, and `rmtree` is one; files are separate steps where one
vouches for another (ledger, index, manifest, feed). Two consequences are worth knowing: a
V1 run that died after its ledger was published and repeats with other candidates is refused
for ever, and one that died between its manifest and the feed then never appears in the
feed.

### MC modules

`MCEventBatch`, `MCArticleQueue` and `MCGeopoliticalResearch` name the model values and
the symmetry sets; Evidence and jobs are numbers, because they are taken in order, and
never symmetric. `MCBatchAnalysis`, `MCInvestmentRounds`, `MCProjections` and
`MCRawCollection` hold the data of the instances: the answers, graphs, versions of Data
and scenarios that TLC chooses from.

## 4. Runs

| Run | Question | Bounds |
|---|---|---|
| `event_batch` | the safety of the batch workflow | 2 Evidence, 2 runs, 2 pin sets, 3 faults |
| `event_liveness` | every step implements the ledger, and every queued Evidence settles unless a barred batch stays pending | 2 Evidence, 2 runs, 2 pin sets, 2 faults |
| `article_queue` | safety, handover of the backlog and liveness of the article queue | 1 collected article, 1 legacy document, 2 runs, 2 faults |
| `geopolitical_research` | the safety of dispatch and results | 2 runs, 2 executions, 2 jobs, 2 services, 2 remote ids each, 2 faults |
| `research_liveness` | every execution ends | 2 runs, 2 executions, 1 job, 2 services, 1 remote id each, 2 faults |
| `batch_analysis` | the stages of a batch under deaths and bad answers | 3 Evidence, 2 classes, 2 rows accepted of an answer, 2 faults |
| `investment` | reasoning and report over any answers | 5 graphs, 3 hops, 1 id per move, 3 facts, 4 transmissions, 1 gap, card and rewrite |
| `investment_publication` | one report per run, true outcomes | 1 run, 3 executions, 3 analyses, 2 wordings, 2 attempts |
| `graph_projections` | entity and Company command lines over one graph | 8 scenarios: 4 of two entity command lines; 2 of one beside a Company command line, while companies (two run directories) or industries (one) move in Data; 2 of two Company command lines, of which one over a polluted graph; write batches of 2 |
| `raw_collection` | both batch workflows side by side | 2 runs; 2 executions over two channels, a good and a misordered Snapshot, of both workflows or of V2 alone; 2 of V1, or 3 of V2, over one channel; batches of 2, 2 omissions |
| `article_cutover_markers` | the first finding below | 1 legacy document, 1 article, 2 runs, 1 fault |
| `batch_resume` | the second finding below | 3 Evidence, 1 answer, 1 fault |

A *fault* is a crash, a failed call, a lease that lapses under a working run, a
redeployment, or the first checkpoint that blocks a batch; `MaxFaults` bounds their number
where a module has it. In `InvestmentPublication`, the projections and `RawCollection`
deaths are not counted: an execution ends with its death and their number is the bound, and
a command line may be started again without limit. Further bounds are in the guards:
`MaxTransmissions` (`InvestmentRounds`) stops proposals when that many are held,
`MaxRewrites` (`InvestmentReporting`) how many sections one pass rewrites, `starts` of a
scenario (`RawCollection`) how many executions start. The other constants of the
configurations are limits the code itself has, scaled down: `BatchSize`, `MaxItems`,
`MaxAttempts`, `MaxHops`, `MaxIds`, `MaxFacts`, `MaxGaps`, `MaxCards`, `MaxListed`,
`WriteBatch`, `MaxRoots`, `MaxIndustries`, `MaxNodes`, `MaxBatch`, `MaxOmissions`.

Why they are enough. Two Evidence with batches of at most two give both a batch of two and
two batches in turn; two runs give every overlap of a superseded run with its successor, and
since a fault is needed to supersede a run, three faults cover a run superseded, its
successor cut and a third attempt. In `article_queue` one article goes through the queue
alone and the other enters it by the cutover, so that both overlap. For research, two
executions over two runs give both overlaps (of one run and of two runs that share a job),
and two faults give a lost dispatch or a cut followed by a change of the service. In
`batch_analysis` three Evidence and rows for at most two of them per class give shared
Evidence, duplicates within the batch and a row beyond the capacity of two; with two deaths
a resumed run is itself resumed. The graphs of `investment` have a cycle with two Signal
roots, three layers that share Events, two chains with more facts than are kept, a node with
more Signals than a move may cite, and no active Signal at all; three hops are needed for a
path of an inner hop. Three executions of one investment run are the writer, the one that
collides with it and one that repeats both; the three analyses are two accepted ones that
collide and one that is not. In the projections two versions of Data differ in every way a
plan reacts to (an item added, removed, renamed, moved to another target), and batches of
two leave a second batch to lose. In `raw_collection` two articles share URL, title or body
in every combination that a dedup rule tells apart, and three executions give an overlap
whose store failed and a repeat.

Symmetry is used for runs, executions and jobs that nothing orders.
Deadlock is not checked where everything may be settled and the system really is idle;
it is checked in `batch_analysis`, where every run must reach completion or a refusal it
can repeat.

What the runs check:

- `event_batch`: `OnePlace` and `AlwaysResumable` (no crash leaves a queue that makes
  claim or completion raise for ever), `SettledByDecision` (completed only when ignored,
  or acknowledged and projected), `PublishesFrozenAnswer`, `OnePinSet`, `NoLostReceipt` (a
  stale journal copy never takes a candidate back) and `FencedWrites`.
- `article_queue`: `OutcomeComesLast` (Event markers and archive before the state says
  completed), `ReviewedOnce`, `PublishedAsReviewed`, `LegacyHandedOver`,
  `SettledOnceByOwner` (terminal states are final and written under the current claim),
  `PendingArticlesSettle`.
- `geopolitical_research`: `AtMostOneDispatch` (the paid remote run is created once,
  although a POST may succeed and its answer be lost), `RunIdKept`, `ArchivedReport`,
  `PollsItsOwnRun` (the identity and snapshot checks never turn the job's own answer into
  a failure), `ResultsAgree` and `RunsFrozen` (what a run has recorded stays, and is what
  the receipt says unless it is "running").
- `batch_analysis`: `SettledAsAnswered` (the failed Evidence computed from the first
  answers alone, without the journal), `PublishesWhatWasOffered`, `OnlyRedundancyBlocks`
  (a resumed run agrees with every checkpoint, except in the case of the finding).
- `investment`: `TransmissionsSound` (simple paths in cyclic chains, closed lineage, one
  transmission per conclusion across rounds and repairs, decaying confidence),
  `PairsNeverVanish`, `AcceptedIsGrounded` (also after the cut of facts),
  `NormalizedPassesGate` (the gate raises no false alarm), `ReportCloses` (every key named
  in a publication is in it), `ClaimsHaveBasis`.
- `investment_publication`: `ImplementsReportLedger`, `OutcomesAreTrue`.
- `graph_projections`: `ReplacementsConverge` (a replacement that nothing disturbs leaves
  the graph equal to its plan, whatever was there), `KeptFactsStay` (nobody's sweep costs
  the graph a fact Data has held throughout), `RelationsAreGrounded`.
- `raw_collection`: `ReceiptsAreTrue`, `OneVerdictPerVersion`, `PublishedIsWhole`,
  `DecisionsStand`.

Each property of a passing run has a mutant in `PROJECT.json`: a plausible bug in a mapped
definition (the operators marked as a fault or for a what-if run) that TLC finds to violate
it.

### Fairness

`event_liveness` and `article_queue` assume weak fairness of each run's own steps
(`Run(w)`: schedules keep starting runs, calls return or raise) and of the expiry of a
lease or claim nobody works under (time passes). Nothing is assumed about faults, which
are finite. Two kinds of batch stay pending until an operator reconciles them, and the
queue behind them waits: one frozen under Agent pins that are never deployed again, and one
that a checkpoint of its own stops in every run (`blocked`: its input is over the budget, or
its extraction reads back shorter). `Barred` names both, and `EveryEvidenceSettles` says that
every queued Evidence settles unless a barred batch stays pending for good: a dead run, a
lapsed lease, a lost answer or a superseded run is never the reason. An article whose crash
lost its pending marker waits for a repeated enqueue, so the article run speaks of articles
with a marker. `research_liveness` assumes weak fairness of each execution's own steps only: an
HTTP call has a timeout, the wait is bounded by `TIDEWISE_RESEARCH_WAIT_SECONDS`
(`WaitEnds`), and the locks do not block. Nothing is assumed about starts, faults or the
remote teams. No liveness is claimed of the other modules: nothing in the code starts an
investment run, a command line or a raw collection run again once it died.

### Findings

`article_cutover_markers`. `docs/design/article-review-workflow.md:43` says that Event
markers are completed before article completion. The run shows the exception. The legacy
consumer dies between writing the final Evidence manifest and serving the Event queue
(`capabilities/evidence/functions/extraction.py:666`); the cutover moves the document to the
article queue; `prepare_evidence_review` finds the manifest, reuses it and completes the
article, and `reuse_published_evidence` serves no queue. The Evidence is never extracted.
Of articles collected for the queue itself the statement holds (`OutcomeComesLast`), but
for a reason that is easy to lose: an attempt that died between the two writes is never
retried, its article ends `failed`, and its Evidence stays out of the Event queue.

`batch_resume`. `docs/design/event-extraction-workflow.md:258` says that a resume reuses
frozen input and decisions. The first run builds the extractor's answer with
`model_construct`, so the validator that drops redundant `no_event` rows does not run, and
freezes it with them; a run that resumes the batch reads the same file with
`model_validate`, which drops them, and freezes the shorter list under the same key
(`functions/batch.py:202`). `freeze_batch_checkpoint` raises, and so does every later run: the
batch, and the queue behind it, is stuck until an operator intervenes. Without such a
redundant row no resumed run is refused (`OnlyRedundancyBlocks`).

## 5. Proofs

TLAPS checks every theorem for every value of the constants. Those of `EventBatch` rest on
`ConstantsAssumption` alone (Evidence are a finite set of naturals, batch size positive,
`Nobody` is neither a run nor a pin set), those of `ArticleQueue` on its
`ConstantsAssumption` (legacy documents are articles, `Nobody` is neither a run nor an
article), those of `GeopoliticalResearch` on `ResearchAssumption` (jobs are naturals,
`Nobody` is no run, job, service or id), those of `InvestmentPublication` on its three named
assumptions (a positive number of attempts, `NoArtifact` is neither analysis nor report,
accepted analyses are analyses). Those of `RawCollection` rest on
`AcquisitionAssumption`, `ArchiveAssumption` and `ArtifactAssumption` (executions, runs,
codes and places are numbered, a Snapshot names known codes, `NoFile` is no content of a
file), those of the investment run on the four assumptions of `InvestmentRounds`: one to
five hops, as the request contract allows, answers whose confidence and number of
assumptions are of their contract, and Facts told apart by their ids. No assumption is made
about graphs, chains, cycles, the number of Facts, or what agents and reviewers answer
within those contracts. Those of `BatchAnalysis` rest on `ExtractionsAssumption` (the rows
of an answer are finitely many) and `GroupsAssumption` (the classes are named once, the
chain class is one of them and the nodes have none); nothing is assumed of catalogs, rows or
their order.

Those of the projections rest on `PublishedAssumption`, `ScenarioAssumption` and
`CompanyAssumption`. They say of Data what its ids and schemas say: an identity tells its
type by its prefix (`COU`, `REG`, `IND`, `CND`, `ICH`, `GPR`, `MEC`, `COM`), so no two
kinds share one; items and links of a kind have the labels and names `write_projection`
checks against those it owns; a Country carries its Regions, a company its relations, a
membership its chain, as the DTOs nest them; mappings are asked for by the chains just
listed. Of the first graph they say that an identity Data has held throughout carries a
label of its type. How Data moves between its versions, what the graph holds besides, how
many command lines and directories there are, and what the models answer is free.

| Theorem | Module | What it says |
|---|---|---|
| `TypeCorrect` | `EventBatchProofs` | Every reachable state is well typed, for every set of Evidence, runs and pins and every batch size and fault bound. |
| `WritesAreFenced` | `EventBatchProofs` | Every durable write to a batch is made by a run that holds its unexpired lease. |
| `QueueCorrect` | `EventBatchProofs` | The inductive invariant of the queue: one batch directory, disjoint places, no Evidence of a batch lost, terminal Evidence as decided, and a run with its token sees the journal as it is. |
| `EvidenceInOnePlace` | `EventBatchProofs` | An Evidence is in at most one place of the queue whatever crashes happen. |
| `BatchAlwaysResumable` | `EventBatchProofs` | The pending batch can always be resumed and finished. |
| `EvidenceSettledByDecision` | `EventBatchProofs` | Terminal Evidence is completed or failed as the durable decisions and acknowledgements of its batch say. |
| `ReceiptsAreKept` | `EventBatchProofs` | No save of the journal, by whatever run and after whatever crash, takes a candidate back or changes how it was settled. |
| `PublishedAsFrozen` | `EventBatchProofs` | Only Events that the frozen answer of their batch accepts reach the Data service. |
| `OnePinSetDecides` | `EventBatchProofs` | A run that owns its batch past the claim carries the pins the batch was frozen with. |
| `BatchInvariant` | `EventBatchProofs` | The invariant behind the refinement: batches that have their package are disjoint and at work or settled, and no journal settles a candidate against the frozen answer. |
| `QueueImplementsLedger` | `EventBatchProofs` | Queue, leases, journals, renames, retries and crashes implement one ledger: every Evidence is queued once, decided once, recorded only as decided and settled once, as decided. |
| `ArticleTypeCorrect` | `ArticleQueueProofs` | Every reachable state is well typed, for every set of articles, legacy documents and runs and every fault bound. |
| `ArticleQueueCorrect` | `ArticleQueueProofs` | The inductive invariant: what the files of an article say of each other, and what a run knows of the article in its hand. |
| `OneReview` | `ArticleQueueProofs` | However runs overlap and die, an article reaches the Reviewer in one attempt of one run. |
| `OutcomesComeLast` | `ArticleQueueProofs` | At every cut between the writes, a completed collected article has its Event markers and a settled claimed one its archive marker. |
| `UploadsAreReviewed` | `ArticleQueueProofs` | What left the local queue is what a saved review and its curation accepted, and is never excluded. |
| `LegacyIsHandedOver` | `ArticleQueueProofs` | The legacy cursor passes a document only when its Evidence is in the Event queue or the article queue settled it or will. |
| `SettledByOwner` | `ArticleQueueProofs` | A terminal article stays as it is, and reviews, publications and outcomes are written only under the writer's unexpired claim. |
| `ResearchTypeCorrect` | `GeopoliticalResearchProofs` | Every reachable state is well typed, for every set of runs, executions, jobs, services and remote ids and every fault bound. |
| `DispatchCorrect` | `GeopoliticalResearchProofs` | The inductive invariant: a job has one remote run at most, and its receipt, its report and the one execution inside it name that run alike. |
| `PaidOnce` | `GeopoliticalResearchProofs` | No crash, lost answer, overlap or change of service creates a second remote run for a job. |
| `ReportsAreArchived` | `GeopoliticalResearchProofs` | A completed receipt has the report of the remote run created for its own job. |
| `PollsOwnRun` | `GeopoliticalResearchProofs` | The identity and snapshot checks never reject the answer for the job's own run, even when another workflow run resumes it. |
| `RunIdIsKept` | `GeopoliticalResearchProofs` | A remote run once known is never forgotten, replaced or looked for at another service. |
| `ResultsCorrect` | `GeopoliticalResearchProofs` | The invariant of a workflow run: one execution works on it, its plan is selected once, and the job in its hand is the next one, settled by no result before. |
| `ResultsAlwaysAgree` | `GeopoliticalResearchProofs` | What a run's results say of a job agrees with the final receipt of that job, whatever overlaps and dies. |
| `RunsAreFrozen` | `GeopoliticalResearchProofs` | A saved selection never changes, and recorded results are only ever added to. |
| `RawCollectionCorrect` | `RawCollectionProofs` | The inductive invariant: who holds which run and version, how far each execution has come, what the store, the receipts, the items and the staged files say of each other. |
| `ReceiptsAlwaysTrue` | `RawCollectionProofs` | Every receipt and manifest item that claims a version has its frozen document in the store, for any number of runs, executions, channels and failures. |
| `OneVerdict` | `RawCollectionProofs` | One item of all manifests archives a version, and the items of a manifest agree on whether a version reached the store. |
| `PublishedAlwaysWhole` | `RawCollectionProofs` | A visible manifest has its documents, its ledger and no two documents alike, after any crash, repeat or refused upload. |
| `DecisionsAlwaysStand` | `RawCollectionProofs` | No step takes back a filter decision, an omission count, a ledger, a manifest or a feed line. |
| `ReasoningInvariant` | `InvestmentReasoningProofs` | The inductive invariant of a reasoning run: assessments rest on Signals of scoped Events, relations on assessments and ordinary Facts, every transmission continues an accepted one or grounded evidence, a draft under review is normalised. |
| `TransmissionsAlwaysSound` | `InvestmentReasoningProofs` | Whatever is proposed, reviewed, repaired or dropped, transmissions form simple paths closed under what they continue, one for each conclusion, of decaying confidence. |
| `AcceptedAlwaysGrounded` | `InvestmentReasoningProofs` | A run that ends accepted or in an abstention cites only Signals and Facts the industry context still has after the cut. |
| `NormalizedAlwaysPasses` | `InvestmentReasoningProofs` | Where no fact was cut, the gate finds nothing missing in any normalised draft, whatever the agents claimed. |
| `PairsAlwaysStay` | `InvestmentReasoningProofs` | No step of review, repair or failure loses a pair of assessments that was related. |
| `ReportsAreFounded` | `InvestmentReasoningProofs` | The invariant of every generated report, before and after its prose is rewritten. |
| `ReportsAlwaysClose` | `InvestmentReasoningProofs` | Every key named in a publication is in it, no path is lost between the groups, and cards say what their sections say. |
| `ClaimsAlwaysBased` | `InvestmentReasoningProofs` | What is published as confirmed has Evidence and nothing else has, a direction rests on something, and the direction of a chain is that of a node it shows. |
| `PublicationCorrect` | `InvestmentPublicationProofs` | The inductive invariant of an investment run: every execution, request in transit and stored artifact carries the content of one publisher, whatever dies or is lost. |
| `OutcomesTrue` | `InvestmentPublicationProofs` | What an execution tells its caller about the report is true of the Data service, for every number of executions, analyses and attempts. |
| `RunImplementsLedger` | `InvestmentPublicationProofs` | Overlapping executions over write-once files and an unreliable network implement a ledger that accepts one report per run and never changes it. |
| `OnlyRedundancyHolds` | `BatchAnalysisProofs` | No run is refused a checkpoint it recomputed, but for an extractor that lists an Evidence twice, or as no event beside a candidate. |
| `BatchHolds` | `BatchAnalysisProofs` | The inductive invariant of the stages: each checkpoint is what its predecessors make of one another, and the journal says of every Event what the frozen answers say. |
| `SettledAsAnsweredHolds` | `BatchAnalysisProofs` | The Evidence recorded as failed is computed from the first answers alone, however often runs died in between. |
| `PublishesWhatWasOfferedHolds` | `BatchAnalysisProofs` | What is published had its matches and Signals on offer, is no duplicate and was condemned by no answer. |
| `KeptFacts` | `CompanyProjectionProofs` | No sweep, of whatever command line, and no torn reading of Data takes a fact from the graph that Data has held throughout. |
| `GroundedRelations` | `CompanyProjectionProofs` | A relation in the graph was chosen by a frozen decision among the candidates of that decision's own manifest. |
| `ProjectionsConverge` | `CompanyProjectionProofs` | The inductive invariant of convergence: each phase of an undisturbed replacement leaves less of the graph that differs from its plan. |
| `QuietReplacementsConverge` | `CompanyProjectionProofs` | A replacement that nothing disturbed leaves the graph equal to its plan, from whatever an earlier run left. |

`OnePlace` and `AlwaysResumable` are not inductive: the second depends on what
the manifest of a half-completed batch implies. `QueueInv` adds what is missing.
`OneDirectory`, `Disjoint` and `Conserved` say where the files of the pending
batch can be. `Decided` ties terminal Evidence to the manifest and the journal,
and needs every settled candidate to stay settled; the one way it could not is a
run that saves a stale journal. Hence `Views`: a run whose token is still in the
lease file holds the journal as it is on disk. That is preserved because only a
run that owns the lease writes the journal, and a token that is replaced never
comes back to a run that still has a candidate in hand. `Explained` and
`Recorded` then carry the reason for each terminal Evidence: its batch's manifest
and journal, and the acknowledgements behind them. The step lemmas are organised
by effect (files moved, journal written, lease released) so that each action of
`Next` is one step of the main proofs.

The last part of `EventBatchProofs` is about decisions. A step writes the journal of a batch
in one of two ways (`JournalStep`): before the package is frozen it compiles it from
the frozen answer, afterwards it takes one unfinished candidate forward. The first
loses no receipt because until then the journal is that compilation or nothing
(`BeforePackage`); the second because, by `Views`, a run that may save has an
unfinished candidate in hand. `Accepted` carries the accepting verdict from the
answer to the journal to the candidate a run posts; `Pinned` carries the pins from
the claim to every later step, and holds of superseded runs too, since pins and
answers are written once (`WrittenOnce`).

The refinement of `EvidenceLedger` needs more than `QueueInv`: `LedgerInv` says that
batches with a package are disjoint and at work or archived, so that an Evidence is
decided in one of them only, and that a journal settles a candidate without publication
only if the answer did, or after the answer accepted it and the Event was refused. Then each
action is one step of the ledger or none. `Enqueue` queues, `Compile` decides (the
package is frozen with it), `RejectCandidate` withdraws an accepted decision, `Post`
and `PostUnknown` record, and `Complete` settles. A completion cut between its
renames settles what it moved; the run that finishes it settles what is still in
processing, which by `Decided` is what the same journal says. Claims, leases, saves and
crashes stutter: they move no Evidence from one place of the ledger to another.

None of the properties of `ArticleQueue` is inductive by itself. `ArticleInv` has two
parts beside the types. `OnRecord(a)` relates the files of one article: a live claim
means pending, an attempt that is settled has its archive marker, a publication has an
accepted review, an upload a publication. `InHand(w)` says what a run knows of the
article it holds at each point of its iteration: the one attempt is its own and stays its
own, because a second claim needs an article without attempts; nothing is published
before `publishing`, and only a legacy document can have Evidence then; at `finishing`
the Event markers are there. A run whose claim expired keeps all of that: a sweep may
only take its article from pending to failed. So the step lemmas split by who acts: a
run with its own article (`GoesOn`, `PutsDown`), others that touch one article
(`OneByOthers`), and the sweeps, which touch many and do to each what `SweptTo` allows.
`SettledByOwner` follows since every settled article has no live claim and every fenced
write asks for one. TLC finds no violation of `ArticleInv` on the instance of
`article_queue`.

`AtMostOneDispatch` is not inductive: nothing in it says that an execution about to
POST is the only one, or that no run was created for the job before. `DispatchInv`
adds it. `JobInv` says that a job without a receipt has no remote run, and that a
receipt with an id and the report name the run created for this job. `ExecInv`
says what an execution inside a job knows: the receipt has this service and, before
the POST, no remote run exists. `OneHolder` is the job's lock, without which a
second execution could stand before its own POST. Every step is either quiet
(`QuietStep`: no file changes, executions stay or leave their job) or the step of
the one execution in one job (`JobStep`), so the other jobs and executions need
one argument. A step into `unknown` shows why the receipt is written before the
POST: from then on no execution is before a POST for this job again.
`ResultsAgree` needs the run's lock as well. `ResultsInv` says that one execution works on
a run (`OneRunner`), that it holds the next job of the plan, and that no result settles
that job yet. A result that is not "running" is then written beside a final receipt,
and a final receipt stays (`JobStep`), so the two cannot come to differ.

`RawInv` has two halves, for the two workflows over one store. In `ArchiveInv`, `AtWork(e)` is
what each step of Collection V2 hands to the next: the document is frozen before
the upload, the object stored before the receipt. `LocksInv` is what the two locks are
for. `StoreInv` says that a stored object is its frozen document. `ItemsInv` says that the
items of manifests and of executions still at work archive different versions:
without the version lock two executions could both see no receipt. In `ArtifactInv`,
`Reached(e)` is how far the staged set of a run has come, file by file, which makes a
manifest whole when it appears. That its documents are apart is a fact about the
filter loop: the order of candidates is total (ids name one candidate,
`CandidatesInv`), so of two accepted ones the later was compared with the
earlier. The loop is defined as the set its own rulings yield (`Accepted`), which is
what a fold over the ordered candidates computes and which can be proved about.

A reasoning run has five conjuncts in `RoundsInv`. `PhaseInv` says what is under way in
which phase, `UpperInv` that assessments are grounded and relations lead from a layer
to one below, through ordinary Facts. `PathInv` is about each transmission. `Admitted(t)`: a
first hop rests on grounded evidence, a later one continues an accepted transmission of
the hop before, strong enough and with its roots; no confidence is HIGH and from the second
hop on it is LOW; and a first hop strong enough to be continued has no LOW evidence, since
the best score LOW evidence can start with is 6400 and continuation needs 6500.
`Pathed(t)`: the walk back from t passes hop + 1 nodes and comes to a first hop. It is
stated with `Ancestors`, the least set that holds t and the accepted transmissions
that its members continue, and it survives a round because a parent is accepted before
its children are proposed (`AncestorsAreStable`): what is accepted later is on no path that
exists. So a frontier's `visited` nodes are exactly those of the path, and the next
one is new. The invariant holds of rejected and repaired transmissions as well, because a
repair is judged as the first proposal was. `DraftInv` says that what stands before
the gate is normalised, from which `NormalizedPassesGate` follows conjunct by
conjunct, and that what passed was found free of hard issues, which is
`AcceptedIsGrounded`.

For the report no invariant of the whole run is strengthened: `SpecReporting` implies
`Spec` (`ReportingReasons`), so `RoundsInv` holds when a report is assembled, and
`ReportInv` speaks of the report alone. An industry target is shown although
the nodes of a chain are chosen without a look at the paths: the target is an assessment,
the gate found its Signals in the cut context, so normalisation kept it as support of
its node, and every supported node is shown. A confirmed node has Evidence because a
report with a confirmed node without Evidence is skipped, and no other has any. Rewriting
goes by the key of a section alone, hence sections of one key have one text, and a card
that takes it over says what its section says, even if keys were to collide.

`ImplementsReportLedger` is a refinement proved step by step: with `conclusions`, `reports`
and `records` as the ledger's variables, `Conclude`, `WriteReport` and `Serve` are its three
steps or stutters, and everything else stutters. `Serve` is the step that needs the
invariant: what arrives may come from an execution that died long ago. `PublicationInv`
says that an execution past its conclusion holds the conclusion on file (`InHand`), that
a report on file was written from an accepted conclusion and a record is
that report (`OnFile`), and that whatever still travels is the report of its run
(`InTransit`). `InTransit` is what makes a late request harmless, and it is kept because
a file once written is never changed. `OnePublisher` follows since only the step that
creates a record answers PUBLISHED. `OutcomesAreTrue` is a consequence.

The stages of a batch have one invariant in two layers. The first says why a resumed run
agrees with its checkpoints (`CheckpointsInv`, `RunInv`): every checkpoint has those written
before it in its Function, and is what they make of one another, so a Function that
recomputes it from the frozen answer, and not from a new one, finds the content it wrote. An
answer that is not frozen yet is about the frozen input. The one exception is the
extractor's result, which is read back through a validator it was not written through;
`OnlyRedundancyBlocks` says that it differs only where the validator has something to drop.
The second layer says what the journal is. `OffersInv`: the inputs of the matching stages
are the open Events of their class, and of the nodes those whose chain answer was sound.
`JournalInv`: before the barrier the journal is `Origin`, what the identities resolve to, or
`Origin` joined with the frozen matches, because the barrier may be passed again after a
death between its journal and its mark; after it, `EntryInv` speaks of each Event: its
matches are those of the frozen results, an Event rejected by a stage has failed, and one
that failed was condemned by an answer. `ClassInv` says that the input of a Signal class
covers its open Events and that once the class is complete each of them is done or analysed.
Then an Event has failed if and only if `Condemned` holds of it: an answer that condemns was
given before its class was complete, the journal loses the Event before the result of that
answer is frozen, and no later write opens it again. `SettledAsAnswered` is that
equivalence, summed over the Evidence; `PublishesWhatWasOffered` adds that what is published
was open when its package was frozen (`PackageInv`).

The projections have an invariant for each of their three properties. For kept facts: labels
tell the owners apart. `GraphKept` says that an identity Data has held throughout has a
label of its type; `PlanKept` and `PlanSound`, that whichever versions the pages of a
reading came from, the plan has every such identity and every relation between two of them,
since each page holds those of its range in every version. So its own projection finds it in
its plan and the others do not own its label, and a sweep, which takes what was read as
owned and unplanned, leaves it. For grounded relations: a manifest is written once and
decisions are only added to, so what was `Grounded` stays so, and the plan of a Company run
carries grounded edges only (`OpKept`). That a decision's targets lie below what it accepted
(`Leads`) needs what the walk up the parents returns. `Climb` is a recursive function: that
it has its steps (`ClimbSteps`) and where they lead (`ClimbLeads`) is proved by taking the
least step at which they would not (`LeastElement`, from the well-founded order of the
library). For convergence: `JobConverges` and `OpConverges` follow a run phase by phase.
What it plans is closed under its ends, or has them among targets of other types, which its
sweep cannot take; after each phase what differs from the plan is among what the next phases
still have to do; any other writer's step makes the run no quiet one. Company commands do
not disturb one another because their lock admits one (`Writers`).

Only model-checked: `PendingArticlesSettle`, `EveryEvidenceSettles` and
`EveryExecutionEnds`, which are liveness properties and rest on fairness. All other
properties of the passing runs are proved. The type invariants of `EventBatch`, `ArticleQueue`,
`GeopoliticalResearch`, `InvestmentPublication` and `RawCollection` are proved and not run;
that of `InvestmentRounds` is part of `TransmissionsSound`, run and proved.

## 6. Not modelled

The components marked `not_modelled` in `PROJECT.json`, with the reasons given there. The
story query and the report reasoning have no protocol; the scheduler's claim is library
code, and the modelled workflows assume overlapping runs anyway. The adapters behind the
channels parse third-party pages: an answer chosen by the environment. Inside the modelled
components: the contents of Agent answers, prompts and documents; identity and checksum
conflicts between files of one content-addressed id; the older Event workflow that shares
the batch directory; failure records of an Evidence POST and the legacy cursor over raw
manifests; the lost update of the title index when two V1 runs of different ids publish at
once (listed as a hazard: the source keeps no promise that a property could state); `fsync`
and loss of the disk (a rename that returned is durable); runs in several processes, but
for the command lines of the projections, which are several processes.
