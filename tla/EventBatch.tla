----------------------------- MODULE EventBatch -----------------------------
(***************************************************************************)
(* The Event-extraction batch: the filesystem queue of formal Evidence     *)
(* (capabilities/event/internal/queue.py), the single leased batch taken   *)
(* from it (capabilities/event/internal/storage.py) and the workflow that  *)
(* freezes Agent decisions, publishes candidates and settles the Evidence  *)
(* (functions/batch.py, functions/storyline.py, internal/local_runtime.py).*)
(*                                                                         *)
(* A workflow run is a Worker.  Every operation under `.claim.lock` is one *)
(* step; what a run reads before an Agent call or a POST and uses after it *)
(* spans several.  A crash, or an exception half way through a sequence of *)
(* file renames, is a "Cut" action: a prefix of the renames took place.    *)
(*                                                                         *)
(* Abstractions.  A batch id is a hash of its Evidence ids, so a batch is  *)
(* its set of Evidence.  One candidate per Evidence.  All semantic answers *)
(* of a batch are one answer (a verdict per candidate), frozen once.  A    *)
(* lease is its token (the run) and whether its expiry is still ahead.     *)
(* Whether a stage's input is over the budget, and whether an extraction   *)
(* reads back as it was frozen, is a choice made where it is frozen.       *)
(***************************************************************************)
EXTENDS Naturals, FiniteSets

CONSTANTS
  Evidence,   \* formal Evidence identities, ordered as their file names sort
  Worker,     \* workflow runs that may overlap
  Pins,       \* sets of pinned Agent versions a deployment may carry
  Nobody,     \* no lease token, no pins, no batch
  BatchSize,  \* EVENT_EXTRACTION_BATCH_SIZE
  MaxFaults   \* bound on crashes, failures, refusals, early expiries and
              \* redeployments

ASSUME ConstantsAssumption ==
  /\ Evidence \subseteq Nat
  /\ IsFiniteSet(Evidence)
  /\ BatchSize \in Nat \ {0}
  /\ MaxFaults \in Nat
  /\ Nobody \notin Worker
  /\ Nobody \notin Pins

VARIABLES
  pending,     \* evidence-queue/pending
  processing,  \* evidence-queue/processing/<batch>/<evidence>, as pairs
  completed,   \* evidence-queue/completed
  failed,      \* evidence-queue/failed
  dirs,        \* the directories of .pending
  archive,     \* the directories of batches/
  lease,       \* lease.json of each batch directory
  version,     \* the "version" checkpoint: the pins that own the batch
  answer,      \* the frozen raw response: a verdict per candidate
  journal,     \* storyline_journal.json: the progress of every candidate
  packed,      \* batches whose "publication-package" checkpoint exists
  manifest,    \* batches whose manifest.json exists
  blocked,     \* batches with a checkpoint that the next run is refused
  posted,      \* Events the Data service acknowledged (external)
  projected,   \* Events whose graph and Signal writes are done (external)
  job,         \* what each run holds in memory
  deployed,    \* the pins in the metadata of runs that start now
  faults       \* the faults so far

queue  == <<pending, processing, completed, failed>>
frozen == <<version, answer, journal, packed, manifest, blocked>>
vars   == <<queue, dirs, archive, lease, frozen, posted, projected, job,
            deployed, faults>>

Batch    == SUBSET Evidence
Verdict  == {"publish", "ignore", "reject"}
Open     == {"open", "started", "acked"}
Settled  == {"done", "ignored", "rejected"}
Progress == {"unset"} \cup Open \cup Settled
NoBatch  == {}
\* Where a run may be in the workflow.
Point    == {"idle", "claimed", "asking", "answered", "compiling", "publishing",
             "posting", "acking", "projecting", "finishing"}

\* Where it has a candidate in hand.
InHand   == {"posting", "acking", "projecting", "finishing"}

Unset      == [e \in Evidence |-> "unset"]
NoLease    == [token |-> Nobody, live |-> FALSE]
LeaseOf(w) == [token |-> w, live |-> TRUE]
IdleJob    == [pc |-> "idle", batch |-> NoBatch, pins |-> Nobody,
               answer |-> Unset, journal |-> Unset, candidate |-> 0]

-----------------------------------------------------------------------------
(* Helpers over the queue.                                                 *)

\* The part of an ordered pass over S that a crash may leave behind: the
\* passes visit Evidence in sorted order.
Prefixes(S) == {T \in SUBSET S : \A x \in T, y \in S : y < x => y \in T}

InProcessing(b, T) == {<<b, e>> : e \in T}

Places(e) ==
  {<<state, NoBatch>> : state \in {n \in {"pending", "completed", "failed"} :
     e \in CASE n = "pending" -> pending [] n = "completed" -> completed
             [] n = "failed" -> failed}}
  \cup {<<"processing", b>> : b \in {c \in Batch : <<c, e>> \in processing}}

\* ensure_processing_items raises nothing for this batch.
Reconcilable(b) ==
  \A e \in b :
    \/ /\ e \in completed \cup failed
       /\ e \notin completed \cap failed
       /\ e \notin pending
       /\ <<b, e>> \notin processing
    \/ /\ e \notin completed \cup failed
       /\ e \in pending \/ <<b, e>> \in processing

\* The same moves with the pending file left behind, for a what-if run.
MoveByCopy(b, T) ==
  /\ processing' = processing \cup InProcessing(b, T)
  /\ UNCHANGED <<pending, completed, failed>>

\* The renames of ensure_processing_items, for the part T of the batch.
MoveToProcessing(b, T) ==
  /\ processing' = processing \cup InProcessing(b, T)
  /\ pending' = pending \ T
  /\ UNCHANGED <<completed, failed>>

\* The first BatchSize pending items in identity order.
FirstBatches ==
  {b \in Prefixes(pending) : /\ b # {}
                             /\ Cardinality(b) <= BatchSize
                             /\ b = pending \/ Cardinality(b) = BatchSize}

-----------------------------------------------------------------------------
(* Leases.                                                                 *)

OwnedIgnoringExpiry(w) ==
  /\ job[w].batch \in dirs
  /\ lease[job[w].batch].token = w

\* _assert_event_batch_lease, under the claim lock.
Owned(w) ==
  /\ job[w].batch \in dirs
  /\ lease[job[w].batch] = LeaseOf(w)

\* release_event_batch_lease: only this run's own lease is unlinked.
Release(w) ==
  lease' = [lease EXCEPT ![job[w].batch] =
              IF job[w].batch \in dirs /\ @.token = w THEN NoLease ELSE @]

Fault == /\ faults < MaxFaults
         /\ faults' = faults + 1

Stop(w) == job' = [job EXCEPT ![w] = IdleJob]

Goto(w, pc) == job' = [job EXCEPT ![w].pc = pc]

\* Move on and drop what the run held for the step that ends.
GoOn(w, pc) ==
  job' = [job EXCEPT ![w] = [IdleJob EXCEPT !.pc = pc, !.batch = job[w].batch,
                                            !.pins = job[w].pins]]

-----------------------------------------------------------------------------
(* Evidence publication hands each formal Evidence to the queue.           *)

\* enqueue_evidence_artifact, for one Evidence: a no-op wherever it already is.
Enqueue(e) ==
  /\ Places(e) = {}
  /\ pending' = pending \cup {e}
  /\ UNCHANGED <<processing, completed, failed, dirs, archive, lease, frozen,
                 posted, projected, job, deployed, faults>>

-----------------------------------------------------------------------------
(* Claiming: claim_event_batch.                                            *)

Holding(w, b) == [IdleJob EXCEPT !.pc = "claimed", !.batch = b, !.pins = deployed]

\* A resume that waits for the lease file to go, for a what-if run.
NoLeaseFile(b) == lease[b].token = Nobody

LeaseLapsed(b) == ~lease[b].live

\* Resume the one pending batch: a live lease answers Busy.
Resume(w, b) ==
  /\ job[w].pc = "idle"
  /\ dirs = {b}
  /\ LeaseLapsed(b)
  /\ Reconcilable(b)
  /\ MoveToProcessing(b, (b \cap pending))
  /\ lease' = [lease EXCEPT ![b] = LeaseOf(w)]
  /\ job' = [job EXCEPT ![w] = Holding(w, b)]
  /\ UNCHANGED <<dirs, archive, frozen, posted, projected, deployed, faults>>

\* The same, cut short before the new lease is written.
ResumeCut(w, b) ==
  /\ job[w].pc = "idle"
  /\ dirs = {b}
  /\ LeaseLapsed(b)
  /\ Reconcilable(b)
  /\ \E T \in Prefixes(b \cap pending) : T # {} /\ MoveToProcessing(b, T)
  /\ Fault
  /\ UNCHANGED <<dirs, archive, lease, frozen, posted, projected, job, deployed>>

\* A claim that moves the queue files only, for a what-if run.
PublishNothing(w, b) == UNCHANGED <<dirs, lease>>

\* The staged directory (input and lease) becomes visible by one rename.
PublishClaim(w, b) ==
  /\ dirs' = dirs \cup {b}
  /\ lease' = [lease EXCEPT ![b] = LeaseOf(w)]

\* Take a new batch from the queue.
ClaimFresh(w, b) ==
  /\ job[w].pc = "idle"
  /\ dirs = {}
  /\ b \in FirstBatches
  /\ PublishClaim(w, b)
  /\ MoveToProcessing(b, b)
  /\ job' = [job EXCEPT ![w] = Holding(w, b)]
  /\ UNCHANGED <<archive, frozen, posted, projected, deployed, faults>>

\* The same, cut short after the rename: the lease stays with a dead run.
ClaimFreshCut(w, b) ==
  /\ job[w].pc = "idle"
  /\ dirs = {}
  /\ b \in FirstBatches
  /\ PublishClaim(w, b)
  /\ \E T \in Prefixes(b) : MoveToProcessing(b, T)
  /\ Fault
  /\ UNCHANGED <<archive, frozen, posted, projected, job, deployed>>

-----------------------------------------------------------------------------
(* Freezing decisions.                                                     *)

\* The same freeze without a look at the pins that own the batch, for a
\* what-if run.
PinOverwriting(w) ==
  LET b == job[w].batch IN
  /\ job[w].pc = "claimed"
  /\ Owned(w)
  /\ Goto(w, IF answer[b] = Unset THEN "asking" ELSE "compiling")
  /\ version' = [version EXCEPT ![b] = IF @ = Nobody THEN job[w].pins ELSE @]
  /\ UNCHANGED <<queue, dirs, archive, lease, answer, journal, packed, manifest,
                 blocked, posted, projected, deployed, faults>>

\* claim_parallel_batch after the claim: freeze the pins, or refuse a batch
\* that other pins own.  A batch with its answer frozen needs no Agent.
Pin(w) ==
  LET b == job[w].batch IN
  /\ job[w].pc = "claimed"
  /\ Owned(w)
  /\ version[b] \in {Nobody, job[w].pins}
  /\ version' = [version EXCEPT ![b] = job[w].pins]
  /\ Goto(w, IF answer[b] = Unset THEN "asking" ELSE "compiling")
  /\ UNCHANGED <<queue, dirs, archive, lease, answer, journal, packed, manifest,
                 blocked, posted, projected, deployed, faults>>

PinRefused(w) ==
  /\ job[w].pc = "claimed"
  /\ Owned(w) => version[job[w].batch] \notin {Nobody, job[w].pins}
  /\ Release(w)
  /\ Stop(w)
  /\ UNCHANGED <<queue, dirs, archive, frozen, posted, projected, deployed, faults>>

\* The verdicts an Agent may return for the candidates of b.
Answers(b) == {f \in [Evidence -> Verdict] : \A e \in Evidence \ b : f[e] = "ignore"}

\* A checkpoint that stops the batch; the first one counts as a fault.
Block(b) ==
  /\ blocked' = blocked \cup {b}
  /\ IF b \in blocked THEN UNCHANGED faults ELSE Fault

\* _call: the input of a stage is frozen first and refused if it is over the
\* budget, in this run and in every later one.  claim_parallel_batch releases
\* the lease when its own stage raises; the other Functions do not.
OverBudget(w) ==
  /\ job[w].pc = "asking"
  /\ Owned(w)
  /\ Block(job[w].batch)
  /\ Release(w) \/ UNCHANGED lease
  /\ Stop(w)
  /\ UNCHANGED <<queue, dirs, archive, version, answer, journal, packed, manifest,
                 posted, projected, deployed>>

\* The Agent Step: no lock is held and the lease may lapse meanwhile.
AgentAnswers(w) ==
  /\ job[w].pc = "asking"
  /\ Owned(w) => job[w].batch \notin blocked
  /\ \E a \in Answers(job[w].batch) :
       job' = [job EXCEPT ![w].pc = "answered", ![w].answer = a]
  /\ UNCHANGED <<queue, dirs, archive, lease, frozen, posted, projected, deployed, faults>>

\* A failed Agent Step ends the run; nothing releases the lease.
AgentFails(w) ==
  /\ job[w].pc = "asking"
  /\ Stop(w)
  /\ Fault
  /\ UNCHANGED <<queue, dirs, archive, lease, frozen, posted, projected, deployed>>

\* The same freeze without the ownership check, for a what-if run.
FreezeAnswerUnfenced(w) ==
  LET b == job[w].batch IN
  /\ job[w].pc = "answered"
  /\ b \in dirs
  /\ answer' = [answer EXCEPT ![b] = job[w].answer]
  /\ Goto(w, "compiling")
  /\ UNCHANGED <<queue, dirs, archive, lease, version, journal, packed, manifest,
                 blocked, posted, projected, deployed, faults>>

\* freeze_batch_checkpoint of the raw response: a second, different payload
\* would be an immutability error.  An extraction that names an Evidence as no
\* event twice, or beside a candidate, is frozen as it is by this run; what a
\* later run reads back is shorter, and its own freeze is refused.
FreezeAnswer(w) ==
  LET b == job[w].batch IN
  /\ job[w].pc = "answered"
  /\ Owned(w)
  /\ answer[b] \in {Unset, job[w].answer}
  /\ answer' = [answer EXCEPT ![b] = job[w].answer]
  /\ Block(b) \/ UNCHANGED <<blocked, faults>>
  /\ Goto(w, "compiling")
  /\ UNCHANGED <<queue, dirs, archive, lease, version, journal, packed, manifest,
                 posted, projected, deployed>>

\* A run that did not ask for the extraction itself and reads it back shorter.
ReadsBackShorter(w) == job[w].batch \in blocked /\ job[w].answer = Unset

\* What the Functions compute from the frozen answer.
Compiled(a) ==
  [e \in Evidence |-> CASE a[e] = "publish" -> "open"
                        [] a[e] = "ignore"  -> "ignored"
                        [] a[e] = "reject"  -> "rejected"
                        [] OTHER            -> "unset"]

\* The same compilation run again over a batch that has its package.
CompileAgain(w) ==
  LET b == job[w].batch IN
  /\ job[w].pc = "compiling"
  /\ ~ReadsBackShorter(w)
  /\ Owned(w)
  /\ journal' = [journal EXCEPT ![b] = Compiled(answer[b])]
  /\ packed' = packed \cup {b}
  /\ GoOn(w, "publishing")
  /\ UNCHANGED <<queue, dirs, archive, lease, version, answer, manifest,
                 blocked, posted, projected, deployed, faults>>

\* The journal is compiled, then the publication package is frozen once.
Compile(w) ==
  LET b == job[w].batch IN
  /\ job[w].pc = "compiling"
  /\ ~ReadsBackShorter(w)
  /\ Owned(w)
  /\ journal' = IF b \in packed THEN journal
                ELSE [journal EXCEPT ![b] = Compiled(answer[b])]
  /\ packed' = packed \cup {b}
  /\ GoOn(w, "publishing")
  /\ UNCHANGED <<queue, dirs, archive, lease, version, answer, manifest,
                 blocked, posted, projected, deployed, faults>>

\* The journal is written, the package is not: the next run compiles again.
CompileCut(w) ==
  LET b == job[w].batch IN
  /\ job[w].pc = "compiling"
  /\ b \notin packed
  /\ ~ReadsBackShorter(w)
  /\ Owned(w)
  /\ journal' = [journal EXCEPT ![b] = Compiled(answer[b])]
  /\ Stop(w)
  /\ Fault
  /\ UNCHANGED <<queue, dirs, archive, lease, version, answer, packed, manifest,
                 blocked, posted, projected, deployed>>

\* A batch Function that finds its lease gone, or whose checkpoint differs from
\* the frozen one, ends the run; functions/batch.py does not release the lease.
FreezeRefused(w) ==
  /\ job[w].pc \in {"answered", "compiling"}
  /\ Owned(w) => job[w].pc = "compiling" /\ ReadsBackShorter(w)
  /\ Stop(w)
  /\ UNCHANGED <<queue, dirs, archive, lease, frozen, posted, projected, deployed, faults>>

-----------------------------------------------------------------------------
(* Publishing: one candidate per Loop iteration, each receipt journaled.   *)

\* The first candidate of the journal that is not done.
FirstUnfinished(b) ==
  {e \in b : journal[b][e] \in Open /\ \A x \in b : journal[b][x] \in Open => e <= x}

\* The same write without the ownership check, for a what-if run.
SaveJournalUnfenced(w, j) ==
  /\ job[w].batch \in dirs
  /\ journal' = [journal EXCEPT ![job[w].batch] = j]

\* write_storyline_journal under the owned lock.
SaveJournal(w, j) ==
  /\ Owned(w)
  /\ journal' = [journal EXCEPT ![job[w].batch] = j]

\* Load the journal, choose the candidate and, unless the journal says that
\* its publication started, checkpoint that first.
StartPublication(w, e) ==
  LET b == job[w].batch
      j == [journal[b] EXCEPT ![e] = IF @ = "open" THEN "started" ELSE @]
  IN
  /\ job[w].pc = "publishing"
  /\ e \in FirstUnfinished(b)
  /\ IF journal[b][e] = "open" THEN SaveJournal(w, j) ELSE UNCHANGED journal
  /\ job' = [job EXCEPT ![w].pc = IF j[e] = "acked" THEN "projecting" ELSE "posting",
                        ![w].journal = j,
                        ![w].candidate = e]
  /\ UNCHANGED <<queue, dirs, archive, lease, version, answer, packed, manifest,
                 blocked, posted, projected, deployed, faults>>

\* The Data POST carries a deterministic submission id: a repeat adds nothing.
\* No lock is held while it is outstanding.
Post(w) ==
  /\ job[w].pc = "posting"
  /\ posted' = posted \cup {job[w].candidate}
  /\ Goto(w, "acking")
  /\ UNCHANGED <<queue, dirs, archive, lease, frozen, projected, deployed, faults>>

\* The POST was accepted, but its answer is lost: the run fails.
PostUnknown(w) ==
  /\ job[w].pc = "posting"
  /\ posted' = posted \cup {job[w].candidate}
  /\ Release(w)
  /\ Stop(w)
  /\ Fault
  /\ UNCHANGED <<queue, dirs, archive, frozen, projected, deployed>>

\* The acknowledged event id is journaled before the graph is touched.
SaveAck(w) ==
  LET j == [job[w].journal EXCEPT ![job[w].candidate] = "acked"] IN
  /\ job[w].pc = "acking"
  /\ SaveJournal(w, j)
  /\ job' = [job EXCEPT ![w].pc = "projecting", ![w].journal = j]
  /\ UNCHANGED <<queue, dirs, archive, lease, version, answer, packed, manifest,
                 blocked, posted, projected, deployed, faults>>

\* The Episode and the Signals, with deterministic identities.
Project(w) ==
  /\ job[w].pc = "projecting"
  /\ projected' = projected \cup {job[w].candidate}
  /\ Goto(w, "finishing")
  /\ UNCHANGED <<queue, dirs, archive, lease, frozen, posted, deployed, faults>>

\* The receipts and the end of the candidate are journaled.
FinishCandidate(w) ==
  LET j == [job[w].journal EXCEPT ![job[w].candidate] = "done"] IN
  /\ job[w].pc = "finishing"
  /\ SaveJournal(w, j)
  /\ GoOn(w, "publishing")
  /\ UNCHANGED <<queue, dirs, archive, lease, version, answer, packed, manifest,
                 blocked, posted, projected, deployed, faults>>

\* A permanent rejection by Data or by the Signal stage skips the candidate:
\* the journal is read again and saved with the failure reason.
RejectCandidate(w) ==
  LET b == job[w].batch IN
  /\ job[w].pc \in {"posting", "projecting"}
  /\ SaveJournal(w, [journal[b] EXCEPT ![job[w].candidate] = "rejected"])
  /\ GoOn(w, "publishing")
  /\ UNCHANGED <<queue, dirs, archive, lease, version, answer, packed, manifest,
                 blocked, posted, projected, deployed, faults>>

\* release_on_failure: a save refused for want of the lease ends the run and
\* releases the lease only if it is this run's own.
SaveRefused(w) ==
  /\ ~Owned(w)
  /\ \/ job[w].pc \in {"acking", "finishing"}
     \/ /\ job[w].pc = "publishing"
        /\ \A e \in FirstUnfinished(job[w].batch) : journal[job[w].batch][e] = "open"
  /\ Release(w)
  /\ Stop(w)
  /\ UNCHANGED <<queue, dirs, archive, frozen, posted, projected, deployed, faults>>

\* A transient failure of a POST or of a graph write.
PublicationFails(w) ==
  /\ job[w].pc \in {"posting", "projecting"}
  /\ Release(w)
  /\ Stop(w)
  /\ Fault
  /\ UNCHANGED <<queue, dirs, archive, frozen, posted, projected, deployed>>

-----------------------------------------------------------------------------
(* Settling the batch: complete_storyline_batch and complete_batch.        *)

AllSettled(b) == \A e \in b : journal[b][e] \in Settled

\* The failed set taken from the frozen answer alone, for a what-if run.
FailedByAnswer(b) == {e \in b : answer[b][e] = "reject"}

\* The Evidence of failed candidates.
FailedEvidence(b) == {e \in b : journal[b][e] = "rejected"}

\* The renames of finalize_queue_items for the part T of the batch.
Finalize(b, T) ==
  /\ processing' = processing \ InProcessing(b, T)
  /\ completed' = completed \cup (T \ FailedEvidence(b))
  /\ failed' = failed \cup (T \cap FailedEvidence(b))
  /\ UNCHANGED pending

\* finalize_queue_items raises nothing: every Evidence is still in processing
\* or already where this result puts it.
Finalizable(b) ==
  \A e \in b : \/ <<b, e>> \in processing
               \/ e \in IF e \in FailedEvidence(b) THEN failed ELSE completed

Completing(w) ==
  /\ job[w].pc = "publishing"
  /\ AllSettled(job[w].batch)
  /\ Owned(w)
  /\ Finalizable(job[w].batch)

\* Manifest, queue, then the batch directory moves to batches/.
Complete(w) ==
  LET b == job[w].batch IN
  /\ Completing(w)
  /\ manifest' = manifest \cup {b}
  /\ Finalize(b, b)
  /\ dirs' = dirs \ {b}
  /\ archive' = archive \cup {b}
  /\ lease' = [lease EXCEPT ![b] = NoLease]
  /\ Stop(w)
  /\ UNCHANGED <<version, answer, journal, packed, blocked, posted, projected, deployed,
                 faults>>

\* Cut short after the manifest and part of the queue; an exception releases
\* the lease, a crash does not.
CompleteCut(w) ==
  LET b == job[w].batch IN
  /\ Completing(w)
  /\ manifest' = manifest \cup {b}
  /\ \E T \in Prefixes(b) : Finalize(b, T)
  /\ Release(w) \/ UNCHANGED lease
  /\ Stop(w)
  /\ Fault
  /\ UNCHANGED <<dirs, archive, version, answer, journal, packed, blocked, posted,
                 projected, deployed>>

-----------------------------------------------------------------------------
(* The environment.                                                        *)

\* The process (or the step) dies and takes what the run held in memory.
Crash(w) ==
  /\ job[w].pc # "idle"
  /\ Stop(w)
  /\ Fault
  /\ UNCHANGED <<queue, dirs, archive, lease, frozen, posted, projected, deployed>>

Working(b) == \E w \in Worker : job[w].batch = b /\ lease[b].token = w

\* A lease that no run will renew lapses by the passage of time...
ExpireOrphan(b) ==
  /\ lease[b].live
  /\ ~Working(b)
  /\ lease' = [lease EXCEPT ![b].live = FALSE]
  /\ UNCHANGED <<queue, dirs, archive, frozen, posted, projected, job, deployed, faults>>

\* ... and the lease of a run that waits longer than it lasts lapses too.
ExpireHeld(b) ==
  /\ lease[b].live
  /\ Working(b)
  /\ lease' = [lease EXCEPT ![b].live = FALSE]
  /\ Fault
  /\ UNCHANGED <<queue, dirs, archive, frozen, posted, projected, job, deployed>>

\* A new deployment publishes the workflow with other Agent pins.
Redeploy(p) ==
  /\ p # deployed
  /\ deployed' = p
  /\ Fault
  /\ UNCHANGED <<queue, dirs, archive, lease, frozen, posted, projected, job>>

-----------------------------------------------------------------------------
Init ==
  /\ pending = {} /\ processing = {} /\ completed = {} /\ failed = {}
  /\ dirs = {} /\ archive = {}
  /\ lease = [b \in Batch |-> NoLease]
  /\ version = [b \in Batch |-> Nobody]
  /\ answer = [b \in Batch |-> Unset]
  /\ journal = [b \in Batch |-> Unset]
  /\ packed = {} /\ manifest = {} /\ blocked = {}
  /\ posted = {} /\ projected = {}
  /\ job = [w \in Worker |-> IdleJob]
  /\ deployed \in Pins
  /\ faults = 0

\* What one run does when nothing goes wrong.
Run(w) ==
  \/ \E b \in Batch : Resume(w, b)
  \/ \E b \in FirstBatches : ClaimFresh(w, b)
  \/ Pin(w)
  \/ PinRefused(w)
  \/ OverBudget(w)
  \/ AgentAnswers(w)
  \/ FreezeAnswer(w)
  \/ Compile(w)
  \/ FreezeRefused(w)
  \/ \E e \in Evidence : StartPublication(w, e)
  \/ Post(w)
  \/ SaveAck(w)
  \/ Project(w)
  \/ FinishCandidate(w)
  \/ SaveRefused(w)
  \/ Complete(w)

Misfortune(w) ==
  \/ \E b \in Batch : ResumeCut(w, b)
  \/ \E b \in FirstBatches : ClaimFreshCut(w, b)
  \/ AgentFails(w)
  \/ CompileCut(w)
  \/ PostUnknown(w)
  \/ RejectCandidate(w)
  \/ PublicationFails(w)
  \/ CompleteCut(w)
  \/ Crash(w)

Next ==
  \/ \E e \in Evidence : Enqueue(e)
  \/ \E w \in Worker : Run(w)
  \/ \E w \in Worker : Misfortune(w)
  \/ \E b \in Batch : ExpireOrphan(b)
  \/ \E b \in Batch : ExpireHeld(b)
  \/ \E p \in Pins : Redeploy(p)

Spec == Init /\ [][Next]_vars

\* The scheduler starts a run every minute, calls return, time passes.
Fairness ==
  /\ \A w \in Worker : WF_vars(Run(w))
  /\ \A b \in Batch : WF_vars(ExpireOrphan(b))

FairSpec == Spec /\ Fairness

-----------------------------------------------------------------------------
(* Properties.                                                             *)

\* A run has a candidate in hand between its two saves of the journal.
JobType ==
  {j \in [pc : Point, batch : Batch, pins : Pins \cup {Nobody},
          answer : [Evidence -> Verdict \cup {"unset"}],
          journal : [Evidence -> Progress], candidate : Nat] :
     j.pc \in InHand => j.candidate \in Evidence}

\* Every variable has the shape of the files and values it stands for.
TypeOK ==
  /\ pending \subseteq Evidence
  /\ processing \subseteq Batch \X Evidence
  /\ completed \subseteq Evidence
  /\ failed \subseteq Evidence
  /\ dirs \subseteq Batch
  /\ archive \subseteq Batch
  /\ lease \in [Batch -> [token : Worker \cup {Nobody}, live : BOOLEAN]]
  /\ version \in [Batch -> Pins \cup {Nobody}]
  /\ answer \in [Batch -> [Evidence -> Verdict \cup {"unset"}]]
  /\ journal \in [Batch -> [Evidence -> Progress]]
  /\ packed \subseteq Batch
  /\ manifest \subseteq Batch
  /\ blocked \subseteq Batch
  /\ posted \subseteq Evidence
  /\ projected \subseteq Evidence
  /\ job \in [Worker -> JobType]
  /\ deployed \in Pins
  /\ faults \in 0 .. MaxFaults

\* An Evidence is in at most one place of the queue, whatever was cut short:
\* more would make enqueue and claim raise for ever.
OnePlace == \A e \in Evidence : \A p, q \in Places(e) : p = q

\* The pending batch can always be resumed or finished: the conflict errors of
\* ensure_processing_items and finalize_queue_items, and "multiple pending
\* batches", are unreachable, and no processing file is orphaned.
AlwaysResumable ==
  /\ \A b, c \in dirs : b = c
  /\ \A b \in dirs : Reconcilable(b)
  /\ \A b \in dirs : b \in manifest => Finalizable(b)
  /\ \A p \in processing : p[1] \in dirs

\* Evidence is terminal exactly as the durable decisions of its batch say:
\* completed only when its Event was ignored or was acknowledged and projected,
\* failed only when its candidate was rejected.
SettledByDecision ==
  /\ \A e \in completed : \E b \in manifest :
       /\ e \in b
       /\ journal[b][e] = "ignored" \/ e \in posted \cap projected
  /\ \A e \in failed : \E b \in manifest : e \in b /\ journal[b][e] = "rejected"

\* Only Events that the frozen answer of their batch accepts reach Data.
PublishesFrozenAnswer ==
  \A e \in posted : \E b \in packed : e \in b /\ answer[b][e] = "publish"

\* The decisions of a batch are all made under one set of Agent pins.
OnePinSet ==
  \A w \in Worker :
    /\ job[w].pc \notin {"idle", "claimed"}
    /\ Owned(w)
    => version[job[w].batch] = job[w].pins

Rank(s) == CASE s = "unset" -> 0 [] s = "open" -> 1 [] s = "started" -> 2
             [] s = "acked" -> 3 [] OTHER -> 4

\* No candidate goes back, and a settled one stays as it is.
ReceiptsKept ==
  \A b \in Batch, e \in Evidence :
    /\ Rank(journal[b][e]) <= Rank(journal'[b][e])
    /\ journal[b][e] \in Settled => journal'[b][e] = journal[b][e]

\* A receipt once journaled is never lost: no save, retry or superseded run
\* takes a candidate back.
NoLostReceipt == [][ReceiptsKept]_journal

Durable(b) == <<version[b], answer[b], journal[b], b \in packed, b \in manifest,
               b \in blocked>>

Fenced ==
  \A b \in Batch : Durable(b)' # Durable(b) =>
    \E w \in Worker : job[w].batch = b /\ lease[b] = LeaseOf(w)

\* Every durable write to a batch is made by the run that holds its lease,
\* unexpired.
FencedWrites == [][Fenced]_frozen

\* The pending batch is one that every run is refused: a checkpoint of its own
\* stands in the way, or it was frozen under other Agent pins.
Barred(b) == b \in blocked \/ version[b] \notin {Nobody, deployed}

\* Every queued Evidence is settled in the end, unless a barred batch stays
\* pending for good: a dead run, a lapsed lease, a lost answer or a superseded
\* run never stops the queue.
EveryEvidenceSettles ==
  \/ <>[](\E b \in dirs : Barred(b))
  \/ \A e \in Evidence : e \in pending ~> e \in completed \cup failed

-----------------------------------------------------------------------------
(* The inductive invariant behind OnePlace, AlwaysResumable and            *)
(* SettledByDecision.                                                      *)

\* One batch directory, which owns every file in processing.
OneDirectory ==
  /\ \A b, c \in dirs : b = c
  /\ \A p \in processing : p[1] \in dirs /\ p[2] \in p[1]

\* No Evidence is in two places.
Disjoint ==
  /\ pending \cap completed = {}
  /\ pending \cap failed = {}
  /\ completed \cap failed = {}
  /\ \A p \in processing : p[2] \notin pending \cup completed \cup failed

\* No Evidence of the batch is lost.
Conserved ==
  \A b \in dirs : \A e \in b :
    e \in pending \cup completed \cup failed \/ <<b, e>> \in processing

\* Evidence of the batch is terminal only after the manifest and as the journal
\* says; a batch with its manifest has left pending, and batches/ is terminal.
Decided ==
  /\ \A b \in manifest : b \in packed /\ AllSettled(b)
  /\ \A b \in manifest : b \cap pending = {}
  /\ \A b \in manifest \ dirs : b \subseteq completed \cup failed
  /\ \A b \in dirs : \A e \in b \cap (completed \cup failed) :
       b \in manifest /\ (e \in failed <=> journal[b][e] = "rejected")

\* A run that still has its token sees the journal as it is, whether or not its
\* lease has expired.
ViewOf(w) ==
  LET b == job[w].batch IN
  /\ job[w].pc \in {"publishing"} \cup InHand => b \in packed
  /\ job[w].pc \in InHand /\ b \in dirs /\ lease[b].token = w =>
       /\ job[w].candidate \in b
       /\ job[w].journal = journal[b]
       /\ journal[b][job[w].candidate] \in Open

Views == \A w \in Worker : ViewOf(w)

FilesInv == OneDirectory /\ Disjoint /\ Conserved /\ Decided

QueueInv == FilesInv /\ Views

\* What the journal or a run says was acknowledged or projected was.
Recorded ==
  /\ \A b \in Batch, e \in Evidence :
       /\ journal[b][e] \in {"acked", "done"} => e \in posted
       /\ journal[b][e] = "done" => e \in projected
  /\ \A w \in Worker :
       /\ job[w].pc \in {"acking", "projecting", "finishing"} => job[w].candidate \in posted
       /\ job[w].pc = "finishing" => job[w].candidate \in projected
       /\ \A e \in Evidence :
            job[w].pc \in InHand =>
              /\ job[w].journal[e] \in {"acked", "done"} => e \in posted
              /\ job[w].journal[e] = "done" => e \in projected

\* Terminal Evidence has a batch whose manifest and journal say why.
Explained ==
  /\ \A e \in completed : \E b \in manifest :
       e \in b /\ journal[b][e] \in {"ignored", "done"}
  /\ \A e \in failed : \E b \in manifest : e \in b /\ journal[b][e] = "rejected"

\* Before its package is frozen a batch has the journal that its answer
\* compiles to, or none.
BeforePackage == \A b \in Batch \ packed : journal[b] \in {Unset, Compiled(answer[b])}

\* A candidate still to be published, in a journal or in a run's hand, is one
\* that the frozen answer of its batch accepts.
Accepted ==
  /\ \A b \in Batch, e \in Evidence :
       journal[b][e] \in Open => answer[b][e] = "publish"
  /\ \A w \in Worker : job[w].pc \in InHand =>
       /\ job[w].candidate \in job[w].batch
       /\ answer[job[w].batch][job[w].candidate] = "publish"

\* A run past the claim carries the pins that own its batch.
Pinned ==
  \A w \in Worker :
    /\ job[w].pc # "idle" => job[w].pins \in Pins
    /\ job[w].pc \notin {"idle", "claimed"} => version[job[w].batch] = job[w].pins
=============================================================================
