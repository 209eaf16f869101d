---------------------------- MODULE ArticleQueue ----------------------------
(***************************************************************************)
(* The per-article review queue of raw collection (contract 23): article   *)
(* identities, markers and fenced claims (capabilities/collection/internal/*)
(* article_queue.py), the Functions of one Loop iteration (functions/      *)
(* review.py), Evidence publication (capabilities/evidence/functions/      *)
(* extraction.py) and the one-time cutover from the legacy Evidence        *)
(* consumer (scripts/cutover_article_workflow.py).                         *)
(*                                                                         *)
(* A raw-collection run is a Worker.  What happens under queue.lock is one *)
(* step; the Reviewer call, the upload and the Data calls are steps of     *)
(* their own.  "Cut" actions leave a prefix of an operation's file writes. *)
(*                                                                         *)
(* Abstractions.  A draft is what curation makes of it.  A claim is its    *)
(* token (the run) and whether its expiry is ahead.  Markers are visited   *)
(* in any order (the code orders them by modification time).               *)
(***************************************************************************)
EXTENDS Naturals, FiniteSets

CONSTANTS
  Article,     \* article versions: canonical URL and body hash
  LegacyDocs,  \* those the legacy Raw index holds past its cursor at the start
  Worker,      \* raw-collection runs that may overlap
  Nobody,      \* no claim token, no article in hand
  MaxFaults    \* bound on crashes, failed calls and early expiries

ASSUME ConstantsAssumption ==
  /\ LegacyDocs \subseteq Article
  /\ MaxFaults \in Nat
  /\ Nobody \notin Worker \cup Article

VARIABLES
  status,       \* state.json: status ("absent": no state.json)
  attempts,     \* state.json: attempts
  token,        \* state.json: token
  live,         \* state.json: expires_at is still ahead
  lastError,    \* articles whose state.json has a last_error
  marker,       \* <<directory, article>> pairs of marker files
  review,       \* review.json: the draft saved, or "none"
  publication,  \* articles whose publication.json exists
  uploaded,     \* originals in MinIO (external)
  data,         \* Evidence sets the Data service holds (external)
  evidence,     \* articles whose final Evidence manifest.json exists
  eventMarks,   \* articles whose Evidence was handed to the Event queue
  legacy,       \* documents past the legacy cursor
  phase,        \* "legacy" until the legacy consumer is stopped
  job,          \* what each run holds in memory
  faults

claim == <<status, attempts, token, live, lastError, marker>>
saved == <<review, publication>>
world == <<uploaded, data, evidence, eventMarks>>
vars  == <<claim, saved, world, legacy, phase, job, faults>>

Terminal  == {"completed", "excluded", "failed"}
Directory == {"pending"} \cup Terminal
\* What curation makes of an Agent's draft.
Draft     == {"irrelevant", "no_evidence", "bad_category", "publishable"}
\* Where a run may be in its Loop iteration.
Point     == {"idle", "claimed", "reviewing", "reviewed", "validating",
              "publishing", "uploading", "posting", "binding", "finishing",
              "failing"}
IdleJob   == [pc |-> "idle", article |-> Nobody, draft |-> "none"]

Fault == /\ faults < MaxFaults
         /\ faults' = faults + 1

\* The next Loop iteration, or the end of the run.
Done(w) == job' = [job EXCEPT ![w] = IdleJob]

Goto(w, pc) == job' = [job EXCEPT ![w].pc = pc]

Marked(d) == {a \in Article : <<d, a>> \in marker}

-----------------------------------------------------------------------------
(* Enqueue.                                                                *)

\* _enqueue of an article version seen for the first time.
Accept(a, s) ==
  /\ status[a] = "absent"
  /\ status' = [status EXCEPT ![a] = s]
  /\ marker' = marker \cup {<<s, a>>}
  /\ UNCHANGED <<attempts, token, live, lastError>>

\* _enqueue of a known version that trusts state.json, for a what-if run.
TrustState(a) ==
  /\ status[a] \notin {"absent"} \cup Terminal
  /\ UNCHANGED claim

\* _enqueue of a known version: put back the marker that a crash lost.
Repair(a) ==
  /\ status[a] \notin {"absent"} \cup Terminal
  /\ marker' = marker \cup {<<"pending", a>>}
  /\ UNCHANGED <<status, attempts, token, live, lastError>>

Known(a) == status[a] \in Terminal /\ UNCHANGED claim

\* collect_articles: an acquired candidate enters the queue.
Collect(a) ==
  /\ Accept(a, "pending") \/ Repair(a)
  /\ UNCHANGED <<saved, world, legacy, phase, job, faults>>

\* state.json is written, the marker is not.
CollectCut(a) ==
  /\ status[a] = "absent"
  /\ status' = [status EXCEPT ![a] = "pending"]
  /\ Fault
  /\ UNCHANGED <<attempts, token, live, lastError, marker, saved, world, legacy,
                 phase, job>>

-----------------------------------------------------------------------------
(* The legacy consumer and its cutover.                                    *)

\* Evidence extraction of a legacy document: final manifest, Event queue,
\* cursor.  A manifest that already exists is enqueued again.
LegacyPublish(a) ==
  /\ phase = "legacy"
  /\ a \in legacy
  /\ data' = data \cup {a}
  /\ evidence' = evidence \cup {a}
  /\ eventMarks' = eventMarks \cup {a}
  /\ legacy' = legacy \ {a}
  /\ UNCHANGED <<claim, saved, uploaded, phase, job, faults>>

\* The same, cut between the manifest and the Event queue.
LegacyPublishCut(a) ==
  /\ phase = "legacy"
  /\ a \in legacy
  /\ data' = data \cup {a}
  /\ evidence' = evidence \cup {a}
  /\ Fault
  /\ UNCHANGED <<claim, saved, uploaded, eventMarks, legacy, phase, job>>

NoConsumer == \A w \in Worker : job[w].pc = "idle"

\* The operator disables the legacy schedule and stops its consumer.
StopConsumers ==
  /\ phase = "legacy"
  /\ NoConsumer
  /\ phase' = "article"
  /\ UNCHANGED <<claim, saved, world, legacy, job, faults>>

\* transfer_legacy_raw_documents: enqueue, then advance the legacy cursor.
Cutover(a) ==
  /\ phase = "article"
  /\ NoConsumer
  /\ a \in legacy
  /\ Accept(a, "pending") \/ Repair(a) \/ Known(a)
  /\ legacy' = legacy \ {a}
  /\ UNCHANGED <<saved, world, phase, job, faults>>

\* The same, cut before the cursor.
CutoverCut(a) ==
  /\ phase = "article"
  /\ NoConsumer
  /\ a \in legacy
  /\ Accept(a, "pending") \/ Repair(a)
  /\ Fault
  /\ UNCHANGED <<saved, world, legacy, phase, job>>

\* A staged document that the legacy title curation rejected: excluded.
CutoverExcluded(a) ==
  /\ phase = "article"
  /\ NoConsumer
  /\ a \notin LegacyDocs
  /\ Accept(a, "excluded")
  /\ UNCHANGED <<saved, world, legacy, phase, job, faults>>

\* The same, cut before the excluded/ marker: nothing writes it later.
CutoverExcludedCut(a) ==
  /\ phase = "article"
  /\ NoConsumer
  /\ a \notin LegacyDocs
  /\ status[a] = "absent"
  /\ status' = [status EXCEPT ![a] = "excluded"]
  /\ Fault
  /\ UNCHANGED <<attempts, token, live, lastError, marker, saved, world, legacy,
                 phase, job>>

-----------------------------------------------------------------------------
(* Claims.                                                                 *)

\* Only recorded failures count as attempts, for a what-if run.
OnlyRecordedErrors(a) == a \in lastError

\* An attempt was made or left something behind: contract 23 never replays it.
NotFresh(a) ==
  \/ attempts[a] > 0
  \/ a \in lastError
  \/ review[a] # "none"
  \/ a \in publication

\* What claim_next does with a marker it does not claim.
Swept(a) == \/ status[a] \in Terminal
            \/ live[a]
            \/ NotFresh(a)

Expired(S) == {a \in S : status[a] \notin Terminal /\ ~live[a]}

\* A sweep that moves markers and forgets the state, for a what-if run.
SweptMarkersOnly(S) == status

\* The writes of the sweep over the markers S: stale markers of settled
\* articles go, unfinished attempts are recorded as failed.
SweptStatus(S) == [a \in Article |-> IF a \in Expired(S) THEN "failed" ELSE status[a]]
SweptError(S)  == lastError \cup Expired(S)
SweptMarker(S) ==
  (marker \cup {<<"failed", a>> : a \in Expired(S)})
    \ {<<"pending", a>> : a \in {x \in S : status[x] \in Terminal \/ ~live[x]}}

\* claim_next(fresh_only=True): sweep some markers, claim one fresh article.
Claim(w, a) ==
  /\ job[w].pc = "idle"
  /\ <<"pending", a>> \in marker
  /\ ~Swept(a)
  /\ \E S \in SUBSET (Marked("pending") \ {a}) :
       /\ \A x \in S : Swept(x)
       /\ status' = SweptStatus(S)
       /\ lastError' = SweptError(S)
       /\ marker' = SweptMarker(S)
  /\ token' = [token EXCEPT ![a] = w]
  /\ live' = [live EXCEPT ![a] = TRUE]
  /\ attempts' = [attempts EXCEPT ![a] = @ + 1]
  /\ job' = [job EXCEPT ![w] = [pc |-> "claimed", article |-> a, draft |-> "none"]]
  /\ UNCHANGED <<saved, world, legacy, phase, faults>>

\* No fresh article: every marker is swept and the run reports idle.
ClaimNothing(w) ==
  LET S == Marked("pending") IN
  /\ job[w].pc = "idle"
  /\ \A a \in S : Swept(a)
  /\ \E a \in S : status[a] \in Terminal \/ ~live[a]
  /\ status' = SweptStatus(S)
  /\ lastError' = SweptError(S)
  /\ marker' = SweptMarker(S)
  /\ UNCHANGED <<attempts, token, live, saved, world, legacy, phase, job, faults>>

\* The sweep is cut after a failed/ marker, before the state it announces.
SweepCut(w, a) ==
  /\ job[w].pc = "idle"
  /\ <<"pending", a>> \in marker
  /\ status[a] \notin Terminal /\ ~live[a] /\ NotFresh(a)
  /\ marker' = marker \cup {<<"failed", a>>}
  /\ Fault
  /\ UNCHANGED <<status, attempts, token, live, lastError, saved, world, legacy,
                 phase, job>>

\* A token is enough, for a what-if run.
OwnedIgnoringExpiry(w) == token[job[w].article] = w

\* _owned, for a run that has an article in hand.
Owned(w) == token[job[w].article] = w /\ live[job[w].article]

Held(a) == \E w \in Worker : job[w].article = a

\* A claim whose run is gone expires by the passage of time...
ExpireOrphan(a) ==
  /\ live[a]
  /\ ~Held(a)
  /\ live' = [live EXCEPT ![a] = FALSE]
  /\ UNCHANGED <<status, attempts, token, lastError, marker, saved, world, legacy,
                 phase, job, faults>>

\* ... and the claim of a run that waits longer than it lasts expires too.
ExpireHeld(a) ==
  /\ live[a]
  /\ Held(a)
  /\ live' = [live EXCEPT ![a] = FALSE]
  /\ Fault
  /\ UNCHANGED <<status, attempts, token, lastError, marker, saved, world, legacy,
                 phase, job>>

-----------------------------------------------------------------------------
(* Terminal states.                                                        *)

\* finish_claim: terminal archive, then state, then the pending marker.
Finish(w, s) ==
  LET a == job[w].article IN
  /\ Owned(w)
  /\ status' = [status EXCEPT ![a] = s]
  /\ live' = [live EXCEPT ![a] = FALSE]
  /\ marker' = (marker \cup {<<s, a>>}) \ {<<"pending", a>>}
  /\ Done(w)
  /\ UNCHANGED <<attempts, token, lastError, saved, world, legacy, phase, faults>>

\* The terminal state that the run is about to write, or "none".
Ending(w) ==
  LET a == job[w].article IN
  CASE job[w].pc = "finishing"                        -> "completed"
    [] job[w].pc = "claimed" /\ a \in evidence        -> "completed"
    [] job[w].pc = "validating"
         /\ review[a] \in {"irrelevant", "no_evidence"} -> "excluded"
    [] OTHER                                          -> "none"

\* finish_claim with the state written before the archive, for a what-if run.
FinishCutStateFirst(w) ==
  LET a == job[w].article IN
  /\ Ending(w) # "none"
  /\ Owned(w)
  /\ status' = [status EXCEPT ![a] = Ending(w)]
  /\ live' = [live EXCEPT ![a] = FALSE]
  /\ Done(w)
  /\ Fault
  /\ UNCHANGED <<attempts, token, lastError, marker, saved, world, legacy, phase>>

\* finish_claim cut after the archive, or before the pending marker is removed,
\* by a crash or by an exception that the run still handles.
FinishCut(w) ==
  LET a == job[w].article IN
  /\ Ending(w) # "none"
  /\ Owned(w)
  /\ marker' = marker \cup {<<Ending(w), a>>}
  /\ \/ UNCHANGED <<status, live>>
     \/ /\ status' = [status EXCEPT ![a] = Ending(w)]
        /\ live' = [live EXCEPT ![a] = FALSE]
  /\ Done(w) \/ Goto(w, "failing")
  /\ Fault
  /\ UNCHANGED <<attempts, token, lastError, saved, world, legacy, phase>>

\* record_article_failure asks for the token only, and refuses a settled article.
Recordable(w) ==
  /\ token[job[w].article] = w
  /\ status[job[w].article] \notin {"completed", "excluded"}

\* fail_claim, then fail_current_article.
RecordFailure(w) ==
  LET a == job[w].article IN
  /\ job[w].pc = "failing"
  /\ Recordable(w)
  /\ status' = [status EXCEPT ![a] = "failed"]
  /\ live' = [live EXCEPT ![a] = FALSE]
  /\ lastError' = lastError \cup {a}
  /\ marker' = (marker \cup {<<"failed", a>>}) \ {<<"pending", a>>}
  /\ Done(w)
  /\ UNCHANGED <<attempts, token, saved, world, legacy, phase, faults>>

\* The record is cut: after the failed/ marker, after fail_claim, or before
\* the pending marker is removed.
RecordFailureCut(w) ==
  LET a == job[w].article IN
  /\ job[w].pc = "failing"
  /\ Recordable(w)
  /\ marker' = marker \cup {<<"failed", a>>}
  /\ \/ UNCHANGED <<status, live, lastError>>
     \/ /\ status' \in {status, [status EXCEPT ![a] = "failed"]}
        /\ live' = [live EXCEPT ![a] = FALSE]
        /\ lastError' = lastError \cup {a}
  /\ Done(w)
  /\ Fault
  /\ UNCHANGED <<attempts, token, saved, world, legacy, phase>>

\* ArticleFailureRecordingError: the run stops instead of hiding the failure.
RecordingRefused(w) ==
  /\ job[w].pc = "failing"
  /\ ~Recordable(w)
  /\ Done(w)
  /\ UNCHANGED <<claim, saved, world, legacy, phase, faults>>

-----------------------------------------------------------------------------
(* One iteration: prepare_evidence_review, the Reviewer, evidence_publish. *)

\* A call or a file write raises.
StepFails(w) ==
  /\ job[w].pc \notin {"idle", "failing"}
  /\ Goto(w, "failing")
  /\ Fault
  /\ UNCHANGED <<claim, saved, world, legacy, phase>>

\* The steps that begin with _owned.
AsksForClaim(w) ==
  \/ job[w].pc \in {"reviewed", "validating", "publishing"}
  \/ Ending(w) # "none"

ClaimLost(w) ==
  /\ AsksForClaim(w)
  /\ ~Owned(w)
  /\ Goto(w, "failing")
  /\ UNCHANGED <<claim, saved, world, legacy, phase, faults>>

\* reuse_published_evidence found a final manifest: complete, no Agent call.
ReusePublished(w) ==
  /\ job[w].pc = "claimed"
  /\ job[w].article \in evidence
  /\ Finish(w, "completed")

\* Otherwise the category catalog is read and the Agent is asked.
Prepare(w) ==
  /\ job[w].pc = "claimed"
  /\ job[w].article \notin evidence
  /\ Goto(w, "reviewing")
  /\ UNCHANGED <<claim, saved, world, legacy, phase, faults>>

AgentReviews(w) ==
  /\ job[w].pc = "reviewing"
  /\ \E d \in Draft :
       job' = [job EXCEPT ![w].pc = "reviewed", ![w].draft = d]
  /\ UNCHANGED <<claim, saved, world, legacy, phase, faults>>

\* save_article_review: written once, a different payload is a conflict.
SaveReview(w) ==
  LET a == job[w].article IN
  /\ job[w].pc = "reviewed"
  /\ Owned(w)
  /\ review[a] \in {"none", job[w].draft}
  /\ review' = [review EXCEPT ![a] = job[w].draft]
  /\ job' = [job EXCEPT ![w].pc = "validating", ![w].draft = "none"]
  /\ UNCHANGED <<claim, publication, world, legacy, phase, faults>>

\* validate_article_review, an irrelevant article or no canonical proposition.
\* (A fresh claim has no publication.json that would end the validation.)
Exclude(w) ==
  /\ job[w].pc = "validating"
  /\ review[job[w].article] \in {"irrelevant", "no_evidence"}
  /\ Finish(w, "excluded")

\* An unknown category or an invalid envelope: reject_review, then the failure.
RejectReview(w) ==
  LET a == job[w].article IN
  /\ job[w].pc = "validating"
  /\ review[a] = "bad_category"
  /\ Owned(w)
  /\ review' = [review EXCEPT ![a] = IF a \in publication THEN @ ELSE "none"]
  /\ Goto(w, "failing")
  /\ UNCHANGED <<claim, publication, world, legacy, phase, faults>>

\* Curation that forgot to check the category, for a what-if run.
SavePublicationUnchecked(w) ==
  /\ job[w].pc = "validating"
  /\ review[job[w].article] \in {"bad_category", "publishable"}
  /\ Owned(w)
  /\ publication' = publication \cup {job[w].article}
  /\ Goto(w, "publishing")
  /\ UNCHANGED <<claim, review, world, legacy, phase, faults>>

\* curate_evidence accepts the draft: publication.json.
SavePublication(w) ==
  /\ job[w].pc = "validating"
  /\ review[job[w].article] = "publishable"
  /\ Owned(w)
  /\ publication' = publication \cup {job[w].article}
  /\ Goto(w, "publishing")
  /\ UNCHANGED <<claim, review, world, legacy, phase, faults>>

\* upload_article asks for the claim, gives the lock back...
CheckUpload(w) ==
  /\ job[w].pc = "publishing"
  /\ Owned(w)
  /\ Goto(w, "uploading")
  /\ UNCHANGED <<claim, saved, world, legacy, phase, faults>>

\* ... and stores the original in MinIO.
Upload(w) ==
  /\ job[w].pc = "uploading"
  /\ uploaded' = uploaded \cup {job[w].article}
  /\ Goto(w, "posting")
  /\ UNCHANGED <<claim, saved, data, evidence, eventMarks, legacy, phase, faults>>

\* publish_evidence finds a final manifest: only the Event queue is served.
PublishAgain(w) ==
  /\ job[w].pc = "posting"
  /\ job[w].article \in evidence
  /\ eventMarks' = eventMarks \cup {job[w].article}
  /\ Goto(w, "finishing")
  /\ UNCHANGED <<claim, saved, uploaded, data, evidence, legacy, phase, faults>>

\* The Raw and Evidence POSTs, idempotent by publication key.
PostEvidence(w) ==
  /\ job[w].pc = "posting"
  /\ job[w].article \notin evidence
  /\ data' = data \cup {job[w].article}
  /\ Goto(w, "binding")
  /\ UNCHANGED <<claim, saved, uploaded, evidence, eventMarks, legacy, phase, faults>>

\* Bindings, final manifest, then the Event queue.
WriteManifest(w) ==
  /\ job[w].pc = "binding"
  /\ evidence' = evidence \cup {job[w].article}
  /\ eventMarks' = eventMarks \cup {job[w].article}
  /\ Goto(w, "finishing")
  /\ UNCHANGED <<claim, saved, uploaded, data, legacy, phase, faults>>

\* The manifest is final, the Event queue was not served.
WriteManifestCut(w) ==
  /\ job[w].pc = "binding"
  /\ evidence' = evidence \cup {job[w].article}
  /\ Done(w) \/ Goto(w, "failing")
  /\ Fault
  /\ UNCHANGED <<claim, saved, uploaded, data, eventMarks, legacy, phase>>

CompleteArticle(w) ==
  /\ job[w].pc = "finishing"
  /\ Finish(w, "completed")

\* The process dies, or the run is cancelled.
Crash(w) ==
  /\ job[w].pc # "idle"
  /\ Done(w)
  /\ Fault
  /\ UNCHANGED <<claim, saved, world, legacy, phase>>

-----------------------------------------------------------------------------
Init ==
  /\ status = [a \in Article |-> "absent"]
  /\ attempts = [a \in Article |-> 0]
  /\ token = [a \in Article |-> Nobody]
  /\ live = [a \in Article |-> FALSE]
  /\ lastError = {} /\ marker = {}
  /\ review = [a \in Article |-> "none"]
  /\ publication = {} /\ uploaded = {} /\ data = {}
  /\ evidence = {} /\ eventMarks = {}
  /\ legacy = LegacyDocs
  /\ phase = "legacy"
  /\ job = [w \in Worker |-> IdleJob]
  /\ faults = 0

\* What a run does when no call fails.
Run(w) ==
  \/ \E a \in Article : Claim(w, a)
  \/ ClaimNothing(w)
  \/ ReusePublished(w)
  \/ Prepare(w)
  \/ AgentReviews(w)
  \/ SaveReview(w)
  \/ Exclude(w)
  \/ RejectReview(w)
  \/ SavePublication(w)
  \/ CheckUpload(w)
  \/ Upload(w)
  \/ PublishAgain(w)
  \/ PostEvidence(w)
  \/ WriteManifest(w)
  \/ CompleteArticle(w)
  \/ ClaimLost(w)
  \/ RecordFailure(w)
  \/ RecordingRefused(w)

Misfortune(w) ==
  \/ \E a \in Article : SweepCut(w, a)
  \/ FinishCut(w)
  \/ RecordFailureCut(w)
  \/ StepFails(w)
  \/ WriteManifestCut(w)
  \/ Crash(w)

Arrival(a) ==
  \/ Collect(a)
  \/ CollectCut(a)
  \/ LegacyPublish(a)
  \/ LegacyPublishCut(a)
  \/ Cutover(a)
  \/ CutoverCut(a)
  \/ CutoverExcluded(a)
  \/ CutoverExcludedCut(a)

Next ==
  \/ \E a \in Article : Arrival(a)
  \/ StopConsumers
  \/ \E w \in Worker : Run(w)
  \/ \E w \in Worker : Misfortune(w)
  \/ \E a \in Article : ExpireOrphan(a)
  \/ \E a \in Article : ExpireHeld(a)

Spec == Init /\ [][Next]_vars

\* Collection is scheduled hourly, calls return, time passes.
Fairness ==
  /\ \A w \in Worker : WF_vars(Run(w))
  /\ \A a \in Article : WF_vars(ExpireOrphan(a))

FairSpec == Spec /\ Fairness

-----------------------------------------------------------------------------
(* Properties.                                                             *)

\* Every variable has the shape of the files and values it stands for.
TypeOK ==
  /\ status \in [Article -> {"absent", "pending"} \cup Terminal]
  /\ attempts \in [Article -> Nat]
  /\ token \in [Article -> Worker \cup {Nobody}]
  /\ live \in [Article -> BOOLEAN]
  /\ lastError \subseteq Article
  /\ marker \subseteq Directory \X Article
  /\ review \in [Article -> Draft \cup {"none"}]
  /\ publication \subseteq Article
  /\ uploaded \subseteq Article
  /\ data \subseteq Article
  /\ evidence \subseteq Article
  /\ eventMarks \subseteq Article
  /\ legacy \subseteq LegacyDocs
  /\ phase \in {"legacy", "article"}
  /\ job \in [Worker -> [pc : Point, article : Article \cup {Nobody},
                         draft : Draft \cup {"none"}]]
  /\ \A w \in Worker : job[w].pc # "idle" => job[w].article \in Article
  /\ faults \in 0 .. MaxFaults

\* "Event markers are completed before article completion": a completed
\* article's Evidence is in the Event queue, whatever was cut short.
EventMarkersFirst == \A a \in Article : status[a] = "completed" => a \in eventMarks

\* The same of the articles that were collected for the queue itself, which
\* nobody published before their review.
CollectedMarkersFirst ==
  \A a \in Article \ LegacyDocs : status[a] = "completed" => a \in eventMarks

\* The legacy cursor passes a document only when the document is safe: its
\* Evidence is in the Event queue, or the article queue settled it or will.
LegacyHandedOver ==
  \A a \in LegacyDocs \ legacy :
    a \in eventMarks \/ status[a] \in Terminal \/ <<"pending", a>> \in marker

\* An article is given to the Reviewer in one attempt of one run only, however
\* that attempt ended and whatever part of it a crash left on disk.
ReviewedOnce ==
  /\ \A a \in Article : attempts[a] <= 1
  /\ \A v, w \in Worker : /\ job[v].pc # "idle"
                          /\ job[v].article = job[w].article
                          => v = w

\* What left the local queue is what a saved review and its curation accepted;
\* an excluded original never leaves it.
PublishedAsReviewed ==
  \A a \in uploaded : /\ a \in publication
                      /\ review[a] = "publishable"
                      /\ status[a] # "excluded"

\* A claimed article that is settled has the archive marker of its outcome.
ArchiveBeforeState ==
  \A a \in Article :
    attempts[a] > 0 /\ status[a] \in Terminal => <<status[a], a>> \in marker

\* What an outcome promises is on disk before the outcome: the Event markers and
\* the archive, at every cut between the writes.
OutcomeComesLast == CollectedMarkersFirst /\ ArchiveBeforeState

\* Once terminal, an article stays as it is: a late run, a sweep, a repeated
\* acquisition or the cutover cannot reopen it or settle it differently.
TerminalIsFinal ==
  [][\A a \in Article : status[a] \in Terminal => status'[a] = status[a]]_status

\* A review, a publication and a completed or excluded state of a claimed
\* article are written only by the run whose claim is current and unexpired.
FencedWrites ==
  [][\A a \in Article :
       \/ review'[a] # review[a]
       \/ (a \in publication') # (a \in publication)
       \/ status[a] = "pending" /\ status'[a] \in {"completed", "excluded"}
       => \E w \in Worker : job[w].article = a /\ token[a] = w /\ live[a]]_<<saved, status>>

\* An article is settled once, and by the run that owns it then.
SettledOnceByOwner == TerminalIsFinal /\ FencedWrites

\* An article with a pending marker is settled in the end, even when every
\* run that touches it dies.
PendingArticlesSettle ==
  \A a \in Article : <<"pending", a>> \in marker ~> status[a] \in Terminal

-----------------------------------------------------------------------------
(* The inductive invariant of the proofs.                                  *)

Unpublished == {"claimed", "reviewing", "reviewed", "validating"}
Published   == {"publishing", "uploading", "posting", "binding", "finishing"}

\* What the files of an article say of each other and of what left the queue.
OnRecord(a) ==
  /\ attempts[a] <= 1
  /\ status[a] = "absent" => attempts[a] = 0 /\ \A d \in Directory : <<d, a>> \notin marker
  /\ live[a] => status[a] = "pending"
  /\ attempts[a] > 0 /\ status[a] \in Terminal => <<status[a], a>> \in marker
  /\ a \in publication => attempts[a] > 0 /\ review[a] = "publishable"
  /\ a \in uploaded => a \in publication /\ status[a] # "excluded"
  /\ a \in evidence \ LegacyDocs => attempts[a] > 0
  /\ a \notin LegacyDocs /\ status[a] = "completed" => a \in eventMarks
  /\ a \in LegacyDocs \ legacy =>
       a \in eventMarks \/ status[a] \in Terminal \/ <<"pending", a>> \in marker

\* What a run knows of the article in its hand: the one attempt is its own, and
\* nothing of it is published before its draft was.
InHand(w) ==
  LET a == job[w].article IN
  /\ job[w].pc = "idle" => a = Nobody
  /\ job[w].pc # "idle" => attempts[a] > 0 /\ token[a] = w
  /\ job[w].pc \notin {"idle", "failing"} => status[a] \in {"pending", "failed"}
  /\ job[w].pc \in Unpublished => a \notin publication
  /\ job[w].pc \in Published => a \in publication
  /\ job[w].pc \in Unpublished \cup {"publishing", "uploading", "posting", "binding"} =>
       a \notin evidence \/ a \in LegacyDocs
  /\ job[w].pc = "finishing" => a \in eventMarks

ArticleInv == TypeOK /\ (\A a \in Article : OnRecord(a)) /\ (\A w \in Worker : InHand(w))
=============================================================================
