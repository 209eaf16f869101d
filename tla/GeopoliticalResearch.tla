------------------------- MODULE GeopoliticalResearch -------------------------
(***************************************************************************)
(* Geopolitical research (capabilities/geopolitical_research): a workflow  *)
(* run freezes a plan of storylines and has each one researched by a paid  *)
(* remote team, one storyline per Loop iteration, with a durable receipt   *)
(* per job and non-blocking file locks.                                    *)
(*                                                                         *)
(* Everything between two awaits is one step: loading the window, the POST *)
(* that creates a remote run, and each GET are the awaits.  An execution   *)
(* may be cancelled or die at any of them, or after any file was written.  *)
(*                                                                         *)
(* Abstractions.  A job is a storyline with its Events in one window; jobs *)
(* are ordered as story ids sort, and two runs may select the same job.    *)
(* A report is named by the remote run that wrote it.  "failed" stands for *)
(* failed and cancelled.  The error codes are left out.                    *)
(***************************************************************************)
EXTENDS Naturals, FiniteSets

CONSTANTS
  Run,        \* workflow run ids
  Exec,       \* executions of workflow runs that may overlap
  Job,        \* digests of a storyline, its Events and its window
  Origin,     \* base URLs a deployment may configure
  RemoteId,   \* ids that a research service gives to its runs
  Nobody,     \* no run, job, origin or id
  MaxFaults   \* bound on interrupted executions and redeployments

ASSUME ResearchAssumption ==
  /\ Job \subseteq Nat
  /\ MaxFaults \in Nat
  /\ Nobody \notin Run \cup Job \cup Origin \cup RemoteId

VARIABLES
  planned,   \* runs with a plan.json
  plan,      \* the jobs of each plan
  items,     \* result.json: the recorded status of each job of a run
  receipt,   \* receipt.json of each job
  report,    \* report.md of each job: the remote run whose report it is
  remote,    \* the runs of the research services (external)
  exec,      \* what each execution holds in memory, locks included
  origin,    \* the base URL of the deployment
  faults     \* the faults so far

vars == <<planned, plan, items, receipt, report, remote, exec, origin, faults>>

RemoteKey  == Origin \X RemoteId
Final      == {"completed", "failed", "unknown", "submitting"}
Status     == Final \cup {"absent", "running"}
Outcome    == {"none", "running"} \cup Final
NoReceipt  == [status |-> "absent", source |-> Nobody, origin |-> Nobody, id |-> Nobody]
NoRemote   == [state |-> "none", source |-> Nobody, job |-> Nobody]
NoReport   == <<Nobody, Nobody>>
IdleExec   == [pc |-> "idle", run |-> Nobody, job |-> Nobody, id |-> Nobody]

-----------------------------------------------------------------------------
(* Locks: an execution holds its run's lock inside a Function and its      *)
(* job's lock while it researches; both go with the execution.             *)

InStory == {"posting", "accepted", "polling"}

NeverLocked(k) == FALSE

RunLocked(r) == \E x \in Exec : exec[x].run = r /\ exec[x].pc \in {"selecting"} \cup InStory

JobLocked(j) == \E x \in Exec : exec[x].job = j /\ exec[x].pc \in InStory

Fault == /\ faults < MaxFaults
         /\ faults' = faults + 1

Stop(x) == exec' = [exec EXCEPT ![x] = IdleExec]

\* Out of the Function, before the next Loop iteration.
Loop(x) == exec' = [exec EXCEPT ![x] = [IdleExec EXCEPT !.pc = "looping", !.run = exec[x].run]]

-----------------------------------------------------------------------------
(* Selection: select_geopolitical_stories.                                 *)

\* A run is executed for the first time, or again after an interruption.
Start(x, r) ==
  /\ exec[x].pc = "idle"
  /\ ~RunLocked(r)
  /\ exec' = [exec EXCEPT ![x] = [IdleExec EXCEPT
                !.pc = IF r \in planned THEN "looping" ELSE "selecting", !.run = r]]
  /\ UNCHANGED <<planned, plan, items, receipt, report, remote, origin, faults>>

\* The window has been read: the plan is frozen.
Select(x, S) ==
  LET r == exec[x].run IN
  /\ exec[x].pc = "selecting"
  /\ plan' = [plan EXCEPT ![r] = S]
  /\ planned' = planned \cup {r}
  /\ Loop(x)
  /\ UNCHANGED <<items, receipt, report, remote, origin, faults>>

-----------------------------------------------------------------------------
(* One Loop iteration: research_next_geopolitical_story.                   *)

Unrecorded(r) == {j \in plan[r] : items[r][j] = "none"}

NextJobs(r) == {j \in Unrecorded(r) : \A i \in Unrecorded(r) : j <= i}

\* The item is appended to result.json; the last one ends the Loop.
Record(x, j, s) ==
  LET r == exec[x].run IN
  /\ items' = [items EXCEPT ![r][j] = s]
  /\ IF Unrecorded(r) \subseteq {j} THEN Stop(x) ELSE Loop(x)

\* After the last write to the receipt: the item is recorded, or the execution
\* dies in between.
Conclude(x, j, s) ==
  \/ Record(x, j, s) /\ UNCHANGED faults
  \/ Stop(x) /\ Fault /\ UNCHANGED items

\* This execution may enter the Function on behalf of its run.
Entering(x) == exec[x].pc = "looping" /\ ~RunLocked(exec[x].run)

\* It may also enter the job.
Taking(x, j) ==
  /\ Entering(x)
  /\ j \in NextJobs(exec[x].run)
  /\ ~JobLocked(j)

\* The run's lock is taken: the Function raises and the execution fails.
RunBusy(x) ==
  /\ exec[x].pc = "looping"
  /\ RunLocked(exec[x].run)
  /\ Stop(x)
  /\ UNCHANGED <<planned, plan, items, receipt, report, remote, origin, faults>>

\* Nothing is left to research.
Finish(x) ==
  /\ Entering(x)
  /\ Unrecorded(exec[x].run) = {}
  /\ Stop(x)
  /\ UNCHANGED <<planned, plan, items, receipt, report, remote, origin, faults>>

\* Another execution has the job: recorded as running, without a look at it.
JobBusy(x, j) ==
  /\ Entering(x)
  /\ j \in NextJobs(exec[x].run)
  /\ JobLocked(j)
  /\ Record(x, j, "running")
  /\ UNCHANGED <<planned, plan, receipt, report, remote, origin, faults>>

\* The receipt settles the job: a report is reused, and a failed or uncertain
\* dispatch is never repeated.
Reuse(x, j) ==
  /\ Taking(x, j)
  /\ receipt[j].status \in Final
  /\ Record(x, j, receipt[j].status)
  /\ UNCHANGED <<planned, plan, receipt, report, remote, origin, faults>>

\* A receipt of uncertain outcome taken for none, for a what-if run.
UndispatchedOrUnknown(j) == receipt[j].status \in {"absent", "unknown"}

\* A known remote run taken for none, for a what-if run.
UndispatchedOrRunning(j) == receipt[j].status \in {"absent", "running"}

Undispatched(j) == receipt[j].status = "absent"

\* The receipt says "submitting" before the POST is sent.
Submit(x, j) ==
  /\ Taking(x, j)
  /\ Undispatched(j)
  /\ receipt' = [receipt EXCEPT ![j] = [status |-> "submitting", source |-> exec[x].run,
                                        origin |-> origin, id |-> Nobody]]
  /\ exec' = [exec EXCEPT ![x].pc = "posting", ![x].job = j]
  /\ UNCHANGED <<planned, plan, items, report, remote, origin, faults>>

\* A remote run is known: go on polling it, at the same service only.
Resume(x, j) ==
  /\ Taking(x, j)
  /\ receipt[j].status = "running"
  /\ receipt[j].origin = origin
  /\ exec' = [exec EXCEPT ![x].pc = "polling", ![x].job = j, ![x].id = receipt[j].id]
  /\ UNCHANGED <<planned, plan, items, receipt, report, remote, origin, faults>>

\* The service is another one: the Function raises and the execution fails.
OriginRefused(x, j) ==
  /\ Taking(x, j)
  /\ receipt[j].status = "running"
  /\ receipt[j].origin # origin
  /\ Stop(x)
  /\ UNCHANGED <<planned, plan, items, receipt, report, remote, origin, faults>>

-----------------------------------------------------------------------------
(* The POST: ResearchClient.create.                                        *)

\* The service creates a run under an id that is new to it.
Created(x, i) ==
  /\ remote[<<origin, i>>] = NoRemote
  /\ remote' = [remote EXCEPT ![<<origin, i>>] =
                  [state |-> "running", source |-> exec[x].run, job |-> exec[x].job]]

Post(x, i) ==
  /\ exec[x].pc = "posting"
  /\ Created(x, i)
  /\ exec' = [exec EXCEPT ![x].pc = "accepted", ![x].id = i]
  /\ UNCHANGED <<planned, plan, items, receipt, report, origin, faults>>

\* An error, or an answer that does not validate: the service may have created
\* a run or not.
PostUnknown(x) ==
  LET j == exec[x].job IN
  /\ exec[x].pc = "posting"
  /\ UNCHANGED remote \/ \E i \in RemoteId : Created(x, i)
  /\ receipt' = [receipt EXCEPT ![j].status = "unknown"]
  /\ Conclude(x, j, "unknown")
  /\ UNCHANGED <<planned, plan, report, origin>>

\* The answer is here: the id is checkpointed.
SaveRunId(x) ==
  /\ exec[x].pc = "accepted"
  /\ receipt' = [receipt EXCEPT ![exec[x].job].status = "running",
                                ![exec[x].job].id = exec[x].id]
  /\ exec' = [exec EXCEPT ![x].pc = "polling"]
  /\ UNCHANGED <<planned, plan, items, report, remote, origin, faults>>

-----------------------------------------------------------------------------
(* Polling: ResearchClient.get under a timeout.                            *)

Polled(x) == <<origin, exec[x].id>>

\* The answer compared with what the polling run would have sent, for a
\* what-if run.
MatchesPoller(x) ==
  /\ remote[Polled(x)].job = exec[x].job
  /\ remote[Polled(x)].source = exec[x].run

\* The answer compared with the variables frozen in the receipt.
Matches(x) ==
  /\ remote[Polled(x)].job = exec[x].job
  /\ remote[Polled(x)].source = receipt[exec[x].job].source

\* The service reports the end of the run without a report.
PollFailed(x) ==
  LET j == exec[x].job IN
  /\ exec[x].pc = "polling"
  /\ Matches(x)
  /\ remote[Polled(x)].state = "failed"
  /\ receipt' = [receipt EXCEPT ![j].status = "failed"]
  /\ Conclude(x, j, "failed")
  /\ UNCHANGED <<planned, plan, report, remote, origin>>

Reported(x) ==
  /\ exec[x].pc = "polling"
  /\ Matches(x)
  /\ remote[Polled(x)].state = "completed"
  /\ report[exec[x].job] \in {NoReport, Polled(x)}

\* The report is archived, then the receipt completed.
PollCompleted(x) ==
  LET j == exec[x].job IN
  /\ Reported(x)
  /\ report' = [report EXCEPT ![j] = Polled(x)]
  /\ receipt' = [receipt EXCEPT ![j].status = "completed"]
  /\ Conclude(x, j, "completed")
  /\ UNCHANGED <<planned, plan, remote, origin>>

\* The receipt completed before the report is written, for a what-if run.
ReceiptCut(x) ==
  /\ Reported(x)
  /\ receipt' = [receipt EXCEPT ![exec[x].job].status = "completed"]
  /\ Stop(x)
  /\ Fault
  /\ UNCHANGED <<planned, plan, items, report, remote, origin>>

\* The same, cut short between the two.
ReportCut(x) ==
  /\ Reported(x)
  /\ report' = [report EXCEPT ![exec[x].job] = Polled(x)]
  /\ Stop(x)
  /\ Fault
  /\ UNCHANGED <<planned, plan, items, receipt, remote, origin>>

\* A run of other identity, an empty report, or one that differs from the
\* report archived already.
PollRejected(x) ==
  LET j == exec[x].job IN
  /\ exec[x].pc = "polling"
  /\ remote[Polled(x)] # NoRemote
  /\ \/ ~Matches(x)
     \/ remote[Polled(x)].state = "empty"
     \/ /\ remote[Polled(x)].state = "completed"
        /\ report[j] \notin {NoReport, Polled(x)}
  /\ receipt' = [receipt EXCEPT ![j].status = "failed"]
  /\ Conclude(x, j, "failed")
  /\ UNCHANGED <<planned, plan, report, remote, origin>>

\* An answer that does not validate, whatever the remote run does: final, too.
PollMalformed(x) ==
  LET j == exec[x].job IN
  /\ exec[x].pc = "polling"
  /\ receipt' = [receipt EXCEPT ![j].status = "failed"]
  /\ Record(x, j, "failed")
  /\ Fault
  /\ UNCHANGED <<planned, plan, report, remote, origin>>

\* What the receipt still says when the wait ends.
WaitStatus == "running"

\* A wait that only an error ends, for a what-if run.
WaitFails(x) ==
  /\ exec[x].pc = "polling"
  /\ Fault
  /\ Record(x, exec[x].job, WaitStatus)
  /\ UNCHANGED <<planned, plan, receipt, report, remote, origin>>

\* The time is up, or a GET fails: the run stays known and may be resumed.
WaitEnds(x) ==
  /\ exec[x].pc = "polling"
  /\ Conclude(x, exec[x].job, WaitStatus)
  /\ UNCHANGED <<planned, plan, receipt, report, remote, origin>>

-----------------------------------------------------------------------------
(* The environment.                                                        *)

\* The execution is cancelled or fails; its locks are released.
Interrupt(x) ==
  /\ exec[x].pc # "idle"
  /\ Stop(x)
  /\ Fault
  /\ UNCHANGED <<planned, plan, items, receipt, report, remote, origin>>

\* The process is restarted, with another service configured perhaps.
Redeploy(o) ==
  /\ origin' = o
  /\ exec' = [x \in Exec |-> IdleExec]
  /\ Fault
  /\ UNCHANGED <<planned, plan, items, receipt, report, remote>>

\* The remote team ends: with a report, with an empty one or without one.
RemoteEnds(k, s) ==
  /\ remote[k].state = "running"
  /\ remote' = [remote EXCEPT ![k].state = s]
  /\ UNCHANGED <<planned, plan, items, receipt, report, exec, origin, faults>>

-----------------------------------------------------------------------------
Init ==
  /\ planned = {}
  /\ plan = [r \in Run |-> {}]
  /\ items = [r \in Run |-> [j \in Job |-> "none"]]
  /\ receipt = [j \in Job |-> NoReceipt]
  /\ report = [j \in Job |-> NoReport]
  /\ remote = [k \in RemoteKey |-> NoRemote]
  /\ exec = [x \in Exec |-> IdleExec]
  /\ origin \in Origin
  /\ faults = 0

\* The steps of an execution under way.
Step(x) ==
  \/ \E S \in SUBSET Job : Select(x, S)
  \/ RunBusy(x)
  \/ Finish(x)
  \/ \E j \in Job : JobBusy(x, j) \/ Reuse(x, j) \/ Submit(x, j) \/ Resume(x, j)
                      \/ OriginRefused(x, j)
  \/ \E i \in RemoteId : Post(x, i)
  \/ PostUnknown(x)
  \/ SaveRunId(x)
  \/ PollFailed(x)
  \/ PollCompleted(x)
  \/ PollRejected(x)
  \/ WaitEnds(x)

Next ==
  \/ \E x \in Exec, r \in Run : Start(x, r)
  \/ \E x \in Exec : Step(x)
  \/ \E x \in Exec : ReportCut(x)
  \/ \E x \in Exec : PollMalformed(x)
  \/ \E x \in Exec : Interrupt(x)
  \/ \E o \in Origin : Redeploy(o)
  \/ \E k \in RemoteKey, s \in {"completed", "empty", "failed"} : RemoteEnds(k, s)

Spec == Init /\ [][Next]_vars

\* Calls return or time out, and the wait for a remote run is bounded; nothing
\* is assumed about when a run is started or a remote team ends.
FairSpec == Spec /\ \A x \in Exec : WF_vars(Step(x))

-----------------------------------------------------------------------------
(* Properties.                                                             *)

ReceiptType ==
  {c \in [status : Status, source : Run \cup {Nobody}, origin : Origin \cup {Nobody},
          id : RemoteId \cup {Nobody}] :
     c.status = "running" => c.id \in RemoteId}

RemoteType == [state : {"none", "running", "completed", "empty", "failed"},
               source : Run \cup {Nobody}, job : Job \cup {Nobody}]

ExecType ==
  {e \in [pc : {"idle", "selecting", "looping"} \cup InStory, run : Run \cup {Nobody},
          job : Job \cup {Nobody}, id : RemoteId \cup {Nobody}] :
     /\ e.pc # "idle" => e.run \in Run
     /\ e.pc \in InStory => e.job \in Job
     /\ e.pc \in {"accepted", "polling"} => e.id \in RemoteId}

\* Every variable has the shape of the files and values it stands for: a running
\* receipt has its id, and an execution in a job its run and its job.
TypeOK ==
  /\ planned \subseteq Run
  /\ plan \in [Run -> SUBSET Job]
  /\ items \in [Run -> [Job -> Outcome]]
  /\ receipt \in [Job -> ReceiptType]
  /\ report \in [Job -> RemoteKey \cup {NoReport}]
  /\ remote \in [RemoteKey -> RemoteType]
  /\ exec \in [Exec -> ExecType]
  /\ origin \in Origin
  /\ faults \in 0 .. MaxFaults

\* A job is paid for at most once: no crash, lost answer, repetition or overlap
\* of runs, and no change of the service, creates a second remote run for it.
AtMostOneDispatch ==
  \A k, l \in RemoteKey : remote[k].job \in Job /\ remote[k].job = remote[l].job => k = l

RemoteOf(j) == <<receipt[j].origin, receipt[j].id>>

\* A completed receipt always has its report, and it is the report of the
\* remote run that was created for this job.
ArchivedReport ==
  \A j \in Job : receipt[j].status = "completed" =>
    /\ report[j] = RemoteOf(j)
    /\ remote[report[j]].job = j
    /\ remote[report[j]].state = "completed"

\* An execution polls the remote run created for its job, at the service that
\* has it: the identity and snapshot checks never reject the job's own answer,
\* even when another workflow run resumes it.
PollsItsOwnRun ==
  \A x \in Exec : exec[x].pc = "polling" =>
    /\ Polled(x) = RemoteOf(exec[x].job)
    /\ Matches(x)
    /\ report[exec[x].job] \in {NoReport, Polled(x)}

\* What a result says of a job besides "running" is what the job's receipt says,
\* for good, and a result lists its jobs in the order of the plan.
ResultsAgree ==
  \A r \in Run, j \in Job : items[r][j] # "none" =>
    /\ items[r][j] \in {receipt[j].status, "running"}
    /\ j \in plan[r]
    /\ \A i \in plan[r] : i < j => items[r][i] # "none"

KeepsRunId == \A j \in Job :
  receipt[j].id # Nobody => receipt'[j].id = receipt[j].id /\ receipt'[j].origin = receipt[j].origin

\* A remote run once known is never forgotten, replaced or looked for elsewhere.
RunIdKept == [][KeepsRunId]_receipt

KeepsRuns ==
  \A r \in Run :
    /\ r \in planned => r \in planned' /\ plan'[r] = plan[r]
    /\ \A j \in Job : items[r][j] # "none" => items'[r][j] = items[r][j]

\* The plan of a run is frozen once and its recorded items stay, however many
\* executions work on it.
RunsFrozen == [][KeepsRuns]_<<planned, plan, items>>

\* No execution waits for ever: locks do not block and waits are bounded.
EveryExecutionEnds ==
  \A x \in Exec : exec[x].pc # "idle" ~> exec[x].pc = "idle"

-----------------------------------------------------------------------------
(* The inductive invariant behind AtMostOneDispatch, ArchivedReport,       *)
(* PollsItsOwnRun and RunIdKept.                                           *)

\* The remote run of the job is known.
Known == {"running", "completed", "failed"}

\* Before its receipt a job has no remote run; its receipt, once it has the id,
\* and its report name the remote run that was created for it.
JobInv(j) ==
  /\ receipt[j].status = "absent" => \A k \in RemoteKey : remote[k].job # j
  /\ receipt[j].status \in Known =>
       /\ RemoteOf(j) \in RemoteKey
       /\ remote[RemoteOf(j)].job = j
       /\ remote[RemoteOf(j)].source = receipt[j].source
  /\ receipt[j].status \notin Known => receipt[j].id = Nobody /\ report[j] = NoReport
  /\ report[j] # NoReport => report[j] = RemoteOf(j) /\ remote[report[j]].state = "completed"
  /\ receipt[j].status = "completed" => report[j] # NoReport

\* An execution inside a job holds what the receipt says; before its POST there
\* is no remote run.
ExecInv(x) ==
  LET j == exec[x].job IN
  exec[x].pc \in InStory =>
    /\ receipt[j].origin = origin
    /\ exec[x].pc \in {"posting", "accepted"} =>
         receipt[j].status = "submitting" /\ receipt[j].source = exec[x].run
    /\ exec[x].pc = "posting" => \A k \in RemoteKey : remote[k].job # j
    /\ exec[x].pc = "accepted" =>
         /\ remote[Polled(x)].job = j
         /\ remote[Polled(x)].source = exec[x].run
    /\ exec[x].pc = "polling" => receipt[j].status = "running" /\ receipt[j].id = exec[x].id

\* The lock of a job has one holder.
OneHolder ==
  \A x, y \in Exec :
    exec[x].pc \in InStory /\ exec[y].pc \in InStory /\ exec[x].job = exec[y].job => x = y

DispatchInv ==
  /\ AtMostOneDispatch
  /\ OneHolder
  /\ \A j \in Job : JobInv(j)
  /\ \A x \in Exec : ExecInv(x)

-----------------------------------------------------------------------------
(* The inductive invariant behind ResultsAgree and RunsFrozen.             *)

\* The program points at which an execution holds the lock of its run.
RunHeld == {"selecting"} \cup InStory

\* The lock of a run has one holder.
OneRunner ==
  \A x, y \in Exec :
    exec[x].pc \in RunHeld /\ exec[y].pc \in RunHeld /\ exec[x].run = exec[y].run => x = y

\* A run is selected before it has a plan and researched after; an execution inside
\* a job is at the next job of its run, and no result has settled that job before.
RunInv(x) ==
  LET r == exec[x].run IN
  /\ exec[x].pc = "selecting" => r \notin planned
  /\ exec[x].pc \in {"looping"} \cup InStory => r \in planned
  /\ exec[x].pc \in InStory =>
       /\ exec[x].job \in NextJobs(r)
       /\ \A q \in Run : items[q][exec[x].job] \in {"none", "running"}

\* What ResultsAgree says of a run, and that a run without a plan has no result.
ItemsInv(r) ==
  /\ r \notin planned => \A j \in Job : items[r][j] = "none"
  /\ \A j \in Job : items[r][j] # "none" =>
       /\ items[r][j] \in {receipt[j].status, "running"}
       /\ j \in plan[r]
       /\ \A i \in plan[r] : i < j => items[r][i] # "none"

ResultsInv ==
  /\ OneRunner
  /\ \A x \in Exec : RunInv(x)
  /\ \A r \in Run : ItemsInv(r)
=============================================================================
