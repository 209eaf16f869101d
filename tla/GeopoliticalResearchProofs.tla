---------------------- MODULE GeopoliticalResearchProofs ----------------------
(***************************************************************************)
(* Theorems about GeopoliticalResearch for any runs, executions, jobs,     *)
(* services and any number of faults.                                      *)
(***************************************************************************)
EXTENDS GeopoliticalResearch, TLAPS

-----------------------------------------------------------------------------
(* Type correctness.                                                       *)

LEMMA IdleType == IdleExec \in ExecType
BY DEF IdleExec, ExecType, InStory

LEMMA TypeInit == Init => TypeOK
<1> SUFFICES ASSUME Init PROVE TypeOK
  OBVIOUS
<1>1. faults \in 0 .. MaxFaults
  BY ResearchAssumption DEF Init
<1>2. NoReceipt \in ReceiptType
  BY DEF NoReceipt, Status, ReceiptType
<1>3. NoRemote \in RemoteType
  BY DEF NoRemote, RemoteType
<1> QED BY <1>1, <1>2, <1>3, IdleType DEF Init, TypeOK, Outcome

\* An execution ends, leaves its job or moves inside it.
LEMMA StopType ==
  ASSUME TypeOK, NEW x \in Exec, Stop(x)
  PROVE  exec' \in [Exec -> ExecType]
BY IdleType DEF TypeOK, Stop

LEMMA LoopType ==
  ASSUME TypeOK, NEW x \in Exec, exec[x].pc # "idle", Loop(x)
  PROVE  exec' \in [Exec -> ExecType]
<1>1. exec \in [Exec -> ExecType]
  BY DEF TypeOK
<1>2. [IdleExec EXCEPT !.pc = "looping", !.run = exec[x].run] \in ExecType
  BY <1>1 DEF IdleExec, ExecType, InStory
<1> QED BY <1>1, <1>2 DEF Loop

LEMMA RecordType ==
  ASSUME TypeOK, NEW x \in Exec, NEW j \in Job, NEW s \in Outcome,
         exec[x].pc # "idle", Record(x, j, s)
  PROVE  exec' \in [Exec -> ExecType] /\ items' \in [Run -> [Job -> Outcome]]
<1>1. exec' \in [Exec -> ExecType]
  BY StopType, LoopType DEF Record
<1>2. items' \in [Run -> [Job -> Outcome]]
  BY DEF Record, TypeOK
<1> QED BY <1>1, <1>2

LEMMA FaultType == ASSUME TypeOK, Fault PROVE faults' \in 0 .. MaxFaults
BY ResearchAssumption DEF TypeOK, Fault

LEMMA ConcludeType ==
  ASSUME TypeOK, NEW x \in Exec, NEW j \in Job, NEW s \in Outcome,
         exec[x].pc # "idle", Conclude(x, j, s)
  PROVE  /\ exec' \in [Exec -> ExecType]
         /\ items' \in [Run -> [Job -> Outcome]]
         /\ faults' \in 0 .. MaxFaults
<1>1. CASE Record(x, j, s) /\ UNCHANGED faults
  BY <1>1, RecordType DEF TypeOK
<1>2. CASE Stop(x) /\ Fault /\ UNCHANGED items
  BY <1>2, StopType, FaultType DEF TypeOK
<1> QED BY <1>1, <1>2 DEF Conclude

LEMMA StatusType ==
  ASSUME TypeOK, NEW j \in Job, NEW s \in {"completed", "failed", "unknown"},
         receipt' = [receipt EXCEPT ![j].status = s]
  PROVE  receipt' \in [Job -> ReceiptType]
<1>1. receipt \in [Job -> ReceiptType]
  BY DEF TypeOK
<1>2. [receipt[j] EXCEPT !.status = s] \in ReceiptType
  BY <1>1 DEF ReceiptType, Status, Final
<1> QED BY <1>1, <1>2

\* Inside its job an execution has its run, its job and, once accepted, its id.
LEMMA ExecFields ==
  ASSUME TypeOK, NEW x \in Exec
  PROVE  /\ exec[x] \in ExecType
         /\ exec[x].pc # "idle" => exec[x].run \in Run
         /\ exec[x].pc \in InStory => exec[x].job \in Job
         /\ exec[x].pc \in {"accepted", "polling"} =>
              exec[x].id \in RemoteId /\ Polled(x) \in RemoteKey
BY DEF TypeOK, ExecType, Polled, RemoteKey

LEMMA CreatedType ==
  ASSUME TypeOK, NEW x \in Exec, NEW i \in RemoteId, exec[x].pc = "posting", Created(x, i)
  PROVE  remote' \in [RemoteKey -> RemoteType]
<1>1. [state |-> "running", source |-> exec[x].run, job |-> exec[x].job] \in RemoteType
  BY ExecFields DEF RemoteType, InStory
<1> QED BY <1>1 DEF TypeOK, Created

\* Every step keeps the types: one step per action.
LEMMA TypeStep == TypeOK /\ [Next]_vars => TypeOK'
<1> SUFFICES ASSUME TypeOK, [Next]_vars PROVE TypeOK'
  OBVIOUS
<1> USE DEF Final
<1>1. ASSUME NEW x \in Exec, NEW r \in Run, Start(x, r) PROVE TypeOK'
  <2>1. [IdleExec EXCEPT !.pc = IF r \in planned THEN "looping" ELSE "selecting", !.run = r]
          \in ExecType
    BY IdleType DEF IdleExec, ExecType, InStory
  <2>2. exec' \in [Exec -> ExecType]
    BY <1>1, <2>1 DEF Start, TypeOK
  <2> QED BY <1>1, <2>2 DEF Start, TypeOK
<1>2. ASSUME NEW x \in Exec, NEW S \in SUBSET Job, Select(x, S) PROVE TypeOK'
  <2>1. exec' \in [Exec -> ExecType]
    BY <1>2, LoopType DEF Select
  <2> QED BY <1>2, <2>1, ExecFields DEF Select, TypeOK
<1>3. ASSUME NEW x \in Exec, RunBusy(x) \/ Finish(x) PROVE TypeOK'
  <2>1. exec' \in [Exec -> ExecType]
    BY <1>3, StopType DEF RunBusy, Finish
  <2> QED BY <1>3, <2>1 DEF RunBusy, Finish, TypeOK
<1>4. ASSUME NEW x \in Exec, NEW j \in Job, JobBusy(x, j) PROVE TypeOK'
  <2>1. exec' \in [Exec -> ExecType] /\ items' \in [Run -> [Job -> Outcome]]
    BY <1>4, RecordType DEF JobBusy, Entering, Outcome
  <2> QED BY <1>4, <2>1 DEF JobBusy, TypeOK
<1>5. ASSUME NEW x \in Exec, NEW j \in Job, Reuse(x, j) PROVE TypeOK'
  <2>1. exec' \in [Exec -> ExecType] /\ items' \in [Run -> [Job -> Outcome]]
    BY <1>5, RecordType DEF Reuse, Taking, Entering, Outcome
  <2> QED BY <1>5, <2>1 DEF Reuse, TypeOK
<1>6. ASSUME NEW x \in Exec, NEW j \in Job, Submit(x, j) PROVE TypeOK'
  <2>1. exec[x].run \in Run /\ origin \in Origin
    BY <1>6, ExecFields DEF Submit, Taking, Entering, TypeOK
  <2>2. [status |-> "submitting", source |-> exec[x].run, origin |-> origin, id |-> Nobody]
          \in ReceiptType
    BY <2>1 DEF ReceiptType, Status
  <2>3. receipt' \in [Job -> ReceiptType]
    BY <1>6, <2>2 DEF Submit, TypeOK
  <2>4. [exec[x] EXCEPT !.pc = "posting", !.job = j] \in ExecType
    BY <2>1, ExecFields DEF ExecType, InStory
  <2>5. exec' \in [Exec -> ExecType]
    BY <1>6, <2>4 DEF Submit, TypeOK
  <2> QED BY <1>6, <2>3, <2>5 DEF Submit, TypeOK
<1>7. ASSUME NEW x \in Exec, NEW j \in Job, Resume(x, j) PROVE TypeOK'
  <2>1. exec[x].run \in Run /\ receipt[j].id \in RemoteId
    BY <1>7, ExecFields DEF Resume, Taking, Entering, TypeOK, ReceiptType
  <2>2. [exec[x] EXCEPT !.pc = "polling", !.job = j, !.id = receipt[j].id] \in ExecType
    BY <2>1, ExecFields DEF ExecType, InStory
  <2>3. exec' \in [Exec -> ExecType]
    BY <1>7, <2>2 DEF Resume, TypeOK
  <2> QED BY <1>7, <2>3 DEF Resume, TypeOK
<1>8. ASSUME NEW x \in Exec, NEW j \in Job, OriginRefused(x, j) PROVE TypeOK'
  <2>1. exec' \in [Exec -> ExecType]
    BY <1>8, StopType DEF OriginRefused
  <2> QED BY <1>8, <2>1 DEF OriginRefused, TypeOK
<1>9. ASSUME NEW x \in Exec, NEW i \in RemoteId, Post(x, i) PROVE TypeOK'
  <2>1. remote' \in [RemoteKey -> RemoteType]
    BY <1>9, CreatedType DEF Post
  <2>2. [exec[x] EXCEPT !.pc = "accepted", !.id = i] \in ExecType
    BY <1>9, ExecFields DEF Post, ExecType, InStory
  <2>3. exec' \in [Exec -> ExecType]
    BY <1>9, <2>2 DEF Post, TypeOK
  <2> QED BY <1>9, <2>1, <2>3 DEF Post, TypeOK
<1>10. ASSUME NEW x \in Exec, PostUnknown(x) PROVE TypeOK'
  <2>1. exec[x].job \in Job
    BY <1>10, ExecFields DEF PostUnknown, InStory
  <2>2. remote' \in [RemoteKey -> RemoteType]
    BY <1>10, CreatedType DEF PostUnknown, TypeOK
  <2>3. receipt' \in [Job -> ReceiptType]
    BY <1>10, <2>1, StatusType DEF PostUnknown
  <2>4. /\ exec' \in [Exec -> ExecType] /\ items' \in [Run -> [Job -> Outcome]]
        /\ faults' \in 0 .. MaxFaults
    BY <1>10, <2>1, ConcludeType DEF PostUnknown, Outcome
  <2> QED BY <1>10, <2>2, <2>3, <2>4 DEF PostUnknown, TypeOK
<1>11. ASSUME NEW x \in Exec, SaveRunId(x) PROVE TypeOK'
  <2>1. exec[x].job \in Job /\ exec[x].id \in RemoteId
    BY <1>11, ExecFields DEF SaveRunId, InStory
  <2>2. [receipt[exec[x].job] EXCEPT !.status = "running", !.id = exec[x].id] \in ReceiptType
    <3>1. receipt[exec[x].job] \in ReceiptType
      BY <2>1 DEF TypeOK
    <3>2. "running" \in Status
      BY DEF Status
    <3> QED BY <2>1, <3>1, <3>2 DEF ReceiptType
  <2>3. receipt' \in [Job -> ReceiptType]
    BY <1>11, <2>1, <2>2 DEF SaveRunId, TypeOK
  <2>4. [exec[x] EXCEPT !.pc = "polling"] \in ExecType
    BY <1>11, <2>1, ExecFields DEF SaveRunId, ExecType, InStory
  <2>5. exec' \in [Exec -> ExecType]
    BY <1>11, <2>4 DEF SaveRunId, TypeOK
  <2> QED BY <1>11, <2>3, <2>5 DEF SaveRunId, TypeOK
<1>12. ASSUME NEW x \in Exec, PollFailed(x) \/ PollRejected(x) PROVE TypeOK'
  <2>1. exec[x].job \in Job /\ exec[x].pc # "idle"
    BY <1>12, ExecFields DEF PollFailed, PollRejected, InStory
  <2>2. receipt' \in [Job -> ReceiptType]
    BY <1>12, <2>1, StatusType DEF PollFailed, PollRejected
  <2>3. /\ exec' \in [Exec -> ExecType] /\ items' \in [Run -> [Job -> Outcome]]
        /\ faults' \in 0 .. MaxFaults
    BY <1>12, <2>1, ConcludeType DEF PollFailed, PollRejected, Outcome
  <2> QED BY <1>12, <2>2, <2>3 DEF PollFailed, PollRejected, TypeOK
<1>13. ASSUME NEW x \in Exec, PollCompleted(x) PROVE TypeOK'
  <2>1. exec[x].job \in Job /\ Polled(x) \in RemoteKey /\ exec[x].pc # "idle"
    BY <1>13, ExecFields DEF PollCompleted, Reported, InStory
  <2>2. receipt' \in [Job -> ReceiptType]
    BY <1>13, <2>1, StatusType DEF PollCompleted
  <2>3. /\ exec' \in [Exec -> ExecType] /\ items' \in [Run -> [Job -> Outcome]]
        /\ faults' \in 0 .. MaxFaults
    BY <1>13, <2>1, ConcludeType DEF PollCompleted, Outcome
  <2> QED BY <1>13, <2>1, <2>2, <2>3 DEF PollCompleted, TypeOK
<1>14. ASSUME NEW x \in Exec, ReportCut(x) PROVE TypeOK'
  <2>1. Polled(x) \in RemoteKey
    BY <1>14, ExecFields DEF ReportCut, Reported
  <2>2. exec' \in [Exec -> ExecType]
    BY <1>14, StopType DEF ReportCut
  <2> QED BY <1>14, <2>1, <2>2, FaultType DEF ReportCut, TypeOK
<1>15. ASSUME NEW x \in Exec, PollMalformed(x) PROVE TypeOK'
  <2>1. exec[x].job \in Job /\ exec[x].pc # "idle"
    BY <1>15, ExecFields DEF PollMalformed, InStory
  <2>2. receipt' \in [Job -> ReceiptType]
    BY <1>15, <2>1, StatusType DEF PollMalformed
  <2>3. exec' \in [Exec -> ExecType] /\ items' \in [Run -> [Job -> Outcome]]
    BY <1>15, <2>1, RecordType DEF PollMalformed, Outcome
  <2> QED BY <1>15, <2>2, <2>3, FaultType DEF PollMalformed, TypeOK
<1>16. ASSUME NEW x \in Exec, WaitEnds(x) PROVE TypeOK'
  <2>1. exec[x].job \in Job /\ exec[x].pc # "idle"
    BY <1>16, ExecFields DEF WaitEnds, InStory
  <2>2. /\ exec' \in [Exec -> ExecType] /\ items' \in [Run -> [Job -> Outcome]]
        /\ faults' \in 0 .. MaxFaults
    BY <1>16, <2>1, ConcludeType DEF WaitEnds, WaitStatus, Outcome
  <2> QED BY <1>16, <2>2 DEF WaitEnds, TypeOK
<1>17. ASSUME NEW x \in Exec, Interrupt(x) PROVE TypeOK'
  <2>1. exec' \in [Exec -> ExecType]
    BY <1>17, StopType DEF Interrupt
  <2> QED BY <1>17, <2>1, FaultType DEF Interrupt, TypeOK
<1>18. ASSUME NEW o \in Origin, Redeploy(o) PROVE TypeOK'
  BY <1>18, IdleType, FaultType DEF Redeploy, TypeOK
<1>19. ASSUME NEW k \in RemoteKey, NEW s \in {"completed", "empty", "failed"}, RemoteEnds(k, s)
       PROVE  TypeOK'
  <2>1. [remote[k] EXCEPT !.state = s] \in RemoteType
    BY DEF TypeOK, RemoteType
  <2> QED BY <1>19, <2>1 DEF RemoteEnds, TypeOK
<1>20. CASE UNCHANGED vars
  BY <1>20 DEF vars, TypeOK
<1>21. ASSUME NEW x \in Exec, Step(x) PROVE TypeOK'
  BY <1>21, <1>2, <1>3, <1>4, <1>5, <1>6, <1>7, <1>8, <1>9, <1>10, <1>11, <1>12, <1>13,
     <1>16 DEF Step
<1> QED BY <1>1, <1>14, <1>15, <1>17, <1>18, <1>19, <1>20, <1>21 DEF Next

\* TypeOK holds of every behaviour.
THEOREM ResearchTypeCorrect == Spec => []TypeOK
BY TypeInit, TypeStep, PTL DEF Spec
-----------------------------------------------------------------------------
(* One remote run per job: DispatchInv.                                    *)

LEMMA DispatchInit == Init => DispatchInv
<1> SUFFICES ASSUME Init PROVE DispatchInv
  OBVIOUS
<1>1. \A k \in RemoteKey : remote[k].job = Nobody
  BY DEF Init, NoRemote
<1>2. AtMostOneDispatch
  BY <1>1, ResearchAssumption DEF AtMostOneDispatch
<1>3. \A x \in Exec : exec[x].pc \notin InStory
  BY DEF Init, IdleExec, InStory
<1>4. ASSUME NEW j \in Job PROVE JobInv(j)
  <2>1. receipt[j] = NoReceipt /\ report[j] = NoReport
    BY DEF Init
  <2>2. \A k \in RemoteKey : remote[k].job # j
    BY <1>1, ResearchAssumption
  <2> QED BY <2>1, <2>2 DEF JobInv, NoReceipt, Known
<1> QED BY <1>2, <1>3, <1>4 DEF DispatchInv, OneHolder, ExecInv

\* Every other execution keeps what it holds.
OthersKeep(x) == \A y \in Exec : y # x => exec'[y] = exec[y]

LEMMA Leaving ==
  ASSUME TypeOK, NEW x \in Exec, Stop(x) \/ Loop(x)
  PROVE  OthersKeep(x) /\ exec'[x].pc \notin InStory
<1>1. exec'[x].pc \in {"idle", "looping"}
  <2>1. CASE Stop(x)
    BY <2>1 DEF TypeOK, Stop, IdleExec
  <2>2. CASE Loop(x)
    <3>1. exec'[x] = [IdleExec EXCEPT !.pc = "looping", !.run = exec[x].run]
      BY <2>2 DEF TypeOK, Loop
    <3> QED BY <3>1 DEF IdleExec
  <2> QED BY <2>1, <2>2
<1>2. OthersKeep(x)
  BY DEF TypeOK, Stop, Loop, OthersKeep
<1> QED BY <1>1, <1>2 DEF InStory

LEMMA Concluding ==
  ASSUME TypeOK, NEW x \in Exec, NEW j, NEW s, Conclude(x, j, s) \/ Record(x, j, s)
  PROVE  OthersKeep(x) /\ exec'[x].pc \notin InStory
BY Leaving DEF Conclude, Record

\* Steps that write no file: executions stay as they are or leave their job.
LEMMA QuietStep ==
  ASSUME DispatchInv, UNCHANGED <<receipt, report, remote>>,
         \A x \in Exec : \/ exec'[x] = exec[x] /\ origin' = origin
                         \/ exec'[x].pc \notin InStory
  PROVE  DispatchInv'
<1>1. AtMostOneDispatch'
  BY DEF DispatchInv, AtMostOneDispatch
<1>2. OneHolder'
  BY DEF DispatchInv, OneHolder
<1>3. ASSUME NEW j \in Job PROVE JobInv(j)'
  BY <1>3 DEF DispatchInv, JobInv, RemoteOf
<1>4. ASSUME NEW x \in Exec PROVE ExecInv(x)'
  BY <1>4 DEF DispatchInv, ExecInv, Polled
<1> QED BY <1>1, <1>2, <1>3, <1>4 DEF DispatchInv

\* A quiet step of one execution.
LEMMA QuietExec ==
  ASSUME DispatchInv, NEW x \in Exec, UNCHANGED <<receipt, report, remote, origin>>,
         OthersKeep(x), exec'[x].pc \notin InStory
  PROVE  DispatchInv'
BY QuietStep DEF OthersKeep

\* Steps of one execution in one job that no other execution is in.
Alone(x, j) == \A y \in Exec : y # x /\ exec[y].pc \in InStory => exec[y].job # j

LEMMA Holding ==
  ASSUME DispatchInv, NEW x \in Exec, exec[x].pc \in InStory
  PROVE  Alone(x, exec[x].job)
BY DEF DispatchInv, OneHolder, Alone

LEMMA JobStep ==
  ASSUME TypeOK, DispatchInv, NEW x \in Exec, NEW j \in Job, Alone(x, j), origin' = origin,
         OthersKeep(x), exec'[x].pc \in InStory => exec'[x].job = j,
         \A i \in Job : i # j => receipt'[i] = receipt[i] /\ report'[i] = report[i],
         \A k \in RemoteKey : remote'[k] = remote[k]
                              \/ (remote[k].job = Nobody /\ remote'[k].job = j),
         AtMostOneDispatch', JobInv(j)', ExecInv(x)'
  PROVE  DispatchInv'
<1>1. ASSUME NEW i \in Job, i # j, NEW k \in RemoteKey
      PROVE  /\ remote'[k].job = i <=> remote[k].job = i
             /\ remote[k].job = i => remote'[k] = remote[k]
  BY <1>1, ResearchAssumption
<1>2. OneHolder'
  BY DEF DispatchInv, OneHolder, OthersKeep, Alone
<1>3. ASSUME NEW i \in Job, i # j PROVE JobInv(i)'
  <2>1. JobInv(i)
    BY DEF DispatchInv
  <2>2. receipt'[i] = receipt[i] /\ report'[i] = report[i]
    BY <1>3
  <2>3. RemoteOf(i)' = RemoteOf(i)
    BY <2>2 DEF RemoteOf
  <2>4. report[i] # NoReport => receipt[i].status \in Known
    BY <2>1 DEF JobInv
  <2>5. receipt[i].status \in Known => RemoteOf(i) \in RemoteKey /\ remote'[RemoteOf(i)] = remote[RemoteOf(i)]
    BY <1>1, <1>3, <2>1 DEF JobInv
  <2>6. receipt[i].status = "absent" => \A k \in RemoteKey : remote'[k].job # i
    BY <1>1, <1>3, <2>1 DEF JobInv
  <2> QED BY <2>1, <2>2, <2>3, <2>4, <2>5, <2>6 DEF JobInv
<1>4. ASSUME NEW y \in Exec, y # x, exec'[y].pc \in InStory PROVE ExecInv(y)'
  <2> DEFINE i == exec[y].job
  <2>1. exec'[y] = exec[y] /\ ExecInv(y) /\ exec[y].pc \in InStory
    BY <1>4 DEF DispatchInv, OthersKeep
  <2>2. i \in Job /\ i # j
    BY <1>4, <2>1, ExecFields DEF Alone
  <2>3. receipt'[i] = receipt[i]
    BY <2>2
  <2>4. Polled(y)' = Polled(y)
    BY <2>1 DEF Polled
  <2>5. exec[y].pc = "accepted" =>
          remote'[Polled(y)].job = i /\ remote'[Polled(y)].source = exec[y].run
    BY <1>1, <2>1, <2>2, ExecFields DEF ExecInv
  <2>6. exec[y].pc = "posting" => \A k \in RemoteKey : remote'[k].job # i
    BY <1>1, <2>1, <2>2 DEF ExecInv
  <2> QED BY <2>1, <2>3, <2>4, <2>5, <2>6 DEF ExecInv
<1>5. \A y \in Exec : ExecInv(y)'
  BY <1>4 DEF ExecInv
<1> QED BY <1>2, <1>3, <1>5 DEF DispatchInv

\* The service creates the first run for this job.
LEMMA FirstCreated ==
  ASSUME TypeOK, DispatchInv, NEW x \in Exec, NEW i \in RemoteId,
         exec[x].pc = "posting", Created(x, i)
  PROVE  /\ AtMostOneDispatch'
         /\ <<origin, i>> \in RemoteKey
         /\ remote'[<<origin, i>>].job = exec[x].job
         /\ remote'[<<origin, i>>].source = exec[x].run
         /\ \A k \in RemoteKey : remote'[k] = remote[k]
                                 \/ (remote[k].job = Nobody /\ remote'[k].job = exec[x].job)
<1> DEFINE key == <<origin, i>>
           j == exec[x].job
<1>1. key \in RemoteKey
  BY DEF TypeOK, RemoteKey
<1>2. \A k \in RemoteKey : remote[k].job # j
  BY DEF DispatchInv, ExecInv, InStory
<1>3. remote[key].job = Nobody
  BY DEF Created, NoRemote
<1>4. remote'[key] = [state |-> "running", source |-> exec[x].run, job |-> j]
      /\ \A k \in RemoteKey : k # key => remote'[k] = remote[k]
  BY <1>1 DEF Created, TypeOK
<1>5. AtMostOneDispatch'
  BY <1>2, <1>4 DEF AtMostOneDispatch, DispatchInv
<1> QED BY <1>1, <1>3, <1>4, <1>5

LEMMA DispatchStep == TypeOK /\ DispatchInv /\ [Next]_vars => DispatchInv'
<1> SUFFICES ASSUME TypeOK, DispatchInv, [Next]_vars PROVE DispatchInv'
  OBVIOUS
<1>1. ASSUME NEW x \in Exec, NEW r \in Run, Start(x, r) PROVE DispatchInv'
  <2>1. exec'[x].pc \in {"looping", "selecting"}
    BY <1>1 DEF Start, TypeOK, IdleExec
  <2>2. OthersKeep(x)
    BY <1>1 DEF Start, OthersKeep
  <2> QED BY <1>1, <2>1, <2>2, QuietExec DEF Start, InStory
<1>2. ASSUME NEW x \in Exec, (\E S \in SUBSET Job : Select(x, S)) \/ RunBusy(x) \/ Finish(x)
      PROVE DispatchInv'
  <2>1. OthersKeep(x) /\ exec'[x].pc \notin InStory
    BY <1>2, Leaving DEF Select, RunBusy, Finish
  <2> QED BY <1>2, <2>1, QuietExec DEF Select, RunBusy, Finish
<1>3. ASSUME NEW x \in Exec, NEW j \in Job, JobBusy(x, j) \/ Reuse(x, j) \/ OriginRefused(x, j)
      PROVE DispatchInv'
  <2>1. OthersKeep(x) /\ exec'[x].pc \notin InStory
    BY <1>3, Leaving, Concluding DEF JobBusy, Reuse, OriginRefused
  <2> QED BY <1>3, <2>1, QuietExec DEF JobBusy, Reuse, OriginRefused
<1>4. ASSUME NEW x \in Exec, NEW j \in Job, Taking(x, j) PROVE Alone(x, j)
  BY <1>4 DEF Taking, JobLocked, Alone
<1>5. ASSUME NEW x \in Exec, NEW j \in Job, Submit(x, j) PROVE DispatchInv'
  <2>1. /\ receipt'[j] = [status |-> "submitting", source |-> exec[x].run,
                          origin |-> origin, id |-> Nobody]
        /\ \A i \in Job : i # j => receipt'[i] = receipt[i]
    BY <1>5 DEF Submit, TypeOK
  <2>2. exec'[x].pc = "posting" /\ exec'[x].job = j /\ exec'[x].run = exec[x].run
        /\ OthersKeep(x)
    BY <1>5, ExecFields DEF Submit, TypeOK, ExecType, OthersKeep
  <2>3. JobInv(j) /\ receipt[j].status = "absent"
    BY <1>5 DEF Submit, Undispatched, DispatchInv
  <2>4. UNCHANGED <<report, remote, origin>>
    BY <1>5 DEF Submit
  <2>5. (\A k \in RemoteKey : remote[k].job # j) /\ report[j] = NoReport
    BY <2>3 DEF JobInv, Known
  <2>6. JobInv(j)'
    BY <2>1, <2>4, <2>5 DEF JobInv, Known
  <2>7. ExecInv(x)'
    BY <2>1, <2>2, <2>4, <2>5 DEF ExecInv
  <2>8. AtMostOneDispatch'
    BY <2>4 DEF DispatchInv, AtMostOneDispatch
  <2> QED BY <1>4, <1>5, <2>1, <2>2, <2>4, <2>6, <2>7, <2>8, JobStep DEF Submit
<1>6. ASSUME NEW x \in Exec, NEW j \in Job, Resume(x, j) PROVE DispatchInv'
  <2>1. exec'[x].pc = "polling" /\ exec'[x].job = j /\ exec'[x].id = receipt[j].id
        /\ OthersKeep(x)
    BY <1>6, ExecFields DEF Resume, TypeOK, ExecType, OthersKeep
  <2>2. UNCHANGED <<receipt, report, remote, origin>> /\ Alone(x, j)
    BY <1>4, <1>6 DEF Resume
  <2>3. JobInv(j)'
    BY <2>2 DEF DispatchInv, JobInv, RemoteOf
  <2>4. ExecInv(x)'
    BY <1>6, <2>1, <2>2 DEF ExecInv, Resume
  <2>5. AtMostOneDispatch'
    BY <2>2 DEF DispatchInv, AtMostOneDispatch
  <2> QED BY <2>1, <2>2, <2>3, <2>4, <2>5, JobStep
<1>7. ASSUME NEW x \in Exec, NEW i \in RemoteId, NEW j, j = exec[x].job, Post(x, i)
      PROVE  DispatchInv'
  <2>1. exec[x].pc = "posting" /\ exec[x].pc \in InStory /\ j \in Job /\ Created(x, i)
    BY <1>7, ExecFields DEF Post, InStory
  <2>2. exec'[x].pc = "accepted" /\ exec'[x].job = j /\ exec'[x].run = exec[x].run
        /\ exec'[x].id = i /\ OthersKeep(x)
    BY <1>7, ExecFields DEF Post, TypeOK, ExecType, OthersKeep
  <2>3. UNCHANGED <<receipt, report, origin>>
    BY <1>7 DEF Post
  <2>4. /\ receipt[j].status = "submitting" /\ receipt[j].source = exec[x].run
        /\ receipt[j].origin = origin
    BY <1>7, <2>1 DEF DispatchInv, ExecInv
  <2>5. /\ AtMostOneDispatch'
        /\ <<origin, i>> \in RemoteKey
        /\ remote'[<<origin, i>>].job = j
        /\ remote'[<<origin, i>>].source = exec[x].run
        /\ \A k \in RemoteKey : remote'[k] = remote[k]
                                \/ (remote[k].job = Nobody /\ remote'[k].job = j)
    BY <1>7, <2>1, FirstCreated
  <2>6. JobInv(j)'
    BY <1>7, <2>1, <2>3, <2>4 DEF DispatchInv, JobInv, Known
  <2>7. ExecInv(x)'
    BY <1>7, <2>2, <2>3, <2>4, <2>5 DEF ExecInv, Polled
  <2>8. Alone(x, j)
    BY <1>7, <2>1, Holding
  <2> QED BY <1>7, <2>1, <2>2, <2>3, <2>5, <2>6, <2>7, <2>8, JobStep
<1>8. ASSUME NEW x \in Exec, NEW j, j = exec[x].job, PostUnknown(x) PROVE DispatchInv'
  <2>1. exec[x].pc = "posting" /\ exec[x].pc \in InStory /\ j \in Job
    BY <1>8, ExecFields DEF PostUnknown, InStory
  <2>2. OthersKeep(x) /\ exec'[x].pc \notin InStory
    BY <1>8, Concluding DEF PostUnknown
  <2>3. /\ receipt'[j] = [receipt[j] EXCEPT !.status = "unknown"]
        /\ \A i \in Job : i # j => receipt'[i] = receipt[i]
        /\ UNCHANGED <<report, origin>>
    BY <1>8, <2>1 DEF PostUnknown, TypeOK
  <2>4. receipt[j].status = "submitting" /\ JobInv(j) /\ receipt[j] \in ReceiptType
    BY <1>8, <2>1 DEF DispatchInv, ExecInv, TypeOK
  <2>5. /\ AtMostOneDispatch'
        /\ \A k \in RemoteKey : remote'[k] = remote[k]
                                \/ (remote[k].job = Nobody /\ remote'[k].job = j)
    <3>1. CASE UNCHANGED remote
      BY <1>8, <3>1 DEF DispatchInv, AtMostOneDispatch
    <3>2. CASE \E i \in RemoteId : Created(x, i)
      BY <1>8, <2>1, <3>2, FirstCreated
    <3> QED BY <1>8, <3>1, <3>2 DEF PostUnknown
  <2>6. receipt'[j].status = "unknown" /\ receipt'[j].id = receipt[j].id
    BY <1>8, <2>3, <2>4 DEF ReceiptType
  <2>7. JobInv(j)'
    BY <1>8, <2>3, <2>4, <2>6 DEF JobInv, Known
  <2>8. ExecInv(x)'
    BY <1>8, <2>2 DEF ExecInv
  <2>9. Alone(x, j)
    BY <1>8, <2>1, Holding
  <2> QED BY <1>8, <2>1, <2>2, <2>3, <2>5, <2>7, <2>8, <2>9, JobStep
<1>9. ASSUME NEW x \in Exec, NEW j, j = exec[x].job, SaveRunId(x) PROVE DispatchInv'
  <2>1. exec[x].pc = "accepted" /\ exec[x].pc \in InStory /\ j \in Job
        /\ Polled(x) \in RemoteKey
    BY <1>9, ExecFields DEF SaveRunId, InStory
  <2>2. exec'[x].pc = "polling" /\ exec'[x].job = j /\ exec'[x].id = exec[x].id
        /\ OthersKeep(x)
    BY <1>9, ExecFields DEF SaveRunId, TypeOK, ExecType, OthersKeep
  <2>3. /\ receipt'[j] = [receipt[j] EXCEPT !.status = "running", !.id = exec[x].id]
        /\ \A i \in Job : i # j => receipt'[i] = receipt[i]
        /\ UNCHANGED <<report, remote, origin>>
    BY <1>9, <2>1 DEF SaveRunId, TypeOK
  <2>4. receipt[j] \in ReceiptType /\ JobInv(j)
    BY <1>9, <2>1 DEF DispatchInv, TypeOK
  <2>5. /\ receipt[j].status = "submitting" /\ receipt[j].source = exec[x].run
        /\ receipt[j].origin = origin
        /\ remote[Polled(x)].job = j /\ remote[Polled(x)].source = exec[x].run
    BY <1>9, <2>1 DEF DispatchInv, ExecInv
  <2>6. /\ receipt'[j].status = "running" /\ receipt'[j].id = exec[x].id
        /\ receipt'[j].source = exec[x].run /\ receipt'[j].origin = origin
    BY <1>9, <2>3, <2>4, <2>5 DEF ReceiptType
  <2>7. RemoteOf(j)' = Polled(x)
    BY <1>9, <2>6 DEF RemoteOf, Polled
  <2>8. report[j] = NoReport
    BY <1>9, <2>4, <2>5 DEF JobInv, Known
  <2>9. JobInv(j)'
    BY <1>9, <2>1, <2>3, <2>5, <2>6, <2>7, <2>8 DEF JobInv, Known
  <2>10. ExecInv(x)'
    BY <1>9, <2>2, <2>3, <2>6 DEF ExecInv
  <2>11. Alone(x, j) /\ AtMostOneDispatch'
    BY <1>9, <2>1, <2>3, Holding DEF DispatchInv, AtMostOneDispatch
  <2> QED BY <1>9, <2>1, <2>2, <2>3, <2>9, <2>10, <2>11, JobStep
<1>10. ASSUME NEW x \in Exec, NEW j, j = exec[x].job, NEW s \in {"completed", "failed", "running"},
              exec[x].pc = "polling", OthersKeep(x), exec'[x].pc \notin InStory,
              receipt' = [receipt EXCEPT ![exec[x].job].status = s],
              UNCHANGED <<remote, origin>>,
              \/ UNCHANGED report /\ s # "completed"
              \/ Reported(x) /\ report' = [report EXCEPT ![exec[x].job] = Polled(x)]
       PROVE  DispatchInv'
  <2>1. exec[x].pc \in InStory /\ j \in Job /\ Polled(x) \in RemoteKey
    BY <1>10, ExecFields DEF InStory
  <2>2. receipt[j].status = "running" /\ receipt[j].id = exec[x].id /\ receipt[j].origin = origin
        /\ JobInv(j) /\ receipt[j] \in ReceiptType
    BY <1>10, <2>1 DEF DispatchInv, ExecInv, TypeOK
  <2>3. /\ receipt'[j].status = s /\ receipt'[j].id = receipt[j].id
        /\ receipt'[j].origin = receipt[j].origin /\ receipt'[j].source = receipt[j].source
        /\ \A i \in Job : i # j => receipt'[i] = receipt[i]
    BY <1>10, <2>1, <2>2 DEF TypeOK, ReceiptType
  <2>4. RemoteOf(j)' = RemoteOf(j) /\ RemoteOf(j) = Polled(x)
    BY <1>10, <2>2, <2>3 DEF RemoteOf, Polled
  <2>5. report'[j] \in {report[j], Polled(x)} /\ \A i \in Job : i # j => report'[i] = report[i]
    BY <1>10, <2>1 DEF TypeOK
  <2>6. \/ report'[j] = report[j] /\ s # "completed"
        \/ report'[j] = Polled(x) /\ remote[Polled(x)].state = "completed"
    BY <1>10, <2>1 DEF TypeOK, Reported
  <2>7. Polled(x) # NoReport
    BY <1>10, <2>1, ResearchAssumption DEF NoReport, RemoteKey
  <2>8. JobInv(j)'
    <3>1. /\ remote[Polled(x)].job = j /\ remote[Polled(x)].source = receipt[j].source
          /\ report[j] # NoReport =>
               report[j] = Polled(x) /\ remote[Polled(x)].state = "completed"
      BY <2>2, <2>4 DEF JobInv, Known
    <3>2. receipt'[j].status \in Known /\ RemoteOf(j)' = Polled(x) /\ remote' = remote
      BY <1>10, <2>3, <2>4 DEF Known
    <3>3. report'[j] # NoReport =>
            report'[j] = Polled(x) /\ remote[Polled(x)].state = "completed"
      BY <2>6, <3>1
    <3>4. receipt'[j].status = "completed" => report'[j] # NoReport
      BY <2>3, <2>6, <2>7
    <3>5. receipt'[j].status # "absent"
      BY <3>2 DEF Known
    <3> QED BY <2>1, <2>3, <3>1, <3>2, <3>3, <3>4, <3>5 DEF JobInv
  <2>9. ExecInv(x)'
    BY <1>10 DEF ExecInv
  <2>10. Alone(x, j) /\ AtMostOneDispatch'
    BY <1>10, <2>1, Holding DEF DispatchInv, AtMostOneDispatch
  <2> QED BY <1>10, <2>1, <2>3, <2>5, <2>8, <2>9, <2>10, JobStep
<1>11. ASSUME NEW x \in Exec, PollFailed(x) \/ PollRejected(x) \/ PollMalformed(x)
       PROVE  DispatchInv'
  <2>1. OthersKeep(x) /\ exec'[x].pc \notin InStory
    BY <1>11, Concluding DEF PollFailed, PollRejected, PollMalformed
  <2> QED BY <1>10, <1>11, <2>1 DEF PollFailed, PollRejected, PollMalformed
<1>12. ASSUME NEW x \in Exec, PollCompleted(x) PROVE DispatchInv'
  <2>1. OthersKeep(x) /\ exec'[x].pc \notin InStory
    BY <1>12, Concluding DEF PollCompleted
  <2> QED BY <1>10, <1>12, <2>1 DEF PollCompleted, Reported
<1>13. ASSUME NEW x \in Exec, ReportCut(x) PROVE DispatchInv'
  <2>1. OthersKeep(x) /\ exec'[x].pc \notin InStory
    BY <1>13, Leaving DEF ReportCut
  <2>2. exec[x].pc = "polling" /\ exec[x].job \in Job
    BY <1>13, ExecFields DEF ReportCut, Reported, InStory
  <2>3. receipt[exec[x].job].status = "running" /\ receipt[exec[x].job] \in ReceiptType
    BY <2>2 DEF DispatchInv, ExecInv, InStory, TypeOK
  <2>4. [receipt[exec[x].job] EXCEPT !.status = "running"] = receipt[exec[x].job]
    BY <2>3 DEF ReceiptType
  <2>5. receipt' = [receipt EXCEPT ![exec[x].job].status = "running"]
    BY <1>13, <2>2, <2>4 DEF ReportCut, TypeOK
  <2> QED BY <1>10, <1>13, <2>1, <2>2, <2>5 DEF ReportCut
<1>14. ASSUME NEW x \in Exec, WaitEnds(x) \/ Interrupt(x) PROVE DispatchInv'
  <2>1. OthersKeep(x) /\ exec'[x].pc \notin InStory
    BY <1>14, Leaving, Concluding DEF WaitEnds, Interrupt
  <2> QED BY <1>14, <2>1, QuietExec DEF WaitEnds, Interrupt
<1>15. ASSUME NEW o \in Origin, Redeploy(o) PROVE DispatchInv'
  <2>1. \A x \in Exec : exec'[x].pc \notin InStory
    BY <1>15 DEF Redeploy, IdleExec, InStory
  <2> QED BY <1>15, <2>1, QuietStep DEF Redeploy
<1>16. ASSUME NEW k \in RemoteKey, NEW s \in {"completed", "empty", "failed"}, RemoteEnds(k, s)
       PROVE  DispatchInv'
  <2>1. \A l \in RemoteKey : /\ remote'[l].job = remote[l].job
                             /\ remote'[l].source = remote[l].source
                             /\ remote[l].state = "completed" => remote'[l].state = "completed"
    BY <1>16 DEF RemoteEnds, TypeOK, RemoteType
  <2>2. UNCHANGED <<receipt, report, exec, origin>>
    BY <1>16 DEF RemoteEnds
  <2>3. AtMostOneDispatch' /\ OneHolder'
    BY <2>1, <2>2 DEF DispatchInv, AtMostOneDispatch, OneHolder
  <2>4. ASSUME NEW j \in Job PROVE JobInv(j)'
    <3>1. JobInv(j) /\ RemoteOf(j)' = RemoteOf(j)
      BY <2>2 DEF DispatchInv, RemoteOf
    <3>2. report[j] # NoReport => report[j] \in RemoteKey
      BY DEF TypeOK
    <3> QED BY <2>1, <2>2, <3>1, <3>2 DEF JobInv
  <2>5. ASSUME NEW x \in Exec PROVE ExecInv(x)'
    <3>1. ExecInv(x) /\ Polled(x)' = Polled(x)
      BY <2>2 DEF DispatchInv, Polled
    <3> QED BY <2>1, <2>2, <3>1, ExecFields DEF ExecInv
  <2> QED BY <2>3, <2>4, <2>5 DEF DispatchInv
<1>17. CASE UNCHANGED vars
  BY <1>17, QuietStep DEF vars
<1>18. ASSUME NEW x \in Exec, Step(x) PROVE DispatchInv'
  BY <1>18, <1>2, <1>3, <1>5, <1>6, <1>7, <1>8, <1>9, <1>11, <1>12, <1>14 DEF Step
<1> QED BY <1>1, <1>11, <1>13, <1>14, <1>15, <1>16, <1>17, <1>18 DEF Next

\* The inductive invariant: a job has one remote run at most, which its receipt,
\* its report and the execution inside it name alike.
THEOREM DispatchCorrect == Spec => []DispatchInv
BY DispatchInit, DispatchStep, ResearchTypeCorrect, PTL DEF Spec

\* A job is paid for at most once.
THEOREM PaidOnce == Spec => []AtMostOneDispatch
<1>1. DispatchInv => AtMostOneDispatch
  BY DEF DispatchInv
<1> QED BY <1>1, DispatchCorrect, PTL

\* A completed receipt always has the report of the remote run of its own job.
THEOREM ReportsAreArchived == Spec => []ArchivedReport
<1>1. DispatchInv => ArchivedReport
  BY DEF DispatchInv, JobInv, ArchivedReport, Known
<1> QED BY <1>1, DispatchCorrect, PTL

\* An execution polls the remote run of its own job, and the identity and snapshot
\* checks never reject that run's answer.
THEOREM PollsOwnRun == Spec => []PollsItsOwnRun
<1>1. TypeOK /\ DispatchInv => PollsItsOwnRun
  <2> SUFFICES ASSUME TypeOK, DispatchInv, NEW x \in Exec, exec[x].pc = "polling"
               PROVE  /\ Polled(x) = RemoteOf(exec[x].job)
                      /\ Matches(x)
                      /\ report[exec[x].job] \in {NoReport, Polled(x)}
    BY DEF PollsItsOwnRun
  <2>1. exec[x].job \in Job /\ exec[x].pc \in InStory
    BY ExecFields DEF InStory
  <2>2. ExecInv(x) /\ JobInv(exec[x].job)
    BY <2>1 DEF DispatchInv
  <2>3. Polled(x) = RemoteOf(exec[x].job) /\ receipt[exec[x].job].status = "running"
    BY <2>1, <2>2 DEF ExecInv, Polled, RemoteOf
  <2> QED BY <2>2, <2>3 DEF JobInv, Matches, Known
<1> QED BY <1>1, ResearchTypeCorrect, DispatchCorrect, PTL

\* A remote run once known is never forgotten, replaced or looked for elsewhere.
THEOREM RunIdIsKept == Spec => RunIdKept
<1>1. TypeOK /\ DispatchInv /\ [Next]_vars => KeepsRunId
  <2> SUFFICES ASSUME TypeOK, DispatchInv, [Next]_vars, NEW j \in Job, receipt[j].id # Nobody
               PROVE  receipt'[j].id = receipt[j].id /\ receipt'[j].origin = receipt[j].origin
    BY DEF KeepsRunId
  <2>1. receipt[j] \in ReceiptType /\ JobInv(j) /\ receipt[j].status \in Known
    BY DEF TypeOK, DispatchInv, JobInv
  <2>2. ASSUME NEW i, NEW s, receipt' = [receipt EXCEPT ![i].status = s]
        PROVE  receipt'[j].id = receipt[j].id /\ receipt'[j].origin = receipt[j].origin
    BY <2>1, <2>2 DEF TypeOK, ReceiptType
  <2>3. ASSUME NEW x \in Exec, NEW i \in Job, Submit(x, i) PROVE receipt'[j] = receipt[j]
    BY <2>1, <2>3 DEF Submit, Undispatched, Known, TypeOK
  <2>4. ASSUME NEW x \in Exec, SaveRunId(x) PROVE receipt'[j] = receipt[j]
    <3>1. receipt[exec[x].job].status = "submitting"
      BY <2>4 DEF SaveRunId, DispatchInv, ExecInv, InStory
    <3> QED BY <2>1, <2>4, <3>1 DEF SaveRunId, Known, TypeOK
  <2>5. ASSUME NEW x \in Exec, Step(x)
        PROVE  receipt'[j].id = receipt[j].id /\ receipt'[j].origin = receipt[j].origin
    BY <2>2, <2>3, <2>4, <2>5 DEF Step, Select, RunBusy, Finish, JobBusy, Reuse, Resume,
         OriginRefused, Post, PostUnknown, PollFailed, PollCompleted, PollRejected, WaitEnds
  <2> QED BY <2>2, <2>5 DEF Next, Start, ReportCut, PollMalformed, Interrupt, Redeploy,
            RemoteEnds, vars
<1>2. TypeOK /\ DispatchInv /\ [Next]_vars => [KeepsRunId]_receipt
  BY <1>1
<1> QED BY <1>2, ResearchTypeCorrect, DispatchCorrect, PTL DEF Spec, RunIdKept

-----------------------------------------------------------------------------
(* The results of a run: ResultsInv.                                       *)

LEMMA ResultsInit == Init => ResultsInv
<1> SUFFICES ASSUME Init PROVE ResultsInv
  OBVIOUS
<1>1. \A x \in Exec : exec[x].pc \notin {"selecting", "looping"} \cup InStory
  BY DEF Init, IdleExec, InStory
<1>2. \A x \in Exec : RunInv(x)
  BY <1>1 DEF RunInv
<1>3. \A r \in Run : ItemsInv(r)
  BY DEF Init, ItemsInv
<1> QED BY <1>1, <1>2, <1>3 DEF ResultsInv, OneRunner, RunHeld

\* An execution that leaves its job is idle or between two jobs of the same run.
LEMMA LeavingRun ==
  ASSUME TypeOK, NEW x \in Exec, Stop(x) \/ Loop(x)
  PROVE  /\ OthersKeep(x)
         /\ exec'[x].pc \in {"idle", "looping"} /\ exec'[x].pc \notin RunHeld
         /\ exec'[x].pc = "looping" => exec'[x].run = exec[x].run
<1>1. CASE Stop(x)
  BY <1>1 DEF TypeOK, Stop, IdleExec, OthersKeep, RunHeld, InStory
<1>2. CASE Loop(x)
  <2>1. exec'[x] = [IdleExec EXCEPT !.pc = "looping", !.run = exec[x].run]
    BY <1>2 DEF TypeOK, Loop
  <2> QED BY <1>2, <2>1 DEF TypeOK, Loop, IdleExec, OthersKeep, RunHeld, InStory
<1> QED BY <1>1, <1>2

\* Steps that record nothing: each execution stays, leaves, or moves inside the job
\* it is alone in; receipts move only for jobs that no result has settled.
LEMMA UnrecordedStep ==
  ASSUME TypeOK, ResultsInv, UNCHANGED <<planned, plan, items>>,
         \A j \in Job : \/ receipt'[j].status = receipt[j].status
                        \/ \A q \in Run : items[q][j] \in {"none", "running"},
         OneRunner', \A x \in Exec : exec'[x] = exec[x] \/ RunInv(x)'
  PROVE  ResultsInv'
<1>1. ASSUME NEW x \in Exec PROVE RunInv(x)'
  <2>1. CASE exec'[x] = exec[x]
    BY <2>1 DEF ResultsInv, RunInv, NextJobs, Unrecorded
  <2> QED BY <2>1
<1>2. ASSUME NEW r \in Run PROVE ItemsInv(r)'
  BY <1>2 DEF ResultsInv, ItemsInv
<1> QED BY <1>1, <1>2 DEF ResultsInv

\* One execution leaves, or goes on with the run it holds already.
LEMMA OneUnrecorded ==
  ASSUME TypeOK, ResultsInv, UNCHANGED <<planned, plan, items>>, NEW x \in Exec, OthersKeep(x),
         \A j \in Job : \/ receipt'[j].status = receipt[j].status
                        \/ \A q \in Run : items[q][j] \in {"none", "running"},
         \/ exec'[x].pc \notin RunHeld
         \/ exec[x].pc \in RunHeld /\ exec'[x].run = exec[x].run
         \/ ~RunLocked(exec'[x].run),
         RunInv(x)'
  PROVE  ResultsInv'
<1>1. OneRunner'
  BY DEF ResultsInv, OneRunner, OthersKeep, RunLocked, RunHeld
<1> QED BY <1>1, UnrecordedStep DEF OthersKeep

\* The next job of the run is recorded.
LEMMA RecordStep ==
  ASSUME TypeOK, ResultsInv, NEW x \in Exec, NEW r \in Run, NEW j \in Job, NEW s \in Outcome,
         r = exec[x].run, r \in planned, j \in NextJobs(r), Record(x, j, s),
         UNCHANGED <<planned, plan>>,
         \A y \in Exec : y # x /\ exec[y].pc \in RunHeld => exec[y].run # r,
         s \in {receipt'[j].status, "running"},
         s = "running" \/ \A y \in Exec : y # x /\ exec[y].pc \in InStory => exec[y].job # j,
         \A i \in Job : \/ receipt'[i].status = receipt[i].status
                        \/ \A q \in Run : items[q][i] \in {"none", "running"}
  PROVE  ResultsInv'
<1>1. /\ items'[r][j] = s
      /\ \A i \in Job : i # j => items'[r][i] = items[r][i]
      /\ \A q \in Run : q # r => items'[q] = items[q]
  BY DEF Record, TypeOK
<1>2. /\ OthersKeep(x)
      /\ exec'[x].pc \in {"idle", "looping"} /\ exec'[x].pc \notin RunHeld
      /\ exec'[x].pc = "looping" => exec'[x].run = r
  BY LeavingRun DEF Record
<1>3. j \in plan[r] /\ items[r][j] = "none" /\ \A i \in plan[r] : items[r][i] = "none" => j <= i
  BY DEF NextJobs, Unrecorded
<1>4. OneRunner'
  BY <1>2 DEF ResultsInv, OneRunner, OthersKeep
<1>5. ASSUME NEW y \in Exec PROVE RunInv(y)'
  <2>1. CASE y = x
    BY <1>2, <2>1 DEF RunInv, RunHeld
  <2>2. CASE y # x
    <3>1. exec'[y] = exec[y] /\ RunInv(y) /\ exec[y] \in ExecType
      BY <1>2, <2>2 DEF OthersKeep, ResultsInv, TypeOK
    <3>2. CASE exec[y].pc \in InStory
      <4>1. exec[y].run # r /\ exec[y].run \in Run /\ exec[y].job \in Job
        BY <2>2, <3>1, <3>2 DEF RunHeld, ExecType, InStory
      <4>2. NextJobs(exec[y].run)' = NextJobs(exec[y].run)
        BY <1>1, <3>1, <4>1 DEF NextJobs, Unrecorded
      <4>3. \A q \in Run : items'[q][exec[y].job] \in {"none", "running"}
        BY <1>1, <2>2, <3>1, <3>2, <4>1 DEF RunInv
      <4> QED BY <3>1, <3>2, <4>2, <4>3 DEF RunInv
    <3>3. CASE exec[y].pc \notin InStory
      BY <3>1, <3>3 DEF RunInv
    <3> QED BY <3>2, <3>3
  <2> QED BY <2>1, <2>2
<1>6. ASSUME NEW q \in Run PROVE ItemsInv(q)'
  <2>1. CASE q # r
    BY <1>1, <2>1 DEF ResultsInv, ItemsInv
  <2>2. CASE q = r
    <3>1. ItemsInv(r) /\ j \in Nat
      BY ResearchAssumption DEF ResultsInv
    <3>2. ASSUME NEW i \in plan[r], i < j PROVE items'[r][i] # "none"
      BY <1>1, <1>3, <3>2, ResearchAssumption DEF TypeOK
    <3>3. ASSUME NEW i \in Job, items'[r][i] # "none"
          PROVE  /\ items'[r][i] \in {receipt'[i].status, "running"}
                 /\ i \in plan[r]
                 /\ \A k \in plan[r] : k < i => items'[r][k] # "none"
      <4>1. CASE i = j
        BY <1>1, <1>3, <3>2, <4>1
      <4>2. CASE i # j
        <5>1. \A k \in plan[r] : items[r][k] # "none" => items'[r][k] # "none"
          BY <1>1, <1>3 DEF TypeOK
        <5> QED BY <1>1, <3>1, <3>3, <4>2, <5>1 DEF ItemsInv
      <4> QED BY <4>1, <4>2
    <3> QED BY <2>2, <3>3 DEF ItemsInv
  <2> QED BY <2>1, <2>2
<1> QED BY <1>4, <1>5, <1>6 DEF ResultsInv

\* Inside a job: the run has a plan, and the job is next in it and free for one.
LEMMA Inside ==
  ASSUME TypeOK, DispatchInv, ResultsInv, NEW x \in Exec, exec[x].pc \in InStory
  PROVE  /\ exec[x].run \in Run /\ exec[x].job \in Job
         /\ exec[x].run \in planned /\ exec[x].job \in NextJobs(exec[x].run)
         /\ \A q \in Run : items[q][exec[x].job] \in {"none", "running"}
         /\ \A y \in Exec : y # x /\ exec[y].pc \in RunHeld => exec[y].run # exec[x].run
         /\ \A y \in Exec : y # x /\ exec[y].pc \in InStory => exec[y].job # exec[x].job
<1>1. exec[x].run \in Run /\ exec[x].job \in Job
  BY ExecFields DEF InStory
<1>2. RunInv(x) /\ OneRunner /\ OneHolder
  BY DEF ResultsInv, DispatchInv
<1> QED BY <1>1, <1>2 DEF RunInv, OneRunner, OneHolder, RunHeld

\* The status of a receipt is replaced for the job in hand.
LEMMA StatusOf ==
  ASSUME TypeOK, NEW j \in Job, NEW s, receipt' = [receipt EXCEPT ![j].status = s]
  PROVE  receipt'[j].status = s /\ \A i \in Job \ {j} : receipt'[i] = receipt[i]
BY DEF TypeOK, ReceiptType

\* The last step in a job: the item is recorded, or the execution dies before.
LEMMA ConcludeStep ==
  ASSUME TypeOK, DispatchInv, ResultsInv, NEW x \in Exec, exec[x].pc \in InStory,
         NEW s \in {"completed", "failed", "unknown", "running"},
         Conclude(x, exec[x].job, s) \/ Record(x, exec[x].job, s),
         UNCHANGED <<planned, plan>>,
         \/ receipt' = [receipt EXCEPT ![exec[x].job].status = s]
         \/ s = "running" /\ UNCHANGED receipt
  PROVE  ResultsInv'
<1>1. PICK j \in Job : j = exec[x].job
  BY Inside
<1>2. PICK r \in Run : r = exec[x].run
  BY Inside
<1>3. \A i \in Job : \/ receipt'[i].status = receipt[i].status
                     \/ \A q \in Run : items[q][i] \in {"none", "running"}
  BY <1>1, StatusOf, Inside
<1>4. s \in {receipt'[j].status, "running"} /\ s \in Outcome
  BY <1>1, StatusOf DEF Outcome, Final
<1>5. CASE Record(x, j, s)
  BY <1>1, <1>2, <1>3, <1>4, <1>5, Inside, RecordStep
<1>6. CASE Stop(x) /\ UNCHANGED items
  <2>1. OthersKeep(x) /\ exec'[x].pc = "idle" /\ exec'[x].pc \notin RunHeld
    BY <1>6 DEF Stop, TypeOK, IdleExec, OthersKeep, RunHeld, InStory
  <2>2. RunInv(x)'
    BY <2>1 DEF RunInv, RunHeld
  <2> QED BY <1>3, <1>6, <2>1, <2>2, OneUnrecorded
<1> QED BY <1>1, <1>5, <1>6 DEF Conclude

LEMMA ResultsStep == TypeOK /\ DispatchInv /\ ResultsInv /\ [Next]_vars => ResultsInv'
<1> SUFFICES ASSUME TypeOK, DispatchInv, ResultsInv, [Next]_vars PROVE ResultsInv'
  OBVIOUS
<1>1. CASE UNCHANGED vars
  <2>1. OneRunner'
    BY <1>1 DEF vars, ResultsInv, OneRunner
  <2> QED BY <1>1, <2>1, UnrecordedStep DEF vars
<1>2. ASSUME NEW x \in Exec, NEW r \in Run, Start(x, r) PROVE ResultsInv'
  <2>1. /\ exec'[x].pc = IF r \in planned THEN "looping" ELSE "selecting"
        /\ exec'[x].run = r /\ OthersKeep(x)
    BY <1>2 DEF Start, TypeOK, IdleExec, OthersKeep
  <2>2. RunInv(x)'
    BY <1>2, <2>1 DEF Start, RunInv, InStory
  <2> QED BY <1>2, <2>1, <2>2, OneUnrecorded DEF Start
<1>3. ASSUME NEW x \in Exec, NEW S \in SUBSET Job, Select(x, S) PROVE ResultsInv'
  <2>1. PICK r \in Run : r = exec[x].run
    BY <1>3, ExecFields DEF Select
  <2>2. /\ plan' = [plan EXCEPT ![r] = S] /\ planned' = planned \cup {r}
        /\ UNCHANGED <<items, receipt>>
        /\ r \notin planned
    BY <1>3, <2>1 DEF Select, ResultsInv, RunInv
  <2>3. /\ OthersKeep(x) /\ exec'[x].pc = "looping" /\ exec'[x].run = r
        /\ \A y \in Exec : y # x /\ exec[y].pc \in RunHeld => exec[y].run # r
    <3>1. exec'[x] = [IdleExec EXCEPT !.pc = "looping", !.run = r]
      BY <1>3, <2>1 DEF Select, TypeOK, Loop
    <3> QED BY <1>3, <2>1, <3>1 DEF Select, TypeOK, Loop, IdleExec, OthersKeep, ResultsInv,
              OneRunner, RunHeld
  <2>4. OneRunner'
    BY <2>3 DEF ResultsInv, OneRunner, OthersKeep, RunHeld, InStory
  <2>5. ASSUME NEW y \in Exec PROVE RunInv(y)'
    <3>1. CASE y = x
      BY <2>2, <2>3, <3>1 DEF RunInv, InStory
    <3>2. CASE y # x
      <4>1. exec'[y] = exec[y] /\ RunInv(y) /\ (exec[y].pc # "idle" => exec[y].run \in Run)
        BY <2>3, <3>2, ExecFields DEF OthersKeep, ResultsInv
      <4>2. exec[y].pc \in InStory => exec[y].run # r /\ exec[y].run \in Run
        BY <2>3, <3>2, <4>1 DEF RunHeld, InStory
      <4>3. exec[y].pc \in InStory => NextJobs(exec[y].run)' = NextJobs(exec[y].run)
        BY <2>2, <4>1, <4>2 DEF TypeOK, NextJobs, Unrecorded
      <4>4. exec[y].pc = "selecting" => exec[y].run # r
        BY <2>3, <3>2 DEF RunHeld
      <4> QED BY <2>2, <4>1, <4>3, <4>4 DEF RunInv
    <3> QED BY <3>1, <3>2
  <2>6. ASSUME NEW q \in Run PROVE ItemsInv(q)'
    BY <2>2 DEF ResultsInv, ItemsInv, TypeOK
  <2> QED BY <2>4, <2>5, <2>6 DEF ResultsInv
<1>4. ASSUME NEW x \in Exec, Stop(x), UNCHANGED <<planned, plan, items, receipt>>
      PROVE  ResultsInv'
  <2>1. OthersKeep(x) /\ exec'[x].pc = "idle" /\ exec'[x].pc \notin RunHeld
    BY <1>4 DEF Stop, TypeOK, IdleExec, OthersKeep, RunHeld, InStory
  <2>2. RunInv(x)'
    BY <2>1 DEF RunInv, RunHeld
  <2> QED BY <1>4, <2>1, <2>2, OneUnrecorded
<1>5. ASSUME NEW x \in Exec, NEW j \in Job, JobBusy(x, j) \/ Reuse(x, j) PROVE ResultsInv'
  <2>1. PICK r \in Run : r = exec[x].run
    BY <1>5, ExecFields DEF JobBusy, Reuse, Taking, Entering
  <2>2. /\ r \in planned /\ j \in NextJobs(r)
        /\ \A y \in Exec : y # x /\ exec[y].pc \in RunHeld => exec[y].run # r
    BY <1>5, <2>1 DEF JobBusy, Reuse, Taking, Entering, RunLocked, RunHeld, ResultsInv, RunInv
  <2>3. PICK s \in Outcome :
          /\ Record(x, j, s) /\ s \in {receipt[j].status, "running"}
          /\ s = "running" \/ \A y \in Exec : y # x /\ exec[y].pc \in InStory => exec[y].job # j
    <3>1. CASE JobBusy(x, j)
      BY <3>1 DEF JobBusy, Outcome
    <3>2. CASE Reuse(x, j)
      BY <3>2 DEF Reuse, Taking, JobLocked, Outcome
    <3> QED BY <1>5, <3>1, <3>2
  <2>4. UNCHANGED <<planned, plan, receipt>>
    BY <1>5 DEF JobBusy, Reuse
  <2> QED BY <2>1, <2>2, <2>3, <2>4, RecordStep
<1>6. ASSUME NEW x \in Exec, NEW j \in Job, Submit(x, j) \/ Resume(x, j) PROVE ResultsInv'
  <2>1. PICK r \in Run : r = exec[x].run
    BY <1>6, ExecFields DEF Submit, Resume, Taking, Entering
  <2>2. /\ r \in planned /\ j \in NextJobs(r) /\ ~RunLocked(r)
        /\ UNCHANGED <<planned, plan, items>>
        /\ receipt[j].status \in {"absent", "running"}
        /\ \A i \in Job \ {j} : receipt'[i] = receipt[i]
    BY <1>6, <2>1 DEF Submit, Resume, Taking, Entering, ResultsInv, RunInv, Undispatched, TypeOK
  <2>3. \A q \in Run : items[q][j] \in {"none", "running"}
    BY <2>2 DEF ResultsInv, ItemsInv, TypeOK, Outcome, Final
  <2>4. exec'[x].pc \in InStory /\ exec'[x].run = r /\ exec'[x].job = j /\ OthersKeep(x)
    BY <1>6, <2>1, ExecFields DEF Submit, Resume, TypeOK, ExecType, OthersKeep, InStory
  <2>5. NextJobs(r)' = NextJobs(r)
    BY <2>2 DEF NextJobs, Unrecorded
  <2>6. RunInv(x)'
    BY <2>2, <2>3, <2>4, <2>5 DEF RunInv, InStory
  <2> QED BY <2>2, <2>3, <2>4, <2>6, OneUnrecorded
<1>7. ASSUME NEW x \in Exec, SaveRunId(x) \/ \E i \in RemoteId : Post(x, i) PROVE ResultsInv'
  <2>1. exec[x].pc \in InStory /\ UNCHANGED <<planned, plan, items>>
    BY <1>7 DEF SaveRunId, Post, InStory
  <2>2. PICK j \in Job : j = exec[x].job
    BY <2>1, Inside
  <2>3. \A i \in Job \ {j} : receipt'[i] = receipt[i]
    BY <1>7, <2>2 DEF SaveRunId, Post, TypeOK
  <2>4. /\ exec'[x].pc \in InStory /\ exec'[x].run = exec[x].run
        /\ exec'[x].job = j /\ OthersKeep(x)
    BY <1>7, <2>2, ExecFields DEF SaveRunId, Post, TypeOK, ExecType, OthersKeep, InStory
  <2>5. NextJobs(exec[x].run)' = NextJobs(exec[x].run)
    BY <2>1, <2>4 DEF NextJobs, Unrecorded
  <2>6. RunInv(x)'
    BY <2>1, <2>2, <2>4, <2>5, Inside DEF RunInv, InStory
  <2>7. exec[x].pc \in RunHeld
    BY <2>1 DEF RunHeld
  <2>8. \A q \in Run : items[q][j] \in {"none", "running"}
    BY <2>1, <2>2, Inside
  <2> QED BY <2>1, <2>3, <2>4, <2>6, <2>7, <2>8, OneUnrecorded
<1>8. ASSUME NEW x \in Exec,
             PostUnknown(x) \/ PollFailed(x) \/ PollCompleted(x) \/ PollRejected(x)
               \/ PollMalformed(x) \/ WaitEnds(x)
      PROVE  ResultsInv'
  <2>1. exec[x].pc \in InStory /\ UNCHANGED <<planned, plan>>
    BY <1>8 DEF PostUnknown, PollFailed, PollCompleted, Reported, PollRejected, PollMalformed,
                WaitEnds, InStory
  <2>2. \E s \in {"completed", "failed", "unknown", "running"} :
          /\ Conclude(x, exec[x].job, s) \/ Record(x, exec[x].job, s)
          /\ \/ receipt' = [receipt EXCEPT ![exec[x].job].status = s]
             \/ s = "running" /\ UNCHANGED receipt
    BY <1>8 DEF PostUnknown, PollFailed, PollCompleted, PollRejected, PollMalformed, WaitEnds,
                WaitStatus
  <2> QED BY <2>1, <2>2, ConcludeStep
<1>9. ASSUME NEW o \in Origin, Redeploy(o) PROVE ResultsInv'
  <2>1. \A x \in Exec : exec'[x].pc = "idle"
    BY <1>9 DEF Redeploy, IdleExec
  <2>2. OneRunner' /\ \A x \in Exec : RunInv(x)'
    BY <2>1 DEF OneRunner, RunInv, RunHeld, InStory
  <2> QED BY <1>9, <2>2, UnrecordedStep DEF Redeploy
<1>10. ASSUME NEW k \in RemoteKey, NEW s \in {"completed", "empty", "failed"}, RemoteEnds(k, s)
       PROVE  ResultsInv'
  <2>1. OneRunner'
    BY <1>10 DEF RemoteEnds, ResultsInv, OneRunner
  <2> QED BY <1>10, <2>1, UnrecordedStep DEF RemoteEnds
<1>11. ASSUME NEW x \in Exec, Step(x) PROVE ResultsInv'
  BY <1>11, <1>3, <1>4, <1>5, <1>6, <1>7, <1>8 DEF Step, RunBusy, Finish, OriginRefused
<1> QED BY <1>1, <1>2, <1>4, <1>8, <1>9, <1>10, <1>11 DEF Next, ReportCut, Interrupt

\* The inductive invariant of results: a run's lock has one holder, and what results
\* record is settled in their order and for good.
THEOREM ResultsCorrect == Spec => []ResultsInv
BY ResultsInit, ResultsStep, ResearchTypeCorrect, DispatchCorrect, PTL DEF Spec

\* What a result says of a job is what the job's receipt says, in the plan's order.
THEOREM ResultsAlwaysAgree == Spec => []ResultsAgree
<1>1. ResultsInv => ResultsAgree
  BY DEF ResultsInv, ItemsInv, ResultsAgree
<1> QED BY <1>1, ResultsCorrect, PTL

\* The plan of a run is frozen once and its recorded items stay.
THEOREM RunsAreFrozen == Spec => RunsFrozen
<1>1. TypeOK /\ DispatchInv /\ ResultsInv /\ [Next]_vars => KeepsRuns
  <2> SUFFICES ASSUME TypeOK, DispatchInv, ResultsInv, [Next]_vars PROVE KeepsRuns
    OBVIOUS
  <2>1. ASSUME UNCHANGED <<planned, plan, items>> PROVE KeepsRuns
    BY <2>1 DEF KeepsRuns
  <2>2. ASSUME NEW x \in Exec, NEW S \in SUBSET Job, Select(x, S) PROVE KeepsRuns
    BY <2>2, ExecFields DEF Select, KeepsRuns, ResultsInv, RunInv, TypeOK
  <2>3. ASSUME NEW x \in Exec, NEW j \in Job, NEW s, exec[x].run \in Run,
               j \in NextJobs(exec[x].run), Record(x, j, s), UNCHANGED <<planned, plan>>
        PROVE  KeepsRuns
    BY <2>3 DEF Record, KeepsRuns, NextJobs, Unrecorded, TypeOK
  <2>4. ASSUME NEW x \in Exec, NEW s, exec[x].pc \in InStory, UNCHANGED <<planned, plan>>,
               Conclude(x, exec[x].job, s) \/ Record(x, exec[x].job, s)
        PROVE  KeepsRuns
    <3>1. exec[x].run \in Run /\ exec[x].job \in Job /\ exec[x].job \in NextJobs(exec[x].run)
      BY <2>4, Inside
    <3> QED BY <2>1, <2>3, <2>4, <3>1 DEF Conclude
  <2>5. ASSUME NEW x \in Exec, NEW j \in Job, JobBusy(x, j) \/ Reuse(x, j) PROVE KeepsRuns
    <3>1. exec[x].run \in Run
      BY <2>5, ExecFields DEF JobBusy, Reuse, Taking, Entering
    <3> QED BY <2>3, <2>5, <3>1 DEF JobBusy, Reuse, Taking
  <2>6. ASSUME NEW x \in Exec,
               PostUnknown(x) \/ PollFailed(x) \/ PollCompleted(x) \/ PollRejected(x)
                 \/ PollMalformed(x) \/ WaitEnds(x)
        PROVE  KeepsRuns
    BY <2>4, <2>6 DEF PostUnknown, PollFailed, PollCompleted, Reported, PollRejected,
         PollMalformed, WaitEnds, InStory
  <2>7. ASSUME NEW x \in Exec, Step(x) PROVE KeepsRuns
    BY <2>1, <2>2, <2>5, <2>6, <2>7 DEF Step, RunBusy, Finish, Submit, Resume, OriginRefused,
         Post, SaveRunId
  <2> QED BY <2>1, <2>6, <2>7 DEF Next, Start, ReportCut, Interrupt, Redeploy, RemoteEnds, vars
<1>2. TypeOK /\ DispatchInv /\ ResultsInv /\ [Next]_vars => [KeepsRuns]_<<planned, plan, items>>
  BY <1>1
<1> QED
  BY <1>2, ResearchTypeCorrect, DispatchCorrect, ResultsCorrect, PTL DEF Spec, RunsFrozen
=============================================================================
