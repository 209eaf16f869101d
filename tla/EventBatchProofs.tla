--------------------------- MODULE EventBatchProofs ---------------------------
(***************************************************************************)
(* Theorems about EventBatch for any set of Evidence, any number of        *)
(* overlapping runs, any batch size and any number of faults: leases, and  *)
(* the queue with the batch taken from it: no Evidence is lost or in two   *)
(* places, the pending batch can be resumed or finished after any crash,   *)
(* Evidence is settled as the frozen decisions say, only what the frozen   *)
(* answer accepts is published, and no receipt is lost. Seen through       *)
(* EventBatchLedger, every step is one of EvidenceLedger or none.          *)
(***************************************************************************)
EXTENDS EventBatchLedger, TLAPS

-----------------------------------------------------------------------------
(* Type correctness.                                                       *)

USE DEF Batch

LEMMA IdleJobType == IdleJob \in JobType
<1>1. Unset \in [Evidence -> Verdict \cup {"unset"}]
  BY DEF Unset, Verdict
<1>2. Unset \in [Evidence -> Progress]
  BY DEF Unset, Progress
<1> QED BY <1>1, <1>2 DEF IdleJob, JobType, NoBatch, Point, InHand

LEMMA TypeInit == Init => TypeOK
<1> SUFFICES ASSUME Init PROVE TypeOK
  OBVIOUS
<1>1. Unset \in [Evidence -> Verdict \cup {"unset"}]
  BY DEF Unset, Verdict
<1>2. Unset \in [Evidence -> Progress]
  BY DEF Unset, Progress
<1>3. job \in [Worker -> JobType]
  BY IdleJobType DEF Init
<1>4. faults \in 0 .. MaxFaults
  BY ConstantsAssumption DEF Init
<1> QED BY <1>1, <1>2, <1>3, <1>4 DEF Init, TypeOK, NoLease

\* A run that stops, goes on or moves to another point stays well formed.
LEMMA StopType ==
  ASSUME TypeOK, NEW w \in Worker, Stop(w)
  PROVE  job' \in [Worker -> JobType]
BY IdleJobType DEF TypeOK, Stop

LEMMA GotoType ==
  ASSUME TypeOK, NEW w \in Worker,
         NEW pc \in Point, pc \in InHand => job[w].candidate \in Evidence,
         Goto(w, pc)
  PROVE  job' \in [Worker -> JobType]
<1>1. job \in [Worker -> JobType]
  BY DEF TypeOK
<1>2. [job[w] EXCEPT !.pc = pc] \in JobType
  BY <1>1 DEF JobType
<1> QED BY <1>1, <1>2 DEF Goto

LEMMA GoOnType ==
  ASSUME TypeOK, NEW w \in Worker,
         NEW pc \in Point \ InHand,
         GoOn(w, pc)
  PROVE  job' \in [Worker -> JobType]
<1> DEFINE next == [IdleJob EXCEPT !.pc = pc, !.batch = job[w].batch, !.pins = job[w].pins]
<1>1. /\ job[w].batch \in Batch
      /\ job[w].pins \in Pins \cup {Nobody}
  BY DEF TypeOK, JobType
<1>2. next \in JobType
  BY <1>1, IdleJobType DEF IdleJob, JobType
<1>3. job' = [job EXCEPT ![w] = next]
  BY DEF GoOn
<1>4. job \in [Worker -> JobType]
  BY DEF TypeOK
<1> HIDE DEF next
<1> QED BY <1>2, <1>3, <1>4

LEMMA HoldingType ==
  ASSUME TypeOK, NEW w \in Worker, NEW b \in Batch
  PROVE  Holding(w, b) \in JobType
<1>1. deployed \in Pins /\ "claimed" \in Point \ InHand
  BY DEF TypeOK, Point, InHand
<1> QED BY <1>1, IdleJobType DEF Holding, IdleJob, JobType

LEMMA ReleaseType ==
  ASSUME TypeOK, NEW w \in Worker, Release(w)
  PROVE  lease' \in [Batch -> [token : Worker \cup {Nobody}, live : BOOLEAN]]
BY DEF TypeOK, Release, NoLease

\* The part of the state that TypeOK constrains besides jobs, leases and faults.
LEMMA FaultType ==
  ASSUME TypeOK, Fault
  PROVE  faults' \in 0 .. MaxFaults
BY ConstantsAssumption DEF TypeOK, Fault

LEMMA BlockType ==
  ASSUME TypeOK, NEW b \in Batch, Block(b)
  PROVE  blocked' \subseteq Batch /\ faults' \in 0 .. MaxFaults
BY FaultType DEF TypeOK, Block

LEMMA MoveType ==
  ASSUME TypeOK, NEW b \in Batch, NEW T \in SUBSET b, MoveToProcessing(b, T)
  PROVE  /\ pending' \subseteq Evidence
         /\ processing' \subseteq Batch \X Evidence
         /\ completed' \subseteq Evidence
         /\ failed' \subseteq Evidence
BY DEF TypeOK, MoveToProcessing, InProcessing

LEMMA FinalizeType ==
  ASSUME TypeOK, NEW b \in Batch, NEW T \in SUBSET b, Finalize(b, T)
  PROVE  /\ pending' \subseteq Evidence
         /\ processing' \subseteq Batch \X Evidence
         /\ completed' \subseteq Evidence
         /\ failed' \subseteq Evidence
BY DEF TypeOK, Finalize, InProcessing

LEMMA SaveJournalType ==
  ASSUME TypeOK, NEW w \in Worker, NEW j \in [Evidence -> Progress], SaveJournal(w, j)
  PROVE  journal' \in [Batch -> [Evidence -> Progress]]
BY DEF TypeOK, SaveJournal

LEMMA FirstBatchesType == ASSUME TypeOK, NEW b \in FirstBatches PROVE b \in Batch /\ b \subseteq pending
BY DEF TypeOK, FirstBatches, Prefixes

LEMMA JobFields ==
  ASSUME TypeOK, NEW w \in Worker
  PROVE  /\ job[w] \in JobType
         /\ job[w].batch \in Batch
         /\ job[w].pins \in Pins \cup {Nobody}
         /\ job[w].answer \in [Evidence -> Verdict \cup {"unset"}]
         /\ job[w].journal \in [Evidence -> Progress]
BY DEF TypeOK, JobType

LEMMA CandidateInHand ==
  ASSUME TypeOK, NEW w \in Worker, job[w].pc \in InHand
  PROVE  job[w].candidate \in Evidence
BY DEF TypeOK, JobType

\* Every step keeps the types: one step per action.
LEMMA TypeStep == TypeOK /\ [Next]_vars => TypeOK'
<1> SUFFICES ASSUME TypeOK, [Next]_vars PROVE TypeOK'
  OBVIOUS
<1> USE DEF queue, frozen
<1>1. ASSUME NEW e \in Evidence, Enqueue(e) PROVE TypeOK'
  BY <1>1 DEF TypeOK, Enqueue
<1>2. ASSUME NEW w \in Worker, NEW b \in Batch, Resume(w, b) PROVE TypeOK'
  <2>1. b \cap pending \in SUBSET b
    OBVIOUS
  <2>2. /\ pending' \subseteq Evidence
        /\ processing' \subseteq Batch \X Evidence
        /\ completed' \subseteq Evidence
        /\ failed' \subseteq Evidence
    BY <1>2, <2>1, MoveType DEF Resume
  <2>3. LeaseOf(w) \in [token : Worker \cup {Nobody}, live : BOOLEAN]
    BY DEF LeaseOf
  <2>4. job' \in [Worker -> JobType]
    BY <1>2, HoldingType DEF Resume, TypeOK
  <2> QED BY <1>2, <2>2, <2>3, <2>4 DEF TypeOK, Resume
<1>3. ASSUME NEW w \in Worker, NEW b \in Batch, ResumeCut(w, b) PROVE TypeOK'
  <2>1. PICK T \in Prefixes(b \cap pending) : MoveToProcessing(b, T)
    BY <1>3 DEF ResumeCut
  <2>2. T \in SUBSET b
    BY DEF Prefixes
  <2>3. /\ pending' \subseteq Evidence
        /\ processing' \subseteq Batch \X Evidence
        /\ completed' \subseteq Evidence
        /\ failed' \subseteq Evidence
    BY <2>1, <2>2, MoveType
  <2> QED BY <1>3, <2>3, FaultType DEF TypeOK, ResumeCut
<1>4. ASSUME NEW w \in Worker, NEW b \in FirstBatches, ClaimFresh(w, b) PROVE TypeOK'
  <2>1. b \in Batch /\ b \in SUBSET b
    BY FirstBatchesType
  <2>2. /\ pending' \subseteq Evidence
        /\ processing' \subseteq Batch \X Evidence
        /\ completed' \subseteq Evidence
        /\ failed' \subseteq Evidence
    BY <1>4, <2>1, MoveType DEF ClaimFresh
  <2>3. LeaseOf(w) \in [token : Worker \cup {Nobody}, live : BOOLEAN]
    BY DEF LeaseOf
  <2>4. job' \in [Worker -> JobType]
    BY <1>4, <2>1, HoldingType DEF ClaimFresh, TypeOK
  <2> QED BY <1>4, <2>1, <2>2, <2>3, <2>4 DEF TypeOK, ClaimFresh, PublishClaim
<1>5. ASSUME NEW w \in Worker, NEW b \in FirstBatches, ClaimFreshCut(w, b) PROVE TypeOK'
  <2>1. b \in Batch
    BY FirstBatchesType
  <2>2. PICK T \in Prefixes(b) : MoveToProcessing(b, T)
    BY <1>5 DEF ClaimFreshCut
  <2>3. T \in SUBSET b
    BY DEF Prefixes
  <2>4. /\ pending' \subseteq Evidence
        /\ processing' \subseteq Batch \X Evidence
        /\ completed' \subseteq Evidence
        /\ failed' \subseteq Evidence
    BY <2>1, <2>2, <2>3, MoveType
  <2>5. LeaseOf(w) \in [token : Worker \cup {Nobody}, live : BOOLEAN]
    BY DEF LeaseOf
  <2> QED BY <1>5, <2>1, <2>4, <2>5, FaultType DEF TypeOK, ClaimFreshCut, PublishClaim
<1>6. ASSUME NEW w \in Worker, Pin(w) PROVE TypeOK'
  <2>1. job' \in [Worker -> JobType]
    <3>1. Goto(w, "asking") \/ Goto(w, "compiling")
      BY <1>6 DEF Pin
    <3>2. {"asking", "compiling"} \subseteq Point \ InHand
      BY DEF Point, InHand
    <3> QED BY <3>1, <3>2, GotoType
  <2>2. version' \in [Batch -> Pins \cup {Nobody}]
    BY <1>6, JobFields DEF Pin, TypeOK
  <2> QED BY <1>6, <2>1, <2>2 DEF TypeOK, Pin
<1>7. ASSUME NEW w \in Worker, PinRefused(w) PROVE TypeOK'
  <2>1. job' \in [Worker -> JobType]
    BY <1>7, StopType DEF PinRefused
  <2> QED BY <1>7, <2>1, ReleaseType DEF TypeOK, PinRefused
<1>8. ASSUME NEW w \in Worker, AgentAnswers(w) PROVE TypeOK'
  <2>1. PICK a \in Answers(job[w].batch) :
          job' = [job EXCEPT ![w].pc = "answered", ![w].answer = a]
    BY <1>8 DEF AgentAnswers
  <2>2. a \in [Evidence -> Verdict \cup {"unset"}]
    BY DEF Answers
  <2>3. [job[w] EXCEPT !.pc = "answered", !.answer = a] \in JobType
    BY <2>2, JobFields DEF JobType, Point, InHand
  <2>4. job' \in [Worker -> JobType]
    BY <2>1, <2>3 DEF TypeOK
  <2> QED BY <1>8, <2>4 DEF TypeOK, AgentAnswers
<1>33. ASSUME NEW w \in Worker, OverBudget(w) PROVE TypeOK'
  <2>1. job' \in [Worker -> JobType]
    BY <1>33, StopType DEF OverBudget
  <2>2. lease' \in [Batch -> [token : Worker \cup {Nobody}, live : BOOLEAN]]
    BY <1>33, ReleaseType DEF OverBudget, TypeOK
  <2>3. blocked' \subseteq Batch /\ faults' \in 0 .. MaxFaults
    BY <1>33, BlockType, JobFields DEF OverBudget
  <2> QED BY <1>33, <2>1, <2>2, <2>3 DEF TypeOK, OverBudget
<1>9. ASSUME NEW w \in Worker, AgentFails(w) PROVE TypeOK'
  <2>1. job' \in [Worker -> JobType]
    BY <1>9, StopType DEF AgentFails
  <2> QED BY <1>9, <2>1, FaultType DEF TypeOK, AgentFails
<1>10. ASSUME NEW w \in Worker, FreezeAnswer(w) PROVE TypeOK'
  <2>1. job' \in [Worker -> JobType]
    BY <1>10, GotoType DEF FreezeAnswer, Point, InHand
  <2>2. answer' \in [Batch -> [Evidence -> Verdict \cup {"unset"}]]
    BY <1>10, JobFields DEF TypeOK, FreezeAnswer
  <2>3. blocked' \subseteq Batch /\ faults' \in 0 .. MaxFaults
    BY <1>10, BlockType, JobFields DEF FreezeAnswer, TypeOK
  <2> QED BY <1>10, <2>1, <2>2, <2>3 DEF TypeOK, FreezeAnswer
<1>11. ASSUME NEW b \in Batch PROVE Compiled(answer[b]) \in [Evidence -> Progress]
  BY DEF Compiled, Progress, Open, Settled
<1>12. ASSUME NEW w \in Worker, Compile(w) PROVE TypeOK'
  <2>1. job' \in [Worker -> JobType]
    BY <1>12, GoOnType DEF Compile, Point, InHand
  <2>2. journal' \in [Batch -> [Evidence -> Progress]]
    BY <1>11, <1>12, JobFields DEF TypeOK, Compile
  <2> QED BY <1>12, <2>1, <2>2, JobFields DEF TypeOK, Compile
<1>13. ASSUME NEW w \in Worker, CompileCut(w) PROVE TypeOK'
  <2>1. job' \in [Worker -> JobType]
    BY <1>13, StopType DEF CompileCut
  <2>2. journal' \in [Batch -> [Evidence -> Progress]]
    BY <1>11, <1>13, JobFields DEF TypeOK, CompileCut
  <2> QED BY <1>13, <2>1, <2>2, FaultType DEF TypeOK, CompileCut
<1>14. ASSUME NEW w \in Worker, FreezeRefused(w) PROVE TypeOK'
  <2>1. job' \in [Worker -> JobType]
    BY <1>14, StopType DEF FreezeRefused
  <2> QED BY <1>14, <2>1 DEF TypeOK, FreezeRefused
<1>15. ASSUME NEW w \in Worker, NEW e \in Evidence, StartPublication(w, e) PROVE TypeOK'
  <2> DEFINE b == job[w].batch
             j == [journal[b] EXCEPT ![e] = IF @ = "open" THEN "started" ELSE @]
             point == IF j[e] = "acked" THEN "projecting" ELSE "posting"
  <2>1. b \in Batch /\ journal[b] \in [Evidence -> Progress]
    BY JobFields DEF TypeOK
  <2>2. j \in [Evidence -> Progress]
    BY <2>1 DEF Progress, Open
  <2>3. journal' \in [Batch -> [Evidence -> Progress]]
    BY <1>15, <2>2, SaveJournalType DEF TypeOK, StartPublication
  <2>4. job' = [job EXCEPT ![w].pc = point, ![w].journal = j, ![w].candidate = e]
    BY <1>15 DEF StartPublication
  <2>5. point \in Point
    BY DEF Point
  <2> HIDE DEF b, j, point
  <2>6. [job[w] EXCEPT !.pc = point, !.journal = j, !.candidate = e] \in JobType
    BY <2>2, <2>5, JobFields, ConstantsAssumption DEF JobType
  <2>7. job \in [Worker -> JobType]
    BY DEF TypeOK
  <2>8. job' \in [Worker -> JobType]
    BY <2>4, <2>6, <2>7
  <2> QED BY <1>15, <2>3, <2>8 DEF TypeOK, StartPublication
<1>16. ASSUME NEW w \in Worker, Post(w) PROVE TypeOK'
  <2>1. job[w].candidate \in Evidence
    BY <1>16, CandidateInHand DEF Post, InHand
  <2>2. job' \in [Worker -> JobType]
    BY <1>16, <2>1, GotoType DEF Post, Point
  <2> QED BY <1>16, <2>1, <2>2 DEF TypeOK, Post
<1>17. ASSUME NEW w \in Worker, PostUnknown(w) PROVE TypeOK'
  <2>1. job[w].candidate \in Evidence
    BY <1>17, CandidateInHand DEF PostUnknown, InHand
  <2>2. job' \in [Worker -> JobType]
    BY <1>17, StopType DEF PostUnknown
  <2> QED BY <1>17, <2>1, <2>2, ReleaseType, FaultType DEF TypeOK, PostUnknown
<1>18. ASSUME NEW w \in Worker, SaveAck(w) PROVE TypeOK'
  <2> DEFINE j == [job[w].journal EXCEPT ![job[w].candidate] = "acked"]
  <2>1. j \in [Evidence -> Progress]
    BY JobFields DEF Progress, Open
  <2>2. SaveJournal(w, j) /\ job' = [job EXCEPT ![w].pc = "projecting", ![w].journal = j]
    BY <1>18 DEF SaveAck
  <2>3. job[w].candidate \in Evidence
    BY <1>18, CandidateInHand DEF SaveAck, InHand
  <2> HIDE DEF j
  <2>4. journal' \in [Batch -> [Evidence -> Progress]]
    BY <2>1, <2>2, SaveJournalType
  <2>5. [job[w] EXCEPT !.pc = "projecting", !.journal = j] \in JobType
    BY <2>1, <2>3, JobFields DEF JobType, Point
  <2>6. job \in [Worker -> JobType]
    BY DEF TypeOK
  <2>7. job' \in [Worker -> JobType]
    BY <2>2, <2>5, <2>6
  <2> QED BY <1>18, <2>4, <2>7 DEF TypeOK, SaveAck
<1>19. ASSUME NEW w \in Worker, Project(w) PROVE TypeOK'
  <2>1. job[w].candidate \in Evidence
    BY <1>19, CandidateInHand DEF Project, InHand
  <2>2. job' \in [Worker -> JobType]
    BY <1>19, <2>1, GotoType DEF Project, Point
  <2> QED BY <1>19, <2>1, <2>2 DEF TypeOK, Project
<1>20. ASSUME NEW w \in Worker, FinishCandidate(w) PROVE TypeOK'
  <2>1. [job[w].journal EXCEPT ![job[w].candidate] = "done"] \in [Evidence -> Progress]
    BY JobFields DEF Progress, Settled
  <2>2. journal' \in [Batch -> [Evidence -> Progress]]
    BY <1>20, <2>1, SaveJournalType DEF FinishCandidate
  <2>3. job' \in [Worker -> JobType]
    BY <1>20, GoOnType DEF FinishCandidate, Point, InHand
  <2> QED BY <1>20, <2>2, <2>3 DEF TypeOK, FinishCandidate
<1>21. ASSUME NEW w \in Worker, RejectCandidate(w) PROVE TypeOK'
  <2>1. journal[job[w].batch] \in [Evidence -> Progress]
    BY JobFields DEF TypeOK
  <2>2. [journal[job[w].batch] EXCEPT ![job[w].candidate] = "rejected"] \in [Evidence -> Progress]
    BY <2>1 DEF Progress, Settled
  <2>3. journal' \in [Batch -> [Evidence -> Progress]]
    BY <1>21, <2>2, SaveJournalType DEF RejectCandidate
  <2>4. job' \in [Worker -> JobType]
    BY <1>21, GoOnType DEF RejectCandidate, Point, InHand
  <2> QED BY <1>21, <2>3, <2>4 DEF TypeOK, RejectCandidate
<1>22. ASSUME NEW w \in Worker, SaveRefused(w) PROVE TypeOK'
  <2>1. job' \in [Worker -> JobType]
    BY <1>22, StopType DEF SaveRefused
  <2> QED BY <1>22, <2>1, ReleaseType DEF TypeOK, SaveRefused
<1>23. ASSUME NEW w \in Worker, PublicationFails(w) PROVE TypeOK'
  <2>1. job' \in [Worker -> JobType]
    BY <1>23, StopType DEF PublicationFails
  <2> QED BY <1>23, <2>1, ReleaseType, FaultType DEF TypeOK, PublicationFails
<1>24. ASSUME NEW w \in Worker, Complete(w) PROVE TypeOK'
  <2>1. job[w].batch \in Batch
    BY JobFields
  <2>2. /\ pending' \subseteq Evidence
        /\ processing' \subseteq Batch \X Evidence
        /\ completed' \subseteq Evidence
        /\ failed' \subseteq Evidence
    BY <1>24, <2>1, FinalizeType DEF Complete
  <2>3. job' \in [Worker -> JobType]
    BY <1>24, StopType DEF Complete
  <2>4. lease' \in [Batch -> [token : Worker \cup {Nobody}, live : BOOLEAN]]
    BY <1>24 DEF Complete, NoLease, TypeOK
  <2> QED BY <1>24, <2>1, <2>2, <2>3, <2>4 DEF TypeOK, Complete
<1>25. ASSUME NEW w \in Worker, CompleteCut(w) PROVE TypeOK'
  <2>1. job[w].batch \in Batch
    BY JobFields
  <2>2. PICK T \in Prefixes(job[w].batch) : Finalize(job[w].batch, T)
    BY <1>25 DEF CompleteCut
  <2>3. T \in SUBSET job[w].batch
    BY DEF Prefixes
  <2>4. /\ pending' \subseteq Evidence
        /\ processing' \subseteq Batch \X Evidence
        /\ completed' \subseteq Evidence
        /\ failed' \subseteq Evidence
    BY <2>1, <2>2, <2>3, FinalizeType
  <2>5. job' \in [Worker -> JobType]
    BY <1>25, StopType DEF CompleteCut
  <2>6. lease' \in [Batch -> [token : Worker \cup {Nobody}, live : BOOLEAN]]
    BY <1>25, ReleaseType DEF CompleteCut, TypeOK
  <2> QED BY <1>25, <2>1, <2>4, <2>5, <2>6, FaultType DEF TypeOK, CompleteCut
<1>26. ASSUME NEW w \in Worker, Crash(w) PROVE TypeOK'
  <2>1. job' \in [Worker -> JobType]
    BY <1>26, StopType DEF Crash
  <2> QED BY <1>26, <2>1, FaultType DEF TypeOK, Crash
<1>27. ASSUME NEW b \in Batch, ExpireOrphan(b) PROVE TypeOK'
  BY <1>27 DEF TypeOK, ExpireOrphan
<1>28. ASSUME NEW b \in Batch, ExpireHeld(b) PROVE TypeOK'
  BY <1>28, FaultType DEF TypeOK, ExpireHeld
<1>29. ASSUME NEW p \in Pins, Redeploy(p) PROVE TypeOK'
  BY <1>29, FaultType DEF TypeOK, Redeploy
<1>30. CASE UNCHANGED vars
  BY <1>30 DEF TypeOK, vars
<1>31. ASSUME NEW w \in Worker, Run(w) PROVE TypeOK'
  BY <1>31, <1>2, <1>4, <1>6, <1>7, <1>8, <1>10, <1>12, <1>14, <1>15, <1>16, <1>18,
     <1>19, <1>20, <1>22, <1>24, <1>33 DEF Run
<1>32. ASSUME NEW w \in Worker, Misfortune(w) PROVE TypeOK'
  BY <1>32, <1>3, <1>5, <1>9, <1>13, <1>17, <1>21, <1>23, <1>25, <1>26 DEF Misfortune
<1> QED BY <1>1, <1>27, <1>28, <1>29, <1>30, <1>31, <1>32 DEF Next

\* TypeOK holds of every behaviour.
THEOREM TypeCorrect == Spec => []TypeOK
BY TypeInit, TypeStep, PTL DEF Spec

-----------------------------------------------------------------------------
(* Fencing.                                                                *)

\* A step that writes to its own batch only, under its own lease, is fenced.
LEMMA OwnedWrite ==
  ASSUME NEW w \in Worker, Owned(w),
         \A b \in Batch : b # job[w].batch => Durable(b)' = Durable(b)
  PROVE  Fenced
BY DEF Owned, Fenced

LEMMA NoWrite == ASSUME UNCHANGED frozen PROVE Fenced
BY DEF Fenced, Durable, frozen

LEMMA FencedSave ==
  ASSUME TypeOK, NEW w \in Worker, NEW j, SaveJournal(w, j),
         UNCHANGED <<version, answer, packed, manifest, blocked>>
  PROVE  Fenced
<1>1. Owned(w)
  BY DEF SaveJournal
<1>2. \A b \in Batch : b # job[w].batch => Durable(b)' = Durable(b)
  BY JobFields DEF SaveJournal, TypeOK, Durable
<1> QED BY <1>1, <1>2, OwnedWrite

\* Every step is fenced.
LEMMA FencedStep == TypeOK /\ [Next]_vars => Fenced
<1> SUFFICES ASSUME TypeOK, [Next]_vars PROVE Fenced
  OBVIOUS
<1>1. ASSUME NEW w \in Worker, Run(w) PROVE Fenced
  <2>1. ASSUME Pin(w) PROVE Fenced
    <3>1. \A b \in Batch : b # job[w].batch => Durable(b)' = Durable(b)
      BY <2>1 DEF Pin, TypeOK, Durable
    <3> QED BY <2>1, <3>1, OwnedWrite DEF Pin
  <2>2. ASSUME FreezeAnswer(w) PROVE Fenced
    <3>1. \A b \in Batch : b # job[w].batch => Durable(b)' = Durable(b)
      BY <2>2, JobFields DEF FreezeAnswer, Block, TypeOK, Durable
    <3> QED BY <2>2, <3>1, OwnedWrite DEF FreezeAnswer
  <2>3. ASSUME Compile(w) PROVE Fenced
    <3>1. \A b \in Batch : b # job[w].batch => Durable(b)' = Durable(b)
      BY <2>3 DEF Compile, TypeOK, Durable
    <3> QED BY <2>3, <3>1, OwnedWrite DEF Compile
  <2>4. ASSUME NEW e \in Evidence, StartPublication(w, e) PROVE Fenced
    <3>1. CASE UNCHANGED journal
      BY <2>4, <3>1, NoWrite DEF StartPublication, frozen
    <3>2. CASE \E j : SaveJournal(w, j)
      BY <2>4, <3>2, FencedSave DEF StartPublication
    <3> QED BY <2>4, <3>1, <3>2 DEF StartPublication
  <2>5. ASSUME SaveAck(w) PROVE Fenced
    BY <2>5, FencedSave DEF SaveAck
  <2>6. ASSUME FinishCandidate(w) PROVE Fenced
    BY <2>6, FencedSave DEF FinishCandidate
  <2>7. ASSUME Complete(w) PROVE Fenced
    <3>1. \A b \in Batch : b # job[w].batch => Durable(b)' = Durable(b)
      BY <2>7 DEF Complete, Durable
    <3> QED BY <2>7, <3>1, OwnedWrite DEF Complete, Completing
  <2>8. ASSUME OverBudget(w) PROVE Fenced
    <3>1. \A b \in Batch : b # job[w].batch => Durable(b)' = Durable(b)
      BY <2>8, JobFields DEF OverBudget, Block, TypeOK, Durable
    <3> QED BY <2>8, <3>1, OwnedWrite DEF OverBudget
  <2>9. CASE UNCHANGED frozen
    BY <2>9, NoWrite
  <2> QED BY <1>1, <2>1, <2>2, <2>3, <2>4, <2>5, <2>6, <2>7, <2>8, <2>9
      DEF Run, Resume, ClaimFresh, PinRefused, AgentAnswers, FreezeRefused, Post,
          Project, SaveRefused
<1>2. ASSUME NEW w \in Worker, Misfortune(w) PROVE Fenced
  <2>1. ASSUME CompileCut(w) PROVE Fenced
    <3>1. \A b \in Batch : b # job[w].batch => Durable(b)' = Durable(b)
      BY <2>1 DEF CompileCut, TypeOK, Durable
    <3> QED BY <2>1, <3>1, OwnedWrite DEF CompileCut
  <2>2. ASSUME RejectCandidate(w) PROVE Fenced
    BY <2>2, FencedSave DEF RejectCandidate
  <2>3. ASSUME CompleteCut(w) PROVE Fenced
    <3>1. \A b \in Batch : b # job[w].batch => Durable(b)' = Durable(b)
      BY <2>3 DEF CompleteCut, Durable
    <3> QED BY <2>3, <3>1, OwnedWrite DEF CompleteCut, Completing
  <2>4. CASE UNCHANGED frozen
    BY <2>4, NoWrite
  <2> QED BY <1>2, <2>1, <2>2, <2>3, <2>4
      DEF Misfortune, ResumeCut, ClaimFreshCut, AgentFails, PostUnknown,
          PublicationFails, Crash
<1>3. CASE UNCHANGED frozen
  BY <1>3, NoWrite
<1> QED BY <1>1, <1>2, <1>3
    DEF Next, Enqueue, ExpireOrphan, ExpireHeld, Redeploy, vars

\* Every durable write to a batch is made under its writer's own current lease.
THEOREM WritesAreFenced == Spec => FencedWrites
BY TypeCorrect, FencedStep, PTL DEF Spec, FencedWrites

-----------------------------------------------------------------------------
(* What the steps do to the files: FilesInv.                               *)

HIDE DEF Batch
USE DEF FilesInv

\* Steps that touch neither the queue nor the decisions.
LEMMA QuietFiles ==
  ASSUME FilesInv, UNCHANGED <<queue, dirs, journal, packed, manifest>>
  PROVE  FilesInv'
BY DEF OneDirectory, Disjoint, Conserved, Decided, AllSettled, queue

\* Steps that write a journal, never that of a batch with its manifest.
LEMMA JournalWrite ==
  ASSUME FilesInv, UNCHANGED <<queue, dirs, manifest>>, packed \subseteq packed',
         \A b \in manifest : journal'[b] = journal[b]
  PROVE  FilesInv'
<1>1. OneDirectory' /\ Disjoint' /\ Conserved'
  BY DEF OneDirectory, Disjoint, Conserved, queue
<1>2. Decided'
  BY DEF Decided, AllSettled, queue
<1> QED BY <1>1, <1>2

\* Enqueue adds what is nowhere.
LEMMA EnqueueFiles ==
  ASSUME TypeOK, FilesInv, NEW e \in Evidence, Enqueue(e)
  PROVE  FilesInv'
<1>1. e \notin pending \cup completed \cup failed
  <2>1. ASSUME e \in pending PROVE <<"pending", NoBatch>> \in Places(e)
    BY <2>1 DEF Places
  <2>2. ASSUME e \in completed PROVE <<"completed", NoBatch>> \in Places(e)
    BY <2>2 DEF Places
  <2>3. ASSUME e \in failed PROVE <<"failed", NoBatch>> \in Places(e)
    BY <2>3 DEF Places
  <2> QED BY <2>1, <2>2, <2>3 DEF Enqueue
<1>2. \A b \in Batch : <<b, e>> \notin processing
  BY DEF Enqueue, Places
<1>3. \A p \in processing : p[2] # e
  BY <1>2 DEF TypeOK
<1>4. \A b \in dirs : e \notin b
  BY <1>1, <1>2 DEF Conserved, TypeOK
<1>5. \A b \in manifest : e \notin b
  BY <1>1, <1>4 DEF Decided
<1>6. OneDirectory'
  BY DEF OneDirectory, Enqueue
<1>7. Disjoint'
  BY <1>1, <1>3 DEF Disjoint, Enqueue
<1>8. Conserved'
  BY DEF Conserved, Enqueue
<1>9. Decided'
  BY <1>5 DEF Decided, Enqueue, frozen, AllSettled
<1> QED BY <1>6, <1>7, <1>8, <1>9

\* A claim, fresh or resumed, complete or cut short.
LEMMA MoveFiles ==
  ASSUME TypeOK, FilesInv, NEW b \in Batch, NEW T \in SUBSET (b \cap pending),
         dirs = {b} \/ (dirs = {} /\ b # {} /\ b \subseteq pending),
         dirs' = {b}, MoveToProcessing(b, T), UNCHANGED <<journal, packed, manifest>>
  PROVE  FilesInv'
<1>1. \A p \in processing : p[1] = b /\ p[2] \in b
  BY DEF OneDirectory
<1>2. processing' = processing \cup {<<b, e>> : e \in T} /\ pending' = pending \ T
      /\ completed' = completed /\ failed' = failed
  BY DEF MoveToProcessing, InProcessing
<1>3. OneDirectory'
  BY <1>1, <1>2 DEF OneDirectory
<1>4. Disjoint'
  BY <1>2 DEF Disjoint
<1>5. Conserved'
  BY <1>2 DEF Conserved
<1>6. Decided'
  <2>1. \A c \in manifest : c \cap pending' = {}
    BY <1>2 DEF Decided
  <2>2. \A c \in manifest \ dirs' : c \subseteq completed' \cup failed'
    BY <1>2 DEF Decided
  <2>3. \A e \in b \cap (completed' \cup failed') :
          b \in manifest /\ (e \in failed' <=> journal[b][e] = "rejected")
    BY <1>2 DEF Decided, Disjoint
  <2>4. \A c \in manifest : c \in packed' /\ AllSettled(c)'
    BY DEF Decided, AllSettled
  <2> QED BY <2>1, <2>2, <2>3, <2>4 DEF Decided
<1> QED BY <1>3, <1>4, <1>5, <1>6

\* The end of a batch, complete or cut short.
LEMMA FinalizeFiles ==
  ASSUME TypeOK, FilesInv, NEW b \in dirs, NEW T \in SUBSET b,
         b \in packed, AllSettled(b), Finalizable(b), Finalize(b, T),
         dirs' = dirs \/ (dirs' = dirs \ {b} /\ T = b),
         manifest' = manifest \cup {b}, UNCHANGED <<journal, packed>>
  PROVE  FilesInv'
<1>1. /\ processing' = processing \ {<<b, e>> : e \in T}
      /\ completed' = completed \cup (T \ FailedEvidence(b))
      /\ failed' = failed \cup (T \cap FailedEvidence(b))
      /\ pending' = pending
  BY DEF Finalize, InProcessing
<1>2. dirs = {b} /\ \A p \in processing : p[1] = b /\ p[2] \in b
  BY DEF OneDirectory
<1>3. \A p \in processing : p = <<b, p[2]>>
  BY <1>2 DEF TypeOK
<1>4. \A e \in b : /\ e \notin pending
                   /\ e \in completed => e \notin FailedEvidence(b)
                   /\ e \in failed => e \in FailedEvidence(b)
  <2> TAKE e \in b
  <2>1. CASE <<b, e>> \in processing
    <3>1. <<b, e>>[2] \notin pending \cup completed \cup failed
      BY <2>1 DEF Disjoint
    <3> QED BY <3>1
  <2>2. CASE e \in FailedEvidence(b) /\ e \in failed
    BY <2>2 DEF Disjoint
  <2>3. CASE e \notin FailedEvidence(b) /\ e \in completed
    BY <2>3 DEF Disjoint
  <2> QED BY <2>1, <2>2, <2>3 DEF Finalizable
<1>5. OneDirectory'
  BY <1>1, <1>2, <1>3 DEF OneDirectory
<1>6. Disjoint'
  <2>1. \A p \in processing' : p[2] \notin T
    BY <1>1, <1>3
  <2> QED BY <1>1, <1>4, <2>1 DEF Disjoint
<1>7. Conserved'
  BY <1>1, <1>2 DEF Conserved
<1>8. Decided'
  <2>1. \A c \in manifest' : c \in packed /\ \A e \in c : journal[c][e] \in Settled
    BY DEF Decided, AllSettled
  <2>2. \A c \in manifest' : c \cap pending' = {}
    BY <1>1, <1>4 DEF Decided
  <2>3. \A c \in manifest' \ dirs' : c \subseteq completed' \cup failed'
    BY <1>1, <1>2 DEF Decided
  <2>4. \A e \in b \cap (completed' \cup failed') :
          e \in failed' <=> journal[b][e] = "rejected"
    BY <1>1, <1>4 DEF FailedEvidence
  <2> QED BY <1>2, <2>1, <2>2, <2>3, <2>4 DEF Decided, AllSettled
<1> QED BY <1>5, <1>6, <1>7, <1>8

-----------------------------------------------------------------------------
(* What the runs hold in memory: Views.                                    *)

\* A run keeps its view while nobody else's step gives it a token or writes
\* the journal of a batch whose token it has.
LEMMA ViewKept ==
  ASSUME NEW v \in Worker, ViewOf(v), job'[v] = job[v], packed \subseteq packed',
         job[v].batch \in dirs' /\ lease'[job[v].batch].token = v =>
           /\ job[v].batch \in dirs
           /\ lease[job[v].batch].token = v
           /\ journal'[job[v].batch] = journal[job[v].batch]
  PROVE  ViewOf(v)'
BY DEF ViewOf

\* A run outside InHand and "publishing" claims nothing.
LEMMA ViewIdle ==
  ASSUME NEW v \in Worker, job'[v].pc \notin {"publishing"} \cup InHand
  PROVE  ViewOf(v)'
BY DEF ViewOf

\* A run that goes on to "publishing" needs the package.
LEMMA ViewPublishing ==
  ASSUME NEW v \in Worker, job'[v].pc = "publishing", job'[v].batch \in packed'
  PROVE  ViewOf(v)'
BY DEF ViewOf, InHand

\* A run's own step leaves the other runs' views alone, if it takes no lease
\* and writes under its own.
LEMMA OthersKept ==
  ASSUME TypeOK, Views, NEW w \in Worker,
         \A v \in Worker \ {w} : job'[v] = job[v],
         packed \subseteq packed',
         \A v \in Worker \ {w}, b \in Batch :
           b \in dirs' /\ lease'[b].token = v => b \in dirs /\ lease[b].token = v,
         \A b \in Batch : journal'[b] # journal[b] => lease[b].token = w
  PROVE  \A v \in Worker \ {w} : ViewOf(v)'
<1> TAKE v \in Worker \ {w}
<1>1. job[v].batch \in Batch
  BY JobFields
<1> QED BY <1>1, ViewKept DEF Views

\* The step of a run that stops, or that goes on outside InHand.
LEMMA StopPoint ==
  ASSUME TypeOK, NEW w \in Worker, Stop(w)
  PROVE  /\ job'[w].pc \notin {"publishing"} \cup InHand
         /\ \A v \in Worker \ {w} : job'[v] = job[v]
<1>1. job' = [job EXCEPT ![w] = IdleJob] /\ job \in [Worker -> JobType]
  BY DEF Stop, TypeOK
<1>2. job'[w] = IdleJob
  BY <1>1
<1> QED BY <1>1, <1>2 DEF IdleJob, InHand

LEMMA GoOnPoint ==
  ASSUME TypeOK, NEW w \in Worker, NEW pc, GoOn(w, pc)
  PROVE  /\ job'[w].pc = pc
         /\ job'[w].batch = job[w].batch
         /\ \A v \in Worker \ {w} : job'[v] = job[v]
<1>1. job \in [Worker -> JobType]
  BY DEF TypeOK
<1> QED BY <1>1 DEF GoOn, IdleJob

LEMMA GotoPoint ==
  ASSUME TypeOK, NEW w \in Worker, NEW pc, Goto(w, pc)
  PROVE  /\ job'[w].pc = pc
         /\ job'[w].batch = job[w].batch
         /\ job'[w].journal = job[w].journal
         /\ job'[w].candidate = job[w].candidate
         /\ \A v \in Worker \ {w} : job'[v] = job[v]
<1>1. job \in [Worker -> JobType] /\ job[w] \in JobType
  BY DEF TypeOK
<1> QED BY <1>1 DEF Goto, JobType

LEMMA ReleaseTokens ==
  ASSUME TypeOK, NEW w \in Worker, Release(w)
  PROVE  \A v \in Worker, b \in Batch : lease'[b].token = v => lease[b].token = v
BY JobFields, ConstantsAssumption DEF TypeOK, Release, NoLease

\* The first unfinished candidate is of the batch and open.
LEMMA FirstUnfinishedOpen ==
  ASSUME NEW b \in Batch, NEW e \in FirstUnfinished(b)
  PROVE  e \in b /\ journal[b][e] \in Open
BY DEF FirstUnfinished

\* The run's own view and the others' make Views.
LEMMA ViewsStep ==
  ASSUME TypeOK, Views, NEW w \in Worker, ViewOf(w)',
         \A v \in Worker \ {w} : job'[v] = job[v],
         packed \subseteq packed',
         \A v \in Worker \ {w}, b \in Batch :
           b \in dirs' /\ lease'[b].token = v => b \in dirs /\ lease[b].token = v,
         \A b \in Batch : journal'[b] # journal[b] => lease[b].token = w
  PROVE  Views'
BY OthersKept DEF Views

LEMMA QuietViews ==
  ASSUME TypeOK, Views, UNCHANGED <<job, dirs, journal, packed>>,
         \A b \in Batch : lease'[b].token = lease[b].token
  PROVE  Views'
BY JobFields DEF Views, ViewOf

\* A run that stops, with or without its lease released.
LEMMA StopViews ==
  ASSUME TypeOK, Views, NEW w \in Worker, Stop(w), Release(w) \/ UNCHANGED lease,
         UNCHANGED <<dirs, journal, packed>>
  PROVE  Views'
<1>1. \A v \in Worker \ {w}, b \in Batch : lease'[b].token = v => lease[b].token = v
  BY ReleaseTokens
<1> QED BY <1>1, StopPoint, ViewIdle, ViewsStep

\* A save of the journal by the run that owns the batch: no manifest yet.
LEMMA SaveJournalFiles ==
  ASSUME TypeOK, FilesInv, NEW w \in Worker, NEW j, SaveJournal(w, j),
         NEW e \in job[w].batch, journal[job[w].batch][e] \in Open,
         UNCHANGED <<queue, dirs, packed, manifest>>
  PROVE  /\ FilesInv'
         /\ \A b \in Batch : journal'[b] # journal[b] => lease[b].token = w
         /\ job[w].batch \in dirs
         /\ journal'[job[w].batch] = j
<1>1. /\ job[w].batch \in Batch /\ job[w].batch \in dirs
      /\ lease[job[w].batch].token = w
      /\ journal' = [journal EXCEPT ![job[w].batch] = j]
  BY JobFields DEF SaveJournal, Owned, LeaseOf
<1>2. \A b \in Batch : b # job[w].batch => journal'[b] = journal[b]
  BY <1>1 DEF TypeOK
<1>3. job[w].batch \notin manifest
  BY DEF Decided, AllSettled, Open, Settled
<1>4. \A b \in manifest : journal'[b] = journal[b]
  BY <1>2, <1>3 DEF TypeOK
<1>5. FilesInv'
  BY <1>4, JournalWrite
<1>6. journal'[job[w].batch] = j
  BY <1>1 DEF TypeOK
<1> QED BY <1>1, <1>2, <1>5, <1>6

\* Compilation writes the journal of a batch that has no package, so no manifest.
LEMMA CompileFiles ==
  ASSUME TypeOK, FilesInv, NEW w \in Worker, Compile(w) \/ CompileCut(w)
  PROVE  /\ FilesInv'
         /\ \A b \in Batch : journal'[b] # journal[b] => lease[b].token = w
<1>1. /\ job[w].batch \in Batch
      /\ lease[job[w].batch].token = w
      /\ packed \subseteq packed'
      /\ UNCHANGED <<queue, dirs, manifest>>
  BY JobFields DEF Compile, CompileCut, Owned, LeaseOf
<1>2. \A b \in Batch : b # job[w].batch => journal'[b] = journal[b]
  BY DEF TypeOK, Compile, CompileCut
<1>3. job[w].batch \in packed => journal' = journal
  BY DEF Compile, CompileCut
<1>4. \A b \in manifest : journal'[b] = journal[b]
  BY <1>2, <1>3 DEF TypeOK, Decided
<1> QED BY <1>1, <1>2, <1>4, JournalWrite

\* Every step keeps QueueInv: one step per action.
LEMMA QueueStep == TypeOK /\ QueueInv /\ [Next]_vars => QueueInv'
<1> SUFFICES ASSUME TypeOK, FilesInv, Views, [Next]_vars PROVE FilesInv' /\ Views'
  BY DEF QueueInv
<1> USE DEF frozen
<1>1. ASSUME NEW e \in Evidence, Enqueue(e) PROVE FilesInv' /\ Views'
  BY <1>1, EnqueueFiles, QuietViews DEF Enqueue
<1>2. ASSUME NEW w \in Worker, NEW b \in Batch, Resume(w, b) PROVE FilesInv' /\ Views'
  <2>1. FilesInv'
    BY <1>2, MoveFiles DEF Resume
  <2>2. job'[w].pc = "claimed" /\ \A v \in Worker \ {w} : job'[v] = job[v]
    BY <1>2 DEF Resume, TypeOK, Holding, IdleJob
  <2>3. \A v \in Worker \ {w}, c \in Batch : lease'[c].token = v => lease[c].token = v
    BY <1>2 DEF Resume, TypeOK, LeaseOf
  <2> QED BY <1>2, <2>1, <2>2, <2>3, ViewIdle, ViewsStep DEF Resume, InHand
<1>3. ASSUME NEW w \in Worker, NEW b \in Batch, ResumeCut(w, b) PROVE FilesInv' /\ Views'
  <2>1. PICK T \in Prefixes(b \cap pending) : MoveToProcessing(b, T)
    BY <1>3 DEF ResumeCut
  <2>2. T \in SUBSET (b \cap pending)
    BY DEF Prefixes
  <2> QED BY <1>3, <2>1, <2>2, MoveFiles, QuietViews DEF ResumeCut
<1>4. ASSUME NEW w \in Worker, NEW b \in FirstBatches, ClaimFresh(w, b)
      PROVE  FilesInv' /\ Views'
  <2>1. b \in Batch /\ b \subseteq pending /\ b # {} /\ b \in SUBSET (b \cap pending)
    BY FirstBatchesType DEF FirstBatches
  <2>2. FilesInv'
    BY <1>4, <2>1, MoveFiles DEF ClaimFresh, PublishClaim
  <2>3. job'[w].pc = "claimed" /\ \A v \in Worker \ {w} : job'[v] = job[v]
    BY <1>4 DEF ClaimFresh, TypeOK, Holding, IdleJob
  <2>4. \A v \in Worker \ {w}, c \in Batch :
          c \in dirs' /\ lease'[c].token = v => c \in dirs /\ lease[c].token = v
    BY <1>4, <2>1 DEF ClaimFresh, PublishClaim, TypeOK, LeaseOf
  <2> QED BY <1>4, <2>2, <2>3, <2>4, ViewIdle, ViewsStep DEF ClaimFresh, InHand
<1>5. ASSUME NEW w \in Worker, NEW b \in FirstBatches, ClaimFreshCut(w, b)
      PROVE  FilesInv' /\ Views'
  <2>1. b \in Batch /\ b \subseteq pending /\ b # {}
    BY FirstBatchesType DEF FirstBatches
  <2>2. PICK T \in Prefixes(b) : MoveToProcessing(b, T)
    BY <1>5 DEF ClaimFreshCut
  <2>3. T \in SUBSET (b \cap pending)
    BY <2>1 DEF Prefixes
  <2>4. FilesInv'
    BY <1>5, <2>1, <2>2, <2>3, MoveFiles DEF ClaimFreshCut, PublishClaim
  <2>5. job[w].pc = "idle" /\ job' = job
    BY <1>5 DEF ClaimFreshCut
  <2>6. \A v \in Worker \ {w}, c \in Batch :
          c \in dirs' /\ lease'[c].token = v => c \in dirs /\ lease[c].token = v
    BY <1>5, <2>1 DEF ClaimFreshCut, PublishClaim, TypeOK, LeaseOf
  <2> QED BY <1>5, <2>4, <2>5, <2>6, ViewIdle, ViewsStep DEF ClaimFreshCut, InHand
<1>6. ASSUME NEW w \in Worker, Pin(w) PROVE FilesInv' /\ Views'
  <2>1. /\ job'[w].pc \in {"asking", "compiling"}
        /\ \A v \in Worker \ {w} : job'[v] = job[v]
    BY <1>6, GotoPoint DEF Pin
  <2> QED BY <1>6, <2>1, QuietFiles, ViewIdle, ViewsStep DEF Pin, InHand
<1>7. ASSUME NEW w \in Worker, PinRefused(w) PROVE FilesInv' /\ Views'
  BY <1>7, QuietFiles, StopViews DEF PinRefused
<1>8. ASSUME NEW w \in Worker, AgentAnswers(w) PROVE FilesInv' /\ Views'
  <2>1. PICK a : job' = [job EXCEPT ![w].pc = "answered", ![w].answer = a]
    BY <1>8 DEF AgentAnswers
  <2>2. job'[w].pc = "answered" /\ \A v \in Worker \ {w} : job'[v] = job[v]
    BY <2>1, JobFields DEF TypeOK, JobType
  <2> QED BY <1>8, <2>2, QuietFiles, ViewIdle, ViewsStep DEF AgentAnswers, InHand
<1>32. ASSUME NEW w \in Worker, OverBudget(w) PROVE FilesInv' /\ Views'
  BY <1>32, QuietFiles, StopViews DEF OverBudget
<1>9. ASSUME NEW w \in Worker, AgentFails(w) PROVE FilesInv' /\ Views'
  BY <1>9, QuietFiles, StopViews DEF AgentFails
<1>10. ASSUME NEW w \in Worker, FreezeAnswer(w) PROVE FilesInv' /\ Views'
  <2>1. /\ job'[w].pc = "compiling"
        /\ \A v \in Worker \ {w} : job'[v] = job[v]
    BY <1>10, GotoPoint DEF FreezeAnswer
  <2> QED BY <1>10, <2>1, QuietFiles, ViewIdle, ViewsStep DEF FreezeAnswer, InHand
<1>11. ASSUME NEW w \in Worker, Compile(w) PROVE FilesInv' /\ Views'
  <2>1. /\ job'[w].pc = "publishing" /\ job'[w].batch \in packed'
        /\ \A v \in Worker \ {w} : job'[v] = job[v]
    BY <1>11, GoOnPoint DEF Compile
  <2>2. UNCHANGED <<dirs, lease>> /\ packed \subseteq packed'
    BY <1>11 DEF Compile
  <2> QED BY <1>11, <2>1, <2>2, CompileFiles, ViewPublishing, ViewsStep
<1>12. ASSUME NEW w \in Worker, CompileCut(w) PROVE FilesInv' /\ Views'
  <2>1. UNCHANGED <<dirs, lease, packed>> /\ Stop(w)
    BY <1>12 DEF CompileCut
  <2> QED BY <1>12, <2>1, CompileFiles, StopPoint, ViewIdle, ViewsStep
<1>13. ASSUME NEW w \in Worker, FreezeRefused(w) PROVE FilesInv' /\ Views'
  BY <1>13, QuietFiles, StopViews DEF FreezeRefused
<1>14. ASSUME NEW w \in Worker, NEW e \in Evidence, StartPublication(w, e)
       PROVE  FilesInv' /\ Views'
  <2> DEFINE b == job[w].batch
             j == [journal[b] EXCEPT ![e] = IF @ = "open" THEN "started" ELSE @]
             point == IF j[e] = "acked" THEN "projecting" ELSE "posting"
  <2>1. b \in Batch /\ journal[b] \in [Evidence -> Progress]
    BY JobFields DEF TypeOK
  <2>2. e \in b /\ journal[b][e] \in Open
    BY <1>14, <2>1, FirstUnfinishedOpen DEF StartPublication
  <2>3. j[e] \in Open
    BY <2>1, <2>2 DEF Open
  <2>4. IF journal[b][e] = "open" THEN SaveJournal(w, j) ELSE UNCHANGED journal
    BY <1>14 DEF StartPublication
  <2>5. journal[b][e] # "open" => j = journal[b]
    BY <2>1
  <2>6. job' = [job EXCEPT ![w].pc = point, ![w].journal = j, ![w].candidate = e]
    BY <1>14 DEF StartPublication
  <2>7. b \in packed
    BY <1>14 DEF StartPublication, Views, ViewOf
  <2>8. UNCHANGED <<queue, dirs, lease, packed, manifest>>
    BY <1>14 DEF StartPublication
  <2>9. /\ FilesInv'
        /\ \A c \in Batch : journal'[c] # journal[c] => lease[c].token = w
        /\ journal'[b] = j
    <3>1. CASE journal[b][e] = "open"
      <4> HIDE DEF j
      <4> QED BY <2>2, <2>4, <2>8, <3>1, SaveJournalFiles
    <3>2. CASE journal[b][e] # "open"
      BY <2>4, <2>5, <2>8, <3>2, QuietFiles
    <3> QED BY <3>1, <3>2
  <2> HIDE DEF j, point
  <2>10. /\ job'[w].candidate = e /\ job'[w].journal = j /\ job'[w].batch = b
         /\ \A v \in Worker \ {w} : job'[v] = job[v]
    BY <2>6, JobFields DEF TypeOK, JobType
  <2>11. ViewOf(w)'
    BY <2>2, <2>3, <2>7, <2>8, <2>9, <2>10 DEF ViewOf
  <2> QED BY <2>8, <2>9, <2>10, <2>11, ViewsStep
<1>15. ASSUME NEW w \in Worker, Post(w) \/ Project(w) PROVE FilesInv' /\ Views'
  <2>1. PICK pc : Goto(w, pc)
    BY <1>15 DEF Post, Project
  <2>2. UNCHANGED <<queue, dirs, lease, journal, packed, manifest>> /\ job[w].pc \in InHand
    BY <1>15 DEF Post, Project, InHand
  <2>3. ViewOf(w)'
    BY <2>1, <2>2, GotoPoint DEF Views, ViewOf
  <2> QED BY <2>1, <2>2, <2>3, GotoPoint, QuietFiles, ViewsStep
<1>16. ASSUME NEW w \in Worker, PostUnknown(w) PROVE FilesInv' /\ Views'
  BY <1>16, QuietFiles, StopViews DEF PostUnknown
<1>17. ASSUME NEW w \in Worker, NEW j, NEW pc,
              SaveJournal(w, j), job[w].pc \in InHand,
              UNCHANGED <<queue, dirs, packed, manifest>>
       PROVE  /\ FilesInv'
              /\ \A b \in Batch : journal'[b] # journal[b] => lease[b].token = w
              /\ job[w].batch \in dirs
              /\ job[w].batch \in packed
              /\ journal'[job[w].batch] = j
              /\ job[w].candidate \in job[w].batch
              /\ job[w].journal = journal[job[w].batch]
  <2>1. /\ job[w].candidate \in job[w].batch
        /\ job[w].journal = journal[job[w].batch]
        /\ journal[job[w].batch][job[w].candidate] \in Open
        /\ job[w].batch \in packed
    BY <1>17 DEF Views, ViewOf, SaveJournal, Owned, LeaseOf
  <2> QED BY <1>17, <2>1, SaveJournalFiles
<1>18. ASSUME NEW w \in Worker, SaveAck(w) PROVE FilesInv' /\ Views'
  <2> DEFINE j == [job[w].journal EXCEPT ![job[w].candidate] = "acked"]
  <2>1. /\ SaveJournal(w, j) /\ job[w].pc \in InHand
        /\ UNCHANGED <<queue, dirs, lease, packed, manifest>>
        /\ job' = [job EXCEPT ![w].pc = "projecting", ![w].journal = j]
    BY <1>18 DEF SaveAck, InHand
  <2>2. j[job[w].candidate] \in Open
    BY <1>18, JobFields, CandidateInHand DEF SaveAck, InHand, Open
  <2> HIDE DEF j
  <2>3. /\ job'[w].candidate = job[w].candidate /\ job'[w].journal = j
        /\ job'[w].batch = job[w].batch
        /\ \A v \in Worker \ {w} : job'[v] = job[v]
    BY <2>1, JobFields DEF TypeOK, JobType
  <2>4. ViewOf(w)'
    BY <1>17, <2>1, <2>2, <2>3 DEF ViewOf
  <2> QED BY <1>17, <2>1, <2>3, <2>4, ViewsStep
<1>19. ASSUME NEW w \in Worker, NEW j, SaveJournal(w, j), job[w].pc \in InHand,
              GoOn(w, "publishing"), UNCHANGED <<queue, dirs, lease, packed, manifest>>
       PROVE  FilesInv' /\ Views'
  <2>1. ViewOf(w)'
    BY <1>17, <1>19, GoOnPoint, ViewPublishing
  <2> QED BY <1>17, <1>19, <2>1, GoOnPoint, ViewsStep
<1>20. ASSUME NEW w \in Worker, FinishCandidate(w) PROVE FilesInv' /\ Views'
  BY <1>19, <1>20 DEF FinishCandidate, InHand
<1>21. ASSUME NEW w \in Worker, RejectCandidate(w) PROVE FilesInv' /\ Views'
  BY <1>19, <1>21 DEF RejectCandidate, InHand
<1>22. ASSUME NEW w \in Worker, SaveRefused(w) PROVE FilesInv' /\ Views'
  BY <1>22, QuietFiles, StopViews DEF SaveRefused
<1>23. ASSUME NEW w \in Worker, PublicationFails(w) PROVE FilesInv' /\ Views'
  BY <1>23, QuietFiles, StopViews DEF PublicationFails
<1>24. ASSUME NEW w \in Worker, Complete(w) PROVE FilesInv' /\ Views'
  <2> DEFINE b == job[w].batch
  <2>1. b \in packed /\ b \in dirs /\ AllSettled(b) /\ Finalizable(b) /\ b \in SUBSET b
    BY <1>24 DEF Complete, Completing, Owned, Views, ViewOf
  <2>2. FilesInv'
    BY <1>24, <2>1, FinalizeFiles DEF Complete
  <2>3. \A v \in Worker \ {w}, c \in Batch :
          c \in dirs' /\ lease'[c].token = v => c \in dirs /\ lease[c].token = v
    BY <1>24, JobFields DEF Complete, TypeOK
  <2> QED BY <1>24, <2>2, <2>3, StopPoint, ViewIdle, ViewsStep DEF Complete
<1>25. ASSUME NEW w \in Worker, CompleteCut(w) PROVE FilesInv' /\ Views'
  <2> DEFINE b == job[w].batch
  <2>1. b \in packed /\ b \in dirs /\ AllSettled(b) /\ Finalizable(b)
    BY <1>25 DEF CompleteCut, Completing, Owned, Views, ViewOf
  <2>2. PICK T \in Prefixes(b) : Finalize(b, T)
    BY <1>25 DEF CompleteCut
  <2>3. T \in SUBSET b
    BY DEF Prefixes
  <2>4. FilesInv'
    BY <1>25, <2>1, <2>2, <2>3, FinalizeFiles DEF CompleteCut
  <2> QED BY <1>25, <2>4, StopViews DEF CompleteCut
<1>26. ASSUME NEW w \in Worker, Crash(w) PROVE FilesInv' /\ Views'
  BY <1>26, QuietFiles, StopViews DEF Crash
<1>27. ASSUME NEW b \in Batch, ExpireOrphan(b) \/ ExpireHeld(b) PROVE FilesInv' /\ Views'
  <2>1. /\ lease' = [lease EXCEPT ![b].live = FALSE]
        /\ lease \in [Batch -> [token : Worker \cup {Nobody}, live : BOOLEAN]]
    BY <1>27 DEF ExpireOrphan, ExpireHeld, TypeOK
  <2>2. \A c \in Batch : lease'[c].token = lease[c].token
    <3> TAKE c \in Batch
    <3>1. CASE c = b
      <4>1. lease'[b] = [lease[b] EXCEPT !.live = FALSE]
        BY <2>1
      <4>2. lease[b] \in [token : Worker \cup {Nobody}, live : BOOLEAN]
        BY <2>1
      <4> QED BY <3>1, <4>1, <4>2
    <3>2. CASE c # b
      BY <2>1, <3>2
    <3> QED BY <3>1, <3>2
  <2> QED BY <1>27, <2>2, QuietFiles, QuietViews DEF ExpireOrphan, ExpireHeld
<1>28. ASSUME NEW p \in Pins, Redeploy(p) PROVE FilesInv' /\ Views'
  BY <1>28, QuietFiles, QuietViews DEF Redeploy
<1>29. CASE UNCHANGED vars
  BY <1>29, QuietFiles, QuietViews DEF vars
<1>30. ASSUME NEW w \in Worker, Run(w) PROVE FilesInv' /\ Views'
  BY <1>30, <1>2, <1>4, <1>6, <1>7, <1>8, <1>10, <1>11, <1>13, <1>14, <1>15, <1>18,
     <1>20, <1>22, <1>24, <1>32 DEF Run
<1>31. ASSUME NEW w \in Worker, Misfortune(w) PROVE FilesInv' /\ Views'
  BY <1>31, <1>3, <1>5, <1>9, <1>12, <1>16, <1>21, <1>23, <1>25, <1>26 DEF Misfortune
<1> QED BY <1>1, <1>27, <1>28, <1>29, <1>30, <1>31 DEF Next

-----------------------------------------------------------------------------
(* The theorems.                                                           *)

LEMMA QueueInit == Init => QueueInv
BY DEF Init, QueueInv, OneDirectory, Disjoint, Conserved, Decided, Views, ViewOf,
       IdleJob, InHand

\* The strengthening of OnePlace and AlwaysResumable is an invariant.
THEOREM QueueCorrect == Spec => []QueueInv
BY TypeCorrect, QueueInit, QueueStep, PTL DEF Spec

LEMMA InvOnePlace == QueueInv /\ TypeOK => OnePlace
<1> SUFFICES ASSUME QueueInv, TypeOK, NEW e \in Evidence, NEW p \in Places(e), NEW q \in Places(e)
             PROVE  p = q
  BY DEF OnePlace
<1>1. ASSUME NEW x \in Places(e)
      PROVE  \/ x = <<"pending", NoBatch>> /\ e \in pending
             \/ x = <<"completed", NoBatch>> /\ e \in completed
             \/ x = <<"failed", NoBatch>> /\ e \in failed
             \/ \E b \in Batch : x = <<"processing", b>> /\ <<b, e>> \in processing
  BY <1>1 DEF Places
<1>2. \A b \in Batch : <<b, e>> \in processing =>
        b \in dirs /\ e \notin pending \cup completed \cup failed
  <2> TAKE b \in Batch
  <2> HAVE <<b, e>> \in processing
  <2>1. <<b, e>>[1] \in dirs /\ <<b, e>>[2] \notin pending \cup completed \cup failed
    BY DEF QueueInv, OneDirectory, Disjoint
  <2> QED BY <2>1
<1>3. \A b, c \in Batch : <<b, e>> \in processing /\ <<c, e>> \in processing => b = c
  BY <1>2 DEF QueueInv, OneDirectory
<1> QED BY <1>1, <1>2, <1>3 DEF QueueInv, Disjoint

\* An Evidence is in at most one place of the queue.
THEOREM EvidenceInOnePlace == Spec => []OnePlace
BY TypeCorrect, QueueCorrect, InvOnePlace, PTL

LEMMA InvResumable == QueueInv /\ TypeOK => AlwaysResumable
<1> SUFFICES ASSUME QueueInv, TypeOK PROVE AlwaysResumable
  OBVIOUS
<1>1. ASSUME NEW b \in dirs PROVE Reconcilable(b)
  <2> SUFFICES ASSUME NEW e \in b
               PROVE  \/ /\ e \in completed \cup failed
                         /\ e \notin completed \cap failed
                         /\ e \notin pending
                         /\ <<b, e>> \notin processing
                      \/ /\ e \notin completed \cup failed
                         /\ e \in pending \/ <<b, e>> \in processing
    BY DEF Reconcilable
  <2>1. <<b, e>> \in processing => e \notin pending \cup completed \cup failed
    <3> HAVE <<b, e>> \in processing
    <3>1. <<b, e>>[2] \notin pending \cup completed \cup failed
      BY DEF QueueInv, Disjoint
    <3> QED BY <3>1
  <2> QED BY <2>1 DEF QueueInv, Disjoint, Conserved
<1>2. ASSUME NEW b \in dirs, b \in manifest PROVE Finalizable(b)
  BY <1>2 DEF QueueInv, Conserved, Decided, Finalizable, FailedEvidence
<1> QED BY <1>1, <1>2 DEF AlwaysResumable, QueueInv, OneDirectory

\* The pending batch can always be resumed or finished.
THEOREM BatchAlwaysResumable == Spec => []AlwaysResumable
BY TypeCorrect, QueueCorrect, InvResumable, PTL

-----------------------------------------------------------------------------
(* Settled Evidence and its reasons.                                       *)

LEMMA ExplainedInit == Init => Explained
BY DEF Init, Explained

\* The journal of a batch with its manifest is final.
LEMMA ManifestFinal == TypeOK /\ QueueInv /\ [Next]_vars =>
  \A b \in manifest : b \in manifest' /\ journal'[b] = journal[b]
<1> SUFFICES ASSUME TypeOK, QueueInv, [Next]_vars, NEW b \in manifest
             PROVE  b \in manifest' /\ journal'[b] = journal[b]
  OBVIOUS
<1>1. b \in Batch /\ b \in packed /\ \A e \in b : journal[b][e] \in Settled
  BY DEF TypeOK, QueueInv, Decided, AllSettled
<1>2. ASSUME NEW w \in Worker, NEW j, SaveJournal(w, j), job[w].pc \in InHand
      PROVE  journal'[b] = journal[b]
  <2>1. job[w].batch # b
    BY <1>1, <1>2 DEF QueueInv, Views, ViewOf, SaveJournal, Owned, LeaseOf, Open, Settled
  <2> QED BY <1>1, <1>2, <2>1 DEF SaveJournal, TypeOK
<1>3. ASSUME NEW w \in Worker, NEW e \in Evidence, StartPublication(w, e)
      PROVE  journal'[b] = journal[b]
  <2>1. job[w].batch \in Batch
    BY JobFields
  <2>2. job[w].batch # b
    BY <1>1, <1>3, <2>1, FirstUnfinishedOpen DEF StartPublication, Open, Settled
  <2> QED BY <1>1, <1>3, <2>2 DEF StartPublication, SaveJournal, TypeOK
<1>4. ASSUME NEW w \in Worker, Run(w) PROVE b \in manifest' /\ journal'[b] = journal[b]
  <2>1. CASE SaveAck(w) \/ FinishCandidate(w)
    BY <1>2, <2>1 DEF SaveAck, FinishCandidate, InHand
  <2>2. CASE Compile(w)
    BY <1>1, <2>2 DEF Compile, TypeOK
  <2>3. CASE \E e \in Evidence : StartPublication(w, e)
    BY <1>3, <2>3 DEF StartPublication
  <2>4. CASE Complete(w)
    BY <2>4 DEF Complete
  <2>5. CASE UNCHANGED <<journal, manifest>>
    BY <2>5
  <2> QED BY <1>4, <2>1, <2>2, <2>3, <2>4, <2>5
      DEF Run, Resume, ClaimFresh, Pin, PinRefused, OverBudget, AgentAnswers, FreezeAnswer,
          FreezeRefused, Post, Project, SaveRefused, frozen
<1>5. ASSUME NEW w \in Worker, Misfortune(w)
      PROVE  b \in manifest' /\ journal'[b] = journal[b]
  <2>1. CASE RejectCandidate(w)
    BY <1>2, <2>1 DEF RejectCandidate, InHand
  <2>2. CASE CompileCut(w)
    BY <1>1, <2>2 DEF CompileCut, TypeOK
  <2>3. CASE CompleteCut(w)
    BY <2>3 DEF CompleteCut
  <2>4. CASE UNCHANGED <<journal, manifest>>
    BY <2>4
  <2> QED BY <1>5, <2>1, <2>2, <2>3, <2>4
      DEF Misfortune, ResumeCut, ClaimFreshCut, AgentFails, PostUnknown,
          PublicationFails, Crash, frozen
<1>6. CASE UNCHANGED <<journal, manifest>>
  BY <1>6
<1> QED BY <1>4, <1>5, <1>6
    DEF Next, Enqueue, ExpireOrphan, ExpireHeld, Redeploy, vars, frozen

\* Evidence becomes terminal only by the end of a batch.
LEMMA TerminalStep == TypeOK /\ [Next]_vars =>
  \/ UNCHANGED <<completed, failed>>
  \/ \E w \in Worker : \E T \in SUBSET job[w].batch :
       /\ Completing(w)
       /\ Finalize(job[w].batch, T)
       /\ job[w].batch \in manifest'
       /\ UNCHANGED journal
<1> SUFFICES ASSUME TypeOK, [Next]_vars
             PROVE  \/ UNCHANGED <<completed, failed>>
                    \/ \E w \in Worker : \E T \in SUBSET job[w].batch :
                         /\ Completing(w)
                         /\ Finalize(job[w].batch, T)
                         /\ job[w].batch \in manifest'
                         /\ UNCHANGED journal
  OBVIOUS
<1> DEFINE goal == \/ UNCHANGED <<completed, failed>>
                   \/ \E w \in Worker : \E T \in SUBSET job[w].batch :
                        /\ Completing(w)
                        /\ Finalize(job[w].batch, T)
                        /\ job[w].batch \in manifest'
                        /\ UNCHANGED journal
<1>1. ASSUME NEW w \in Worker, Run(w) PROVE goal
  <2>1. CASE Complete(w)
    BY <2>1 DEF Complete
  <2>2. CASE UNCHANGED <<completed, failed>>
    BY <2>2
  <2> QED BY <1>1, <2>1, <2>2
      DEF Run, Resume, ClaimFresh, Pin, PinRefused, OverBudget, AgentAnswers, FreezeAnswer, Compile,
          FreezeRefused, StartPublication, Post, SaveAck, Project, FinishCandidate,
          SaveRefused, queue, MoveToProcessing
<1>2. ASSUME NEW w \in Worker, Misfortune(w) PROVE goal
  <2>1. CASE CompleteCut(w)
    <3>1. PICK T \in Prefixes(job[w].batch) : Finalize(job[w].batch, T)
      BY <2>1 DEF CompleteCut
    <3>2. T \in SUBSET job[w].batch
      BY DEF Prefixes
    <3> QED BY <2>1, <3>1, <3>2 DEF CompleteCut
  <2>2. CASE UNCHANGED <<completed, failed>>
    BY <2>2
  <2> QED BY <1>2, <2>1, <2>2
      DEF Misfortune, ResumeCut, ClaimFreshCut, AgentFails, CompileCut, PostUnknown,
          RejectCandidate, PublicationFails, Crash, queue, MoveToProcessing
<1>3. CASE UNCHANGED <<completed, failed>>
  BY <1>3
<1> QED BY <1>1, <1>2, <1>3
    DEF Next, Enqueue, ExpireOrphan, ExpireHeld, Redeploy, vars, queue

LEMMA ExplainedStep == TypeOK /\ QueueInv /\ Explained /\ [Next]_vars => Explained'
<1> SUFFICES ASSUME TypeOK, QueueInv, Explained, [Next]_vars PROVE Explained'
  OBVIOUS
<1>1. \A b \in manifest : b \in manifest' /\ journal'[b] = journal[b]
  BY ManifestFinal
<1>2. CASE UNCHANGED <<completed, failed>>
  BY <1>1, <1>2 DEF Explained
<1>3. ASSUME NEW w \in Worker, NEW T \in SUBSET job[w].batch, Completing(w),
             Finalize(job[w].batch, T), job[w].batch \in manifest', UNCHANGED journal
      PROVE  Explained'
  <2> DEFINE b == job[w].batch
  <2>1. \A e \in b : journal[b][e] \in Settled
    BY <1>3 DEF Completing, AllSettled
  <2> QED BY <1>1, <1>3, <2>1 DEF Explained, Finalize, FailedEvidence, Settled
<1> QED BY <1>2, <1>3, TerminalStep

-----------------------------------------------------------------------------
(* Acknowledgements and projections are recorded after the fact.           *)

RecordedJournals ==
  \A b \in Batch, e \in Evidence :
    /\ journal[b][e] \in {"acked", "done"} => e \in posted
    /\ journal[b][e] = "done" => e \in projected

RecordedJob(w) ==
  /\ job[w].pc \in {"acking", "projecting", "finishing"} => job[w].candidate \in posted
  /\ job[w].pc = "finishing" => job[w].candidate \in projected
  /\ job[w].pc \in InHand =>
       \A e \in Evidence :
         /\ job[w].journal[e] \in {"acked", "done"} => e \in posted
         /\ job[w].journal[e] = "done" => e \in projected

LEMMA RecordedParts == Recorded <=> RecordedJournals /\ \A w \in Worker : RecordedJob(w)
BY DEF Recorded, RecordedJournals, RecordedJob

LEMMA RecordedInit == Init => Recorded
BY DEF Init, Recorded, Unset, IdleJob, InHand

\* Data and the graph only grow.
LEMMA WorldGrows == [Next]_vars => posted \subseteq posted' /\ projected \subseteq projected'
<1> SUFFICES ASSUME [Next]_vars PROVE posted \subseteq posted' /\ projected \subseteq projected'
  OBVIOUS
<1>1. ASSUME NEW w \in Worker, Run(w)
      PROVE  posted \subseteq posted' /\ projected \subseteq projected'
  BY <1>1 DEF Run, Resume, ClaimFresh, Pin, PinRefused, OverBudget, AgentAnswers, FreezeAnswer,
              Compile, FreezeRefused, StartPublication, Post, SaveAck, Project,
              FinishCandidate, SaveRefused, Complete
<1>2. ASSUME NEW w \in Worker, Misfortune(w)
      PROVE  posted \subseteq posted' /\ projected \subseteq projected'
  BY <1>2 DEF Misfortune, ResumeCut, ClaimFreshCut, AgentFails, CompileCut, PostUnknown,
              RejectCandidate, PublicationFails, CompleteCut, Crash
<1> QED BY <1>1, <1>2 DEF Next, Enqueue, ExpireOrphan, ExpireHeld, Redeploy, vars

\* A run whose memory is unchanged stays right, and so does one with nothing in
\* hand.
LEMMA RecordedKept ==
  ASSUME [Next]_vars, NEW v \in Worker, RecordedJob(v), job'[v] = job[v]
  PROVE  RecordedJob(v)'
BY WorldGrows DEF RecordedJob

LEMMA RecordedIdle ==
  ASSUME NEW v \in Worker, job'[v].pc \notin InHand
  PROVE  RecordedJob(v)'
BY DEF RecordedJob, InHand

\* A journal saved with only recorded entries keeps the journals right.
LEMMA RecordedSave ==
  ASSUME TypeOK, [Next]_vars, RecordedJournals, NEW b \in Batch,
         NEW j \in [Evidence -> Progress],
         journal' = [journal EXCEPT ![b] = j],
         \A e \in Evidence : /\ j[e] \in {"acked", "done"} => e \in posted
                             /\ j[e] = "done" => e \in projected
  PROVE  RecordedJournals'
<1> SUFFICES ASSUME NEW c \in Batch, NEW e \in Evidence
             PROVE  /\ journal'[c][e] \in {"acked", "done"} => e \in posted'
                    /\ journal'[c][e] = "done" => e \in projected'
  BY DEF RecordedJournals
<1>1. CASE c = b
  <2>1. journal'[c] = j
    BY <1>1 DEF TypeOK
  <2> QED BY <2>1, WorldGrows
<1>2. CASE c # b
  <2>1. journal'[c] = journal[c]
    BY <1>2 DEF TypeOK
  <2> QED BY <2>1, WorldGrows DEF RecordedJournals
<1> QED BY <1>1, <1>2

LEMMA RecordedSame ==
  ASSUME [Next]_vars, RecordedJournals, UNCHANGED journal
  PROVE  RecordedJournals'
BY WorldGrows DEF RecordedJournals

LEMMA RecordedCompile ==
  ASSUME TypeOK, [Next]_vars, RecordedJournals, NEW w \in Worker, Compile(w) \/ CompileCut(w)
  PROVE  RecordedJournals'
<1> DEFINE b == job[w].batch
<1>1. b \in Batch /\ Compiled(answer[b]) \in [Evidence -> Progress]
  BY JobFields DEF Compiled, Progress, Open, Settled
<1>2. \A e \in Evidence : Compiled(answer[b])[e] \notin {"acked", "done"}
  BY DEF Compiled
<1>3. CASE journal' = [journal EXCEPT ![b] = Compiled(answer[b])]
  BY <1>1, <1>2, <1>3, RecordedSave
<1>4. CASE UNCHANGED journal
  BY <1>4, RecordedSame
<1> QED BY <1>3, <1>4 DEF Compile, CompileCut

\* A run whose step leaves nothing in hand and writes no journal.
LEMMA RecordedQuiet ==
  ASSUME [Next]_vars, RecordedJournals, \A v \in Worker : RecordedJob(v),
         NEW w \in Worker, job'[w].pc \notin InHand,
         \A v \in Worker \ {w} : job'[v] = job[v], UNCHANGED journal
  PROVE  Recorded'
BY RecordedSame, RecordedIdle, RecordedKept DEF RecordedJournals, RecordedJob, Recorded

\* Every step keeps Recorded.
LEMMA RecordedStep == TypeOK /\ Recorded /\ [Next]_vars => Recorded'
<1> SUFFICES ASSUME TypeOK, RecordedJournals, \A v \in Worker : RecordedJob(v), [Next]_vars
             PROVE  RecordedJournals' /\ \A v \in Worker : RecordedJob(v)'
  BY RecordedParts DEF RecordedJournals, RecordedJob, Recorded
<1> DEFINE goal == RecordedJournals' /\ \A v \in Worker : RecordedJob(v)'
<1>1. ASSUME NEW w \in Worker, job'[w].pc \notin InHand,
             \A v \in Worker \ {w} : job'[v] = job[v], RecordedJournals'
      PROVE  goal
  BY <1>1, RecordedIdle, RecordedKept
<1>2. ASSUME NEW w \in Worker, Stop(w), UNCHANGED journal PROVE goal
  BY <1>2, <1>1, StopPoint, RecordedSame
<1>3. ASSUME NEW w \in Worker, NEW b \in Batch, Resume(w, b) \/ ClaimFresh(w, b) PROVE goal
  <2>1. /\ job'[w].pc = "claimed" /\ \A v \in Worker \ {w} : job'[v] = job[v]
        /\ UNCHANGED journal
    BY <1>3 DEF Resume, ClaimFresh, TypeOK, Holding, IdleJob, frozen
  <2> QED BY <2>1, <1>1, RecordedSame DEF InHand
<1>4. ASSUME NEW w \in Worker, Pin(w) PROVE goal
  <2>1. job'[w].pc \in {"asking", "compiling"} /\ UNCHANGED journal
        /\ \A v \in Worker \ {w} : job'[v] = job[v]
    BY <1>4, GotoPoint DEF Pin
  <2> QED BY <2>1, <1>1, RecordedSame DEF InHand
<1>5. ASSUME NEW w \in Worker, AgentAnswers(w) PROVE goal
  <2>1. PICK a : job' = [job EXCEPT ![w].pc = "answered", ![w].answer = a]
    BY <1>5 DEF AgentAnswers
  <2>2. /\ job'[w].pc = "answered" /\ UNCHANGED journal
        /\ \A v \in Worker \ {w} : job'[v] = job[v]
    BY <1>5, <2>1, JobFields DEF TypeOK, JobType, AgentAnswers, frozen
  <2> QED BY <2>2, <1>1, RecordedSame DEF InHand
<1>6. ASSUME NEW w \in Worker, FreezeAnswer(w) PROVE goal
  <2>1. job'[w].pc = "compiling" /\ UNCHANGED journal
        /\ \A v \in Worker \ {w} : job'[v] = job[v]
    BY <1>6, GotoPoint DEF FreezeAnswer
  <2> QED BY <2>1, <1>1, RecordedSame DEF InHand
<1>7. ASSUME NEW w \in Worker, Compile(w) PROVE goal
  <2>1. job'[w].pc = "publishing" /\ \A v \in Worker \ {w} : job'[v] = job[v]
    BY <1>7, GoOnPoint DEF Compile
  <2> QED BY <1>7, <2>1, <1>1, RecordedCompile DEF InHand
<1>8. ASSUME NEW w \in Worker, CompileCut(w) PROVE goal
  BY <1>8, <1>1, StopPoint, RecordedCompile DEF CompileCut
<1>9. ASSUME NEW w \in Worker, NEW e \in Evidence, StartPublication(w, e) PROVE goal
  <2> DEFINE b == job[w].batch
             j == [journal[b] EXCEPT ![e] = IF @ = "open" THEN "started" ELSE @]
             point == IF j[e] = "acked" THEN "projecting" ELSE "posting"
  <2>1. b \in Batch /\ journal[b] \in [Evidence -> Progress]
    BY JobFields DEF TypeOK
  <2>2. j \in [Evidence -> Progress]
    BY <2>1 DEF Progress, Open
  <2>3. \A x \in Evidence : /\ j[x] \in {"acked", "done"} => x \in posted
                            /\ j[x] = "done" => x \in projected
    BY <2>1 DEF RecordedJournals
  <2>4. journal' = [journal EXCEPT ![b] = j] \/ UNCHANGED journal
    BY <1>9 DEF StartPublication, SaveJournal
  <2>5. job' = [job EXCEPT ![w].pc = point, ![w].journal = j, ![w].candidate = e]
    BY <1>9 DEF StartPublication
  <2>6. point \in {"posting", "projecting"} /\ (point = "projecting" => e \in posted)
    BY <2>3
  <2> HIDE DEF b, j, point
  <2>7. RecordedJournals'
    BY <2>1, <2>2, <2>3, <2>4, RecordedSave, RecordedSame
  <2>8. /\ job'[w].pc = point /\ job'[w].journal = j /\ job'[w].candidate = e
        /\ \A v \in Worker \ {w} : job'[v] = job[v]
    BY <2>5, JobFields DEF TypeOK, JobType
  <2>9. RecordedJob(w)'
    BY <2>3, <2>6, <2>8, WorldGrows DEF RecordedJob
  <2> QED BY <2>7, <2>8, <2>9, RecordedKept
<1>10. ASSUME NEW w \in Worker, Post(w) PROVE goal
  <2>1. Goto(w, "acking") /\ posted' = posted \cup {job[w].candidate} /\ UNCHANGED journal
        /\ job[w].pc = "posting"
    BY <1>10 DEF Post, frozen
  <2>2. RecordedJob(w)'
    BY <2>1, GotoPoint, WorldGrows DEF RecordedJob, InHand
  <2> QED BY <2>1, <2>2, GotoPoint, RecordedKept, RecordedSame
<1>11. ASSUME NEW w \in Worker, Project(w) PROVE goal
  <2>1. Goto(w, "finishing") /\ projected' = projected \cup {job[w].candidate}
        /\ UNCHANGED journal /\ job[w].pc = "projecting"
    BY <1>11 DEF Project, frozen
  <2>2. RecordedJob(w)'
    BY <2>1, GotoPoint, WorldGrows DEF RecordedJob, InHand
  <2> QED BY <2>1, <2>2, GotoPoint, RecordedKept, RecordedSame
<1>12. ASSUME NEW w \in Worker, SaveAck(w) PROVE goal
  <2> DEFINE j == [job[w].journal EXCEPT ![job[w].candidate] = "acked"]
  <2>1. j \in [Evidence -> Progress]
    BY JobFields DEF Progress, Open
  <2>2. \A x \in Evidence : /\ j[x] \in {"acked", "done"} => x \in posted
                            /\ j[x] = "done" => x \in projected
    BY <1>12, JobFields DEF RecordedJob, SaveAck, InHand
  <2>3. /\ journal' = [journal EXCEPT ![job[w].batch] = j] /\ job[w].pc = "acking"
        /\ job' = [job EXCEPT ![w].pc = "projecting", ![w].journal = j]
    BY <1>12 DEF SaveAck, SaveJournal
  <2> HIDE DEF j
  <2>4. RecordedJournals'
    BY <2>1, <2>2, <2>3, JobFields, RecordedSave
  <2>5. /\ job'[w].pc = "projecting" /\ job'[w].journal = j
        /\ job'[w].candidate = job[w].candidate
        /\ \A v \in Worker \ {w} : job'[v] = job[v]
    BY <2>3, JobFields DEF TypeOK, JobType
  <2>6. RecordedJob(w)'
    BY <2>2, <2>3, <2>5, WorldGrows DEF RecordedJob
  <2> QED BY <2>4, <2>5, <2>6, RecordedKept
<1>13. ASSUME NEW w \in Worker, FinishCandidate(w) PROVE goal
  <2> DEFINE j == [job[w].journal EXCEPT ![job[w].candidate] = "done"]
  <2>1. j \in [Evidence -> Progress]
    BY JobFields DEF Progress, Settled
  <2>2. \A x \in Evidence : /\ j[x] \in {"acked", "done"} => x \in posted
                            /\ j[x] = "done" => x \in projected
    BY <1>13, JobFields DEF RecordedJob, FinishCandidate, InHand
  <2>3. journal' = [journal EXCEPT ![job[w].batch] = j] /\ GoOn(w, "publishing")
    BY <1>13 DEF FinishCandidate, SaveJournal
  <2> HIDE DEF j
  <2>4. RecordedJournals'
    BY <2>1, <2>2, <2>3, JobFields, RecordedSave
  <2> QED BY <2>3, <2>4, <1>1, GoOnPoint DEF InHand
<1>14. ASSUME NEW w \in Worker, RejectCandidate(w) PROVE goal
  <2> DEFINE b == job[w].batch
             j == [journal[b] EXCEPT ![job[w].candidate] = "rejected"]
  <2>1. b \in Batch /\ journal[b] \in [Evidence -> Progress]
    BY JobFields DEF TypeOK
  <2>2. j \in [Evidence -> Progress]
    BY <2>1 DEF Progress, Settled
  <2>3. \A x \in Evidence : /\ j[x] \in {"acked", "done"} => x \in posted
                            /\ j[x] = "done" => x \in projected
    BY <2>1 DEF RecordedJournals
  <2>4. journal' = [journal EXCEPT ![b] = j] /\ GoOn(w, "publishing")
    BY <1>14 DEF RejectCandidate, SaveJournal
  <2> HIDE DEF b, j
  <2>5. RecordedJournals'
    BY <2>1, <2>2, <2>3, <2>4, RecordedSave
  <2> QED BY <2>4, <2>5, <1>1, GoOnPoint DEF InHand
<1>15. CASE UNCHANGED <<journal, job>>
  BY <1>15, RecordedSame, RecordedKept
<1>16. ASSUME NEW w \in Worker, Run(w) PROVE goal
  <2>1. CASE \/ PinRefused(w) \/ OverBudget(w) \/ FreezeRefused(w) \/ SaveRefused(w)
             \/ Complete(w)
    BY <2>1, <1>2 DEF PinRefused, OverBudget, FreezeRefused, SaveRefused, Complete, frozen
  <2>2. \A b \in FirstBatches : b \in Batch
    BY FirstBatchesType
  <2> HIDE DEF goal
  <2> QED BY <1>16, <2>1, <2>2, <1>3, <1>4, <1>5, <1>6, <1>7, <1>9, <1>10, <1>11, <1>12,
             <1>13 DEF Run
<1>17. ASSUME NEW w \in Worker, Misfortune(w) PROVE goal
  <2>1. CASE AgentFails(w) \/ PostUnknown(w) \/ PublicationFails(w) \/ CompleteCut(w)
             \/ Crash(w)
    BY <2>1, <1>2 DEF AgentFails, PostUnknown, PublicationFails, CompleteCut, Crash, frozen
  <2>2. CASE \E b \in Batch : ResumeCut(w, b)
    BY <2>2, <1>15 DEF ResumeCut, frozen
  <2>3. CASE \E b \in FirstBatches : ClaimFreshCut(w, b)
    BY <2>3, <1>15 DEF ClaimFreshCut, frozen
  <2> HIDE DEF goal
  <2> QED BY <1>17, <2>1, <2>2, <2>3, <1>8, <1>14 DEF Misfortune
<1>18. ASSUME \/ \E e \in Evidence : Enqueue(e)
              \/ \E b \in Batch : ExpireOrphan(b) \/ ExpireHeld(b)
              \/ \E p \in Pins : Redeploy(p)
              \/ UNCHANGED vars
       PROVE  goal
  BY <1>18, <1>15 DEF Enqueue, ExpireOrphan, ExpireHeld, Redeploy, vars, frozen
<1> HIDE DEF goal
<1>19. goal
  BY <1>16, <1>17, <1>18 DEF Next
<1> QED BY <1>19 DEF goal

LEMMA InvSettled == TypeOK /\ Explained /\ Recorded => SettledByDecision
BY DEF TypeOK, Explained, Recorded, SettledByDecision

\* Evidence is completed only when its Event was ignored or was acknowledged and
\* projected, and failed only when its candidate was rejected.
THEOREM EvidenceSettledByDecision == Spec => []SettledByDecision
<1>1. TypeOK /\ QueueInv /\ Explained /\ Recorded /\ [Next]_vars => Explained' /\ Recorded'
  BY ExplainedStep, RecordedStep
<1>2. Spec => [](Explained /\ Recorded)
  BY <1>1, TypeCorrect, QueueCorrect, ExplainedInit, RecordedInit, PTL DEF Spec
<1> QED BY <1>2, TypeCorrect, InvSettled, PTL

-----------------------------------------------------------------------------
(* Decisions and receipts: what a step may do to pins, answers, journals.  *)

USE DEF queue, frozen

\* The pins and the answer of a batch are written once.
LEMMA WrittenOnce ==
  ASSUME TypeOK, [Next]_vars, NEW b \in Batch
  PROVE  /\ version'[b] = version[b] \/ version[b] = Nobody
         /\ answer'[b] = answer[b] \/ answer[b] = Unset
<1>1. ASSUME NEW w \in Worker, Pin(w)
      PROVE  answer' = answer /\ (version'[b] = version[b] \/ version[b] = Nobody)
  BY <1>1 DEF Pin, TypeOK
<1>2. ASSUME NEW w \in Worker, FreezeAnswer(w)
      PROVE  version' = version /\ (answer'[b] = answer[b] \/ answer[b] = Unset)
  BY <1>2 DEF FreezeAnswer, TypeOK
<1>3. CASE UNCHANGED <<version, answer>>
  BY <1>3
<1>4. ASSUME NEW w \in Worker, Run(w)
      PROVE  Pin(w) \/ FreezeAnswer(w) \/ UNCHANGED <<version, answer>>
  BY <1>4 DEF Run, Resume, ClaimFresh, PinRefused, OverBudget, AgentAnswers, Compile, FreezeRefused,
       StartPublication, Post, SaveAck, Project, FinishCandidate, SaveRefused, Complete
<1>5. ASSUME NEW w \in Worker, Misfortune(w) PROVE UNCHANGED <<version, answer>>
  BY <1>5 DEF Misfortune, ResumeCut, ClaimFreshCut, AgentFails, CompileCut, PostUnknown,
       RejectCandidate, PublicationFails, CompleteCut, Crash
<1>6. \/ \E w \in Worker : Run(w) \/ Misfortune(w)
      \/ UNCHANGED <<version, answer>>
  BY DEF Next, Enqueue, ExpireOrphan, ExpireHeld, Redeploy, vars
<1> QED BY <1>1, <1>2, <1>3, <1>4, <1>5, <1>6

\* The steps that write a journal: compilation, and saves that take one
\* unfinished candidate forward.
Forward(b) ==
  \E e \in Evidence, s \in {"started", "acked", "done", "rejected"} :
    /\ journal[b][e] \in Open
    /\ Rank(journal[b][e]) <= Rank(s)
    /\ journal'[b] = [journal[b] EXCEPT ![e] = s]

LEMMA SaveForward ==
  ASSUME TypeOK, NEW w \in Worker, NEW e \in Evidence,
         NEW s \in {"started", "acked", "done", "rejected"},
         journal[job[w].batch][e] \in Open,
         Rank(journal[job[w].batch][e]) <= Rank(s),
         SaveJournal(w, [journal[job[w].batch] EXCEPT ![e] = s]),
         NEW b \in Batch
  PROVE  journal'[b] = journal[b] \/ Forward(b)
<1>1. CASE b # job[w].batch
  BY <1>1 DEF SaveJournal, TypeOK
<1>2. CASE b = job[w].batch
  <2>1. journal'[b] = [journal[b] EXCEPT ![e] = s]
    BY <1>2 DEF SaveJournal, TypeOK
  <2> QED BY <1>2, <2>1 DEF Forward
<1> QED BY <1>1, <1>2

\* A run that owns its batch saves from the journal as it is on disk.
LEMMA SaveInHand ==
  ASSUME TypeOK, QueueInv, NEW w \in Worker, job[w].pc \in InHand,
         NEW s \in {"acked", "done", "rejected"},
         \/ SaveJournal(w, [job[w].journal EXCEPT ![job[w].candidate] = s])
         \/ SaveJournal(w, [journal[job[w].batch] EXCEPT ![job[w].candidate] = s]),
         NEW b \in Batch
  PROVE  journal'[b] = journal[b] \/ Forward(b)
<1>1. /\ job[w].journal = journal[job[w].batch]
      /\ journal[job[w].batch][job[w].candidate] \in Open
  BY DEF SaveJournal, Owned, LeaseOf, QueueInv, Views, ViewOf
<1>2. job[w].candidate \in Evidence
  BY CandidateInHand
<1>3. Rank(journal[job[w].batch][job[w].candidate]) <= Rank(s)
  BY <1>1 DEF Open, Rank
<1> QED BY <1>1, <1>2, <1>3, SaveForward

LEMMA JournalStep ==
  ASSUME TypeOK, QueueInv, [Next]_vars, NEW b \in Batch
  PROVE  \/ journal'[b] = journal[b]
         \/ b \notin packed /\ journal'[b] = Compiled(answer[b])
         \/ b \in packed /\ Forward(b)
<1> DEFINE Goal == \/ journal'[b] = journal[b]
                   \/ b \notin packed /\ journal'[b] = Compiled(answer[b])
                   \/ b \in packed /\ Forward(b)
<1>1. ASSUME NEW w \in Worker, Compile(w) \/ CompileCut(w) PROVE Goal
  BY <1>1 DEF Compile, CompileCut, TypeOK
<1>2. ASSUME NEW w \in Worker, NEW e \in Evidence, StartPublication(w, e) PROVE Goal
  <2>1. CASE journal[job[w].batch][e] = "open"
    <3>1. [journal[job[w].batch] EXCEPT ![e] = IF @ = "open" THEN "started" ELSE @]
            = [journal[job[w].batch] EXCEPT ![e] = "started"]
      BY <2>1
    <3>2. SaveJournal(w, [journal[job[w].batch] EXCEPT ![e] = "started"])
      BY <1>2, <2>1, <3>1 DEF StartPublication
    <3>3. /\ journal[job[w].batch][e] \in Open
          /\ Rank(journal[job[w].batch][e]) <= Rank("started")
      BY <2>1 DEF Open, Rank
    <3>4. journal'[b] = journal[b] \/ Forward(b)
      BY <3>2, <3>3, SaveForward
    <3>5. job[w].batch \in packed /\ (b # job[w].batch => journal'[b] = journal[b])
      BY <1>2, <3>2 DEF StartPublication, QueueInv, Views, ViewOf, SaveJournal, TypeOK
    <3> QED BY <3>4, <3>5
  <2>2. CASE journal[job[w].batch][e] # "open"
    BY <1>2, <2>2 DEF StartPublication
  <2> QED BY <2>1, <2>2
<1>3. ASSUME NEW w \in Worker, SaveAck(w) \/ FinishCandidate(w) \/ RejectCandidate(w)
      PROVE  Goal
  <2>1. job[w].pc \in InHand
    BY <1>3 DEF SaveAck, FinishCandidate, RejectCandidate, InHand
  <2>2. journal'[b] = journal[b] \/ Forward(b)
    BY <1>3, <2>1, SaveInHand DEF SaveAck, FinishCandidate, RejectCandidate
  <2>3. job[w].batch \in packed /\ (b # job[w].batch => journal'[b] = journal[b])
    BY <1>3, <2>1 DEF SaveAck, FinishCandidate, RejectCandidate, QueueInv, Views, ViewOf,
         SaveJournal, TypeOK
  <2> QED BY <2>2, <2>3
<1>4. ASSUME NEW w \in Worker, Run(w) PROVE Goal
  BY <1>1, <1>2, <1>3, <1>4 DEF Run, Resume, ClaimFresh, Pin, PinRefused, OverBudget, AgentAnswers,
       FreezeAnswer, FreezeRefused, Post, Project, SaveRefused, Complete
<1>5. ASSUME NEW w \in Worker, Misfortune(w) PROVE Goal
  BY <1>1, <1>3, <1>5 DEF Misfortune, ResumeCut, ClaimFreshCut, AgentFails, PostUnknown,
       PublicationFails, CompleteCut, Crash
<1>6. \/ \E w \in Worker : Run(w) \/ Misfortune(w)
      \/ UNCHANGED journal
  BY DEF Next, Enqueue, ExpireOrphan, ExpireHeld, Redeploy, vars
<1>7. CASE UNCHANGED journal
  BY <1>7
<1> QED BY <1>4, <1>5, <1>6, <1>7

\* What a step does to what a run holds: it ends, it claims, it pins, or it goes
\* on with its batch, its pins and, while it has one in hand, its candidate.
Goes(w) ==
  /\ job'[w].batch = job[w].batch
  /\ job'[w].pins = job[w].pins
  /\ job[w].pc \in {"idle", "claimed"} => job'[w].pc = job[w].pc
  /\ job'[w].pc \in InHand =>
       \/ job[w].pc \in InHand /\ job'[w].candidate = job[w].candidate
       \/ job'[w].candidate \in FirstUnfinished(job[w].batch)

JobMoves(w) ==
  \/ job'[w].pc = "idle"
  \/ job'[w].pc = "claimed" /\ job'[w].pins = deployed
  \/ Pin(w)
  \/ Goes(w)

LEMMA JobStep ==
  ASSUME TypeOK, [Next]_vars, NEW w \in Worker
  PROVE  JobMoves(w)
<1>1. CASE job'[w] = job[w]
  BY <1>1 DEF JobMoves, Goes
<1>2. CASE Stop(w)
  BY <1>2 DEF Stop, TypeOK, IdleJob, JobMoves
<1>3. ASSUME NEW b \in Batch, Resume(w, b) \/ ClaimFresh(w, b) PROVE JobMoves(w)
  <2>1. job'[w] = Holding(w, b)
    BY <1>3 DEF Resume, ClaimFresh, TypeOK
  <2>2. job'[w].pc = "claimed" /\ job'[w].pins = deployed
    BY <2>1 DEF Holding, IdleJob
  <2> QED BY <2>2 DEF JobMoves
<1>4. ASSUME NEW pc \in Point \ InHand, GoOn(w, pc), job[w].pc \notin {"idle", "claimed"}
      PROVE  JobMoves(w)
  <2>1. job'[w] = [IdleJob EXCEPT !.pc = pc, !.batch = job[w].batch, !.pins = job[w].pins]
    BY <1>4 DEF GoOn, TypeOK
  <2>2. job'[w].pc = pc /\ job'[w].batch = job[w].batch /\ job'[w].pins = job[w].pins
    BY <2>1 DEF IdleJob
  <2> QED BY <1>4, <2>2 DEF JobMoves, Goes
<1>5. ASSUME Compile(w) \/ FinishCandidate(w) \/ RejectCandidate(w)
      PROVE  JobMoves(w)
  BY <1>4, <1>5 DEF Compile, FinishCandidate, RejectCandidate, Point, InHand
<1>13. ASSUME FreezeAnswer(w) PROVE JobMoves(w)
  <2>1. /\ job'[w].batch = job[w].batch /\ job'[w].pins = job[w].pins
        /\ job'[w].pc = "compiling"
    BY <1>13, JobFields DEF FreezeAnswer, Goto, TypeOK, JobType
  <2> QED BY <1>13, <2>1 DEF FreezeAnswer, InHand, JobMoves, Goes
<1>6. ASSUME AgentAnswers(w) PROVE JobMoves(w)
  <2>1. /\ job'[w].batch = job[w].batch /\ job'[w].pins = job[w].pins
        /\ job'[w].pc = "answered"
    BY <1>6, JobFields DEF AgentAnswers, TypeOK, JobType
  <2> QED BY <1>6, <2>1 DEF AgentAnswers, InHand, JobMoves, Goes
<1>7. ASSUME Post(w) \/ SaveAck(w) \/ Project(w) PROVE JobMoves(w)
  <2>1. job[w].pc \in InHand
    BY <1>7 DEF Post, SaveAck, Project, InHand
  <2>2. /\ job'[w].batch = job[w].batch /\ job'[w].pins = job[w].pins
        /\ job'[w].candidate = job[w].candidate
    BY <1>7, JobFields DEF Post, SaveAck, Project, Goto, TypeOK, JobType
  <2> QED BY <2>1, <2>2 DEF InHand, JobMoves, Goes
<1>8. ASSUME NEW e \in Evidence, StartPublication(w, e) PROVE JobMoves(w)
  <2>1. /\ job'[w].batch = job[w].batch /\ job'[w].pins = job[w].pins
        /\ job'[w].candidate = e
    BY <1>8, JobFields DEF StartPublication, TypeOK, JobType
  <2> QED BY <1>8, <2>1 DEF StartPublication, JobMoves, Goes
<1>9. ASSUME Run(w) PROVE JobMoves(w)
  <2>1. FirstBatches \subseteq Batch
    BY FirstBatchesType
  <2> QED BY <1>2, <1>3, <1>5, <1>6, <1>7, <1>8, <1>9, <1>13, <2>1
        DEF Run, PinRefused, OverBudget, FreezeRefused, SaveRefused, Complete, JobMoves
<1>10. ASSUME Misfortune(w) PROVE JobMoves(w)
  BY <1>1, <1>2, <1>5, <1>10 DEF Misfortune, ResumeCut, ClaimFreshCut, AgentFails,
       CompileCut, PostUnknown, PublicationFails, CompleteCut, Crash
<1>11. ASSUME NEW v \in Worker, v # w, Run(v) \/ Misfortune(v) PROVE job'[w] = job[w]
  BY <1>11 DEF Run, Misfortune, Resume, ClaimFresh, Pin, PinRefused, OverBudget, AgentAnswers,
       FreezeAnswer, Compile, FreezeRefused, StartPublication, Post, SaveAck, Project,
       FinishCandidate, SaveRefused, Complete, ResumeCut, ClaimFreshCut, AgentFails,
       CompileCut, PostUnknown, RejectCandidate, PublicationFails, CompleteCut, Crash,
       Stop, Goto, GoOn, TypeOK
<1>12. \/ \E v \in Worker : Run(v) \/ Misfortune(v)
       \/ job' = job
  BY DEF Next, Enqueue, ExpireOrphan, ExpireHeld, Redeploy, vars
<1> QED BY <1>1, <1>9, <1>10, <1>11, <1>12

-----------------------------------------------------------------------------
(* Receipts.                                                               *)

LEMMA CompiledUnset == Compiled(Unset) = Unset
BY DEF Compiled, Unset

LEMMA PackedGrows == [Next]_vars => packed \subseteq packed'
<1> SUFFICES ASSUME [Next]_vars PROVE packed \subseteq packed'
  OBVIOUS
<1>1. ASSUME NEW w \in Worker, Run(w) PROVE packed \subseteq packed'
  BY <1>1 DEF Run, Resume, ClaimFresh, Pin, PinRefused, OverBudget, AgentAnswers, FreezeAnswer,
       Compile, FreezeRefused, StartPublication, Post, SaveAck, Project,
       FinishCandidate, SaveRefused, Complete
<1>2. ASSUME NEW w \in Worker, Misfortune(w) PROVE packed \subseteq packed'
  BY <1>2 DEF Misfortune, ResumeCut, ClaimFreshCut, AgentFails, CompileCut,
       PostUnknown, RejectCandidate, PublicationFails, CompleteCut, Crash
<1> QED BY <1>1, <1>2 DEF Next, Enqueue, ExpireOrphan, ExpireHeld, Redeploy, vars

LEMMA BeforeInit == Init => BeforePackage
BY DEF Init, BeforePackage

LEMMA BeforeStep == TypeOK /\ QueueInv /\ BeforePackage /\ [Next]_vars => BeforePackage'
<1> SUFFICES ASSUME TypeOK, QueueInv, BeforePackage, [Next]_vars,
                    NEW b \in Batch, b \notin packed'
             PROVE  journal'[b] \in {Unset, Compiled(answer'[b])}
  BY DEF BeforePackage
<1>1. b \notin packed
  BY PackedGrows
<1>2. journal'[b] \in {Unset, Compiled(answer[b])}
  BY <1>1, JournalStep DEF BeforePackage
<1>3. CASE answer'[b] = answer[b]
  BY <1>2, <1>3
<1>4. CASE answer[b] = Unset
  BY <1>2, <1>4, CompiledUnset
<1> QED BY <1>3, <1>4, WrittenOnce

LEMMA ReceiptsStep == TypeOK /\ QueueInv /\ BeforePackage /\ [Next]_vars => ReceiptsKept
<1> SUFFICES ASSUME TypeOK, QueueInv, BeforePackage, [Next]_vars,
                    NEW b \in Batch, NEW e \in Evidence
             PROVE  /\ Rank(journal[b][e]) <= Rank(journal'[b][e])
                    /\ journal[b][e] \in Settled => journal'[b][e] = journal[b][e]
  BY DEF ReceiptsKept
<1>1. \A s : Rank(s) \in 0 .. 4
  BY DEF Rank
<1>2. CASE journal'[b] = journal[b]
  BY <1>1, <1>2
<1>3. CASE b \notin packed /\ journal'[b] = Compiled(answer[b])
  <2>1. CASE journal[b] = Unset
    <3>1. Rank(journal[b][e]) = 0 /\ journal[b][e] \notin Settled
      BY <2>1 DEF Unset, Rank, Settled
    <3> QED BY <1>1, <3>1
  <2>2. CASE journal[b] = Compiled(answer[b])
    BY <1>1, <1>3, <2>2
  <2> QED BY <1>3, <2>1, <2>2 DEF BeforePackage
<1>4. CASE Forward(b)
  <2>1. PICK x \in Evidence, s \in {"started", "acked", "done", "rejected"} :
          /\ journal[b][x] \in Open
          /\ Rank(journal[b][x]) <= Rank(s)
          /\ journal'[b] = [journal[b] EXCEPT ![x] = s]
    BY <1>4 DEF Forward
  <2>2. journal[b] \in [Evidence -> Progress]
    BY DEF TypeOK
  <2>3. CASE e = x
    BY <2>1, <2>2, <2>3 DEF Open, Settled
  <2>4. CASE e # x
    BY <1>1, <2>1, <2>2, <2>4
  <2> QED BY <2>3, <2>4
<1> QED BY <1>2, <1>3, <1>4, JournalStep

\* No save of the journal, by whatever run and after whatever crash, takes a
\* candidate back or changes how it was settled.
THEOREM ReceiptsAreKept == Spec => NoLostReceipt
<1>1. Init => TypeOK /\ QueueInv /\ BeforePackage
  BY TypeInit, QueueInit, BeforeInit
<1>2. Spec => []BeforePackage
  BY <1>1, BeforeStep, TypeCorrect, QueueCorrect, PTL DEF Spec
<1>3. TypeOK /\ QueueInv /\ BeforePackage /\ [Next]_vars => [ReceiptsKept]_journal
  BY ReceiptsStep
<1> QED BY <1>2, <1>3, TypeCorrect, QueueCorrect, PTL DEF Spec, NoLostReceipt

-----------------------------------------------------------------------------
(* What is published.                                                      *)

LEMMA AcceptedInit == Init => Accepted
BY DEF Init, Accepted, Unset, Open, IdleJob, InHand

\* An answer that accepts something stays.
LEMMA AnswerStays ==
  ASSUME TypeOK, [Next]_vars, NEW b \in Batch, NEW e \in Evidence,
         answer[b][e] = "publish"
  PROVE  answer'[b] = answer[b]
BY WrittenOnce DEF Unset

LEMMA AcceptedStep == TypeOK /\ QueueInv /\ Accepted /\ [Next]_vars => Accepted'
<1> SUFFICES ASSUME TypeOK, QueueInv, Accepted, [Next]_vars PROVE Accepted'
  OBVIOUS
<1>1. ASSUME NEW b \in Batch, NEW e \in Evidence, journal'[b][e] \in Open
      PROVE  answer'[b][e] = "publish"
  <2>1. journal[b] \in [Evidence -> Progress]
    BY DEF TypeOK
  <2>2. CASE journal[b][e] \in Open
    BY <2>2, AnswerStays DEF Accepted
  <2>3. CASE journal'[b] = Compiled(answer[b])
    <3>1. answer[b][e] = "publish"
      BY <1>1, <2>3 DEF Compiled, Open
    <3> QED BY <3>1, AnswerStays
  <2>4. CASE Forward(b)
    <3>1. journal[b][e] \in Open
      BY <1>1, <2>1, <2>4 DEF Forward
    <3> QED BY <2>2, <3>1
  <2> QED BY <1>1, <2>2, <2>3, <2>4, JournalStep
<1>2. ASSUME NEW w \in Worker, job'[w].pc \in InHand
      PROVE  /\ job'[w].candidate \in job'[w].batch
             /\ answer'[job'[w].batch][job'[w].candidate] = "publish"
  <2> DEFINE b == job[w].batch
             e == job'[w].candidate
  <2>1. Goes(w)
    <3>1. ASSUME Pin(w) PROVE FALSE
      <4>1. job'[w].pc \in {"asking", "compiling"}
        BY <3>1, JobFields DEF Pin, Goto, TypeOK, JobType
      <4> QED BY <1>2, <4>1 DEF InHand
    <3> QED BY <1>2, <3>1, JobStep DEF JobMoves, InHand
  <2>2. b \in Batch /\ job'[w].batch = b
    BY <2>1, JobFields DEF Goes
  <2>3. e \in b /\ answer[b][e] = "publish"
    <3>1. CASE job[w].pc \in InHand /\ e = job[w].candidate
      BY <3>1 DEF Accepted
    <3>2. CASE e \in FirstUnfinished(b)
      <4>1. e \in b /\ b \subseteq Evidence /\ journal[b][e] \in Open
        BY <2>2, <3>2 DEF FirstUnfinished, Batch
      <4> QED BY <2>2, <4>1 DEF Accepted
    <3> QED BY <1>2, <2>1, <3>1, <3>2 DEF Goes
  <2>4. answer'[b] = answer[b]
    BY <2>2, <2>3, AnswerStays DEF Batch
  <2> QED BY <2>2, <2>3, <2>4
<1> QED BY <1>1, <1>2 DEF Accepted

\* Only a run with a candidate in hand posts, and it posts that candidate.
LEMMA PostedStep ==
  ASSUME [Next]_vars, NEW e \in posted'
  PROVE  e \in posted \/ \E w \in Worker : job[w].pc \in InHand /\ e = job[w].candidate
<1>1. ASSUME NEW w \in Worker, Run(w)
      PROVE  posted' = posted \/ (job[w].pc \in InHand /\ posted' = posted \cup {job[w].candidate})
  BY <1>1 DEF Run, Resume, ClaimFresh, Pin, PinRefused, OverBudget, AgentAnswers, FreezeAnswer,
       Compile, FreezeRefused, StartPublication, Post, SaveAck, Project,
       FinishCandidate, SaveRefused, Complete, InHand
<1>2. ASSUME NEW w \in Worker, Misfortune(w)
      PROVE  posted' = posted \/ (job[w].pc \in InHand /\ posted' = posted \cup {job[w].candidate})
  BY <1>2 DEF Misfortune, ResumeCut, ClaimFreshCut, AgentFails, CompileCut,
       PostUnknown, RejectCandidate, PublicationFails, CompleteCut, Crash, InHand
<1> QED BY <1>1, <1>2 DEF Next, Enqueue, ExpireOrphan, ExpireHeld, Redeploy, vars

LEMMA PublishesStep ==
  TypeOK /\ QueueInv /\ Accepted /\ PublishesFrozenAnswer /\ [Next]_vars
    => PublishesFrozenAnswer'
<1> SUFFICES ASSUME TypeOK, QueueInv, Accepted, PublishesFrozenAnswer, [Next]_vars,
                    NEW e \in posted'
             PROVE  \E b \in packed' : e \in b /\ answer'[b][e] = "publish"
  BY DEF PublishesFrozenAnswer
<1>1. \E b \in packed : e \in b /\ answer[b][e] = "publish"
  <2>1. CASE e \in posted
    BY <2>1 DEF PublishesFrozenAnswer
  <2>2. ASSUME NEW w \in Worker, job[w].pc \in InHand, e = job[w].candidate
        PROVE  job[w].batch \in packed /\ e \in job[w].batch
               /\ answer[job[w].batch][e] = "publish"
    BY <2>2 DEF QueueInv, Views, ViewOf, Accepted
  <2> QED BY <2>1, <2>2, PostedStep
<1>2. PICK b \in packed : e \in b /\ answer[b][e] = "publish"
  BY <1>1
<1>3. b \in Batch /\ e \in Evidence /\ b \in packed'
  BY <1>2, PackedGrows DEF TypeOK, Batch
<1> QED BY <1>2, <1>3, AnswerStays

\* Only Events that the frozen answer of their batch accepts reach Data.
THEOREM PublishedAsFrozen == Spec => []PublishesFrozenAnswer
<1>1. Init => PublishesFrozenAnswer
  BY DEF Init, PublishesFrozenAnswer
<1>2. Spec => []Accepted
  BY AcceptedInit, AcceptedStep, TypeCorrect, QueueCorrect, PTL DEF Spec
<1> QED BY <1>1, <1>2, PublishesStep, TypeCorrect, QueueCorrect, PTL DEF Spec

-----------------------------------------------------------------------------
(* Who decides.                                                            *)

LEMMA PinnedInit == Init => Pinned
BY DEF Init, Pinned, IdleJob

LEMMA PinnedStep == TypeOK /\ Pinned /\ [Next]_vars => Pinned'
<1> SUFFICES ASSUME TypeOK, Pinned, [Next]_vars, NEW w \in Worker
             PROVE  /\ job'[w].pc # "idle" => job'[w].pins \in Pins
                    /\ job'[w].pc \notin {"idle", "claimed"} =>
                         version'[job'[w].batch] = job'[w].pins
  BY DEF Pinned
<1>1. CASE job'[w].pc = "idle"
  BY <1>1
<1>2. CASE job'[w].pc = "claimed" /\ job'[w].pins = deployed
  BY <1>2 DEF TypeOK
<1>3. CASE Pin(w)
  <2>1. job'[w].batch = job[w].batch /\ job'[w].pins = job[w].pins
    BY <1>3, JobFields DEF Pin, Goto, TypeOK, JobType
  <2>2. version'[job[w].batch] = job[w].pins
    BY <1>3, JobFields DEF Pin, TypeOK
  <2>3. job[w].pins \in Pins
    BY <1>3 DEF Pin, Pinned
  <2> QED BY <2>1, <2>2, <2>3
<1>4. CASE Goes(w)
  <2>1. job'[w].batch = job[w].batch /\ job'[w].pins = job[w].pins
    BY <1>4 DEF Goes
  <2>2. ASSUME job'[w].pc # "idle" PROVE job[w].pc # "idle"
    BY <1>4, <2>2 DEF Goes
  <2>3. ASSUME job'[w].pc \notin {"idle", "claimed"}
        PROVE  version'[job[w].batch] = job[w].pins
    <3>1. job[w].pc \notin {"idle", "claimed"}
      BY <1>4, <2>3 DEF Goes
    <3>2. version[job[w].batch] = job[w].pins /\ job[w].pins # Nobody
      BY <3>1, ConstantsAssumption DEF Pinned
    <3> QED BY <3>2, JobFields, WrittenOnce
  <2> QED BY <2>1, <2>2, <2>3 DEF Pinned
<1> QED BY <1>1, <1>2, <1>3, <1>4, JobStep DEF JobMoves

\* The decisions of a batch are all made under one set of Agent pins: a run that
\* owns its batch past the claim carries the pins that the batch was frozen with.
THEOREM OnePinSetDecides == Spec => []OnePinSet
<1>1. Pinned => OnePinSet
  BY DEF Pinned, OnePinSet
<1> QED BY <1>1, PinnedInit, PinnedStep, TypeCorrect, PTL DEF Spec

-----------------------------------------------------------------------------
(* The invariant.                                                          *)

LEMMA PackedStep ==
  ASSUME [Next]_vars
  PROVE  packed' = packed \/ \E w \in Worker : Compile(w)
<1>1. ASSUME NEW w \in Worker, Run(w) PROVE packed' = packed \/ Compile(w)
  BY <1>1 DEF Run, Resume, ClaimFresh, Pin, PinRefused, OverBudget, AgentAnswers, FreezeAnswer,
       FreezeRefused, StartPublication, Post, SaveAck, Project, FinishCandidate,
       SaveRefused, Complete, frozen
<1>2. ASSUME NEW w \in Worker, Misfortune(w) PROVE packed' = packed
  BY <1>2 DEF Misfortune, ResumeCut, ClaimFreshCut, AgentFails, CompileCut,
       PostUnknown, RejectCandidate, PublicationFails, CompleteCut, Crash, frozen
<1> QED BY <1>1, <1>2
        DEF Next, Enqueue, ExpireOrphan, ExpireHeld, Redeploy, vars, frozen

\* A batch directory only leaves by the end of its batch.
LEMMA DirsStep ==
  ASSUME TypeOK, [Next]_vars
  PROVE  dirs \subseteq dirs' \cup manifest'
<1>1. ASSUME NEW w \in Worker, Run(w) PROVE dirs \subseteq dirs' \cup manifest'
  BY <1>1 DEF Run, Resume, ClaimFresh, PublishClaim, Pin, PinRefused, OverBudget,
       AgentAnswers, FreezeAnswer, Compile, FreezeRefused, StartPublication, Post, SaveAck, Project, FinishCandidate,
       SaveRefused, Complete
<1>2. ASSUME NEW w \in Worker, Misfortune(w) PROVE dirs \subseteq dirs'
  BY <1>2 DEF Misfortune, ResumeCut, ClaimFreshCut, PublishClaim, AgentFails, CompileCut,
       PostUnknown, RejectCandidate, PublicationFails, CompleteCut, Crash
<1> QED BY <1>1, <1>2 DEF Next, Enqueue, ExpireOrphan, ExpireHeld, Redeploy, vars

\* Evidence of a batch that is not decided yet is still queued, and in no batch
\* that is decided.
LEMMA Undecided ==
  ASSUME TypeOK, QueueInv, LedgerInv, NEW b \in dirs, b \notin packed, NEW e \in b
  PROVE  /\ e \notin completed \cup failed
         /\ e \in pending \/ <<b, e>> \in processing
         /\ \A c \in packed : e \notin c
<1>1. b \notin manifest
  BY DEF QueueInv, FilesInv, Decided
<1>2. e \notin completed \cup failed
  BY <1>1 DEF QueueInv, FilesInv, Decided
<1>3. e \in pending \/ <<b, e>> \in processing
  BY <1>2 DEF QueueInv, FilesInv, Conserved
<1>4. ASSUME NEW c \in packed, e \in c PROVE FALSE
  <2>1. c \notin dirs
    BY <1>4 DEF QueueInv, FilesInv, OneDirectory
  <2>2. c \in manifest \ dirs
    BY <2>1 DEF LedgerInv
  <2> QED BY <1>2, <1>4, <2>2 DEF QueueInv, FilesInv, Decided
<1> QED BY <1>2, <1>3, <1>4

LEMMA LedgerInvInit == Init => LedgerInv
BY DEF Init, LedgerInv, Unset

LEMMA LedgerInvStep ==
  TypeOK /\ QueueInv /\ Accepted /\ LedgerInv /\ [Next]_vars => LedgerInv'
<1> SUFFICES ASSUME TypeOK, QueueInv, Accepted, LedgerInv, [Next]_vars PROVE LedgerInv'
  OBVIOUS
<1>1. packed' \subseteq dirs' \cup manifest'
  <2>1. manifest \subseteq manifest'
    BY ManifestFinal
  <2>2. ASSUME NEW w \in Worker, Compile(w)
        PROVE  packed' = packed \cup {job[w].batch} /\ job[w].batch \in dirs
    BY <2>2 DEF Compile, Owned
  <2> QED BY <2>1, <2>2, PackedStep, DirsStep DEF LedgerInv
<1>2. \A b, c \in packed' : b # c => b \cap c = {}
  <2>1. ASSUME NEW w \in Worker, Compile(w), job[w].batch \notin packed
        PROVE  \A b, c \in packed' : b # c => b \cap c = {}
    <3>1. packed' = packed \cup {job[w].batch} /\ job[w].batch \in dirs
      BY <2>1 DEF Compile, Owned
    <3>2. \A c \in packed : job[w].batch \cap c = {}
      BY <2>1, <3>1, Undecided
    <3> QED BY <3>1, <3>2 DEF LedgerInv
  <2>2. ASSUME NEW w \in Worker, Compile(w), job[w].batch \in packed PROVE packed' = packed
    BY <2>2 DEF Compile
  <2> QED BY <2>1, <2>2, PackedStep DEF LedgerInv
<1>3. ASSUME NEW b \in Batch, NEW e \in Evidence
      PROVE  /\ journal'[b][e] = "ignored" => answer'[b][e] = "ignore"
             /\ journal'[b][e] = "rejected" => answer'[b][e] \in {"publish", "reject"}
  <2>1. answer'[b] = answer[b] \/ answer[b] = Unset
    BY WrittenOnce
  <2>2. answer[b][e] # "unset" => answer'[b] = answer[b]
    BY <2>1 DEF Unset
  <2>3. CASE journal'[b] = journal[b]
    BY <2>2, <2>3 DEF LedgerInv
  <2>4. CASE journal'[b] = Compiled(answer[b])
    <3>1. /\ Compiled(answer[b])[e] = "ignored" => answer[b][e] = "ignore"
          /\ Compiled(answer[b])[e] = "rejected" => answer[b][e] = "reject"
      BY DEF Compiled
    <3> QED BY <2>2, <2>4, <3>1
  <2>5. CASE Forward(b)
    <3>1. PICK x \in Evidence, s \in {"started", "acked", "done", "rejected"} :
            journal[b][x] \in Open /\ journal'[b] = [journal[b] EXCEPT ![x] = s]
      BY <2>5 DEF Forward
    <3>2. journal[b] \in [Evidence -> Progress]
      BY DEF TypeOK
    <3>3. CASE e = x
      BY <2>2, <3>1, <3>2, <3>3 DEF Accepted
    <3>4. CASE e # x
      BY <2>2, <3>1, <3>2, <3>4 DEF LedgerInv
    <3> QED BY <3>3, <3>4
  <2> QED BY <2>3, <2>4, <2>5, JournalStep
<1> QED BY <1>1, <1>2, <1>3 DEF LedgerInv

-----------------------------------------------------------------------------
(* The mapping.                                                            *)

Queued(e) == e \in pending \/ \E b \in Batch : <<b, e>> \in processing

LEMMA PlaceOf ==
  ASSUME QueueInv, TypeOK, NEW e \in Evidence
  PROVE  /\ e \in completed => LedgerPlace[e] = "completed"
         /\ e \in failed => LedgerPlace[e] = "failed"
         /\ Queued(e) <=> LedgerPlace[e] = "queued"
         /\ e \notin completed \cup failed /\ ~Queued(e) => LedgerPlace[e] = "absent"
<1>1. Queued(e) => e \notin completed \cup failed
  BY DEF QueueInv, FilesInv, Disjoint, Queued
<1>2. completed \cap failed = {}
  BY DEF QueueInv, FilesInv, Disjoint
<1> QED BY <1>1, <1>2 DEF LedgerPlace, Queued

LEMMA PlaceKept ==
  ASSUME UNCHANGED <<completed, failed>>, \A e \in Evidence : Queued(e)' <=> Queued(e)
  PROVE  UNCHANGED LedgerPlace
BY DEF LedgerPlace, Queued

LEMMA MoveQueued ==
  ASSUME NEW b \in Batch, NEW T \in SUBSET (b \cap pending), MoveToProcessing(b, T)
  PROVE  UNCHANGED LedgerPlace
<1>1. processing' = processing \cup {<<b, e>> : e \in T} /\ pending' = pending \ T
  BY DEF MoveToProcessing, InProcessing
<1>2. ASSUME NEW e \in Evidence PROVE Queued(e)' <=> Queued(e)
  BY <1>1 DEF Queued
<1> QED BY <1>2, PlaceKept DEF MoveToProcessing

\* The decision of an Evidence is that of the one decided batch it is in.
LEMMA DecisionOf ==
  ASSUME LedgerInv, NEW b \in packed, NEW e \in b, e \in Evidence
  PROVE  LedgerDecision[e] = JournalDecision(b, e)
<1>1. \A c \in packed : e \in c => c = b
  BY DEF LedgerInv
<1>2. (CHOOSE c \in packed : e \in c) = b
  BY <1>1
<1> QED BY <1>2 DEF LedgerDecision

LEMMA DecisionOfNone ==
  ASSUME NEW e \in Evidence, \A c \in packed : e \notin c
  PROVE  LedgerDecision[e] = "none"
BY DEF LedgerDecision

LEMMA DecisionKept ==
  ASSUME UNCHANGED packed,
         \A b \in packed : \A e \in b : JournalDecision(b, e)' = JournalDecision(b, e)
  PROVE  UNCHANGED LedgerDecision
<1>1. ASSUME NEW e \in Evidence, NEW b \in packed, e \in b
      PROVE  LET c == CHOOSE c \in packed : e \in c IN c \in packed /\ e \in c
  BY <1>1
<1> QED BY <1>1 DEF LedgerDecision

\* What a journal settled is not affected by an answer that is frozen later.
LEMMA AnswerKeeps ==
  ASSUME TypeOK, LedgerInv, [Next]_vars, NEW b \in packed, NEW e \in b,
         journal'[b][e] = journal[b][e]
  PROVE  JournalDecision(b, e)' = JournalDecision(b, e)
<1>1. b \in Batch /\ e \in Evidence
  BY DEF TypeOK, Batch
<1>2. answer'[b] = answer[b] \/ answer[b] = Unset
  BY <1>1, WrittenOnce
<1>3. journal[b][e] = "rejected" => answer'[b] = answer[b]
  BY <1>1, <1>2 DEF LedgerInv, Unset
<1> QED BY <1>3 DEF JournalDecision

LEMMA QuietDecisions ==
  ASSUME TypeOK, LedgerInv, [Next]_vars, UNCHANGED <<packed, journal>>
  PROVE  UNCHANGED LedgerDecision
BY AnswerKeeps, DecisionKept

\* A save that does not refuse the candidate leaves it as one to publish.
LEMMA SaveDecisions ==
  ASSUME TypeOK, LedgerInv, [Next]_vars, UNCHANGED packed, NEW b \in Batch, NEW e \in Evidence,
         NEW s \in {"started", "acked", "done"}, journal[b][e] \in Open,
         journal' = [journal EXCEPT ![b] = [journal[b] EXCEPT ![e] = s]]
  PROVE  UNCHANGED LedgerDecision
<1>1. journal \in [Batch -> [Evidence -> Progress]]
  BY DEF TypeOK
<1>2. journal'[b][e] = s
  BY <1>1
<1>3. JournalDecision(b, e)' = JournalDecision(b, e)
  BY <1>2 DEF JournalDecision, Open
<1>4. ASSUME NEW c \in packed, NEW x \in c, c # b \/ x # e
      PROVE  JournalDecision(c, x)' = JournalDecision(c, x)
  <2>1. c \in Batch /\ x \in Evidence
    BY DEF TypeOK, Batch
  <2>2. journal'[c][x] = journal[c][x]
    BY <1>1, <1>4, <2>1
  <2> QED BY <2>2, AnswerKeeps
<1> QED BY <1>3, <1>4, DecisionKept

-----------------------------------------------------------------------------
(* Each step is one of the ledger, or none.                                *)

Inv == TypeOK /\ QueueInv /\ Accepted /\ Recorded /\ LedgerInv

LEMMA QuietStep ==
  ASSUME Inv, [Next]_vars, UNCHANGED <<queue, packed, journal, posted>>
  PROVE  UNCHANGED Ledger!vars
<1>1. UNCHANGED LedgerPlace
  BY DEF queue, LedgerPlace
<1>2. UNCHANGED LedgerDecision
  BY QuietDecisions DEF Inv
<1> QED BY <1>1, <1>2 DEF Ledger!vars

LEMMA EnqueueStep ==
  ASSUME Inv, [Next]_vars, NEW e \in Evidence, Enqueue(e)
  PROVE  Ledger!Enqueue(e)
<1>1. e \notin pending \cup completed \cup failed
  <2>1. ASSUME e \in pending PROVE <<"pending", NoBatch>> \in Places(e)
    BY <2>1 DEF Places
  <2>2. ASSUME e \in completed PROVE <<"completed", NoBatch>> \in Places(e)
    BY <2>2 DEF Places
  <2>3. ASSUME e \in failed PROVE <<"failed", NoBatch>> \in Places(e)
    BY <2>3 DEF Places
  <2> QED BY <2>1, <2>2, <2>3 DEF Enqueue
<1>2. \A b \in Batch : <<b, e>> \notin processing
  BY DEF Enqueue, Places
<1>3. LedgerPlace[e] = "absent"
  BY <1>1, <1>2, PlaceOf DEF Inv, Queued
<1>4. LedgerPlace' = [LedgerPlace EXCEPT ![e] = "queued"]
  <2>1. pending' = pending \cup {e} /\ UNCHANGED <<processing, completed, failed>>
    BY DEF Enqueue
  <2>2. LedgerPlace'[e] = "queued"
    BY <1>1, <2>1 DEF LedgerPlace
  <2>3. \A x \in Evidence : x # e => LedgerPlace'[x] = LedgerPlace[x]
    BY <2>1 DEF LedgerPlace
  <2>4. /\ LedgerPlace = [x \in Evidence |-> LedgerPlace[x]]
        /\ LedgerPlace' = [x \in Evidence |-> LedgerPlace'[x]]
    BY DEF LedgerPlace
  <2> QED BY <2>2, <2>3, <2>4
<1>5. UNCHANGED LedgerDecision
  BY QuietDecisions DEF Inv, Enqueue, frozen
<1> QED BY <1>3, <1>4, <1>5 DEF Ledger!Enqueue, Enqueue

LEMMA MoveStep ==
  ASSUME Inv, [Next]_vars, NEW b \in Batch, NEW T \in SUBSET (b \cap pending),
         MoveToProcessing(b, T), UNCHANGED <<packed, journal, posted>>
  PROVE  UNCHANGED Ledger!vars
<1>1. UNCHANGED LedgerPlace
  BY MoveQueued
<1>2. UNCHANGED LedgerDecision
  BY QuietDecisions DEF Inv
<1> QED BY <1>1, <1>2 DEF Ledger!vars

LEMMA ClaimStep ==
  ASSUME Inv, [Next]_vars, NEW w \in Worker,
         \/ \E b \in Batch : Resume(w, b) \/ ResumeCut(w, b)
         \/ \E b \in FirstBatches : ClaimFresh(w, b) \/ ClaimFreshCut(w, b)
  PROVE  UNCHANGED Ledger!vars
<1>1. CASE \E b \in Batch : Resume(w, b) \/ ResumeCut(w, b)
  <2>1. PICK b \in Batch : Resume(w, b) \/ ResumeCut(w, b)
    BY <1>1
  <2>2. PICK T \in SUBSET (b \cap pending) : MoveToProcessing(b, T)
    BY <2>1 DEF Resume, ResumeCut, Prefixes
  <2>3. UNCHANGED <<packed, journal, posted>>
    BY <2>1 DEF Resume, ResumeCut, frozen
  <2> QED BY <2>2, <2>3, MoveStep
<1>2. CASE \E b \in FirstBatches : ClaimFresh(w, b) \/ ClaimFreshCut(w, b)
  <2>1. PICK b \in FirstBatches : ClaimFresh(w, b) \/ ClaimFreshCut(w, b)
    BY <1>2
  <2>2. b \in Batch /\ b \subseteq pending
    BY FirstBatchesType DEF Inv
  <2>3. PICK T \in SUBSET b : MoveToProcessing(b, T)
    BY <2>1 DEF ClaimFresh, ClaimFreshCut, Prefixes
  <2>4. T \in SUBSET (b \cap pending)
    BY <2>2
  <2>5. UNCHANGED <<packed, journal, posted>>
    BY <2>1 DEF ClaimFresh, ClaimFreshCut, frozen
  <2> QED BY <2>2, <2>3, <2>4, <2>5, MoveStep
<1> QED BY <1>1, <1>2

\* The publication package decides the batch.
LEMMA CompileStep ==
  ASSUME Inv, [Next]_vars, NEW w \in Worker, Compile(w)
  PROVE  Ledger!Next \/ UNCHANGED Ledger!vars
<1>1. PICK b \in Batch : b = job[w].batch
  BY JobFields DEF Inv
<1>2. /\ b \in dirs /\ packed' = packed \cup {b} /\ UNCHANGED <<queue, answer, posted>>
      /\ journal' = IF b \in packed THEN journal ELSE [journal EXCEPT ![b] = Compiled(answer[b])]
  BY <1>1 DEF Compile, Owned
<1>3. CASE b \in packed
  BY <1>2, <1>3, QuietStep
<1>4. CASE b \notin packed
  <2>1. \A e \in b : /\ e \notin completed \cup failed /\ \A c \in packed : e \notin c
                     /\ e \in pending \/ <<b, e>> \in processing
    BY <1>2, <1>4, Undecided DEF Inv
  <2>2. b \subseteq Evidence
    BY DEF Batch
  <2>3. \A e \in b : LedgerPlace[e] = "queued" /\ LedgerDecision[e] = "none"
    BY <2>1, <2>2, PlaceOf, DecisionOfNone DEF Inv, Queued
  <2>4. UNCHANGED LedgerPlace
    BY <1>2 DEF queue, LedgerPlace
  <2>5. journal'[b] = Compiled(answer[b]) /\ \A c \in Batch \ {b} : journal'[c] = journal[c]
    BY <1>2, <1>4 DEF Inv, TypeOK
  <2> DEFINE d == [e \in b |-> JournalDecision(b, e)']
  <2>6. d \in [b -> Ledger!Decisions]
    <3>1. ASSUME NEW e \in b PROVE JournalDecision(b, e)' \in Ledger!Decisions
      <4>1. journal'[b][e] = Compiled(answer[b])[e] /\ answer'[b][e] = answer[b][e]
        BY <1>2, <2>5
      <4>2. Compiled(answer[b])[e] = "rejected" => answer[b][e] = "reject"
        BY <2>2 DEF Compiled
      <4> QED BY <4>1, <4>2 DEF JournalDecision, Ledger!Decisions
    <3> QED BY <3>1
  <2>7. LedgerInv'
    BY LedgerInvStep DEF Inv
  <2>8. ASSUME NEW e \in b PROVE LedgerDecision'[e] = d[e]
    <3>1. \A c \in packed' : e \in c => c = b
      BY <1>2, <2>1
    <3>2. (CHOOSE c \in packed' : e \in c) = b
      BY <1>2, <3>1
    <3> QED BY <1>2, <2>2, <3>2 DEF LedgerDecision
  <2>9. ASSUME NEW e \in Evidence \ b PROVE LedgerDecision'[e] = LedgerDecision[e]
    <3>1. CASE \E c \in packed : e \in c
      <4>1. PICK c \in packed : e \in c
        BY <3>1
      <4>2. c \in Batch \ {b} /\ c \in packed'
        BY <1>2, <4>1 DEF Inv, TypeOK
      <4>3. JournalDecision(c, e)' = JournalDecision(c, e)
        BY <1>2, <2>5, <4>2 DEF JournalDecision
      <4>4. LedgerDecision[e] = JournalDecision(c, e)
        BY <4>1, DecisionOf DEF Inv
      <4>5. \A x \in packed' : e \in x => x = c
        BY <2>7, <4>1, <4>2 DEF LedgerInv
      <4>6. (CHOOSE x \in packed' : e \in x) = c
        BY <4>1, <4>2, <4>5
      <4>7. LedgerDecision'[e] = JournalDecision(c, e)'
        BY <4>1, <4>2, <4>6 DEF LedgerDecision
      <4> QED BY <4>3, <4>4, <4>7
    <3>2. CASE \A c \in packed : e \notin c
      <4>1. \A c \in packed' : e \notin c
        BY <1>2, <3>2
      <4> QED BY <3>2, <4>1 DEF LedgerDecision
    <3> QED BY <3>1, <3>2
  <2>10. LedgerDecision' = [e \in Evidence |-> IF e \in b THEN d[e] ELSE LedgerDecision[e]]
    <3>1. LedgerDecision' = [e \in Evidence |-> LedgerDecision'[e]]
      BY DEF LedgerDecision
    <3> HIDE DEF d
    <3> QED BY <2>8, <2>9, <3>1
  <2>11. Ledger!Decide(b)
    <3> HIDE DEF d
    <3> QED BY <1>2, <2>3, <2>4, <2>6, <2>10 DEF Ledger!Decide
  <2> QED BY <2>2, <2>11 DEF Ledger!Next
<1> QED BY <1>3, <1>4

\* A journal that is compiled before the package exists decides nothing yet.
LEMMA CompileCutStep ==
  ASSUME Inv, [Next]_vars, NEW w \in Worker, CompileCut(w)
  PROVE  UNCHANGED Ledger!vars
<1>1. PICK b \in Batch : b = job[w].batch
  BY JobFields DEF Inv
<1>2. /\ b \notin packed /\ UNCHANGED <<queue, packed, posted>>
      /\ journal' = [journal EXCEPT ![b] = Compiled(answer[b])]
  BY <1>1 DEF CompileCut
<1>3. ASSUME NEW c \in packed, NEW e \in c
      PROVE  JournalDecision(c, e)' = JournalDecision(c, e)
  <2>1. c \in Batch \ {b}
    BY <1>2 DEF Inv, TypeOK
  <2>2. journal'[c][e] = journal[c][e]
    BY <1>2, <2>1 DEF Inv, TypeOK
  <2> QED BY <2>2, AnswerKeeps DEF Inv
<1>4. UNCHANGED LedgerDecision
  BY <1>2, <1>3, DecisionKept
<1>5. UNCHANGED LedgerPlace
  BY <1>2 DEF queue, LedgerPlace
<1> QED BY <1>2, <1>4, <1>5 DEF Ledger!vars

\* A save by the run that holds the batch, of what it has in hand or starts.
LEMMA SaveStep ==
  ASSUME Inv, [Next]_vars, NEW w \in Worker,
         (\E e \in Evidence : StartPublication(w, e)) \/ SaveAck(w) \/ FinishCandidate(w)
  PROVE  UNCHANGED Ledger!vars
<1>1. PICK b \in Batch : b = job[w].batch
  BY JobFields DEF Inv
<1>2. UNCHANGED <<queue, packed, posted>>
  BY DEF StartPublication, SaveAck, FinishCandidate
<1>3. UNCHANGED LedgerPlace
  BY <1>2 DEF queue, LedgerPlace
<1>4. CASE \E e \in Evidence : StartPublication(w, e)
  <2>1. PICK e \in Evidence : StartPublication(w, e)
    BY <1>4
  <2>2. CASE journal[b][e] = "open"
    <3>1. journal' = [journal EXCEPT ![b] = [journal[b] EXCEPT ![e] = "started"]]
      BY <1>1, <2>1, <2>2 DEF StartPublication, SaveJournal
    <3>2. journal[b][e] \in Open
      BY <2>2 DEF Open
    <3>3. UNCHANGED LedgerDecision
      BY <1>2, <3>1, <3>2, SaveDecisions DEF Inv
    <3> QED BY <1>2, <1>3, <3>3 DEF Ledger!vars
  <2>3. CASE journal[b][e] # "open"
    <3>1. UNCHANGED journal
      BY <1>1, <2>1, <2>3 DEF StartPublication
    <3> QED BY <1>2, <3>1, QuietStep
  <2> QED BY <2>2, <2>3
<1>5. CASE SaveAck(w) \/ FinishCandidate(w)
  <2>1. PICK e \in Evidence : e = job[w].candidate
    BY <1>5, CandidateInHand DEF Inv, SaveAck, FinishCandidate, InHand
  <2>2. job[w].pc \in InHand /\ Owned(w)
    BY <1>5 DEF SaveAck, FinishCandidate, InHand, SaveJournal
  <2>3. job[w].journal = journal[b] /\ journal[b][e] \in Open
    BY <1>1, <2>1, <2>2 DEF Inv, QueueInv, Views, ViewOf, Owned, LeaseOf
  <2>4. PICK s \in {"acked", "done"} :
          journal' = [journal EXCEPT ![b] = [journal[b] EXCEPT ![e] = s]]
    BY <1>1, <1>5, <2>1, <2>3 DEF SaveAck, FinishCandidate, SaveJournal
  <2>5. UNCHANGED LedgerDecision
    BY <1>2, <2>3, <2>4, SaveDecisions DEF Inv
  <2> QED BY <1>2, <1>3, <2>5 DEF Ledger!vars
<1> QED BY <1>4, <1>5

\* A refusal withdraws a candidate that was to be published.
LEMMA RejectStep ==
  ASSUME Inv, [Next]_vars, NEW w \in Worker, RejectCandidate(w)
  PROVE  Ledger!Next
<1>1. PICK b \in Batch : b = job[w].batch
  BY JobFields DEF Inv
<1>2. job[w].pc \in InHand /\ Owned(w)
  BY DEF RejectCandidate, InHand, SaveJournal
<1>3. PICK e \in Evidence : e = job[w].candidate
  BY <1>2, CandidateInHand DEF Inv
<1>4. b \in dirs /\ b \in packed /\ e \in b /\ journal[b][e] \in Open
  BY <1>1, <1>2, <1>3 DEF Inv, QueueInv, Views, ViewOf, Owned, LeaseOf
<1>5. /\ UNCHANGED <<queue, packed, posted>>
      /\ journal' = [journal EXCEPT ![b] = [journal[b] EXCEPT ![e] = "rejected"]]
  BY <1>1, <1>3 DEF RejectCandidate, SaveJournal
<1>6. UNCHANGED LedgerPlace
  BY <1>5 DEF queue, LedgerPlace
<1>7. LedgerPlace[e] = "queued"
  <2>1. journal[b][e] \notin Settled
    BY <1>4 DEF Open, Settled
  <2>2. b \notin manifest
    BY <1>4, <2>1 DEF Inv, QueueInv, FilesInv, Decided, AllSettled
  <2>3. e \notin completed \cup failed
    BY <1>4, <2>2 DEF Inv, QueueInv, FilesInv, Decided
  <2>4. Queued(e)
    BY <1>4, <2>3 DEF Inv, QueueInv, FilesInv, Conserved, Queued
  <2> QED BY <2>4, PlaceOf DEF Inv
<1>8. LedgerDecision[e] = "publish"
  <2>1. JournalDecision(b, e) = "publish"
    BY <1>4 DEF JournalDecision, Open
  <2> QED BY <1>4, <2>1, DecisionOf DEF Inv
<1>9. LedgerDecision'[e] = "withdrawn"
  <2>1. answer[b][e] = "publish" /\ answer'[b] = answer[b]
    <3>1. answer[b][e] = "publish"
      BY <1>4 DEF Inv, Accepted
    <3> QED BY <3>1, AnswerStays DEF Inv
  <2>2. journal'[b][e] = "rejected"
    BY <1>5 DEF Inv, TypeOK
  <2>3. JournalDecision(b, e)' = "withdrawn"
    BY <2>1, <2>2 DEF JournalDecision
  <2>4. \A c \in packed' : e \in c => c = b
    BY <1>4, <1>5 DEF Inv, LedgerInv
  <2>5. (CHOOSE c \in packed' : e \in c) = b
    BY <1>4, <1>5, <2>4
  <2> QED BY <1>4, <1>5, <2>3, <2>5 DEF LedgerDecision
<1>10. ASSUME NEW x \in Evidence \ {e} PROVE LedgerDecision'[x] = LedgerDecision[x]
  <2>1. CASE \E c \in packed : x \in c
    <3>1. PICK c \in packed : c = CHOOSE y \in packed : x \in y
      BY <2>1
    <3>2. x \in c
      BY <2>1, <3>1
    <3>3. c \in Batch
      BY DEF Inv, TypeOK
    <3>4. journal'[c][x] = journal[c][x]
      BY <1>5, <3>3 DEF Inv, TypeOK
    <3>5. JournalDecision(c, x)' = JournalDecision(c, x)
      BY <3>2, <3>4, AnswerKeeps DEF Inv
    <3>6. (CHOOSE y \in packed' : x \in y) = c
      BY <1>5, <3>1
    <3> QED BY <1>5, <2>1, <3>1, <3>5, <3>6 DEF LedgerDecision
  <2>2. CASE \A c \in packed : x \notin c
    BY <1>5, <2>2 DEF LedgerDecision
  <2> QED BY <2>1, <2>2
<1>11. LedgerDecision' = [LedgerDecision EXCEPT ![e] = "withdrawn"]
  <2>1. /\ LedgerDecision = [x \in Evidence |-> LedgerDecision[x]]
        /\ LedgerDecision' = [x \in Evidence |-> LedgerDecision'[x]]
    BY DEF LedgerDecision
  <2> QED BY <1>9, <1>10, <2>1
<1>12. Ledger!Withdraw(e)
  BY <1>5, <1>6, <1>7, <1>8, <1>11 DEF Ledger!Withdraw
<1> QED BY <1>12 DEF Ledger!Next

\* Data accepts an Event whose publication was decided, if only by a run that
\* has lost its lease since, or whose candidate was refused since.
LEMMA PostStep ==
  ASSUME Inv, [Next]_vars, NEW w \in Worker, Post(w) \/ PostUnknown(w)
  PROVE  Ledger!Next
<1>1. PICK b \in Batch : b = job[w].batch
  BY JobFields DEF Inv
<1>2. job[w].pc = "posting" /\ job[w].pc \in InHand
  BY DEF Post, PostUnknown, InHand
<1>3. PICK e \in Evidence : e = job[w].candidate
  BY <1>2, CandidateInHand DEF Inv
<1>4. b \in packed /\ e \in b /\ answer[b][e] = "publish"
  BY <1>1, <1>2, <1>3 DEF Inv, QueueInv, Views, ViewOf, Accepted
<1>5. UNCHANGED <<queue, packed, journal>> /\ posted' = posted \cup {e}
  BY <1>3 DEF Post, PostUnknown, frozen
<1>6. LedgerDecision[e] \in {"publish", "withdrawn"}
  <2>1. JournalDecision(b, e) \in {"publish", "withdrawn"}
    BY <1>4 DEF Inv, LedgerInv, JournalDecision
  <2> QED BY <1>4, <2>1, DecisionOf DEF Inv
<1>7. UNCHANGED LedgerPlace
  BY <1>5 DEF queue, LedgerPlace
<1>8. UNCHANGED LedgerDecision
  BY <1>5, QuietDecisions DEF Inv
<1>9. Ledger!Record(e)
  BY <1>5, <1>6, <1>7, <1>8 DEF Ledger!Record
<1> QED BY <1>9 DEF Ledger!Next

\* The end of a batch, complete or cut short, settles what is still queued of
\* the part it gets to; what an earlier attempt settled is where it belongs.
LEMMA SettleStep ==
  ASSUME Inv, [Next]_vars, NEW w \in Worker, Complete(w) \/ CompleteCut(w)
  PROVE  Ledger!Next
<1>1. PICK b \in Batch : b = job[w].batch
  BY JobFields DEF Inv
<1>2. Completing(w) /\ UNCHANGED <<packed, journal, posted>>
  BY DEF Complete, CompleteCut
<1>3. b \in dirs /\ b \in packed /\ AllSettled(b) /\ Finalizable(b)
  BY <1>1, <1>2 DEF Completing, Owned, Inv, QueueInv, Views, ViewOf
<1>4. PICK T \in SUBSET b : Finalize(b, T)
  BY <1>1 DEF Complete, CompleteCut, Prefixes
<1>5. /\ processing' = processing \ {<<b, e>> : e \in T}
      /\ completed' = completed \cup (T \ FailedEvidence(b))
      /\ failed' = failed \cup (T \cap FailedEvidence(b))
      /\ pending' = pending
  BY <1>4 DEF Finalize, InProcessing
<1>6. QueueInv' /\ TypeOK'
  BY QueueStep, TypeStep DEF Inv
<1>7. b \subseteq Evidence
  BY DEF Batch
<1>8. PICK S \in SUBSET Evidence : S = {e \in T : <<b, e>> \in processing}
  BY <1>7
<1>9. UNCHANGED LedgerDecision
  BY <1>2, QuietDecisions DEF Inv
<1>10. ASSUME NEW e \in T PROVE /\ e \in FailedEvidence(b) => e \in failed' /\ e \notin completed'
                                /\ e \notin FailedEvidence(b) => e \in completed' /\ e \notin failed'
  BY <1>5, <1>6 DEF QueueInv, FilesInv, Disjoint
<1>11. ASSUME NEW e \in S
       PROVE  /\ LedgerPlace[e] = "queued"
              /\ LedgerDecision[e] # "none"
              /\ LedgerDecision[e] = "publish" => e \in posted
              /\ LedgerPlace'[e] = IF LedgerDecision[e] \in {"publish", "ignore"}
                                   THEN "completed" ELSE "failed"
  <2>1. e \in T /\ e \in b /\ e \in Evidence /\ <<b, e>> \in processing
    BY <1>7, <1>8
  <2>2. LedgerPlace[e] = "queued"
    BY <2>1, PlaceOf DEF Inv, Queued
  <2>3. LedgerDecision[e] = JournalDecision(b, e)
    BY <1>3, <2>1, DecisionOf DEF Inv
  <2>4. journal[b][e] \in Settled
    BY <1>3, <2>1 DEF AllSettled
  <2>5. e \in FailedEvidence(b) <=> journal[b][e] = "rejected"
    BY <2>1 DEF FailedEvidence
  <2>6. /\ e \in failed' /\ e \notin completed' => LedgerPlace'[e] = "failed"
        /\ e \in completed' /\ e \notin failed' => LedgerPlace'[e] = "completed"
    <3>1. e \in completed' \cup failed' => e \notin pending'
      BY <1>6 DEF QueueInv, FilesInv, Disjoint
    <3>2. e \in completed' \cup failed' => \A c \in Batch : <<c, e>> \notin processing'
      <4>1. ASSUME NEW c \in Batch, <<c, e>> \in processing', e \in completed' \cup failed'
            PROVE  FALSE
        <5>1. <<c, e>>[2] \notin completed' \cup failed'
          BY <1>6, <4>1 DEF QueueInv, FilesInv, Disjoint
        <5> QED BY <4>1, <5>1
      <4> QED BY <4>1
    <3> QED BY <2>1, <3>1, <3>2 DEF LedgerPlace
  <2>7. JournalDecision(b, e) = "publish" => e \in posted
    BY <2>1, <2>4 DEF JournalDecision, Settled, Inv, Recorded
  <2>8. /\ JournalDecision(b, e) # "none"
        /\ JournalDecision(b, e) \in {"publish", "ignore"} <=> journal[b][e] # "rejected"
    BY DEF JournalDecision
  <2> QED BY <1>10, <2>1, <2>2, <2>3, <2>5, <2>6, <2>7, <2>8
<1>12. ASSUME NEW e \in Evidence \ S PROVE LedgerPlace'[e] = LedgerPlace[e]
  <2>1. (e \in completed' <=> e \in completed) /\ (e \in failed' <=> e \in failed)
    <3>1. CASE e \in T
      <4>1. e \in IF e \in FailedEvidence(b) THEN failed ELSE completed
        BY <1>3, <1>8, <3>1 DEF Finalizable
      <4> QED BY <1>5, <1>10, <3>1, <4>1
    <3>2. CASE e \notin T
      BY <1>5, <3>2
    <3> QED BY <3>1, <3>2
  <2>2. \A c \in Batch : <<c, e>> \in processing' <=> <<c, e>> \in processing
    <3> TAKE c \in Batch
    <3>1. \A x \in T : <<b, x>> = <<c, e>> => <<c, e>> \notin processing
      BY <1>8
    <3> QED BY <1>5, <3>1
  <2>3. Queued(e)' <=> Queued(e)
    BY <1>5, <2>2 DEF Queued
  <2>4. LedgerPlace[e] = CASE e \in completed -> "completed" [] e \in failed -> "failed"
                           [] Queued(e) -> "queued" [] OTHER -> "absent"
    BY DEF LedgerPlace, Queued
  <2>5. LedgerPlace'[e] = CASE e \in completed' -> "completed" [] e \in failed' -> "failed"
                            [] Queued(e)' -> "queued" [] OTHER -> "absent"
    BY DEF LedgerPlace, Queued
  <2> QED BY <2>1, <2>3, <2>4, <2>5
<1>13. LedgerPlace' = [e \in Evidence |->
         IF e \notin S THEN LedgerPlace[e]
         ELSE IF LedgerDecision[e] \in {"publish", "ignore"} THEN "completed" ELSE "failed"]
  <2>1. LedgerPlace' = [e \in Evidence |-> LedgerPlace'[e]]
    BY DEF LedgerPlace
  <2> QED BY <1>8, <1>11, <1>12, <2>1
<1>14. Ledger!Settle(S)
  BY <1>2, <1>9, <1>11, <1>13 DEF Ledger!Settle
<1> QED BY <1>8, <1>14 DEF Ledger!Next

-----------------------------------------------------------------------------
(* The theorems.                                                           *)

\* What no ledger sees: pins, Agent answers, projections, leases and failures.
LEMMA HiddenStep ==
  ASSUME Inv, [Next]_vars, NEW w \in Worker,
         \/ Pin(w) \/ PinRefused(w) \/ OverBudget(w) \/ AgentAnswers(w) \/ AgentFails(w)
         \/ FreezeAnswer(w)
         \/ FreezeRefused(w) \/ Project(w) \/ SaveRefused(w) \/ PublicationFails(w) \/ Crash(w)
  PROVE  UNCHANGED Ledger!vars
<1>1. UNCHANGED <<queue, packed, journal, posted>>
  BY DEF Pin, PinRefused, OverBudget, AgentAnswers, AgentFails, FreezeAnswer,
         FreezeRefused, Project, SaveRefused, PublicationFails, Crash, frozen
<1> QED BY <1>1, QuietStep

LEMMA LedgerInit == Init => Ledger!Init
<1> SUFFICES ASSUME Init PROVE Ledger!Init
  OBVIOUS
<1>1. /\ pending = {} /\ processing = {} /\ completed = {} /\ failed = {}
      /\ packed = {} /\ posted = {}
  BY DEF Init
<1>2. LedgerPlace = [e \in Evidence |-> "absent"]
  BY <1>1 DEF LedgerPlace
<1>3. LedgerDecision = [e \in Evidence |-> "none"]
  BY <1>1 DEF LedgerDecision
<1> QED BY <1>1, <1>2, <1>3 DEF Ledger!Init

LEMMA LedgerStep == Inv /\ [Next]_vars => [Ledger!Next]_(Ledger!vars)
<1> SUFFICES ASSUME Inv, [Next]_vars PROVE Ledger!Next \/ UNCHANGED Ledger!vars
  OBVIOUS
<1>1. ASSUME NEW e \in Evidence, Enqueue(e) PROVE Ledger!Next
  BY <1>1, EnqueueStep DEF Ledger!Next
<1>2. ASSUME NEW w \in Worker, Run(w) PROVE Ledger!Next \/ UNCHANGED Ledger!vars
  BY <1>2, ClaimStep, CompileStep, SaveStep, PostStep, SettleStep, HiddenStep DEF Run
<1>3. ASSUME NEW w \in Worker, Misfortune(w) PROVE Ledger!Next \/ UNCHANGED Ledger!vars
  BY <1>3, ClaimStep, CompileCutStep, RejectStep, PostStep, SettleStep, HiddenStep
  DEF Misfortune
<1>4. ASSUME \/ \E b \in Batch : ExpireOrphan(b) \/ ExpireHeld(b)
             \/ \E p \in Pins : Redeploy(p)
             \/ UNCHANGED vars
      PROVE  UNCHANGED Ledger!vars
  <2>1. UNCHANGED <<queue, packed, journal, posted>>
    BY <1>4 DEF ExpireOrphan, ExpireHeld, Redeploy, vars, frozen
  <2> QED BY <2>1, QuietStep
<1> QED BY <1>1, <1>2, <1>3, <1>4 DEF Next

\* The invariant of every state of the batch workflow: decided batches are
\* disjoint, at work or settled, and no journal settles against its answer.
THEOREM BatchInvariant == Spec => []Inv
<1>1. Init => Accepted /\ Recorded /\ LedgerInv
  BY AcceptedInit, RecordedInit, LedgerInvInit
<1>2. /\ TypeOK /\ QueueInv /\ Accepted /\ Recorded /\ LedgerInv /\ [Next]_vars
         => Accepted' /\ Recorded' /\ LedgerInv'
  BY AcceptedStep, RecordedStep, LedgerInvStep
<1> QED BY <1>1, <1>2, TypeCorrect, QueueCorrect, PTL DEF Spec, Inv

\* Seen from outside, the filesystem queue, its leases, journals, retries and
\* crashes are one ledger: an Evidence is queued once, decided once, recorded
\* only as decided and settled once, as decided.
THEOREM QueueImplementsLedger == Spec => ImplementsLedger
BY LedgerInit, LedgerStep, BatchInvariant, PTL DEF Spec, ImplementsLedger, Ledger!Spec

=============================================================================
