--------------------- MODULE InvestmentPublicationProofs ---------------------
(***************************************************************************)
(* Theorems about InvestmentPublication for any runs, executions, analyses,*)
(* wordings and any bound on the attempts.                                 *)
(***************************************************************************)
EXTENDS InvestmentPublication, TLAPS

-----------------------------------------------------------------------------
(* Type correctness.                                                       *)

ExecType ==
  [run : Run \cup {NoRun}, analysis : Analyses \cup {NoArtifact},
   pc : {"idle", "conclude", "generate", "write", "publish", "await", "done"},
   report : Reports \cup {NoArtifact}, attempt : 0 .. MaxAttempts,
   outcome : {"none", "SKIPPED", "PUBLISHED", "REPLAYED", "conflict", "rejected",
              "unavailable", "failed", "dead"}]

Outcome == {"none", "SKIPPED", "PUBLISHED", "REPLAYED", "conflict", "rejected",
            "unavailable", "failed", "dead"}

LEMMA NotReport == NoArtifact \notin Reports
BY NoArtifactAssumption DEF Reports

LEMMA IdleType == Idle \in ExecType
BY AttemptsAssumption DEF Idle, ExecType

LEMMA ExecFields ==
  ASSUME TypeOK, NEW w \in Execution
  PROVE  /\ exec[w] \in ExecType
         /\ exec[w].pc # "idle" => exec[w].run \in Run /\ exec[w].analysis \in Analyses
BY DEF TypeOK, ExecType

\* The part of TypeOK that is about executions.
ExecsType ==
  /\ exec \in [Execution -> ExecType]
  /\ \A w \in Execution : exec[w].pc # "idle" => exec[w].run \in Run /\ exec[w].analysis \in Analyses

LEMMA EndType ==
  ASSUME ExecsType, NEW w \in Execution, NEW o \in Outcome, exec[w].pc # "idle", End(w, o)
  PROVE  ExecsType'
<1>1. [exec[w] EXCEPT !.pc = "done", !.outcome = o] \in ExecType
  BY DEF ExecsType, ExecType, Outcome
<1>2. exec' = [exec EXCEPT ![w] = [exec[w] EXCEPT !.pc = "done", !.outcome = o]]
  BY DEF End
<1> QED BY <1>1, <1>2 DEF ExecsType, ExecType

LEMMA GotoType ==
  ASSUME ExecsType, NEW w \in Execution, exec[w].pc # "idle",
         NEW pc \in {"generate", "write", "publish", "await"}, Goto(w, pc)
  PROVE  ExecsType'
<1>1. [exec[w] EXCEPT !.pc = pc] \in ExecType
  BY DEF ExecsType, ExecType
<1>2. exec' = [exec EXCEPT ![w] = [exec[w] EXCEPT !.pc = pc]]
  BY DEF Goto
<1> QED BY <1>1, <1>2 DEF ExecsType, ExecType

LEMMA TypeParts ==
  TypeOK <=> /\ ExecsType
             /\ conclusions \in [Run -> Analyses \cup {NoArtifact}]
             /\ reports \in [Run -> Reports \cup {NoArtifact}]
             /\ records \in [Run -> Reports \cup {NoArtifact}]
             /\ requests \subseteq
                  [from : Execution, run : Run, attempt : 1 .. MaxAttempts, report : Reports]
BY DEF TypeOK, ExecsType, ExecType

\* A request is sent for one of the bounded attempts, with a report.
LEMMA SendType ==
  ASSUME TypeOK, NEW w \in Execution, exec[w].pc # "idle",
         NEW n \in 1 .. MaxAttempts, NEW rep \in Reports, Send(w, n, rep)
  PROVE  /\ ExecsType'
         /\ requests' \subseteq
              [from : Execution, run : Run, attempt : 1 .. MaxAttempts, report : Reports]
<1>1. exec[w] \in ExecType /\ exec[w].run \in Run
  BY ExecFields
<1>2. ExecsType'
  <2>1. [exec[w] EXCEPT !.pc = "await", !.attempt = n, !.report = rep] \in ExecType
    <3>1. n \in 0 .. MaxAttempts
      BY AttemptsAssumption
    <3> QED BY <1>1, <3>1 DEF ExecType
  <2>2. exec' = [exec EXCEPT ![w] = [exec[w] EXCEPT !.pc = "await", !.attempt = n, !.report = rep]]
    BY DEF Send
  <2> QED BY <2>1, <2>2, TypeParts DEF ExecsType, ExecType
<1>3. Request(w, n, rep) \in
        [from : Execution, run : Run, attempt : 1 .. MaxAttempts, report : Reports]
  BY <1>1 DEF Request
<1> QED BY <1>2, <1>3, TypeParts DEF Send

LEMMA CreateType ==
  ASSUME NEW S, NEW file \in [Run -> S \cup {NoArtifact}], NEW r \in Run, NEW v \in S
  PROVE  CreateOnce(file, r, v) \in [Run -> S \cup {NoArtifact}]
BY DEF CreateOnce

LEMMA TypeInit == Init => TypeOK
<1> SUFFICES ASSUME Init PROVE TypeOK
  OBVIOUS
<1>1. ExecsType
  BY IdleType DEF Init, ExecsType, Idle
<1> QED BY <1>1, TypeParts DEF Init

\* Every step keeps the types, given what the invariant says of reports in hand.
LEMMA TypeStep == TypeOK /\ PublicationInv /\ [Next]_vars => TypeOK'
<1> SUFFICES ASSUME TypeOK, PublicationInv, [Next]_vars PROVE TypeOK'
  OBVIOUS
<1> USE DEF Outcome
<1>0. ExecsType
  BY TypeParts
<1>a. ASSUME ExecsType', UNCHANGED <<conclusions, reports, records>>,
             requests' \subseteq
               [from : Execution, run : Run, attempt : 1 .. MaxAttempts, report : Reports]
      PROVE  TypeOK'
  BY <1>a DEF TypeOK, ExecsType, ExecType
<1>b. ASSUME NEW w \in Execution, NEW o \in Outcome, exec[w].pc # "idle", End(w, o),
             UNCHANGED <<conclusions, reports, records>>, requests' \subseteq requests
      PROVE  TypeOK'
  BY <1>b, <1>a, <1>0, EndType, TypeParts
<1>c. ASSUME NEW w \in Execution, exec[w].pc # "idle", NEW n \in 1 .. MaxAttempts,
             NEW rep \in Reports, Send(w, n, rep), UNCHANGED <<conclusions, reports, records>>
      PROVE  TypeOK'
  BY <1>c, <1>a, SendType
<1>1. ASSUME NEW w \in Execution, NEW r \in Run, NEW a \in Analyses, Start(w, r, a) PROVE TypeOK'
  <2>1. [Idle EXCEPT !.run = r, !.pc = "conclude", !.analysis = a] \in ExecType
    BY IdleType DEF Idle, ExecType
  <2>2. ExecsType'
    BY <1>1, <2>1, <1>0 DEF Start, ExecsType, ExecType, Idle
  <2> QED BY <1>1, <2>2, <1>a, TypeParts DEF Start
<1>2. ASSUME NEW w \in Execution, Conclude(w) PROVE TypeOK'
  <2>1. exec[w].run \in Run /\ exec[w].analysis \in Analyses /\ exec[w].pc # "idle"
    BY <1>2, ExecFields DEF Conclude, At
  <2>2. conclusions' \in [Run -> Analyses \cup {NoArtifact}]
    BY <1>2, <2>1, CreateType, TypeParts DEF Conclude
  <2>3. ExecsType'
    BY <1>2, <2>1, <1>0, EndType, GotoType DEF Conclude
  <2> QED BY <1>2, <2>2, <2>3 DEF Conclude, TypeOK, ExecsType, ExecType
<1>3. ASSUME NEW w \in Execution, Generate(w) PROVE TypeOK'
  <2>1. exec[w] \in ExecType /\ exec[w].analysis \in Analyses /\ exec[w].pc # "idle"
    BY <1>3, ExecFields DEF Generate, At
  <2>2. UNCHANGED <<conclusions, reports, records, requests>>
    BY <1>3 DEF Generate
  <2>3. CASE End(w, "SKIPPED")
    BY <2>3, <2>1, <2>2, <1>b
  <2>4. CASE ~End(w, "SKIPPED")
    <3>1. PICK p \in Prose :
            exec' = [exec EXCEPT ![w].pc = "write", ![w].report = ReportOf(exec[w].analysis, p)]
      BY <1>3, <2>4 DEF Generate
    <3>2. ReportOf(exec[w].analysis, p) \in Reports
      BY <2>1 DEF ReportOf, Reports
    <3>3. [exec[w] EXCEPT !.pc = "write", !.report = ReportOf(exec[w].analysis, p)] \in ExecType
      BY <2>1, <3>2 DEF ExecType
    <3>4. exec' = [exec EXCEPT ![w] =
                     [exec[w] EXCEPT !.pc = "write", !.report = ReportOf(exec[w].analysis, p)]]
      BY <3>1
    <3>5. ExecsType'
      BY <2>1, <3>3, <3>4, <1>0 DEF ExecsType, ExecType
    <3> QED BY <3>5, <2>2, <1>a, TypeParts
  <2> QED BY <2>3, <2>4
<1>4. ASSUME NEW w \in Execution, WriteReport(w) PROVE TypeOK'
  <2>1. exec[w].run \in Run /\ exec[w].pc # "idle" /\ exec[w].analysis \in Analyses
    BY <1>4, ExecFields DEF WriteReport, At
  <2>2. exec[w].report \in Reports
    <3>1. \E p \in Prose : exec[w].report = ReportOf(exec[w].analysis, p)
      BY <1>4 DEF WriteReport, At, PublicationInv, InHand
    <3> QED BY <2>1, <3>1 DEF ReportOf, Reports
  <2>3. reports' \in [Run -> Reports \cup {NoArtifact}]
    BY <1>4, <2>1, <2>2, CreateType, TypeParts DEF WriteReport
  <2>4. ExecsType'
    BY <1>4, <2>1, <1>0, EndType, GotoType DEF WriteReport
  <2> QED BY <1>4, <2>3, <2>4 DEF WriteReport, TypeOK, ExecsType, ExecType
<1>5. ASSUME NEW w \in Execution, Publish(w) PROVE TypeOK'
  <2>1. exec[w].run \in Run /\ exec[w].pc # "idle"
    BY <1>5, ExecFields DEF Publish, At
  <2>2. reports[exec[w].run] \in Reports
    BY <1>5, <2>1, TypeParts DEF Publish, At, PublicationInv, InHand
  <2> QED BY <1>5, <2>1, <2>2, <1>c, AttemptsAssumption DEF Publish
<1>6. ASSUME NEW w \in Execution, Timeout(w) PROVE TypeOK'
  <2>1. exec[w] \in ExecType /\ exec[w].run \in Run /\ exec[w].pc # "idle"
    BY <1>6, ExecFields DEF Timeout, At
  <2>2. exec[w].report \in Reports
    BY <1>6, <2>1, TypeParts DEF Timeout, At, PublicationInv, InHand
  <2>3. CASE exec[w].attempt < MaxAttempts
    <3>1. exec[w].attempt + 1 \in 1 .. MaxAttempts
      BY <2>1, <2>3, AttemptsAssumption DEF ExecType
    <3> QED BY <1>6, <2>1, <2>2, <2>3, <3>1, <1>c DEF Timeout, TryAgain
  <2>4. CASE ~(exec[w].attempt < MaxAttempts)
    BY <1>6, <2>1, <2>4, <1>b DEF Timeout, TryAgain
  <2> QED BY <2>3, <2>4
<1>7. ASSUME NEW w \in Execution, TotalTimeout(w) \/ Die(w) PROVE TypeOK'
  <2>1. exec[w].pc # "idle"
    BY <1>7 DEF TotalTimeout, Die, At
  <2> QED BY <1>7, <2>1, <1>b DEF TotalTimeout, Die
<1>8. ASSUME NEW m \in requests, Serve(m) PROVE TypeOK'
  <2>1. /\ m.from \in Execution /\ m.run \in Run /\ m.report \in Reports
        /\ exec[m.from].pc # "idle"
    BY <1>8, TypeParts DEF PublicationInv, InTransit
  <2>2. records' \in [Run -> Reports \cup {NoArtifact}]
    BY <1>8, <2>1, CreateType, TypeParts DEF Serve
  <2>3. ExecsType'
    <3>1. CASE UNCHANGED exec
      BY <3>1, <1>0 DEF ExecsType
    <3>2. CASE \E o \in Outcome : End(m.from, o)
      BY <3>2, <2>1, <1>0, EndType
    <3> QED BY <1>8, <3>1, <3>2 DEF Serve, Answered
  <2> QED BY <1>8, <2>2, <2>3 DEF Serve, TypeOK, ExecsType, ExecType
<1>9. ASSUME NEW m \in requests, Refuse(m) PROVE TypeOK'
  <2>1. /\ m.from \in Execution /\ m.run \in Run /\ m.report \in Reports
        /\ exec[m.from] \in ExecType /\ exec[m.from].pc # "idle" /\ exec[m.from].run \in Run
        /\ exec[m.from].attempt = m.attempt /\ m.attempt \in 1 .. MaxAttempts
    BY <1>9, TypeParts, ExecFields DEF Refuse, Waiting, At
  <2>2. CASE exec[m.from].attempt < MaxAttempts
             /\ exec' = [exec EXCEPT ![m.from].attempt = @ + 1]
             /\ requests' = (requests \ {m}) \cup {Request(m.from, m.attempt + 1, m.report)}
    <3>1. m.attempt + 1 \in 1 .. MaxAttempts
      BY <2>1, <2>2, AttemptsAssumption
    <3>2. [exec[m.from] EXCEPT !.attempt = m.attempt + 1] \in ExecType
      BY <2>1, <3>1, AttemptsAssumption DEF ExecType
    <3>3. exec' = [exec EXCEPT ![m.from] = [exec[m.from] EXCEPT !.attempt = m.attempt + 1]]
      BY <2>1, <2>2
    <3>4. ExecsType'
      BY <3>2, <3>3, <1>0 DEF ExecsType, ExecType
    <3>5. Request(m.from, m.attempt + 1, m.report) \in
            [from : Execution, run : Run, attempt : 1 .. MaxAttempts, report : Reports]
      BY <2>1, <3>1 DEF Request
    <3> QED BY <1>9, <2>2, <3>4, <3>5, <1>a, TypeParts DEF Refuse
  <2>3. CASE \E o \in Outcome : End(m.from, o) /\ requests' = requests \ {m}
    BY <1>9, <2>1, <2>3, <1>b DEF Refuse
  <2> QED BY <1>9, <2>2, <2>3 DEF Refuse
<1>10. ASSUME NEW m \in requests, Lose(m) PROVE TypeOK'
  <2>1. ExecsType'
    BY <1>10, <1>0 DEF Lose, ExecsType
  <2> QED BY <1>10, <2>1, <1>a, TypeParts DEF Lose
<1>11. CASE UNCHANGED vars
  BY <1>11 DEF vars, TypeOK
<1> QED BY <1>1, <1>2, <1>3, <1>4, <1>5, <1>6, <1>7, <1>8, <1>9, <1>10, <1>11 DEF Next

-----------------------------------------------------------------------------
(* The inductive invariant.                                                *)

LEMMA AcceptedIsAnalysis == Accepted \subseteq Analyses /\ NoArtifact \notin Accepted
BY AnalysesAssumption, NoArtifactAssumption

\* What is on file stays: an artifact is written where there is none.
LEMMA Kept ==
  ASSUME NEW file, NEW r \in DOMAIN file, NEW s \in DOMAIN file, NEW v, file[s] # NoArtifact
  PROVE  CreateOnce(file, r, v)[s] = file[s]
BY DEF CreateOnce

LEMMA Written ==
  ASSUME NEW file, NEW r \in DOMAIN file, NEW v, Agrees(file, r, v)
  PROVE  CreateOnce(file, r, v)[r] = v
BY DEF CreateOnce, Agrees

Grows(old, new) == \A r \in Run : old[r] # NoArtifact => new[r] = old[r]

LEMMA Unchanged == ASSUME NEW file PROVE Grows(file, file)
BY DEF Grows

LEMMA CreateGrows ==
  ASSUME NEW S, NEW file \in [Run -> S], NEW r \in Run, NEW v
  PROVE  Grows(file, CreateOnce(file, r, v))
BY Kept DEF Grows

\* The part of the step that is the same for every action: one execution moves,
\* files only grow, and the others see what they saw.
LEMMA MoveInv ==
  ASSUME TypeOK, PublicationInv, NEW w \in Execution, exec[w].pc # "idle",
         exec'[w].pc # "idle", exec'[w].run = exec[w].run,
         \A v \in Execution : v # w => exec'[v] = exec[v],
         exec'[w].outcome = "PUBLISHED" => records[exec[w].run] = NoArtifact,
         Grows(conclusions, conclusions'), Grows(reports, reports'), Grows(records, records'),
         InHand(w)', \A r \in Run : OnFile(r)', \A m \in requests' \ requests : InTransit(m)'
  PROVE  PublicationInv'
<1>1. ASSUME NEW v \in Execution, v # w PROVE InHand(v)'
  <2>1. InHand(v) /\ exec'[v] = exec[v]
    BY <1>1 DEF PublicationInv
  <2>2. exec[v].pc \in {"generate", "write"} => conclusions'[exec[v].run] = exec[v].analysis
    BY <2>1, ExecFields, NoArtifactAssumption DEF InHand, Grows
  <2>3. exec[v].outcome = "SKIPPED" => conclusions'[exec[v].run] = conclusions[exec[v].run]
    BY <2>1, ExecFields DEF InHand, Grows
  <2>4. exec[v].pc \in {"publish", "await"} => reports'[exec[v].run] = reports[exec[v].run]
    BY <2>1, ExecFields DEF InHand, Grows
  <2>5. exec[v].outcome \in {"PUBLISHED", "REPLAYED"} =>
          records'[exec[v].run] = records[exec[v].run]
    BY <2>1, ExecFields DEF InHand, Grows
  <2> QED BY <2>1, <2>2, <2>3, <2>4, <2>5 DEF InHand
<1>2. ASSUME NEW m \in requests PROVE InTransit(m)'
  <2>1. /\ InTransit(m) /\ m.from \in Execution /\ m.run \in Run /\ m.report \in Reports
        /\ exec'[m.from].run = exec[m.from].run /\ exec'[m.from].pc # "idle"
    BY TypeParts DEF PublicationInv, InTransit
  <2>2. reports'[m.run] = reports[m.run]
    BY <2>1, NotReport DEF InTransit, Grows
  <2> QED BY <2>1, <2>2 DEF InTransit
<1>3. OnePublisher'
  <2> SUFFICES ASSUME NEW u \in Execution, NEW v \in Execution,
                      exec'[u].outcome = "PUBLISHED", exec'[v].outcome = "PUBLISHED",
                      exec'[u].run = exec'[v].run, u # v
               PROVE  FALSE
    BY DEF OnePublisher
  <2>1. \A x \in Execution : exec[x].outcome = "PUBLISHED" => records[exec[x].run] # NoArtifact
    BY DEF PublicationInv, InHand
  <2>2. CASE u # w /\ v # w
    BY <2>2 DEF PublicationInv, OnePublisher
  <2>3. CASE u = w \/ v = w
    BY <2>1, <2>3
  <2> QED BY <2>2, <2>3
<1> QED BY <1>1, <1>2, <1>3 DEF PublicationInv

\* An execution that ends without an outcome to account for.
LEMMA EndInv ==
  ASSUME TypeOK, PublicationInv, NEW w \in Execution,
         NEW o \in {"rejected", "unavailable", "failed", "dead"},
         exec[w].pc # "idle", End(w, o),
         Grows(conclusions, conclusions'), Grows(reports, reports'), Grows(records, records'),
         \A r \in Run : OnFile(r)', requests' \subseteq requests
  PROVE  PublicationInv'
<1>1. exec' = [exec EXCEPT ![w] = [exec[w] EXCEPT !.pc = "done", !.outcome = o]]
  BY DEF End
<1>2. exec'[w].pc = "done" /\ exec'[w].outcome = o /\ exec'[w].run = exec[w].run
  BY <1>1, ExecFields, TypeParts DEF ExecsType, ExecType
<1>3. \A v \in Execution : v # w => exec'[v] = exec[v]
  BY <1>1, TypeParts DEF ExecsType
<1>4. InHand(w)'
  BY <1>2 DEF InHand
<1> QED BY <1>2, <1>3, <1>4, MoveInv

LEMMA InvInit == Init => PublicationInv
BY DEF Init, PublicationInv, InHand, OnFile, OnePublisher, Idle

LEMMA InvStart ==
  ASSUME TypeOK, PublicationInv, NEW w \in Execution, NEW r \in Run, NEW a \in Analyses,
         Start(w, r, a)
  PROVE  PublicationInv'
<1>1. exec'[w].pc = "conclude" /\ exec'[w].outcome = "none"
  BY TypeParts DEF ExecsType, Start, Idle
<1>2. \A v \in Execution : v # w => exec'[v] = exec[v]
  BY TypeParts DEF ExecsType, Start
<1>3. \A v \in Execution : InHand(v)'
  BY <1>1, <1>2 DEF PublicationInv, InHand, Start
<1>4. \A m \in requests' : InTransit(m)'
  BY <1>2, TypeParts DEF PublicationInv, InTransit, Start, At
<1>5. OnePublisher'
  BY <1>1, <1>2 DEF PublicationInv, OnePublisher
<1> QED BY <1>3, <1>4, <1>5 DEF PublicationInv, OnFile, Start

LEMMA InvConclude ==
  ASSUME TypeOK, PublicationInv, NEW w \in Execution, Conclude(w)
  PROVE  PublicationInv'
<1> DEFINE r == exec[w].run
           a == exec[w].analysis
<1>1. /\ exec[w] \in ExecType /\ exec[w].pc = "conclude" /\ exec[w].outcome = "none"
      /\ r \in Run /\ a \in Analyses
  BY ExecFields DEF Conclude, At, PublicationInv, InHand
<1>2. conclusions \in [Run -> Analyses \cup {NoArtifact}]
  BY TypeParts
<1>3. Grows(conclusions, conclusions') /\ Grows(reports, reports') /\ Grows(records, records')
  BY <1>1, <1>2, CreateGrows, Unchanged DEF Conclude
<1>4. \A s \in Run : OnFile(s)'
  BY <1>3, AcceptedIsAnalysis DEF PublicationInv, OnFile, Conclude, Grows
<1>5. CASE Agrees(conclusions, r, a) /\ Goto(w, "generate")
  <2>1. exec' = [exec EXCEPT ![w] = [exec[w] EXCEPT !.pc = "generate"]]
    BY <1>5 DEF Goto
  <2>2. exec'[w].pc = "generate" /\ exec'[w].run = r /\ exec'[w].analysis = a /\ exec'[w].outcome = "none"
    BY <2>1, <1>1, TypeParts DEF ExecsType, ExecType
  <2>3. \A v \in Execution : v # w => exec'[v] = exec[v]
    BY <2>1, TypeParts DEF ExecsType
  <2>4. conclusions'[r] = a
    BY <1>1, <1>2, <1>5, Written DEF Conclude
  <2>5. InHand(w)'
    BY <2>2, <2>4 DEF InHand
  <2> QED BY <1>1, <1>3, <1>4, <2>2, <2>3, <2>5, MoveInv DEF Conclude
<1>6. CASE End(w, "failed")
  BY <1>1, <1>3, <1>4, <1>6, EndInv DEF Conclude
<1> QED BY <1>5, <1>6 DEF Conclude

LEMMA InvGenerate ==
  ASSUME TypeOK, PublicationInv, NEW w \in Execution, Generate(w)
  PROVE  PublicationInv'
<1>1. /\ exec[w] \in ExecType /\ exec[w].pc = "generate" /\ exec[w].outcome = "none"
      /\ exec[w].run \in Run /\ exec[w].analysis \in Analyses
      /\ conclusions[exec[w].run] = exec[w].analysis
  BY ExecFields DEF Generate, At, PublicationInv, InHand
<1>2. Grows(conclusions, conclusions') /\ Grows(reports, reports') /\ Grows(records, records')
  BY Unchanged DEF Generate
<1>3. \A s \in Run : OnFile(s)'
  BY DEF PublicationInv, OnFile, Generate
<1>4. CASE End(w, "SKIPPED")
  <2>1. exec' = [exec EXCEPT ![w] = [exec[w] EXCEPT !.pc = "done", !.outcome = "SKIPPED"]]
    BY <1>4 DEF End
  <2>2. exec'[w].pc = "done" /\ exec'[w].outcome = "SKIPPED" /\ exec'[w].run = exec[w].run
    BY <2>1, <1>1, TypeParts DEF ExecsType, ExecType
  <2>3. \A v \in Execution : v # w => exec'[v] = exec[v]
    BY <2>1, TypeParts DEF ExecsType
  <2>4. InHand(w)'
    BY <1>1, <1>4, <2>2, NoArtifactAssumption DEF InHand, Generate
  <2> QED BY <1>1, <1>2, <1>3, <2>2, <2>3, <2>4, MoveInv DEF Generate
<1>5. CASE ~End(w, "SKIPPED")
  <2>0. exec[w].analysis \in Accepted
    BY <1>5 DEF Generate
  <2>1. PICK p \in Prose :
          exec' = [exec EXCEPT ![w].pc = "write", ![w].report = ReportOf(exec[w].analysis, p)]
    BY <1>5 DEF Generate
  <2>2. exec' = [exec EXCEPT ![w] =
                   [exec[w] EXCEPT !.pc = "write", !.report = ReportOf(exec[w].analysis, p)]]
    BY <2>1
  <2>3. /\ exec'[w].pc = "write" /\ exec'[w].run = exec[w].run /\ exec'[w].outcome = "none"
        /\ exec'[w].analysis = exec[w].analysis
        /\ exec'[w].report = ReportOf(exec[w].analysis, p)
    BY <2>2, <1>1, TypeParts DEF ExecsType, ExecType
  <2>4. \A v \in Execution : v # w => exec'[v] = exec[v]
    BY <2>2, TypeParts DEF ExecsType
  <2>5. InHand(w)'
    BY <1>1, <2>0, <2>3 DEF InHand, Generate
  <2> QED BY <1>1, <1>2, <1>3, <2>3, <2>4, <2>5, MoveInv DEF Generate
<1> QED BY <1>4, <1>5

LEMMA InvWriteReport ==
  ASSUME TypeOK, PublicationInv, NEW w \in Execution, WriteReport(w)
  PROVE  PublicationInv'
<1> DEFINE r == exec[w].run
           rep == exec[w].report
<1>1. /\ exec[w] \in ExecType /\ exec[w].pc = "write" /\ exec[w].outcome = "none"
      /\ r \in Run /\ exec[w].analysis \in Accepted /\ conclusions[r] = exec[w].analysis
  BY ExecFields DEF WriteReport, At, PublicationInv, InHand
<1>2. \E p \in Prose : rep = ReportOf(conclusions[r], p)
  BY <1>1 DEF PublicationInv, InHand
<1>3. rep # NoArtifact
  BY <1>1, <1>2, NotReport, AcceptedIsAnalysis DEF ReportOf, Reports
<1>4. reports \in [Run -> Reports \cup {NoArtifact}]
  BY TypeParts
<1>5. Grows(conclusions, conclusions') /\ Grows(reports, reports') /\ Grows(records, records')
  BY <1>1, <1>4, CreateGrows, Unchanged DEF WriteReport
<1>6. ASSUME NEW s \in Run PROVE OnFile(s)'
  <2>1. OnFile(s)
    BY DEF PublicationInv
  <2>2. CASE s = r
    <3>1. reports'[r] = IF reports[r] = NoArtifact THEN rep ELSE reports[r]
      BY <1>1, <1>4 DEF WriteReport, CreateOnce
    <3> QED BY <1>1, <1>2, <1>3, <2>1, <2>2, <3>1 DEF OnFile, WriteReport
  <2>3. CASE s # r
    <3>1. reports'[s] = reports[s]
      BY <1>4, <2>3 DEF WriteReport, CreateOnce
    <3> QED BY <2>1, <3>1 DEF OnFile, WriteReport
  <2> QED BY <2>2, <2>3
<1>7. CASE Agrees(reports, r, rep) /\ Goto(w, "publish")
  <2>1. exec' = [exec EXCEPT ![w] = [exec[w] EXCEPT !.pc = "publish"]]
    BY <1>7 DEF Goto
  <2>2. exec'[w].pc = "publish" /\ exec'[w].run = r /\ exec'[w].outcome = "none"
    BY <2>1, <1>1, TypeParts DEF ExecsType, ExecType
  <2>3. \A v \in Execution : v # w => exec'[v] = exec[v]
    BY <2>1, TypeParts DEF ExecsType
  <2>4. reports'[r] = rep
    BY <1>1, <1>4, <1>7, Written DEF WriteReport
  <2>5. InHand(w)'
    BY <1>3, <2>2, <2>4 DEF InHand
  <2> QED BY <1>1, <1>5, <1>6, <2>2, <2>3, <2>5, MoveInv DEF WriteReport
<1>8. CASE End(w, "failed")
  BY <1>1, <1>5, <1>6, <1>8, EndInv DEF WriteReport
<1> QED BY <1>7, <1>8 DEF WriteReport

\* The report of the file is sent, for the first time or again.
LEMMA SendInv ==
  ASSUME TypeOK, PublicationInv, NEW w \in Execution, NEW n,
         exec[w].pc \in {"publish", "await"}, Send(w, n, reports[exec[w].run]),
         UNCHANGED <<conclusions, reports, records>>
  PROVE  PublicationInv'
<1> DEFINE rep == reports[exec[w].run]
<1>1. /\ exec[w] \in ExecType /\ exec[w].outcome = "none" /\ exec[w].run \in Run
      /\ rep # NoArtifact
  BY ExecFields DEF PublicationInv, InHand
<1>2. exec' = [exec EXCEPT ![w] = [exec[w] EXCEPT !.pc = "await", !.attempt = n, !.report = rep]]
  BY DEF Send
<1>3. /\ exec'[w].pc = "await" /\ exec'[w].run = exec[w].run /\ exec'[w].outcome = "none"
      /\ exec'[w].report = rep
  BY <1>2, <1>1, TypeParts DEF ExecsType, ExecType
<1>4. \A v \in Execution : v # w => exec'[v] = exec[v]
  BY <1>2, TypeParts DEF ExecsType
<1>5. InHand(w)'
  BY <1>1, <1>3 DEF InHand
<1>6. ASSUME NEW m \in requests' \ requests PROVE InTransit(m)'
  <2>1. m = Request(w, n, rep)
    BY DEF Send
  <2>2. m.from = w /\ m.run = exec[w].run /\ m.report = rep
    BY <2>1 DEF Request
  <2> QED BY <1>3, <2>2 DEF InTransit
<1>7. \A r \in Run : OnFile(r)'
  BY DEF PublicationInv, OnFile
<1> QED BY <1>1, <1>3, <1>4, <1>5, <1>6, <1>7, Unchanged, MoveInv

LEMMA InvSend ==
  ASSUME TypeOK, PublicationInv, NEW w \in Execution,
         Publish(w) \/ Timeout(w) \/ TotalTimeout(w) \/ Die(w)
  PROVE  PublicationInv'
<1>1. CASE Publish(w)
  <2>1. exec[w].pc \in {"publish", "await"}
    BY <1>1 DEF Publish, At
  <2>2. Send(w, 1, reports[exec[w].run]) /\ UNCHANGED <<conclusions, reports, records>>
    BY <1>1 DEF Publish
  <2> QED BY <2>1, <2>2, SendInv
<1>2. \A r \in Run : UNCHANGED <<conclusions, reports, records>> => OnFile(r)'
  BY DEF PublicationInv, OnFile
<1>3. CASE Timeout(w)
  <2>1. exec[w].pc = "await" /\ exec[w].report = reports[exec[w].run]
    BY <1>3 DEF Timeout, At, PublicationInv, InHand
  <2>2. CASE exec[w].attempt < MaxAttempts
    BY <1>3, <2>1, <2>2, SendInv DEF Timeout, TryAgain
  <2>3. CASE ~(exec[w].attempt < MaxAttempts)
    BY <1>2, <1>3, <2>1, <2>3, Unchanged, EndInv DEF Timeout, TryAgain
  <2> QED BY <2>2, <2>3
<1>4. CASE TotalTimeout(w) \/ Die(w)
  <2>1. exec[w].pc # "idle" /\ (End(w, "unavailable") \/ End(w, "dead"))
    BY <1>4 DEF TotalTimeout, Die, At
  <2>2. UNCHANGED <<conclusions, reports, records, requests>>
    BY <1>4 DEF TotalTimeout, Die
  <2> QED BY <1>2, <2>1, <2>2, Unchanged, EndInv
<1> QED BY <1>1, <1>3, <1>4

\* A request meets no record or the record of its own report: never a conflict.
LEMMA InvServe ==
  ASSUME TypeOK, PublicationInv, NEW m \in requests, Serve(m)
  PROVE  PublicationInv'
<1> DEFINE w == m.from
<1>1. /\ w \in Execution /\ m.run \in Run /\ m.report \in Reports
      /\ exec[w] \in ExecType /\ exec[w].pc # "idle" /\ m.run = exec[w].run
      /\ m.report = reports[m.run]
  BY TypeParts, ExecFields DEF PublicationInv, InTransit
<1>2. m.report # NoArtifact
  BY <1>1, NotReport
<1>3. records \in [Run -> Reports \cup {NoArtifact}]
  BY TypeParts
<1>4. records'[m.run] = m.report /\ Status(m) \in {"created", "replayed"}
  BY <1>1, <1>2, <1>3 DEF Serve, CreateOnce, Status, PublicationInv, OnFile
<1>5. Grows(conclusions, conclusions') /\ Grows(reports, reports') /\ Grows(records, records')
  BY <1>1, <1>3, CreateGrows, Unchanged DEF Serve
<1>6. ASSUME NEW s \in Run PROVE OnFile(s)'
  <2>1. OnFile(s)
    BY DEF PublicationInv
  <2>2. s # m.run => records'[s] = records[s]
    BY <1>3 DEF Serve, CreateOnce
  <2> QED BY <1>1, <1>4, <2>1, <2>2 DEF OnFile, Serve
<1>7. requests' \subseteq requests
  BY DEF Serve
<1>8. CASE UNCHANGED exec
  <2>1. InHand(w) /\ exec[w].outcome = "PUBLISHED" => records[m.run] # NoArtifact
    BY <1>1 DEF InHand
  <2>2. \A v \in Execution : InHand(v)'
    BY <1>5, <1>8, ExecFields DEF PublicationInv, InHand, Grows, Serve
  <2>3. \A n \in requests' : InTransit(n)'
    BY <1>7, <1>8 DEF PublicationInv, InTransit, Serve
  <2> QED BY <1>6, <1>8, <2>2, <2>3 DEF PublicationInv, OnePublisher
<1>9. CASE End(w, "unavailable")
  BY <1>1, <1>5, <1>6, <1>7, <1>9, EndInv
<1>10. CASE Waiting(m) /\ Answered(w, Status(m))
  <2>1. PICK o \in {"PUBLISHED", "REPLAYED"} :
          End(w, o) /\ (o = "PUBLISHED" => records[m.run] = NoArtifact)
    <3>1. CASE records[m.run] = NoArtifact
      BY <1>10, <3>1 DEF Answered, Status
    <3>2. CASE records[m.run] # NoArtifact
      <4>1. Status(m) = "replayed"
        BY <1>4, <3>2 DEF Status
      <4> QED BY <1>10, <4>1 DEF Answered
    <3> QED BY <3>1, <3>2
  <2>2. exec' = [exec EXCEPT ![w] = [exec[w] EXCEPT !.pc = "done", !.outcome = o]]
    BY <2>1 DEF End
  <2>3. /\ exec'[w].pc = "done" /\ exec'[w].outcome = o /\ exec'[w].run = exec[w].run
        /\ exec'[w].report = exec[w].report
    BY <2>2, <1>1, TypeParts DEF ExecsType, ExecType
  <2>4. \A v \in Execution : v # w => exec'[v] = exec[v]
    BY <2>2, TypeParts DEF ExecsType
  <2>5. exec[w].report = m.report
    BY <1>1, <1>10 DEF Waiting, At, PublicationInv, InHand
  <2>6. InHand(w)'
    BY <1>1, <1>2, <1>4, <2>3, <2>5 DEF InHand
  <2> QED BY <1>1, <1>5, <1>6, <1>7, <2>1, <2>3, <2>4, <2>6, MoveInv
<1> QED BY <1>8, <1>9, <1>10 DEF Serve

LEMMA InvRefuse ==
  ASSUME TypeOK, PublicationInv, NEW m \in requests, Refuse(m) \/ Lose(m)
  PROVE  PublicationInv'
<1> DEFINE w == m.from
<1>1. /\ w \in Execution /\ m.run \in Run /\ exec[w] \in ExecType /\ exec[w].pc # "idle"
      /\ m.run = exec[w].run /\ m.report = reports[m.run]
  BY TypeParts, ExecFields DEF PublicationInv, InTransit
<1>2. UNCHANGED <<conclusions, reports, records>>
  BY DEF Refuse, Lose
<1>3. \A r \in Run : OnFile(r)'
  BY <1>2 DEF PublicationInv, OnFile
<1>4. CASE Lose(m)
  BY <1>2, <1>4 DEF Lose, PublicationInv, InHand, OnFile, InTransit, OnePublisher
<1>5. CASE (End(w, "rejected") \/ End(w, "unavailable")) /\ requests' = requests \ {m}
  BY <1>1, <1>2, <1>3, <1>5, Unchanged, EndInv
<1>6. CASE /\ Waiting(m)
           /\ exec' = [exec EXCEPT ![m.from].attempt = @ + 1]
           /\ requests' = (requests \ {m}) \cup {Request(m.from, m.attempt + 1, m.report)}
  <2>1. exec[w].pc = "await" /\ exec[w].outcome = "none"
    BY <1>1, <1>6 DEF Waiting, At, PublicationInv, InHand
  <2>2. exec' = [exec EXCEPT ![w] = [exec[w] EXCEPT !.attempt = exec[w].attempt + 1]]
    BY <1>1, <1>6
  <2>3. /\ exec'[w].pc = "await" /\ exec'[w].run = exec[w].run /\ exec'[w].outcome = "none"
        /\ exec'[w].report = exec[w].report
    BY <2>1, <2>2, <1>1, TypeParts DEF ExecsType, ExecType
  <2>4. \A v \in Execution : v # w => exec'[v] = exec[v]
    BY <2>2, TypeParts DEF ExecsType
  <2>5. InHand(w)'
    BY <1>1, <1>2, <2>1, <2>3 DEF PublicationInv, InHand
  <2>6. \A n \in requests' \ requests : InTransit(n)'
    BY <1>1, <1>2, <1>6, <2>3 DEF Request, InTransit
  <2> QED BY <1>1, <1>2, <1>3, <2>1, <2>3, <2>4, <2>5, <2>6, Unchanged, MoveInv
<1> QED BY <1>4, <1>5, <1>6 DEF Refuse

LEMMA InvStep == TypeOK /\ PublicationInv /\ [Next]_vars => PublicationInv'
<1>1. ASSUME PublicationInv, UNCHANGED vars PROVE PublicationInv'
  BY <1>1 DEF vars, PublicationInv, InHand, OnFile, InTransit, OnePublisher
<1> QED BY <1>1, InvStart, InvConclude, InvGenerate, InvWriteReport, InvSend, InvServe, InvRefuse
        DEF Next

-----------------------------------------------------------------------------
(* Theorems.                                                               *)

\* Every reachable state is well typed, and what executions hold, what is on
\* file and what travels to the Data service agree: the files of reasoning.py
\* and storage.py and the requests of report_publication.py.
THEOREM PublicationCorrect == Spec => [](TypeOK /\ PublicationInv)
<1>1. Init => TypeOK /\ PublicationInv
  BY TypeInit, InvInit
<1>2. TypeOK /\ PublicationInv /\ [Next]_vars => (TypeOK /\ PublicationInv)'
  BY TypeStep, InvStep
<1> QED BY <1>1, <1>2, PTL DEF Spec

\* What an execution tells its caller about its publication is so.
THEOREM OutcomesTrue == Spec => []OutcomesAreTrue
<1>1. TypeOK /\ PublicationInv => OutcomesAreTrue
  <2> SUFFICES ASSUME TypeOK, PublicationInv PROVE OutcomesAreTrue
    OBVIOUS
  <2>1. ASSUME NEW w \in Execution, exec[w].outcome = "SKIPPED"
        PROVE  /\ conclusions[exec[w].run] # NoArtifact
               /\ conclusions[exec[w].run] \notin Accepted => records[exec[w].run] = NoArtifact
    <3>1. InHand(w) /\ exec[w].run \in Run
      BY <2>1, ExecFields DEF PublicationInv, InHand
    <3>2. OnFile(exec[w].run)
      BY <3>1 DEF PublicationInv
    <3> QED BY <2>1, <3>1, <3>2 DEF InHand, OnFile
  <2> QED BY <2>1 DEF OutcomesAreTrue, PublicationInv, InHand, OnePublisher
<1> QED BY <1>1, PublicationCorrect, PTL

\* The durable results of a run, however it is executed, are those of the ledger.
THEOREM RunImplementsLedger == Spec => ImplementsReportLedger
<1>1. Init => Ledger!Init
  BY DEF Init, Ledger!Init
<1>2. TypeOK /\ PublicationInv /\ [Next]_vars => [Ledger!Next]_<<conclusions, reports, records>>
  <2> SUFFICES ASSUME TypeOK, PublicationInv, [Next]_vars,
                      ~ UNCHANGED <<conclusions, reports, records>>
               PROVE  Ledger!Next
    OBVIOUS
  <2>1. ASSUME NEW w \in Execution, Conclude(w) PROVE Ledger!Next
    <3>1. exec[w].run \in Run /\ exec[w].analysis \in Analyses
      BY <2>1, ExecFields DEF Conclude, At
    <3>2. conclusions[exec[w].run] = NoArtifact
      BY <2>1 DEF Conclude, CreateOnce
    <3>3. Ledger!Conclude(exec[w].run, exec[w].analysis)
      BY <2>1, <3>1, <3>2 DEF Conclude, CreateOnce, Ledger!Conclude
    <3> QED BY <3>1, <3>3 DEF Ledger!Next
  <2>2. ASSUME NEW w \in Execution, WriteReport(w) PROVE Ledger!Next
    <3>1. exec[w].run \in Run
      BY <2>2, ExecFields DEF WriteReport, At
    <3>2. reports[exec[w].run] = NoArtifact
      BY <2>2 DEF WriteReport, CreateOnce
    <3>3. conclusions[exec[w].run] \in Accepted
          /\ \E p \in Prose : exec[w].report = ReportOf(conclusions[exec[w].run], p)
      BY <2>2 DEF WriteReport, At, PublicationInv, InHand
    <3>4. PICK p \in Prose : exec[w].report = ReportOf(conclusions[exec[w].run], p)
      BY <3>3
    <3>5. Ledger!Word(exec[w].run, p)
      BY <2>2, <3>1, <3>2, <3>3, <3>4
      DEF WriteReport, CreateOnce, ReportOf, Ledger!ReportOf, Ledger!Word
    <3> QED BY <3>1, <3>5 DEF Ledger!Next
  <2>3. ASSUME NEW m \in requests, Serve(m) PROVE Ledger!Next
    <3>1. m.run \in Run /\ m.report = reports[m.run] /\ m.report # NoArtifact
      BY TypeParts, NotReport DEF PublicationInv, InTransit
    <3>2. records[m.run] = NoArtifact
      BY <2>3 DEF Serve, CreateOnce
    <3>3. Ledger!Record(m.run)
      BY <2>3, <3>1, <3>2 DEF Serve, CreateOnce, Ledger!Record
    <3> QED BY <3>1, <3>3 DEF Ledger!Next
  <2>4. ASSUME NEW w \in Execution,
               \/ \E r \in Run, a \in Analyses : Start(w, r, a)
               \/ Generate(w) \/ Publish(w) \/ Timeout(w) \/ TotalTimeout(w) \/ Die(w)
        PROVE  FALSE
    BY <2>4 DEF Start, Generate, Publish, Timeout, TotalTimeout, Die
  <2>5. ASSUME NEW m \in requests, Refuse(m) \/ Lose(m) PROVE FALSE
    BY <2>5 DEF Refuse, Lose
  <2>6. CASE UNCHANGED vars
    BY <2>6 DEF vars
  <2> QED BY <2>1, <2>2, <2>3, <2>4, <2>5, <2>6 DEF Next
<1> QED BY <1>1, <1>2, PublicationCorrect, PTL DEF Spec, ImplementsReportLedger, Ledger!Spec, Ledger!ledgerVars
=============================================================================
