------------------------ MODULE InvestmentPublication ------------------------
(***************************************************************************)
(* The durable end of an investment run: its conclusion and its report are *)
(* written once under the run identity, and the report is published with   *)
(* bounded retries. A run may be executed more than once, at the same time *)
(* too, and may find other graph contents, other answers or another clock. *)
(* Sources: src/capabilities/investment/functions/reasoning.py and         *)
(* src/capabilities/investment/internal/{storage,report_publication}.py.   *)
(***************************************************************************)
EXTENDS Naturals, FiniteSets

CONSTANTS
  Run,          \* workflow run identities
  Execution,    \* executions; each belongs to one run and is not restarted
  Analyses,     \* reviewed conclusions an execution may arrive at
  Accepted,     \* those whose review accepted them
  Prose,        \* the Evidence a report may name, and the wordings it may get
  NoArtifact,
  NoRun,
  MaxAttempts   \* REPORT_PUBLICATION_MAX_ATTEMPTS

ASSUME AttemptsAssumption == MaxAttempts \in Nat \ {0}
ASSUME NoArtifactAssumption ==
  NoArtifact \notin Analyses /\ NoArtifact \notin [analysis : Analyses, prose : Prose]
ASSUME AnalysesAssumption == Accepted \subseteq Analyses

VARIABLES
  exec,         \* what each execution holds in memory
  conclusions,  \* conclusions/<run>.json
  reports,      \* reports/<run>.json
  records,      \* what the Data service recorded under the publisher_report_id
  requests      \* publication requests that may still arrive

vars == <<exec, conclusions, reports, records, requests>>

ReportOf(a, p) == [analysis |-> a, prose |-> p]
Reports == [analysis : Analyses, prose : Prose]

Idle == [run |-> NoRun, pc |-> "idle", analysis |-> NoArtifact, report |-> NoArtifact,
         attempt |-> 0, outcome |-> "none"]

Init ==
  /\ exec = [w \in Execution |-> Idle]
  /\ conclusions = [r \in Run |-> NoArtifact]
  /\ reports = [r \in Run |-> NoArtifact]
  /\ records = [r \in Run |-> NoArtifact]
  /\ requests = {}

At(w, pc) == exec[w].pc = pc

Goto(w, pc) == exec' = [exec EXCEPT ![w].pc = pc]

End(w, outcome) == exec' = [exec EXCEPT ![w].pc = "done", ![w].outcome = outcome]

-----------------------------------------------------------------------------
(* Write-once artifacts: a hard link to a complete temporary file. Whoever *)
(* comes second compares what is there with its own.                       *)

\* Fault: the file is replaced.
Overwrite(file, r, value) == [file EXCEPT ![r] = value]

CreateOnce(file, r, value) ==
  IF file[r] = NoArtifact THEN [file EXCEPT ![r] = value] ELSE file

\* Fault: that a file exists is enough.
AlreadyThere(file, r, value) == TRUE

Agrees(file, r, value) == file[r] \in {NoArtifact, value}

\* An execution of a run reaches its review with an analysis of its own: its
\* decision time is the time of its start, unless it continues an earlier one.
Start(w, r, a) ==
  /\ At(w, "idle")
  /\ exec' = [exec EXCEPT ![w] = [Idle EXCEPT !.run = r, !.pc = "conclude", !.analysis = a]]
  /\ UNCHANGED <<conclusions, reports, records, requests>>

Conclude(w) ==
  LET r == exec[w].run
  IN  /\ At(w, "conclude")
      /\ conclusions' = CreateOnce(conclusions, r, exec[w].analysis)
      /\ IF Agrees(conclusions, r, exec[w].analysis) THEN Goto(w, "generate")
         ELSE End(w, "failed")
      /\ UNCHANGED <<reports, records, requests>>

\* What was not accepted is skipped to the end, and so is what leads to no
\* Evidence in the archive of Events, which another execution may find grown.
Generate(w) ==
  /\ At(w, "generate")
  /\ \/ End(w, "SKIPPED")
     \/ /\ exec[w].analysis \in Accepted
        /\ \E p \in Prose :
             exec' = [exec EXCEPT ![w].pc = "write", ![w].report = ReportOf(exec[w].analysis, p)]
  /\ UNCHANGED <<conclusions, reports, records, requests>>

WriteReport(w) ==
  LET r == exec[w].run
  IN  /\ At(w, "write")
      /\ reports' = CreateOnce(reports, r, exec[w].report)
      /\ IF Agrees(reports, r, exec[w].report) THEN Goto(w, "publish")
         ELSE End(w, "failed")
      /\ UNCHANGED <<conclusions, records, requests>>

-----------------------------------------------------------------------------
(* Publication. The report is read back from its file. A request that the  *)
(* client gave up waiting for may still arrive, late, or be lost.          *)

Request(w, attempt, rep) == [from |-> w, run |-> exec[w].run, attempt |-> attempt, report |-> rep]

Send(w, attempt, rep) ==
  /\ exec' = [exec EXCEPT ![w].pc = "await", ![w].attempt = attempt, ![w].report = rep]
  /\ requests' = requests \cup {Request(w, attempt, rep)}

Publish(w) ==
  /\ At(w, "publish")
  /\ Send(w, 1, reports[exec[w].run])
  /\ UNCHANGED <<conclusions, reports, records>>

\* A timeout, a connection error or a status worth a retry.
TryAgain(w) ==
  IF exec[w].attempt < MaxAttempts THEN Send(w, exec[w].attempt + 1, exec[w].report)
  ELSE End(w, "unavailable") /\ UNCHANGED requests

Timeout(w) ==
  /\ At(w, "await")
  /\ TryAgain(w)
  /\ UNCHANGED <<conclusions, reports, records>>

TotalTimeout(w) ==
  /\ At(w, "await")
  /\ End(w, "unavailable")
  /\ UNCHANGED <<conclusions, reports, records, requests>>

Waiting(m) == At(m.from, "await") /\ exec[m.from].attempt = m.attempt

\* The Data service keeps the first content under an identity.
Status(m) ==
  CASE records[m.run] = NoArtifact -> "created"
    [] records[m.run] = m.report -> "replayed"
    [] OTHER -> "conflict"

Answered(w, status) ==
  CASE status = "created" -> End(w, "PUBLISHED")
    [] status = "replayed" -> End(w, "REPLAYED")
    [] OTHER -> End(w, "conflict")

\* The answer is heard when the client still waits for this attempt; it is
\* unusable when its envelope cannot be read or contradicts its status.
Serve(m) ==
  /\ records' = CreateOnce(records, m.run, m.report)
  /\ requests' = requests \ {m}
  /\ IF Waiting(m)
     THEN Answered(m.from, Status(m)) \/ End(m.from, "unavailable") \/ UNCHANGED exec
     ELSE UNCHANGED exec
  /\ UNCHANGED <<conclusions, reports>>

\* The service answers 4xx, or 408, 425, 429 or 5xx, without a record.
Refuse(m) ==
  /\ Waiting(m)
  /\ \/ End(m.from, "rejected") /\ requests' = requests \ {m}
     \/ /\ exec[m.from].attempt < MaxAttempts
        /\ exec' = [exec EXCEPT ![m.from].attempt = @ + 1]
        /\ requests' = (requests \ {m}) \cup {Request(m.from, m.attempt + 1, m.report)}
     \/ /\ exec[m.from].attempt = MaxAttempts
        /\ End(m.from, "unavailable")
        /\ requests' = requests \ {m}
  /\ UNCHANGED <<conclusions, reports, records>>

Lose(m) ==
  /\ requests' = requests \ {m}
  /\ UNCHANGED <<exec, conclusions, reports, records>>

\* The process dies, the run is cancelled or a Function raises.
Die(w) ==
  /\ exec[w].pc \notin {"idle", "done"}
  /\ End(w, "dead")
  /\ UNCHANGED <<conclusions, reports, records, requests>>

Next ==
  \/ \E w \in Execution :
       \/ \E r \in Run, a \in Analyses : Start(w, r, a)
       \/ Conclude(w)
       \/ Generate(w)
       \/ WriteReport(w)
       \/ Publish(w)
       \/ Timeout(w)
       \/ TotalTimeout(w)
       \/ Die(w)
  \/ \E m \in requests : Serve(m) \/ Refuse(m) \/ Lose(m)

Spec == Init /\ [][Next]_vars

-----------------------------------------------------------------------------
(* Properties.                                                             *)

\* Every variable holds a value of its kind.
TypeOK ==
  /\ exec \in [Execution ->
       [run : Run \cup {NoRun}, analysis : Analyses \cup {NoArtifact},
        pc : {"idle", "conclude", "generate", "write", "publish", "await", "done"},
        report : Reports \cup {NoArtifact}, attempt : 0 .. MaxAttempts,
        outcome : {"none", "SKIPPED", "PUBLISHED", "REPLAYED", "conflict", "rejected",
                   "unavailable", "failed", "dead"}]]
  /\ \A w \in Execution : exec[w].pc # "idle" => exec[w].run \in Run /\ exec[w].analysis \in Analyses
  /\ conclusions \in [Run -> Analyses \cup {NoArtifact}]
  /\ reports \in [Run -> Reports \cup {NoArtifact}]
  /\ records \in [Run -> Reports \cup {NoArtifact}]
  /\ requests \subseteq [from : Execution, run : Run, attempt : 1 .. MaxAttempts, report : Reports]

Ledger == INSTANCE ReportLedger
  WITH conclusion <- conclusions, report <- reports, record <- records

\* However many executions of a run overlap, die or answer differently, its
\* durable results are those of one: the conclusion is written once, the report
\* once and from that conclusion, and what the Data service records, however
\* late a request arrives, is that report.
ImplementsReportLedger == Ledger!Spec

\* What an execution reports to its caller is so: published or replayed means
\* that its report is on record, and one execution at most is told that it
\* made the record; skipped means that a conclusion is on file, of which nothing
\* is ever recorded unless it was accepted; and no conflict is ever met at the Data service, since a report
\* that differs does not get past its own file.
OutcomesAreTrue ==
  /\ \A w \in Execution : exec[w].outcome \in {"PUBLISHED", "REPLAYED"} =>
       records[exec[w].run] = exec[w].report
  /\ \A w, v \in Execution :
       exec[w].outcome = "PUBLISHED" /\ exec[v].outcome = "PUBLISHED" /\ exec[w].run = exec[v].run
         => w = v
  /\ \A w \in Execution : exec[w].outcome = "SKIPPED" =>
       /\ conclusions[exec[w].run] # NoArtifact
       /\ conclusions[exec[w].run] \notin Accepted => records[exec[w].run] = NoArtifact
  /\ \A w \in Execution : exec[w].outcome # "conflict"

-----------------------------------------------------------------------------
(* The inductive invariant of the proofs.                                  *)

\* What an execution holds agrees with the files of its run.
InHand(w) ==
  LET e == exec[w]
  IN  /\ e.pc \in {"generate", "write"} => conclusions[e.run] = e.analysis
      /\ e.pc = "write" => e.analysis \in Accepted /\ \E p \in Prose : e.report = ReportOf(e.analysis, p)
      /\ e.pc \in {"publish", "await"} => reports[e.run] # NoArtifact
      /\ e.pc = "await" => e.report = reports[e.run]
      /\ e.outcome # "none" => e.pc = "done"
      /\ e.outcome \in {"PUBLISHED", "REPLAYED"} =>
           e.report # NoArtifact /\ records[e.run] = e.report
      /\ e.outcome = "SKIPPED" => conclusions[e.run] # NoArtifact
      /\ e.outcome # "conflict"

\* A report is written from the conclusion on file, a record is the report.
OnFile(r) ==
  /\ reports[r] # NoArtifact =>
       conclusions[r] \in Accepted /\ \E p \in Prose : reports[r] = ReportOf(conclusions[r], p)
  /\ records[r] # NoArtifact => records[r] = reports[r]

\* Whatever still travels is the report of its run.
InTransit(m) ==
  /\ exec[m.from].pc # "idle"
  /\ m.run = exec[m.from].run
  /\ m.report = reports[m.run]

OnePublisher ==
  \A w, v \in Execution :
    exec[w].outcome = "PUBLISHED" /\ exec[v].outcome = "PUBLISHED" /\ exec[w].run = exec[v].run
      => w = v

PublicationInv ==
  /\ \A w \in Execution : InHand(w)
  /\ \A r \in Run : OnFile(r)
  /\ \A m \in requests : InTransit(m)
  /\ OnePublisher
=============================================================================
