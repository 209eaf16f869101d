----------------------------- MODULE ReportLedger -----------------------------
(***************************************************************************)
(* What an investment run promises about its durable results, however often*)
(* it is executed: one conclusion, at most one report, written from that   *)
(* conclusion, and at most one record at the Data service, of that report. *)
(***************************************************************************)
CONSTANTS
  Run,        \* workflow run identities
  Analyses,   \* reviewed conclusions
  Accepted,   \* those the review accepted
  Prose,      \* wordings of a report
  NoArtifact

VARIABLES conclusion, report, record

ledgerVars == <<conclusion, report, record>>

ReportOf(a, p) == [analysis |-> a, prose |-> p]

Init ==
  /\ conclusion = [r \in Run |-> NoArtifact]
  /\ report = [r \in Run |-> NoArtifact]
  /\ record = [r \in Run |-> NoArtifact]

Conclude(r, a) ==
  /\ conclusion[r] = NoArtifact
  /\ conclusion' = [conclusion EXCEPT ![r] = a]
  /\ UNCHANGED <<report, record>>

Word(r, p) ==
  /\ conclusion[r] \in Accepted
  /\ report[r] = NoArtifact
  /\ report' = [report EXCEPT ![r] = ReportOf(conclusion[r], p)]
  /\ UNCHANGED <<conclusion, record>>

Record(r) ==
  /\ report[r] # NoArtifact
  /\ record[r] = NoArtifact
  /\ record' = [record EXCEPT ![r] = report[r]]
  /\ UNCHANGED <<conclusion, report>>

Next == \E r \in Run : \/ \E a \in Analyses : Conclude(r, a)
                       \/ \E p \in Prose : Word(r, p)
                       \/ Record(r)

Spec == Init /\ [][Next]_ledgerVars
=============================================================================
