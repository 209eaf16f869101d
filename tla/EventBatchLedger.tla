--------------------------- MODULE EventBatchLedger ---------------------------
(* EventBatch implements EvidenceLedger.                                     *)
EXTENDS EventBatch

\* Where the queue directories have an Evidence.
LedgerPlace ==
  [e \in Evidence |->
     CASE e \in completed -> "completed"
       [] e \in failed -> "failed"
       [] e \in pending \/ \E b \in Batch : <<b, e>> \in processing -> "queued"
       [] OTHER -> "absent"]

\* What the journal of a batch with its publication package says.
JournalDecision(b, e) ==
  CASE journal[b][e] = "ignored" -> "ignore"
    [] journal[b][e] = "rejected" ->
         IF answer[b][e] = "publish" THEN "withdrawn" ELSE "reject"
    [] OTHER -> "publish"

LedgerDecision ==
  [e \in Evidence |->
     IF \E b \in packed : e \in b
     THEN JournalDecision(CHOOSE b \in packed : e \in b, e)
     ELSE "none"]

Ledger == INSTANCE EvidenceLedger
  WITH place <- LedgerPlace, decision <- LedgerDecision, recorded <- posted

\* Every step of the batch workflow, crashes and superseded runs included, is a
\* step of the ledger or leaves it alone: an Evidence is queued once, decided
\* once, recorded only as decided and settled once, as decided.
ImplementsLedger == Ledger!Spec

-----------------------------------------------------------------------------
(* The inductive invariant behind it                                       *)

\* Evidence is decided in one batch, which is at work or settled, and its
\* journal only settles a candidate without publication if the answer did, or
\* after the answer accepted it.
LedgerInv ==
  /\ \A b, c \in packed : b # c => b \cap c = {}
  /\ packed \subseteq dirs \cup manifest
  /\ \A b \in Batch, e \in Evidence :
       /\ journal[b][e] = "ignored" => answer[b][e] = "ignore"
       /\ journal[b][e] = "rejected" => answer[b][e] \in {"publish", "reject"}
=============================================================================
