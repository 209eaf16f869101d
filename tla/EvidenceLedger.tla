---------------------------- MODULE EvidenceLedger ----------------------------
(***************************************************************************)
(* What Event extraction promises for every formal Evidence, without       *)
(* batches, leases, runs, files or crashes: it is queued once, decided     *)
(* once, recorded as an Event only if that was the decision, and settled   *)
(* as the decision says, for good.  EventBatch implements this.            *)
(***************************************************************************)
CONSTANTS
  Evidence  \* formal Evidence identities

VARIABLES
  place,    \* where the queue has an Evidence
  decision, \* what was decided for it
  recorded  \* Events that are in Data

vars == <<place, decision, recorded>>

Decisions == {"publish", "ignore", "reject"}

Init ==
  /\ place = [e \in Evidence |-> "absent"]
  /\ decision = [e \in Evidence |-> "none"]
  /\ recorded = {}

\* Publication of formal Evidence queues it.
Enqueue(e) ==
  /\ place[e] = "absent"
  /\ place' = [place EXCEPT ![e] = "queued"]
  /\ UNCHANGED <<decision, recorded>>

\* The publication package of a batch decides all of its Evidence at once.
Decide(S) ==
  /\ \A e \in S : place[e] = "queued" /\ decision[e] = "none"
  /\ \E d \in [S -> Decisions] :
       decision' = [e \in Evidence |-> IF e \in S THEN d[e] ELSE decision[e]]
  /\ UNCHANGED <<place, recorded>>

\* Data accepts an Event that was to be published.
Record(e) ==
  /\ decision[e] \in {"publish", "withdrawn"}
  /\ recorded' = recorded \cup {e}
  /\ UNCHANGED <<place, decision>>

\* Data or the Signal stage refuses it for good.
Withdraw(e) ==
  /\ place[e] = "queued"
  /\ decision[e] = "publish"
  /\ decision' = [decision EXCEPT ![e] = "withdrawn"]
  /\ UNCHANGED <<place, recorded>>

\* Part of a decided batch is settled.
Settle(S) ==
  /\ \A e \in S : /\ place[e] = "queued"
                  /\ decision[e] # "none"
                  /\ decision[e] = "publish" => e \in recorded
  /\ place' = [e \in Evidence |->
                 IF e \notin S THEN place[e]
                 ELSE IF decision[e] \in {"publish", "ignore"} THEN "completed"
                 ELSE "failed"]
  /\ UNCHANGED <<decision, recorded>>

Next ==
  \/ \E e \in Evidence : Enqueue(e) \/ Record(e) \/ Withdraw(e)
  \/ \E S \in SUBSET Evidence : Decide(S) \/ Settle(S)

Spec == Init /\ [][Next]_vars
=============================================================================
