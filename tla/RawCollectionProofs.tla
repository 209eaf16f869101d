------------------------- MODULE RawCollectionProofs -------------------------
(***************************************************************************)
(* Theorems about RawCollection for any runs, executions, channels and     *)
(* answers.                                                                *)
(***************************************************************************)
EXTENDS RawCollection, TLAPS

-----------------------------------------------------------------------------
(* Type correctness.                                                       *)

LEMMA IdleType == Idle \in ExecType
BY DEF Idle, ExecType

LEMMA ExecFields ==
  ASSUME TypeOK, NEW e \in Exec
  PROVE  exec[e] \in ExecType
BY DEF TypeOK, ExecType

\* A step of an execution leaves the others where they are.
LEMMA GoType ==
  ASSUME TypeOK, NEW e \in Exec, NEW next \in ExecType, Go(e, next),
         next.pc \notin {"idle", "ended"} => next.run \in Run
  PROVE  /\ exec' \in [Exec -> ExecType]
         /\ \A d \in Exec : exec'[d].pc \notin {"idle", "ended"} => exec'[d].run \in Run
         /\ exec'[e] = next
         /\ \A d \in Exec \ {e} : exec'[d] = exec[d]
BY DEF TypeOK, Go

LEMMA EndType ==
  ASSUME TypeOK, NEW e \in Exec, End(e)
  PROVE  /\ exec' \in [Exec -> ExecType]
         /\ \A d \in Exec : exec'[d].pc \notin {"idle", "ended"} => exec'[d].run \in Run
         /\ exec'[e].pc = "ended" /\ exec'[e].items = {} /\ exec'[e].hand = NoFile
         /\ exec'[e].run = exec[e].run
         /\ \A d \in Exec \ {e} : exec'[d] = exec[d]
<1> DEFINE next == [Idle EXCEPT !.pc = "ended", !.run = exec[e].run]
<1>1. next \in ExecType
  BY ExecFields, IdleType DEF ExecType
<1>2. next.pc = "ended" /\ next.items = {} /\ next.hand = NoFile /\ next.run = exec[e].run
  BY DEF Idle
<1>3. Go(e, next)
  BY DEF End
<1> HIDE DEF next
<1> QED BY <1>1, <1>2, <1>3, GoType

LEMMA GotoType ==
  ASSUME TypeOK, NEW e \in Exec, NEW pc \in {"publish", "prepare"} \cup Staging \cup Publishing,
         Goto(e, pc), exec[e].pc \notin {"idle", "ended"}
  PROVE  /\ exec' \in [Exec -> ExecType]
         /\ \A d \in Exec : exec'[d].pc \notin {"idle", "ended"} => exec'[d].run \in Run
         /\ exec'[e] = [exec[e] EXCEPT !.pc = pc]
         /\ \A d \in Exec \ {e} : exec'[d] = exec[d]
<1>1. [exec[e] EXCEPT !.pc = pc] \in ExecType
  BY ExecFields DEF ExecType, Staging
<1>2. Go(e, [exec[e] EXCEPT !.pc = pc])
  BY DEF Go, Goto, TypeOK
<1>3. exec[e].run \in Run
  BY DEF TypeOK
<1> QED BY <1>1, <1>2, <1>3, GoType, ExecFields DEF ExecType

LEMMA CandidatesType ==
  ASSUME NEW found \in SUBSET BatchType
  PROVE  Candidates(found) \in SUBSET CandidateType
BY DEF Candidates, BatchType

LEMMA ItemInType ==
  ASSUME NEW c \in CandidateType, NEW status \in Verdicts
  PROVE  Item(c, status) \in ItemType
BY DEF Item, ItemType, Versions, CandidateType

\* A settled candidate leaves the list and joins the items.
LEMMA SettleType ==
  ASSUME TypeOK, NEW e \in Exec, NEW c \in CandidateType, NEW status \in Verdicts,
         Settle(e, c, status), exec[e].pc \in Publishing
  PROVE  /\ exec' \in [Exec -> ExecType]
         /\ \A d \in Exec : exec'[d].pc \notin {"idle", "ended"} => exec'[d].run \in Run
         /\ exec'[e].pc = "archive" /\ exec'[e].run = exec[e].run
         /\ exec'[e].hand = NoFile
         /\ exec'[e].items = exec[e].items \cup {Item(c, status)}
         /\ \A d \in Exec \ {e} : exec'[d] = exec[d]
<1> DEFINE next == [exec[e] EXCEPT !.pc = "archive", !.todo = @ \ {c}, !.hand = NoFile,
                                   !.items = @ \cup {Item(c, status)}]
<1>1. exec[e] \in ExecType
  BY ExecFields
<1>2. next \in ExecType
  BY <1>1, ItemInType DEF ExecType, Publishing
<1>3. Go(e, next)
  BY DEF Settle
<1>4. exec[e].run \in Run
  BY DEF TypeOK, Publishing
<1>5. /\ next.pc = "archive" /\ next.run = exec[e].run /\ next.hand = NoFile
      /\ next.items = exec[e].items \cup {Item(c, status)}
  BY <1>1 DEF ExecType
<1> HIDE DEF next
<1> QED BY <1>2, <1>3, <1>4, <1>5, GoType

-----------------------------------------------------------------------------
(* What each action does to its execution.                                 *)

Moves(e) ==
  /\ exec' \in [Exec -> ExecType]
  /\ \A d \in Exec : exec'[d].pc \notin {"idle", "ended"} => exec'[d].run \in Run
  /\ \A d \in Exec \ {e} : exec'[d] = exec[d]

Ends(e) == exec'[e].pc = "ended" /\ exec'[e].items = {} /\ exec'[e].hand = NoFile

Stays(e) ==
  exec'[e].run = exec[e].run /\ exec'[e].items = exec[e].items /\ exec'[e].hand = exec[e].hand

LEMMA BeginEffect ==
  ASSUME TypeOK, NEW e \in Exec, NEW r \in Run, NEW pc \in {"snapshot", "publish"}, Begin(e, r, pc)
  PROVE  /\ Moves(e) /\ exec[e].pc = "idle" /\ exec'[e].pc = pc /\ exec'[e].run = r
         /\ exec'[e].items = {} /\ exec'[e].hand = NoFile /\ UNCHANGED <<scenario, batches>>
<1> DEFINE next == [Idle EXCEPT !.pc = pc, !.run = r]
<1>1. next \in ExecType
  BY IdleType DEF ExecType
<1>2. next.pc = pc /\ next.items = {} /\ next.hand = NoFile /\ next.run = r
  BY DEF Idle
<1>3. Go(e, next) /\ exec[e].pc = "idle" /\ UNCHANGED <<scenario, batches>>
  BY DEF Begin
<1> HIDE DEF next
<1> QED BY <1>1, <1>2, <1>3, GoType DEF Moves

LEMMA LoadEffect ==
  ASSUME TypeOK, NEW e \in Exec, LoadSnapshot(e)
  PROVE  /\ Moves(e) /\ exec[e].pc = "snapshot" /\ exec'[e].run = exec[e].run
         /\ (exec'[e].pc = "fetch" /\ Stays(e)) \/ Ends(e)
         /\ UNCHANGED <<scenario, batches, store>>
<1>1. exec[e].pc = "snapshot" /\ UNCHANGED <<scenario, batches, store>>
  BY DEF LoadSnapshot
<1>2. CASE End(e)
  BY <1>1, <1>2, EndType DEF Moves, Ends
<1>3. ASSUME NEW sources \in scenario.snapshots,
             Go(e, [exec[e] EXCEPT !.pc = "fetch",
                                   !.pending = {sources[i].code : i \in DOMAIN sources}])
      PROVE  Moves(e) /\ exec'[e].pc = "fetch" /\ Stays(e)
  <2> DEFINE next == [exec[e] EXCEPT !.pc = "fetch",
                                   !.pending = {sources[i].code : i \in DOMAIN sources}]
  <2>1. {sources[i].code : i \in DOMAIN sources} \in SUBSET Codes
    BY AcquisitionAssumption DEF TypeOK
  <2>2. next \in ExecType
    BY <2>1, ExecFields DEF ExecType
  <2>3. /\ next.pc = "fetch" /\ next.run = exec[e].run /\ next.items = exec[e].items
        /\ next.hand = exec[e].hand
    BY ExecFields DEF ExecType
  <2>4. exec[e].run \in Run
    BY <1>1 DEF TypeOK
  <2>5. Go(e, next)
    BY <1>3
  <2> HIDE DEF next
  <2> QED BY <2>2, <2>3, <2>4, <2>5, GoType DEF Moves, Stays
<1> QED BY <1>1, <1>2, <1>3 DEF LoadSnapshot, Stays

LEMMA BatchInType ==
  ASSUME NEW e \in Exec, NEW code \in Codes, NEW answer \in Answers[code], Usable(code, answer)
  PROVE  Batch(e, code, answer) \in BatchType
<1>0. answer # Failure /\ answer \in UNION {Answers[d] : d \in Codes}
  BY DEF Usable
<1>1. answer \in Answered
  BY <1>0 DEF Answered
<1>2. ASSUME NEW i \in DOMAIN answer
      PROVE  [id |-> <<e, code, i>>, article |-> answer[i]] \in CandidateType
  BY <1>1 DEF CandidateType, CandidateIds, Places, Articles
<1> QED BY <1>2 DEF Batch, BatchType

\* A fetch either fails its channel or keeps one batch of it.
LEMMA FetchEffect ==
  ASSUME TypeOK, NEW e \in Exec, Fetch(e)
  PROVE  /\ Moves(e) /\ Stays(e) /\ exec[e].pc = "fetch" /\ exec'[e].pc = "fetch"
         /\ UNCHANGED <<scenario, store>>
         /\ \E code \in exec[e].pending :
              /\ exec'[e].pending = exec[e].pending \ {code}
              /\ \/ UNCHANGED batches
                 \/ \E answer \in Answers[code] :
                      /\ Batch(e, code, answer) \in BatchType
                      /\ batches' = [batches EXCEPT ![exec[e].run] =
                                       @ \cup {Batch(e, code, answer)}]
<1> DEFINE Asked(code, answer) ==
             LET rest == [exec[e] EXCEPT !.pending = @ \ {code}] IN
             IF Usable(code, answer)
             THEN /\ batches' = [batches EXCEPT ![exec[e].run] = @ \cup {Batch(e, code, answer)}]
                  /\ Go(e, [rest EXCEPT !.got = @ \cup {Batch(e, code, answer)}])
             ELSE /\ Go(e, [rest EXCEPT !.failed = @ \cup {code}])
                  /\ UNCHANGED batches
<1>0. PICK code \in exec[e].pending : \E answer \in Answers[code] : Asked(code, answer)
  BY DEF Fetch
<1>1. PICK answer \in Answers[code] : Asked(code, answer)
  BY <1>0
<1>2. exec[e].pc = "fetch" /\ UNCHANGED <<scenario, store>> /\ exec[e].run \in Run
  BY DEF Fetch, TypeOK
<1>3. exec[e] \in ExecType /\ code \in Codes
  BY ExecFields DEF ExecType
<1>4. CASE Usable(code, answer)
  <2> DEFINE next == [exec[e] EXCEPT !.pending = @ \ {code}, !.got = @ \cup {Batch(e, code, answer)}]
  <2>0. Batch(e, code, answer) \in BatchType
    BY <1>1, <1>3, <1>4, BatchInType
  <2>1. next \in ExecType
    BY <1>3, <2>0 DEF ExecType
  <2>2. /\ next.pc = "fetch" /\ next.run = exec[e].run /\ next.items = exec[e].items
        /\ next.hand = exec[e].hand
        /\ next.pending = exec[e].pending \ {code}
    BY <1>2, <1>3 DEF ExecType
  <2>3. Go(e, next) /\ batches' = [batches EXCEPT ![exec[e].run] = @ \cup {Batch(e, code, answer)}]
    BY <1>1, <1>3, <1>4 DEF Go, ExecType
  <2> HIDE DEF next
  <2> QED BY <1>1, <1>2, <1>3, <2>0, <2>1, <2>2, <2>3, GoType DEF Moves, Stays
<1>5. CASE ~Usable(code, answer)
  <2> DEFINE next == [exec[e] EXCEPT !.pending = @ \ {code}, !.failed = @ \cup {code}]
  <2>1. next \in ExecType
    BY <1>3 DEF ExecType
  <2>2. /\ next.pc = "fetch" /\ next.run = exec[e].run /\ next.items = exec[e].items
        /\ next.hand = exec[e].hand
        /\ next.pending = exec[e].pending \ {code}
    BY <1>2, <1>3 DEF ExecType
  <2>3. Go(e, next) /\ UNCHANGED batches
    BY <1>1, <1>3, <1>5 DEF Go, ExecType
  <2> HIDE DEF next
  <2> QED BY <1>2, <1>3, <2>1, <2>2, <2>3, GoType DEF Moves, Stays
<1> QED BY <1>4, <1>5

\* Actions that only take an execution to another place.
LEMMA GotoEffect ==
  ASSUME TypeOK, NEW e \in Exec, NEW pc \in {"publish", "prepare"} \cup Staging \cup Publishing,
         Goto(e, pc), exec[e].pc \notin {"idle", "ended"}
  PROVE  Moves(e) /\ Stays(e) /\ exec'[e].pc = pc /\ exec'[e].todo = exec[e].todo
<1>1. Moves(e) /\ exec'[e] = [exec[e] EXCEPT !.pc = pc]
  BY GotoType DEF Moves
<1>2. exec[e] \in ExecType
  BY ExecFields
<1> QED BY <1>1, <1>2 DEF Stays, ExecType

LEMMA EndEffect ==
  ASSUME TypeOK, NEW e \in Exec, End(e)
  PROVE  Moves(e) /\ Ends(e) /\ exec'[e].run = exec[e].run
BY EndType DEF Moves, Ends

LEMMA SettleEffect ==
  ASSUME TypeOK, NEW e \in Exec, NEW c \in CandidateType, NEW status \in Verdicts,
         Settle(e, c, status), exec[e].pc \in Publishing
  PROVE  /\ Moves(e) /\ exec'[e].pc = "archive" /\ exec'[e].run = exec[e].run
         /\ exec'[e].hand = NoFile /\ exec'[e].items = exec[e].items \cup {Item(c, status)}
BY SettleType DEF Moves

LEMMA SaveAcquisitionEffect ==
  ASSUME TypeOK, NEW e \in Exec, SaveAcquisition(e)
  PROVE  /\ Moves(e) /\ Stays(e) /\ exec[e].pc = "fetch" /\ exec'[e].pc = "publish"
         /\ exec[e].run \in Run
         /\ \E a \in AcquisitionType : acquisition' = [acquisition EXCEPT ![exec[e].run] = a]
         /\ UNCHANGED <<scenario, batches, store, manifest, document, original, archived, lastError>>
<1> DEFINE next == [exec[e] EXCEPT !.pc = "publish", !.got = {}, !.failed = {}]
<1>1. exec[e] \in ExecType /\ exec[e].run \in Run /\ exec[e].pc = "fetch"
  BY ExecFields DEF TypeOK, SaveAcquisition, Fetched
<1>2. next \in ExecType
  BY <1>1 DEF ExecType
<1>3. /\ next.pc = "publish" /\ next.run = exec[e].run /\ next.items = exec[e].items
      /\ next.hand = exec[e].hand
  BY <1>1 DEF ExecType
<1>4. Go(e, next)
  BY DEF SaveAcquisition
<1>5. [batches |-> exec[e].got, failed |-> exec[e].failed] \in AcquisitionType
  BY <1>1 DEF ExecType, AcquisitionType
<1>6. Moves(e) /\ Stays(e) /\ exec'[e].pc = "publish"
  <2> HIDE DEF next
  <2> QED BY <1>1, <1>2, <1>3, <1>4, GoType DEF Moves, Stays
<1> QED BY <1>1, <1>5, <1>6 DEF SaveAcquisition, KeepArticles

LEMMA LockPublishEffect ==
  ASSUME TypeOK, NEW e \in Exec, LockPublish(e),
         exec[e].pc = "publish" => acquisition[exec[e].run] \in AcquisitionType
  PROVE  /\ Moves(e) /\ exec[e].pc = "publish" /\ exec'[e].run = exec[e].run
         /\ \/ Ends(e)
            \/ /\ exec'[e].pc = "archive" /\ Stays(e) /\ manifest[exec[e].run] = NoFile
               /\ \A d \in Exec \ {e} : exec[d].pc \in Publishing => exec[d].run # exec[e].run
         /\ UNCHANGED <<scenario, batches, archiveVars, store>>
<1> DEFINE a == acquisition[exec[e].run]
           next == [exec[e] EXCEPT !.pc = "archive", !.failed = a.failed,
                                   !.todo = Candidates(a.batches)]
<1>1. /\ exec[e] \in ExecType /\ exec[e].run \in Run /\ exec[e].pc = "publish"
      /\ a \in AcquisitionType /\ UNCHANGED <<scenario, batches, archiveVars, store>>
      /\ \A d \in Exec \ {e} : exec[d].pc \in Publishing => exec[d].run # exec[e].run
  BY ExecFields DEF TypeOK, LockPublish
<1>2. CASE End(e)
  BY <1>1, <1>2, EndEffect
<1>3. CASE Go(e, next) /\ manifest[exec[e].run] = NoFile
  <2>1. Candidates(a.batches) \in SUBSET CandidateType /\ a.failed \in SUBSET Codes
    BY <1>1, CandidatesType DEF AcquisitionType
  <2>2. next \in ExecType
    BY <1>1, <2>1 DEF ExecType, Publishing
  <2>3. /\ next.pc = "archive" /\ next.run = exec[e].run /\ next.items = exec[e].items
        /\ next.hand = exec[e].hand
    BY <1>1 DEF ExecType
  <2> HIDE DEF next
  <2> QED BY <1>1, <1>3, <2>2, <2>3, GoType DEF Moves, Stays
<1> QED BY <1>1, <1>2, <1>3 DEF LockPublish

LEMMA NextCandidateEffect ==
  ASSUME TypeOK, NEW e \in Exec, NextCandidate(e)
  PROVE  \E c \in CandidateType :
           /\ Moves(e) /\ exec[e].pc = "archive" /\ exec'[e].run = exec[e].run
           /\ \/ \E status \in {"invalid", "failed", "duplicate"} :
                   /\ exec'[e].pc = "archive" /\ exec'[e].hand = NoFile
                   /\ exec'[e].items = exec[e].items \cup {Item(c, status)}
                   /\ IF c.article.body = Blank THEN status = "invalid"
                      ELSE /\ Handled(c, exec[e].items) # {}
                           /\ status = IF \A i \in Handled(c, exec[e].items) : i.status = "failed"
                                       THEN "failed" ELSE "duplicate"
              \/ /\ exec'[e].pc = "freeze" /\ exec'[e].hand = c /\ exec'[e].items = exec[e].items
                 /\ c.article.body # Blank /\ Handled(c, exec[e].items) = {}
                 /\ ArticleFree(e, Version(c))
           /\ UNCHANGED <<scenario, batches, archiveVars, store>>
<1>1. /\ exec[e] \in ExecType /\ exec[e].pc = "archive" /\ exec[e].run \in Run
      /\ UNCHANGED <<scenario, batches, archiveVars, store>>
  BY ExecFields DEF TypeOK, NextCandidate
<1> DEFINE Taken(c) ==
             LET said == Handled(c, exec[e].items) IN
             IF c.article.body = Blank THEN Settle(e, c, "invalid")
             ELSE IF said # {}
             THEN Settle(e, c, IF \A i \in said : i.status = "failed" THEN "failed" ELSE "duplicate")
             ELSE /\ ArticleFree(e, Version(c))
                  /\ Go(e, [exec[e] EXCEPT !.pc = "freeze", !.hand = c])
<1>2. PICK c \in First(exec[e].todo) : Taken(c)
  BY DEF NextCandidate
<1>3. c \in CandidateType
  BY <1>1 DEF First, ExecType
<1>4. CASE c.article.body = Blank
  BY <1>1, <1>2, <1>3, <1>4, SettleEffect DEF Verdicts, Publishing
<1>5. CASE c.article.body # Blank /\ Handled(c, exec[e].items) # {}
  <2> DEFINE status == IF \A i \in Handled(c, exec[e].items) : i.status = "failed"
                       THEN "failed" ELSE "duplicate"
  <2>1. Settle(e, c, status) /\ status \in {"failed", "duplicate"}
    BY <1>2, <1>5
  <2> HIDE DEF status
  <2>2. /\ Moves(e) /\ exec'[e].pc = "archive" /\ exec'[e].run = exec[e].run
        /\ exec'[e].hand = NoFile /\ exec'[e].items = exec[e].items \cup {Item(c, status)}
    BY <1>1, <1>3, <2>1, SettleEffect DEF Verdicts, Publishing
  <2> QED BY <1>1, <1>3, <1>5, <2>1, <2>2 DEF status
<1>6. CASE c.article.body # Blank /\ Handled(c, exec[e].items) = {}
  <2> DEFINE next == [exec[e] EXCEPT !.pc = "freeze", !.hand = c]
  <2>1. next \in ExecType
    BY <1>1, <1>3 DEF ExecType, Publishing
  <2>2. /\ next.pc = "freeze" /\ next.run = exec[e].run /\ next.items = exec[e].items
        /\ next.hand = c
    BY <1>1 DEF ExecType
  <2>3. Go(e, next) /\ ArticleFree(e, Version(c))
    BY <1>2, <1>6
  <2> HIDE DEF next
  <2> QED BY <1>1, <1>3, <1>6, <2>1, <2>2, <2>3, GoType DEF Moves
<1> QED BY <1>4, <1>5, <1>6

-----------------------------------------------------------------------------
(* The archive: what a step leaves as it was.                              *)

LEMMA OtherAtWork ==
  ASSUME NEW d \in Exec, AtWork(d), exec'[d] = exec[d],
         acquisition[exec[d].run] \in AcquisitionType =>
           acquisition'[exec[d].run] \in AcquisitionType,
         exec[d].pc \in Publishing => manifest'[exec[d].run] = manifest[exec[d].run],
         DOMAIN document \subseteq DOMAIN document', DOMAIN store \subseteq DOMAIN store',
         exec[d].pc \in {"upload", "archived"} /\ HandVersion(d) \notin archived =>
           HandVersion(d) \notin archived'
  PROVE  AtWork(d)'
<1>1. HandVersion(d)' = HandVersion(d)
  BY DEF HandVersion, Version
<1> QED BY <1>1 DEF AtWork, Handled, Version

LEMMA LocksKept ==
  ASSUME LocksInv, NEW e \in Exec, Moves(e),
         exec'[e].pc \in Publishing => exec[e].pc \in Publishing /\ exec'[e].run = exec[e].run,
         exec'[e].pc \in Handling => exec[e].pc \in Handling /\ exec'[e].hand = exec[e].hand
  PROVE  LocksInv'
<1> SUFFICES ASSUME NEW d \in Exec, NEW f \in Exec, d # f
             PROVE  /\ {exec'[d].pc, exec'[f].pc} \subseteq Publishing => exec'[d].run # exec'[f].run
                    /\ {exec'[d].pc, exec'[f].pc} \subseteq Handling =>
                         HandVersion(d)' # HandVersion(f)'
  BY DEF LocksInv
<1>1. ASSUME NEW x \in Exec, exec'[x].pc \in Publishing
      PROVE  exec[x].pc \in Publishing /\ exec'[x].run = exec[x].run
  BY <1>1 DEF Moves
<1>2. ASSUME NEW x \in Exec, exec'[x].pc \in Handling
      PROVE  exec[x].pc \in Handling /\ HandVersion(x)' = HandVersion(x)
  BY <1>2 DEF Moves, HandVersion, Version
<1> QED BY <1>1, <1>2 DEF LocksInv

LEMMA ItemsKept ==
  ASSUME ItemsInv, NEW e \in Exec, Moves(e), exec'[e].items \in {exec[e].items, {}},
         UNCHANGED manifest, archived \subseteq archived'
  PROVE  ItemsInv'
<1>1. ASSUME NEW d \in Exec PROVE exec'[d].items \in {exec[d].items, {}}
  BY DEF Moves
<1>2. ASSUME NEW d \in Exec
      PROVE  Coherent(exec[d].items)' /\ ArchivedIn(exec[d].items)' \subseteq ArchivedIn(exec[d].items)
  BY <1>1 DEF ItemsInv, Coherent, ArchivedIn
<1>3. ASSUME NEW r \in Saved
      PROVE  Coherent(manifest[r].items)' /\ ArchivedIn(manifest[r].items)' = ArchivedIn(manifest[r].items)
  BY DEF ItemsInv, Coherent, ArchivedIn
<1>4. Saved' = Saved
  BY DEF Saved
<1> QED BY <1>2, <1>3, <1>4 DEF ItemsInv

\* Whatever is called archived has its receipt.
LEMMA ArchivedHasReceipt ==
  ASSUME ItemsInv
  PROVE  /\ \A d \in Exec : ArchivedIn(exec[d].items) \subseteq archived
         /\ \A r \in Saved : ArchivedIn(manifest[r].items) \subseteq archived
BY DEF ItemsInv, Coherent, ArchivedIn

LEMMA ItemsAdded ==
  ASSUME ItemsInv, NEW e \in Exec, Moves(e), NEW i,
         exec'[e].items = exec[e].items \cup {i}, UNCHANGED manifest, archived \subseteq archived',
         i.status \in {"archived", "duplicate"} => i.version \in archived',
         i.status = "archived" => i.version \notin archived,
         i.status = "invalid" <=> i.version[2] = Blank,
         \A j \in exec[e].items : j.version = i.version =>
           (i.status = "failed" <=> j.status = "failed")
  PROVE  ItemsInv'
<1>1. ASSUME NEW d \in Exec PROVE Coherent(exec[d].items)'
  <2>1. CASE d = e
    <3>1. \A j \in exec[e].items : j.status \in {"archived", "duplicate"} => j.version \in archived
      BY DEF ItemsInv, Coherent
    <3>2. ASSUME i.status = "archived", NEW j \in exec[e].items, j.status = "archived"
          PROVE  j.version # i.version
      BY <3>1, <3>2
    <3> QED BY <2>1, <3>1, <3>2 DEF ItemsInv, Coherent
  <2>2. CASE d # e
    BY <2>2 DEF ItemsInv, Coherent, Moves
  <2> QED BY <2>1, <2>2
<1>2. ASSUME NEW d \in Exec \ {e} PROVE ArchivedIn(exec[d].items)' = ArchivedIn(exec[d].items)
  BY DEF Moves, ArchivedIn
<1>3. /\ ArchivedIn(exec[e].items)' \subseteq ArchivedIn(exec[e].items) \cup {i.version}
      /\ i.status # "archived" => ArchivedIn(exec[e].items)' \subseteq ArchivedIn(exec[e].items)
  BY DEF ArchivedIn
<1>4. ASSUME NEW r \in Saved
      PROVE  Coherent(manifest[r].items)' /\ ArchivedIn(manifest[r].items)' = ArchivedIn(manifest[r].items)
  BY DEF ItemsInv, Coherent, ArchivedIn
<1>5. Saved' = Saved
  BY DEF Saved
<1>6. ASSUME NEW X, X \subseteq archived, ArchivedIn(exec[e].items) \cap X = {}
      PROVE  ArchivedIn(exec[e].items)' \cap X = {}
  BY <1>3, <1>6
<1>7. /\ \A d \in Exec \ {e} : ArchivedIn(exec[d].items)' \cap ArchivedIn(exec[e].items)' = {}
      /\ \A r \in Saved : ArchivedIn(exec[e].items)' \cap ArchivedIn(manifest[r].items)' = {}
  <2>1. ASSUME NEW d \in Exec \ {e}
        PROVE  ArchivedIn(exec[d].items)' \cap ArchivedIn(exec[e].items)' = {}
    <3>1. ArchivedIn(exec[d].items) \subseteq archived
      BY ArchivedHasReceipt
    <3>2. ArchivedIn(exec[e].items) \cap ArchivedIn(exec[d].items) = {}
      BY DEF ItemsInv
    <3> QED BY <1>2, <1>6, <3>1, <3>2
  <2>2. ASSUME NEW r \in Saved
        PROVE  ArchivedIn(exec[e].items)' \cap ArchivedIn(manifest[r].items)' = {}
    <3>1. ArchivedIn(manifest[r].items) \subseteq archived
      BY ArchivedHasReceipt
    <3>2. ArchivedIn(exec[e].items) \cap ArchivedIn(manifest[r].items) = {}
      BY DEF ItemsInv
    <3> QED BY <1>4, <1>6, <3>1, <3>2
  <2> QED BY <2>1, <2>2
<1>8. ASSUME NEW d \in Exec, NEW f \in Exec, d # f
      PROVE  ArchivedIn(exec[d].items)' \cap ArchivedIn(exec[f].items)' = {}
  BY <1>2, <1>7, <1>8 DEF ItemsInv
<1>9. ASSUME NEW d \in Exec, NEW r \in Saved
      PROVE  ArchivedIn(exec[d].items)' \cap ArchivedIn(manifest[r].items)' = {}
  BY <1>2, <1>4, <1>7 DEF ItemsInv
<1>10. ASSUME NEW r \in Saved, NEW s \in Saved, r # s
       PROVE  ArchivedIn(manifest[r].items)' \cap ArchivedIn(manifest[s].items)' = {}
  BY <1>4, <1>10 DEF ItemsInv
<1> QED BY <1>1, <1>4, <1>5, <1>8, <1>9, <1>10 DEF ItemsInv

\* A store that grows by objects of the other workflow only.
StoreGrows ==
  /\ DOMAIN store \subseteq DOMAIN store'
  /\ \A key \in DOMAIN store : store'[key] = store[key]
  /\ \A key \in DOMAIN store' \ DOMAIN store : key[1] = "v1"

LEMMA StoreKept ==
  ASSUME StoreInv, StoreGrows, UNCHANGED <<document, archived>>
  PROVE  StoreInv'
BY DEF StoreInv, StoreGrows

\* Steps outside the publication: of the other workflow, of the acquisition, the end.
LEMMA OutsideKeeps ==
  ASSUME ArchiveInv, NEW e \in Exec, Moves(e), exec'[e].pc \notin Publishing,
         exec'[e].items = {}, exec'[e].hand = NoFile,
         exec'[e].pc = "publish" => acquisition'[exec'[e].run] \in AcquisitionType,
         \A r \in Run : acquisition[r] \in AcquisitionType => acquisition'[r] \in AcquisitionType,
         TypeOK, StoreGrows, UNCHANGED <<manifest, document, archived>>
  PROVE  ArchiveInv'
<1>1. ASSUME NEW d \in Exec PROVE AtWork(d)'
  <2>1. CASE d = e
    BY <2>1 DEF AtWork, Publishing, Handling
  <2>2. CASE d # e /\ exec[d].pc \in {"idle", "ended"}
    BY <2>2 DEF AtWork, Publishing, Handling, Moves, ArchiveInv
  <2>3. CASE d # e /\ exec[d].pc \notin {"idle", "ended"}
    BY <2>3, OtherAtWork DEF TypeOK, Moves, ArchiveInv, StoreGrows
  <2> QED BY <2>1, <2>2, <2>3
<1>2. LocksInv'
  BY LocksKept DEF ArchiveInv, Handling
<1>3. StoreInv'
  BY StoreKept DEF ArchiveInv
<1>4. ItemsInv'
  BY ItemsKept DEF ArchiveInv
<1> QED BY <1>1, <1>2, <1>3, <1>4 DEF ArchiveInv

LEMMA StoreSame == UNCHANGED store => StoreGrows
BY DEF StoreGrows

LEMMA PutGrows ==
  ASSUME NEW key, NEW content, Put(key, content)
  PROVE  /\ DOMAIN store' = DOMAIN store \cup {key}
         /\ \A k \in DOMAIN store : store'[k] = store[k]
         /\ key \notin DOMAIN store => store'[key] = content
BY DEF Put, Added

LEMMA StagedPutGrows ==
  ASSUME NEW c, NEW content, Put(<<"v1", c>>, content)
  PROVE  StoreGrows
<1> DEFINE key == <<"v1", c>>
<1>1. /\ DOMAIN store' = DOMAIN store \cup {key}
      /\ \A k \in DOMAIN store : store'[k] = store[k]
  BY PutGrows
<1>2. key[1] = "v1"
  OBVIOUS
<1> HIDE DEF key
<1> QED BY <1>1, <1>2 DEF StoreGrows

LEMMA EndKeeps ==
  ASSUME ArchiveInv, TypeOK, NEW e \in Exec, End(e), StoreGrows,
         UNCHANGED <<acquisition, manifest, document, archived>>
  PROVE  ArchiveInv'
<1>1. Moves(e) /\ Ends(e)
  BY EndEffect
<1> QED BY <1>1, OutsideKeeps DEF Ends, Publishing

\* An object of this workflow is the frozen document of its version.
LEMMA VersionPutKeeps ==
  ASSUME StoreInv, NEW v \in DOMAIN document, Put(<<"v2", v>>, document[v]),
         UNCHANGED <<document, archived>>
  PROVE  /\ StoreInv' /\ DOMAIN store \subseteq DOMAIN store' /\ <<"v2", v>> \in DOMAIN store'
         /\ \A k \in DOMAIN store : store'[k] = store[k]
<1> DEFINE key == <<"v2", v>>
<1>1. /\ DOMAIN store' = DOMAIN store \cup {key}
      /\ \A k \in DOMAIN store : store'[k] = store[k]
      /\ key \notin DOMAIN store => store'[key] = document[v]
  BY PutGrows
<1>2. key[1] = "v2" /\ key[2] = v
  OBVIOUS
<1>3. ASSUME NEW k \in DOMAIN store', k[1] = "v2"
      PROVE  k = <<"v2", k[2]>> /\ k[2] \in DOMAIN document /\ store'[k] = document[k[2]]
  <2> HIDE DEF key
  <2>1. CASE k \in DOMAIN store
    BY <1>1, <1>3, <2>1 DEF StoreInv
  <2>2. CASE k = key /\ key \notin DOMAIN store
    BY <1>1, <1>2, <2>2 DEF key
  <2> QED BY <1>1, <2>1, <2>2
<1> QED BY <1>1, <1>3 DEF StoreInv

\* A candidate in hand is settled: its item joins the list.
LEMMA SettleKeeps ==
  ASSUME ArchiveInv, TypeOK, NEW e \in Exec, NEW status \in {"archived", "duplicate", "failed"},
         NEW c \in CandidateType, c = exec[e].hand, exec[e].pc \in Handling, Settle(e, c, status),
         status \in {"archived", "duplicate"} => Version(c) \in archived',
         status = "archived" => Version(c) \notin archived,
         archived' \subseteq archived \cup {Version(c)}, archived \subseteq archived',
         DOMAIN store \subseteq DOMAIN store', StoreInv', UNCHANGED <<acquisition, manifest, document>>
  PROVE  ArchiveInv'
<1>1. /\ Moves(e) /\ exec'[e].pc = "archive" /\ exec'[e].run = exec[e].run
      /\ exec'[e].hand = NoFile /\ exec'[e].items = exec[e].items \cup {Item(c, status)}
  BY SettleEffect DEF Handling, Verdicts
<1>2. AtWork(e) /\ exec[e].pc \in Publishing
  BY DEF ArchiveInv, Handling
<1>3. /\ acquisition[exec[e].run] \in AcquisitionType /\ manifest[exec[e].run] = NoFile
      /\ Handled(c, exec[e].items) = {} /\ c.article.body # Blank
  BY <1>2 DEF AtWork
<1>4. ASSUME NEW d \in Exec PROVE AtWork(d)'
  <2>1. CASE d = e
    BY <1>1, <1>3, <2>1 DEF AtWork, Publishing, Handling
  <2>2. CASE d # e
    <3>1. exec[d].pc \in {"upload", "archived"} => HandVersion(d) # HandVersion(e)
      BY <2>2 DEF ArchiveInv, LocksInv, Handling, Publishing
    <3>2. exec'[d] = exec[d] /\ AtWork(d) /\ HandVersion(e) = Version(c)
      BY <1>1, <2>2 DEF Moves, ArchiveInv, HandVersion
    <3> QED BY <3>1, <3>2, OtherAtWork
  <2> QED BY <2>1, <2>2
<1>5. LocksInv'
  BY <1>1, <1>2, LocksKept DEF ArchiveInv, Handling, Publishing
<1>6. ItemsInv'
  <2> DEFINE i == Item(c, status)
  <2>1. i.status = status /\ i.version = Version(c) /\ i.version[2] = c.article.body
    BY DEF Item, Version
  <2>2. \A j \in exec[e].items : j.version # Version(c)
    BY <1>3 DEF Handled
  <2> HIDE DEF i
  <2>3. exec'[e].items = exec[e].items \cup {i}
    BY <1>1 DEF i
  <2> QED BY <1>1, <1>3, <2>1, <2>2, <2>3, ItemsAdded DEF ArchiveInv
<1> QED BY <1>4, <1>5, <1>6 DEF ArchiveInv

-----------------------------------------------------------------------------
(* The archive: every step of a publication keeps the invariant.           *)

LEMMA LockPublishKeeps ==
  ASSUME ArchiveInv, TypeOK, NEW e \in Exec, LockPublish(e)
  PROVE  ArchiveInv'
<1>1. exec[e].pc = "publish" => acquisition[exec[e].run] \in AcquisitionType
  BY DEF ArchiveInv, AtWork
<1>2. /\ Moves(e) /\ exec[e].pc = "publish" /\ exec'[e].run = exec[e].run
      /\ UNCHANGED <<archiveVars, store>>
      /\ \/ Ends(e)
         \/ /\ exec'[e].pc = "archive" /\ Stays(e) /\ manifest[exec[e].run] = NoFile
            /\ \A d \in Exec \ {e} : exec[d].pc \in Publishing => exec[d].run # exec[e].run
  BY <1>1, LockPublishEffect
<1>3. StoreGrows /\ StoreInv'
  BY <1>2, StoreSame, StoreKept DEF ArchiveInv, archiveVars
<1>4. CASE Ends(e)
  BY <1>2, <1>3, <1>4, OutsideKeeps DEF Ends, Publishing, archiveVars
<1>5. CASE /\ exec'[e].pc = "archive" /\ Stays(e) /\ manifest[exec[e].run] = NoFile
           /\ \A d \in Exec \ {e} : exec[d].pc \in Publishing => exec[d].run # exec[e].run
  <2>1. exec'[e].hand = NoFile /\ exec'[e].items = exec[e].items
    BY <1>2, <1>5 DEF ArchiveInv, AtWork, Stays, Handling, Publishing
  <2>2. ASSUME NEW d \in Exec PROVE AtWork(d)'
    <3>1. CASE d = e
      BY <1>1, <1>2, <1>5, <2>1, <3>1 DEF AtWork, Publishing, Handling, archiveVars
    <3>2. CASE d # e
      BY <1>2, <1>3, <3>2, OtherAtWork DEF Moves, ArchiveInv, archiveVars
    <3> QED BY <3>1, <3>2
  <2>3. LocksInv'
    <3> SUFFICES ASSUME NEW d \in Exec, NEW f \in Exec, d # f
                 PROVE  /\ {exec'[d].pc, exec'[f].pc} \subseteq Publishing =>
                             exec'[d].run # exec'[f].run
                        /\ {exec'[d].pc, exec'[f].pc} \subseteq Handling =>
                             HandVersion(d)' # HandVersion(f)'
      BY DEF LocksInv
    <3>1. ASSUME NEW x \in Exec \ {e}
          PROVE  exec'[x] = exec[x] /\ HandVersion(x)' = HandVersion(x)
      BY <1>2 DEF Moves, HandVersion, Version
    <3>2. CASE d # e /\ f # e
      BY <3>1, <3>2 DEF ArchiveInv, LocksInv
    <3>3. CASE d = e \/ f = e
      BY <1>2, <1>5, <3>1, <3>3 DEF Handling
    <3> QED BY <3>2, <3>3
  <2>4. ItemsInv'
    BY <1>2, <2>1, ItemsKept DEF ArchiveInv, archiveVars
  <2> QED BY <1>3, <2>2, <2>3, <2>4 DEF ArchiveInv
<1> QED BY <1>2, <1>4, <1>5

LEMMA NextCandidateKeeps ==
  ASSUME ArchiveInv, TypeOK, NEW e \in Exec, NextCandidate(e)
  PROVE  ArchiveInv'
<1>1. PICK c \in CandidateType :
           /\ Moves(e) /\ exec[e].pc = "archive" /\ exec'[e].run = exec[e].run
           /\ \/ \E status \in {"invalid", "failed", "duplicate"} :
                   /\ exec'[e].pc = "archive" /\ exec'[e].hand = NoFile
                   /\ exec'[e].items = exec[e].items \cup {Item(c, status)}
                   /\ IF c.article.body = Blank THEN status = "invalid"
                      ELSE /\ Handled(c, exec[e].items) # {}
                           /\ status = IF \A i \in Handled(c, exec[e].items) : i.status = "failed"
                                       THEN "failed" ELSE "duplicate"
              \/ /\ exec'[e].pc = "freeze" /\ exec'[e].hand = c /\ exec'[e].items = exec[e].items
                 /\ c.article.body # Blank /\ Handled(c, exec[e].items) = {}
                 /\ ArticleFree(e, Version(c))
           /\ UNCHANGED <<scenario, batches, archiveVars, store>>
  BY NextCandidateEffect
<1>2. StoreGrows /\ StoreInv'
  BY <1>1, StoreSame, StoreKept DEF ArchiveInv, archiveVars
<1>3. ASSUME NEW d \in Exec \ {e}
      PROVE  AtWork(d)' /\ exec'[d] = exec[d] /\ HandVersion(d)' = HandVersion(d)
  BY <1>1, <1>2, OtherAtWork DEF Moves, ArchiveInv, archiveVars, HandVersion, Version
<1>4. AtWork(e) /\ exec[e].pc \in Publishing
  BY <1>1 DEF ArchiveInv, Publishing
<1>5. ASSUME NEW status \in {"invalid", "failed", "duplicate"},
             exec'[e].pc = "archive", exec'[e].hand = NoFile,
             exec'[e].items = exec[e].items \cup {Item(c, status)},
             IF c.article.body = Blank THEN status = "invalid"
                      ELSE /\ Handled(c, exec[e].items) # {}
                           /\ status = IF \A i \in Handled(c, exec[e].items) : i.status = "failed"
                                       THEN "failed" ELSE "duplicate"
      PROVE  ArchiveInv'
  <2>1. AtWork(e)'
    BY <1>1, <1>4, <1>5 DEF AtWork, Publishing, Handling, archiveVars
  <2>2. LocksInv'
    BY <1>1, <1>5, LocksKept DEF ArchiveInv, Handling, Publishing
  <2>3. ItemsInv'
    <3> DEFINE i == Item(c, status)
    <3>1. i.status = status /\ i.version = Version(c) /\ i.version[2] = c.article.body
      BY DEF Item, Version
    <3>2. Coherent(exec[e].items)
      BY DEF ArchiveInv, ItemsInv
    <3>3. /\ i.status = "duplicate" => i.version \in archived
          /\ i.status = "invalid" <=> i.version[2] = Blank
          /\ \A j \in exec[e].items : j.version = i.version =>
               (i.status = "failed" <=> j.status = "failed")
      <4>1. CASE c.article.body = Blank
        BY <1>5, <3>1, <3>2, <4>1 DEF Coherent
      <4>2. CASE c.article.body # Blank
        <5>1. PICK k \in exec[e].items : k.version = Version(c)
          BY <1>5, <4>2 DEF Handled
        <5>2. \A j \in exec[e].items : j.version = Version(c) => j.status # "invalid"
          BY <3>1, <3>2, <4>2 DEF Coherent
        <5>3. \A j \in exec[e].items : j.status \in Verdicts
          BY ExecFields DEF ExecType, ItemType
        <5>4. CASE \A j \in Handled(c, exec[e].items) : j.status = "failed"
          BY <1>5, <3>1, <4>2, <5>4 DEF Handled
        <5>5. CASE ~ \A j \in Handled(c, exec[e].items) : j.status = "failed"
          <6>1. PICK j \in exec[e].items : j.version = Version(c) /\ j.status # "failed"
            BY <5>5 DEF Handled
          <6>2. j.version \in archived
            BY <3>2, <5>2, <5>3, <6>1 DEF Coherent, Verdicts
          <6>3. \A l \in exec[e].items : l.version = Version(c) => l.status # "failed"
            BY <3>2, <6>1 DEF Coherent
          <6>4. i.status = "duplicate"
            BY <1>5, <3>1, <4>2, <5>5
          <6> QED BY <3>1, <4>2, <6>1, <6>2, <6>3, <6>4
        <5> QED BY <5>4, <5>5
      <4> QED BY <4>1, <4>2
    <3>4. exec'[e].items = exec[e].items \cup {i} /\ i.status # "archived"
      BY <1>5, <3>1
    <3> HIDE DEF i
    <3> QED BY <1>1, <3>3, <3>4, ItemsAdded DEF ArchiveInv, archiveVars
  <2> QED BY <1>2, <1>3, <2>1, <2>2, <2>3 DEF ArchiveInv
<1>6. ASSUME exec'[e].pc = "freeze", exec'[e].hand = c, exec'[e].items = exec[e].items,
             c.article.body # Blank, Handled(c, exec[e].items) = {}, ArticleFree(e, Version(c))
      PROVE  ArchiveInv'
  <2>1. AtWork(e)'
    BY <1>1, <1>4, <1>6 DEF AtWork, Publishing, Handling, archiveVars, Handled, Version
  <2>2. HandVersion(e)' = Version(c)
    BY <1>6 DEF HandVersion, Version
  <2>3. ASSUME NEW d \in Exec \ {e}, exec[d].pc \in Handling PROVE HandVersion(d) # Version(c)
    <3>1. exec[d].hand # NoFile /\ exec[d].pc \in Publishing
      BY <2>3, AcquisitionAssumption DEF ArchiveInv, AtWork, Handling
    <3> QED BY <1>6, <3>1 DEF ArticleFree, HandVersion
  <2>4. LocksInv'
    <3> SUFFICES ASSUME NEW d \in Exec, NEW f \in Exec, d # f
                 PROVE  /\ {exec'[d].pc, exec'[f].pc} \subseteq Publishing =>
                             exec'[d].run # exec'[f].run
                        /\ {exec'[d].pc, exec'[f].pc} \subseteq Handling =>
                             HandVersion(d)' # HandVersion(f)'
      BY DEF LocksInv
    <3>1. \A x \in Exec : exec'[x].pc \in Publishing =>
            exec[x].pc \in Publishing /\ exec'[x].run = exec[x].run
      BY <1>1, <1>3, <1>4
    <3>2. {exec'[d].pc, exec'[f].pc} \subseteq Publishing => exec'[d].run # exec'[f].run
      BY <3>1 DEF ArchiveInv, LocksInv
    <3>3. {exec'[d].pc, exec'[f].pc} \subseteq Handling => HandVersion(d)' # HandVersion(f)'
      <4>1. CASE d = e
        BY <1>3, <2>2, <2>3, <4>1
      <4>2. CASE f = e
        BY <1>3, <2>2, <2>3, <4>2
      <4>3. CASE d # e /\ f # e
        BY <1>3, <4>3 DEF ArchiveInv, LocksInv
      <4> QED BY <4>1, <4>2, <4>3
    <3> QED BY <3>2, <3>3
  <2>5. ItemsInv'
    BY <1>1, <1>6, ItemsKept DEF ArchiveInv, archiveVars
  <2> QED BY <1>2, <1>3, <2>1, <2>4, <2>5 DEF ArchiveInv
<1> QED BY <1>1, <1>5, <1>6

\* Inside a version an execution goes on to its next place.
LEMMA HandlingKeeps ==
  ASSUME ArchiveInv, TypeOK, NEW e \in Exec, Moves(e), Stays(e), exec[e].pc \in Handling,
         exec'[e].pc \in Handling,
         exec'[e].pc \in {"original", "upload", "archived"} => HandVersion(e) \in DOMAIN document',
         exec'[e].pc \in {"upload", "archived"} => HandVersion(e) \notin archived,
         exec'[e].pc = "archived" => <<"v2", HandVersion(e)>> \in DOMAIN store',
         DOMAIN document \subseteq DOMAIN document', DOMAIN store \subseteq DOMAIN store',
         StoreInv', UNCHANGED <<acquisition, manifest, archived>>
  PROVE  ArchiveInv'
<1>1. AtWork(e) /\ exec[e].pc \in Publishing
  BY DEF ArchiveInv, Handling
<1>2. HandVersion(e)' = HandVersion(e)
  BY DEF Stays, HandVersion, Version
<1>3. ASSUME NEW d \in Exec PROVE AtWork(d)'
  <2>1. CASE d = e
    <3>1. Handled(exec[e].hand, exec[e].items)' = {}
      BY <1>1 DEF AtWork, Handled, Stays, Version
    <3> QED BY <1>1, <1>2, <2>1, <3>1 DEF AtWork, Stays, Handling
  <2>2. CASE d # e
    BY <2>2, OtherAtWork DEF Moves, ArchiveInv
  <2> QED BY <2>1, <2>2
<1>4. LocksInv'
  BY <1>1, LocksKept DEF ArchiveInv, Stays
<1>5. ItemsInv'
  BY ItemsKept DEF ArchiveInv, Stays
<1> QED BY <1>3, <1>4, <1>5 DEF ArchiveInv

LEMMA FreezeKeeps ==
  ASSUME ArchiveInv, TypeOK, NEW e \in Exec, Freeze(e)
  PROVE  ArchiveInv'
<1> DEFINE c == exec[e].hand
<1>1. /\ exec[e].pc = "freeze" /\ document' = Added(document, Version(c), c)
      /\ Goto(e, "original")
      /\ UNCHANGED <<acquisition, archived, manifest, store>>
  BY DEF Freeze
<1>2. Moves(e) /\ Stays(e) /\ exec'[e].pc = "original"
  BY <1>1, GotoEffect DEF Publishing
<1>3. /\ DOMAIN document' = DOMAIN document \cup {Version(c)}
      /\ \A v \in DOMAIN document : document'[v] = document[v]
  BY <1>1 DEF Added
<1>4. StoreInv'
  BY <1>1, <1>3 DEF ArchiveInv, StoreInv
<1>5. HandVersion(e) \in DOMAIN document'
  BY <1>3 DEF HandVersion
<1> QED BY <1>1, <1>2, <1>3, <1>4, <1>5, HandlingKeeps DEF Handling, Publishing

LEMMA InspectKeeps ==
  ASSUME ArchiveInv, TypeOK, NEW e \in Exec, Inspect(e)
  PROVE  ArchiveInv'
<1> DEFINE c == exec[e].hand
<1>1. /\ exec[e].pc = "original"
      /\ IF Version(c) \in archived THEN Settle(e, c, "duplicate") ELSE Goto(e, "upload")
      /\ UNCHANGED <<acquisition, document, archived, manifest, store>>
  BY DEF Inspect
<1>2. StoreInv'
  BY <1>1, StoreSame, StoreKept DEF ArchiveInv
<1>3. c \in CandidateType /\ HandVersion(e) = Version(c) /\ Version(c) \in DOMAIN document
  BY <1>1 DEF ArchiveInv, AtWork, HandVersion, Handling, Publishing
<1>4. CASE Version(c) \in archived
  BY <1>1, <1>2, <1>3, <1>4, SettleKeeps DEF Handling, Publishing
<1>5. CASE Version(c) \notin archived
  <2>1. Moves(e) /\ Stays(e) /\ exec'[e].pc = "upload"
    BY <1>1, <1>5, GotoEffect DEF Publishing
  <2> QED BY <1>1, <1>2, <1>3, <1>5, <2>1, HandlingKeeps DEF Handling, Publishing
<1> QED BY <1>4, <1>5

LEMMA UploadKeeps ==
  ASSUME ArchiveInv, TypeOK, NEW e \in Exec, Upload(e)
  PROVE  ArchiveInv'
<1> DEFINE v == Version(exec[e].hand)
<1>1. /\ exec[e].pc = "upload" /\ Put(<<"v2", v>>, document[v]) /\ Goto(e, "archived")
      /\ UNCHANGED <<acquisition, document, archived, manifest>>
  BY DEF Upload, Rendered, archiveVars
<1>2. HandVersion(e) = v /\ v \in DOMAIN document /\ v \notin archived
  BY <1>1 DEF ArchiveInv, AtWork, HandVersion
<1>3. Moves(e) /\ Stays(e) /\ exec'[e].pc = "archived"
  BY <1>1, GotoEffect DEF Publishing
<1> HIDE DEF v
<1>4. StoreInv' /\ DOMAIN store \subseteq DOMAIN store' /\ <<"v2", v>> \in DOMAIN store'
  BY <1>1, <1>2, VersionPutKeeps DEF ArchiveInv
<1> QED BY <1>1, <1>2, <1>3, <1>4, HandlingKeeps DEF Handling, Publishing

LEMMA UploadFailsKeeps ==
  ASSUME ArchiveInv, TypeOK, NEW e \in Exec, UploadFails(e)
  PROVE  ArchiveInv'
<1> DEFINE c == exec[e].hand
           v == Version(c)
<1>1. /\ exec[e].pc = "upload"
      /\ Put(<<"v2", v>>, document[v]) \/ UNCHANGED store
      /\ Settle(e, c, "failed")
      /\ UNCHANGED <<acquisition, document, archived, manifest>>
  BY DEF UploadFails, PutFails, Rendered
<1>2. c \in CandidateType /\ HandVersion(e) = v /\ v \in DOMAIN document
  BY <1>1 DEF ArchiveInv, AtWork, HandVersion, Handling, Publishing
<1>3. StoreInv' /\ DOMAIN store \subseteq DOMAIN store'
  <2>1. CASE UNCHANGED store
    BY <1>1, <2>1, StoreSame, StoreKept DEF ArchiveInv
  <2>2. CASE Put(<<"v2", v>>, document[v])
    <3> HIDE DEF v
    <3> QED BY <1>1, <1>2, <2>2, VersionPutKeeps DEF ArchiveInv
  <2> QED BY <1>1, <2>1, <2>2
<1> QED BY <1>1, <1>2, <1>3, SettleKeeps DEF Handling, Publishing

LEMMA SaveReceiptKeeps ==
  ASSUME ArchiveInv, TypeOK, NEW e \in Exec, SaveReceipt(e)
  PROVE  ArchiveInv'
<1> DEFINE c == exec[e].hand
<1>1. /\ exec[e].pc = "archived" /\ archived' = archived \cup {Version(c)}
      /\ Settle(e, c, "archived")
      /\ UNCHANGED <<acquisition, document, manifest, store>>
  BY DEF SaveReceipt
<1>2. /\ c \in CandidateType /\ Version(c) \notin archived
      /\ <<"v2", Version(c)>> \in DOMAIN store
  BY <1>1 DEF ArchiveInv, AtWork, HandVersion, Handling, Publishing
<1>3. StoreInv'
  BY <1>1, <1>2 DEF ArchiveInv, StoreInv
<1> QED BY <1>1, <1>2, <1>3, SettleKeeps DEF Handling, Publishing

\* The items of an execution become the manifest of its run.
LEMMA WriteManifestKeeps ==
  ASSUME ArchiveInv, TypeOK, NEW e \in Exec, WriteManifest(e)
  PROVE  ArchiveInv'
<1>0. PICK r \in Run : r = exec[e].run
  BY DEF TypeOK, WriteManifest
<1> DEFINE items == exec[e].items
           m == [items |-> items, outcome |-> Outcome(items, exec[e].failed)]
<1>1. /\ exec[e].pc = "archive" /\ manifest' = [manifest EXCEPT ![r] = m] /\ End(e)
      /\ UNCHANGED <<acquisition, document, archived, store>>
  BY <1>0 DEF WriteManifest, KeepArticles
<1>2. Moves(e) /\ Ends(e) /\ manifest \in [Run -> ArchiveManifestType \cup {NoFile}]
  BY <1>1, EndEffect DEF TypeOK, FilesType
<1>3. m.items = items
  OBVIOUS
<1> HIDE DEF m
<1>4. manifest'[r] = m /\ \A s \in Run \ {r} : manifest'[s] = manifest[s]
  BY <1>1, <1>2
<1>5. ASSUME NEW d \in Exec PROVE AtWork(d)'
  <2>1. CASE d = e
    BY <1>2, <2>1 DEF AtWork, Ends, Publishing, Handling
  <2>2. CASE d # e
    <3>1. exec[d].pc \in Publishing => exec[d].run # r /\ exec[d].run \in Run
      BY <1>0, <1>1, <2>2 DEF ArchiveInv, LocksInv, TypeOK, Publishing
    <3> QED BY <1>1, <1>2, <1>4, <2>2, <3>1, OtherAtWork DEF Moves, ArchiveInv
  <2> QED BY <2>1, <2>2
<1>6. LocksInv'
  BY <1>2, LocksKept DEF ArchiveInv, Ends, Publishing, Handling
<1>7. StoreInv'
  BY <1>1, StoreSame, StoreKept DEF ArchiveInv
<1>8. r \notin Saved /\ Saved' \subseteq Saved \cup {r}
  BY <1>0, <1>1, <1>4 DEF ArchiveInv, AtWork, Saved, Publishing
<1>9. ItemsInv'
  <2>1. exec'[e].items = {} /\ \A d \in Exec \ {e} : exec'[d].items = exec[d].items
    BY <1>2 DEF Ends, Moves
  <2>2. manifest'[r].items = items /\ \A s \in Saved : s # r /\ manifest'[s] = manifest[s]
    BY <1>3, <1>4, <1>8 DEF Saved
  <2>3. ASSUME NEW d \in Exec PROVE Coherent(exec[d].items)'
    BY <1>1, <2>1 DEF ArchiveInv, ItemsInv, Coherent
  <2>4. ASSUME NEW s \in Saved' PROVE Coherent(manifest[s].items)'
    BY <1>1, <1>8, <2>2 DEF ArchiveInv, ItemsInv, Coherent
  <2>5. /\ ArchivedIn(exec[e].items)' = {}
        /\ \A d \in Exec \ {e} : ArchivedIn(exec[d].items)' = ArchivedIn(exec[d].items)
        /\ ArchivedIn(manifest[r].items)' = ArchivedIn(exec[e].items)
        /\ \A s \in Saved : ArchivedIn(manifest[s].items)' = ArchivedIn(manifest[s].items)
    BY <2>1, <2>2 DEF ArchivedIn
  <2>6. ASSUME NEW d \in Exec, NEW f \in Exec, d # f
        PROVE  ArchivedIn(exec[d].items)' \cap ArchivedIn(exec[f].items)' = {}
    BY <2>5, <2>6 DEF ArchiveInv, ItemsInv
  <2>7. ASSUME NEW d \in Exec, NEW s \in Saved'
        PROVE  ArchivedIn(exec[d].items)' \cap ArchivedIn(manifest[s].items)' = {}
    BY <1>8, <2>5 DEF ArchiveInv, ItemsInv
  <2>8. ASSUME NEW s \in Saved', NEW t \in Saved', s # t
        PROVE  ArchivedIn(manifest[s].items)' \cap ArchivedIn(manifest[t].items)' = {}
    BY <1>8, <2>5, <2>8 DEF ArchiveInv, ItemsInv
  <2> QED BY <2>3, <2>4, <2>6, <2>7, <2>8 DEF ItemsInv
<1> QED BY <1>5, <1>6, <1>7, <1>9 DEF ArchiveInv

-----------------------------------------------------------------------------
(* The staged workflow: what each action does.                             *)

\* The files of the other runs, and whatever is only ever added to.
Local(e) ==
  /\ \A r \in Run \ {exec[e].run} :
       /\ batches'[r] = batches[r] /\ curation'[r] = curation[r] /\ omissions'[r] = omissions[r]
       /\ staged'[r] = staged[r] /\ ledger'[r] = ledger[r] /\ published'[r] = published[r]
  /\ documents \subseteq documents' /\ feed \subseteq feed' /\ DOMAIN store \subseteq DOMAIN store'

\* An execution of the staged workflow goes on or ends.
StagedMove(e) ==
  /\ Moves(e) /\ Local(e) /\ StoreGrows /\ UNCHANGED scenario
  /\ exec'[e].run = exec[e].run /\ exec[e].run \in Run
  /\ exec[e].pc \in Staging \cup {"fetch"}
  /\ (exec'[e].pc \in Staging /\ Stays(e)) \/ Ends(e)

LocalFiles ==
  UNCHANGED <<batches, curation, omissions, staged, ledger, published, documents, feed>>

LEMMA LocalSame == ASSUME NEW e \in Exec, StoreGrows, LocalFiles PROVE Local(e)
BY DEF Local, LocalFiles, StoreGrows

LEMMA CollectedEffect ==
  ASSUME TypeOK, NEW e \in Exec, Collected(e)
  PROVE  /\ StagedMove(e) /\ exec[e].pc = "fetch" /\ exec'[e].pc = "prepare" /\ Stays(e)
         /\ scenario.workflow[exec[e].run] = "v1"
         /\ UNCHANGED <<batches, store, artifactVars>>
<1>1. /\ exec[e].pc = "fetch" /\ Goto(e, "prepare") /\ exec[e].run \in Run
      /\ scenario.workflow[exec[e].run] = "v1"
      /\ UNCHANGED <<scenario, batches, store, artifactVars>>
  BY DEF Collected, Fetched, TypeOK
<1>2. Moves(e) /\ Stays(e) /\ exec'[e].pc = "prepare"
  BY <1>1, GotoEffect DEF Staging
<1>3. StoreGrows /\ Local(e)
  BY <1>1, StoreSame, LocalSame DEF LocalFiles, artifactVars, staging, root
<1> QED BY <1>1, <1>2, <1>3 DEF StagedMove, Stays, Staging

LEMMA PrepareEffect ==
  ASSUME TypeOK, NEW e \in Exec, Prepare(e)
  PROVE  /\ StagedMove(e) /\ exec[e].pc = "prepare" /\ exec'[e].pc = "filter"
         /\ exec'[e].asked \in SUBSET (CandidateIds \ DOMAIN curation[exec[e].run])
         /\ UNCHANGED <<batches, store, artifactVars>>
<1> DEFINE r == exec[e].run
<1>1. /\ exec[e] \in ExecType /\ r \in Run /\ exec[e].pc = "prepare"
      /\ UNCHANGED <<scenario, batches, store, artifactVars>>
  BY ExecFields DEF Prepare, TypeOK
<1>2. PICK asked \in Selections(IdsOf(Candidates(batches[r])) \ DOMAIN curation[r]) :
        Go(e, [exec[e] EXCEPT !.pc = "filter", !.asked = asked])
  BY DEF Prepare
<1>3. asked \in SUBSET (CandidateIds \ DOMAIN curation[r])
  <2>1. Candidates(batches[r]) \in SUBSET CandidateType
    BY <1>1, CandidatesType DEF TypeOK, FilesType
  <2>2. IdsOf(Candidates(batches[r])) \in SUBSET CandidateIds
    BY <2>1 DEF IdsOf, CandidateType
  <2> QED BY <1>2, <2>2 DEF Selections
<1> DEFINE next == [exec[e] EXCEPT !.pc = "filter", !.asked = asked]
<1>4. next \in ExecType
  BY <1>1, <1>3 DEF ExecType, Staging
<1>5. /\ next.pc = "filter" /\ next.run = r /\ next.items = exec[e].items
      /\ next.hand = exec[e].hand /\ next.asked = asked
  BY <1>1 DEF ExecType
<1>6. Moves(e) /\ Stays(e) /\ exec'[e].pc = "filter" /\ exec'[e].asked = asked
  <2> HIDE DEF next
  <2> QED BY <1>1, <1>2, <1>4, <1>5, GoType DEF Moves, Stays, next
<1>7. StoreGrows /\ Local(e)
  BY <1>1, StoreSame, LocalSame DEF LocalFiles, artifactVars, staging, root
<1> QED BY <1>1, <1>3, <1>6, <1>7 DEF StagedMove, Stays, Staging

\* A response decides ids that were asked and undecided.
LEMMA SaveDecisionsEffect ==
  ASSUME TypeOK, NEW e \in Exec, SaveDecisions(e)
  PROVE  /\ StagedMove(e) /\ exec[e].pc = "filter" /\ exec'[e].pc = "count"
         /\ \E said : /\ DOMAIN said \subseteq exec[e].asked
                     /\ curation' = [curation EXCEPT ![exec[e].run] = Merged(@, said)]
         /\ UNCHANGED <<batches, store, omissions, staged, root>>
<1> DEFINE r == exec[e].run
           Said(draft) ==
             [id \in exec[e].asked \ {i \in exec[e].asked : draft[i] = "omitted"} |-> draft[id]]
<1>1. /\ r \in Run /\ exec[e].pc = "filter" /\ Goto(e, "count")
      /\ UNCHANGED <<scenario, batches, store, omissions, staged, root>> /\ DOMAIN curation = Run
  BY DEF SaveDecisions, TypeOK
<1>2. \E said : /\ DOMAIN said \subseteq exec[e].asked
                /\ curation' = [curation EXCEPT ![r] = Merged(@, said)]
  <2>1. PICK draft \in [exec[e].asked -> Judgements] :
          curation' = [curation EXCEPT ![r] = Merged(@, Said(draft))]
    BY DEF SaveDecisions
  <2>2. DOMAIN Said(draft) \subseteq exec[e].asked
    OBVIOUS
  <2> QED BY <2>1, <2>2
<1>3. Moves(e) /\ Stays(e) /\ exec'[e].pc = "count"
  BY <1>1, GotoEffect DEF Staging
<1>4. StoreGrows
  BY <1>1, StoreSame
<1>5. Local(e)
  BY <1>1, <1>2, <1>4 DEF Local, StoreGrows, root
<1> QED BY <1>1, <1>2, <1>3, <1>4, <1>5 DEF StagedMove, Stays, Staging

\* Then the ids it left undecided are counted, and the run goes on or ends.
LEMMA SaveCountsEffect ==
  ASSUME TypeOK, NEW e \in Exec, SaveCounts(e)
  PROVE  /\ StagedMove(e) /\ exec[e].pc = "count"
         /\ omissions' = [omissions EXCEPT ![exec[e].run] =
              Counted(@, exec[e].asked, exec[e].asked \ DOMAIN curation[exec[e].run])]
         /\ \/ exec'[e].pc = "prepare"
            \/ /\ exec'[e].pc = "build"
               /\ DOMAIN curation[exec[e].run] = IdsOf(Candidates(batches[exec[e].run]))
            \/ exec'[e].pc = "ended"
         /\ UNCHANGED <<batches, store, curation, staged, root>>
<1> DEFINE r == exec[e].run
           Next1(pc) == [exec[e] EXCEPT !.asked = {}, !.pc = pc]
<1>1. /\ exec[e] \in ExecType /\ r \in Run /\ exec[e].pc = "count"
      /\ UNCHANGED <<scenario, batches, store, curation, staged, root>>
      /\ DOMAIN omissions = Run
  BY ExecFields DEF SaveCounts, TypeOK
<1>2. /\ omissions' = [omissions EXCEPT ![r] =
           Counted(@, exec[e].asked, exec[e].asked \ DOMAIN curation[r])]
      /\ \/ End(e)
         \/ Go(e, Next1(IF IdsOf(Candidates(batches[r])) = DOMAIN curation[r]
                        THEN "build" ELSE "prepare"))
  BY <1>1 DEF SaveCounts
<1>3. /\ Moves(e) /\ exec'[e].run = r
      /\ \/ Ends(e)
         \/ /\ exec'[e].pc = "prepare" /\ Stays(e)
         \/ /\ exec'[e].pc = "build" /\ Stays(e)
            /\ DOMAIN curation[r] = IdsOf(Candidates(batches[r]))
  <2>1. CASE End(e)
    BY <2>1, EndEffect
  <2>2. ASSUME NEW pc \in {"build", "prepare"}, Go(e, Next1(pc))
        PROVE  Moves(e) /\ exec'[e].pc = pc /\ Stays(e)
    <3> DEFINE next == Next1(pc)
    <3>1. next \in ExecType
      BY <1>1 DEF ExecType, Staging
    <3>2. /\ next.pc = pc /\ next.run = r /\ next.items = exec[e].items
          /\ next.hand = exec[e].hand
      BY <1>1 DEF ExecType
    <3>3. Go(e, next)
      BY <2>2
    <3> HIDE DEF next, Next1
    <3> QED BY <1>1, <3>1, <3>2, <3>3, GoType DEF Moves, Stays
  <2>3. CASE Go(e, Next1("build")) /\ IdsOf(Candidates(batches[r])) = DOMAIN curation[r]
    <3> HIDE DEF Next1
    <3> QED BY <2>2, <2>3 DEF Stays
  <2>4. CASE Go(e, Next1("prepare"))
    <3> HIDE DEF Next1
    <3> QED BY <2>2, <2>4 DEF Stays
  <2> QED BY <1>2, <2>1, <2>3, <2>4
<1>4. StoreGrows /\ Local(e)
  <2>1. StoreGrows
    BY <1>1, StoreSame
  <2> QED BY <1>1, <1>2, <2>1 DEF Local, StoreGrows, root
<1>5. StagedMove(e)
  BY <1>1, <1>3, <1>4 DEF StagedMove, Staging
<1> QED BY <1>1, <1>2, <1>3, <1>5 DEF Ends

-----------------------------------------------------------------------------
(* The set that is built has no two documents alike.                       *)

\* Two keys of five places are in one order or the other, unless they agree.
LEMMA BelowTotal ==
  ASSUME NEW p, NEW q, DOMAIN p = 1..5, DOMAIN q = 1..5,
         \A i \in 1..5 : p[i] \in Nat /\ q[i] \in Nat,
         NEW j \in 1..5, p[j] # q[j]
  PROVE  Below(p, q) \/ Below(q, p)
<1>1. ASSUME NEW i \in 1..5, p[i] # q[i], \A k \in 1..i - 1 : p[k] = q[k]
      PROVE  Below(p, q) \/ Below(q, p)
  BY <1>1 DEF Below
<1>2. CASE p[1] # q[1]
  BY <1>1, <1>2
<1>3. CASE p[1] = q[1] /\ p[2] # q[2]
  BY <1>1, <1>3
<1>4. CASE p[1] = q[1] /\ p[2] = q[2] /\ p[3] # q[3]
  BY <1>1, <1>4
<1>5. CASE p[1] = q[1] /\ p[2] = q[2] /\ p[3] = q[3] /\ p[4] # q[4]
  BY <1>1, <1>5
<1>6. CASE p[1] = q[1] /\ p[2] = q[2] /\ p[3] = q[3] /\ p[4] = q[4] /\ p[5] # q[5]
  BY <1>1, <1>6
<1> QED BY <1>2, <1>3, <1>4, <1>5, <1>6

LEMMA EarlierTotal ==
  ASSUME NEW c \in CandidateType, NEW d \in CandidateType, c.id # d.id
  PROVE  Earlier(c, d) \/ Earlier(d, c)
<1> DEFINE key(x) == <<x.article.url, x.article.connector, x.id[1], x.id[2], x.id[3]>>
<1>1. ASSUME NEW x \in CandidateType
      PROVE  /\ DOMAIN key(x) = 1..5 /\ \A i \in 1..5 : key(x)[i] \in Nat
             /\ key(x)[3] = x.id[1] /\ key(x)[4] = x.id[2] /\ key(x)[5] = x.id[3]
  <2>1. PICK a \in Exec, b \in Codes, f \in Places : x.id = <<a, b, f>>
    BY DEF CandidateType, CandidateIds
  <2>2. a \in Nat /\ b \in Nat /\ f \in Nat /\ x.article.url \in Nat /\ x.article.connector \in Nat
    BY AcquisitionAssumption DEF CandidateType
  <2> QED BY <2>1, <2>2
<1>2. c.id[1] # d.id[1] \/ c.id[2] # d.id[2] \/ c.id[3] # d.id[3]
  BY DEF CandidateType, CandidateIds
<1>3. PICK j \in 1..5 : key(c)[j] # key(d)[j]
  <2> HIDE DEF key
  <2>1. key(c)[3] # key(d)[3] \/ key(c)[4] # key(d)[4] \/ key(c)[5] # key(d)[5]
    BY <1>1, <1>2
  <2> QED BY <2>1
<1>4. \A i \in 1..5 : key(c)[i] \in Nat /\ key(d)[i] \in Nat
  BY <1>1
<1>5. DOMAIN key(c) = 1..5 /\ DOMAIN key(d) = 1..5
  BY <1>1
<1>6. Earlier(c, d) = Below(key(c), key(d)) /\ Earlier(d, c) = Below(key(d), key(c))
  BY DEF Earlier
<1> HIDE DEF key
<1> QED BY <1>3, <1>4, <1>5, <1>6, BelowTotal

\* An accepted candidate resembles none that is known.
LEMMA AcceptedIsNew ==
  ASSUME NEW c, NEW judgement, NEW known, Disposition(c, judgement, known) = "accepted",
         NEW l \in known
  PROVE  l.url # Line(c).url /\ l.title # c.article.title /\ {l.title, c.article.title} \notin Near
<1>1. Line(c).url \notin LegacyUrls \cup {k.url : k \in known}
  BY DEF Disposition
<1>2. ~ \E k \in known : k.title = c.article.title
  BY <1>1 DEF Disposition
<1>3. ~ \E k \in known : {k.title, c.article.title} \in Near
  BY <1>1, <1>2 DEF Disposition
<1> QED BY <1>1, <1>2, <1>3

LEMMA AcceptedApart ==
  ASSUME NEW candidates \in SUBSET CandidateType, NEW judged,
         \A c, d \in candidates : c.id = d.id => c = d,
         NEW accepted \in Accepted(candidates, judged)
  PROVE  Apart(accepted)
<1>1. accepted = {c \in candidates : Ruling(c, judged, accepted) = "accepted"}
  BY DEF Accepted
<1>2. ASSUME NEW c \in accepted, NEW d \in accepted, Earlier(d, c)
      PROVE  /\ Line(c).url # Line(d).url /\ Line(c).title # Line(d).title
             /\ {Line(d).title, Line(c).title} \notin Near
  <2> DEFINE known == Known(index, {x \in accepted : Earlier(x, c)})
  <2>1. Line(d) \in known
    BY <1>2 DEF Known
  <2>2. Disposition(c, judged[c.id], known) = "accepted"
    BY <1>1 DEF Ruling
  <2> HIDE DEF known
  <2>3. /\ Line(d).url # Line(c).url /\ Line(d).title # c.article.title
        /\ {Line(d).title, c.article.title} \notin Near
    BY <2>1, <2>2, AcceptedIsNew
  <2> QED BY <2>3 DEF Line
<1>3. ASSUME NEW c \in accepted, NEW d \in accepted, c # d
      PROVE  /\ Line(c).url # Line(d).url /\ Line(c).title # Line(d).title
             /\ {Line(c).title, Line(d).title} \notin Near
  <2>1. c \in CandidateType /\ d \in CandidateType /\ c.id # d.id
    BY <1>1, <1>3
  <2>2. Earlier(c, d) \/ Earlier(d, c)
    BY <2>1, EarlierTotal
  <2>3. {Line(c).title, Line(d).title} = {Line(d).title, Line(c).title}
    OBVIOUS
  <2> QED BY <1>2, <2>2, <2>3
<1> QED BY <1>3 DEF Apart

LEMMA DispositionIn ==
  ASSUME NEW c, NEW judgement, NEW known
  PROVE  Disposition(c, judgement, known) \in DispositionNames
BY DEF Disposition, DispositionNames

LEMMA BuildEffect ==
  ASSUME TypeOK, NEW e \in Exec, Build(e),
         \A c, d \in Candidates(batches[exec[e].run]) : c.id = d.id => c = d
  PROVE  /\ StagedMove(e) /\ exec[e].pc = "build"
         /\ UNCHANGED <<batches, store, curation, omissions, root>>
         /\ \/ Ends(e) /\ UNCHANGED staged
            \/ /\ exec'[e].pc = "objects"
               /\ \E s \in StagedType :
                    /\ staged' = [staged EXCEPT ![exec[e].run] = s]
                    /\ exec'[e].todo = s.manifest.accepted /\ s.ledger = s.manifest.ledger
                    /\ IdsOf(s.ledger.rows) = IdsOf(Candidates(batches[exec[e].run]))
                    /\ Apart(s.manifest.accepted)
<1>0. PICK r \in Run : r = exec[e].run
  BY DEF TypeOK, Build
<1> DEFINE candidates == Candidates(batches[r])
<1>1. /\ exec[e] \in ExecType /\ exec[e].pc = "build"
      /\ UNCHANGED <<scenario, batches, store, curation, omissions, root>>
      /\ candidates \in SUBSET CandidateType
  BY <1>0, ExecFields, CandidatesType DEF Build, TypeOK, FilesType
<1>2. StoreGrows
  BY <1>1, StoreSame
<1>3. CASE End(e) /\ UNCHANGED staged
  <2>1. Moves(e) /\ Ends(e) /\ exec'[e].run = exec[e].run
    BY <1>3, EndEffect
  <2>2. Local(e)
    BY <1>1, <1>2, <1>3, LocalSame DEF LocalFiles, root
  <2> QED BY <1>0, <1>1, <1>2, <1>3, <2>1, <2>2 DEF StagedMove, Staging
<1>4. ASSUME NEW accepted \in Accepted(candidates, curation[r]),
             LET lines == Ledger(candidates, curation[r], accepted) IN
             /\ staged' = [staged EXCEPT ![r] =
                  [ledger |-> lines, index |-> index \cup {Line(c) : c \in accepted},
                   manifest |-> [by |-> e, ledger |-> lines, accepted |-> accepted]]]
             /\ Go(e, [exec[e] EXCEPT !.pc = "objects", !.todo = accepted])
      PROVE  /\ StagedMove(e) /\ exec'[e].pc = "objects"
             /\ \E s \in StagedType :
                    /\ staged' = [staged EXCEPT ![r] = s]
                    /\ exec'[e].todo = s.manifest.accepted /\ s.ledger = s.manifest.ledger
                    /\ IdsOf(s.ledger.rows) = IdsOf(candidates)
                    /\ Apart(s.manifest.accepted)
  <2> DEFINE lines == Ledger(candidates, curation[r], accepted)
             s == [ledger |-> lines, index |-> index \cup {Line(c) : c \in accepted},
                   manifest |-> [by |-> e, ledger |-> lines, accepted |-> accepted]]
             next == [exec[e] EXCEPT !.pc = "objects", !.todo = accepted]
  <2>1. accepted \in SUBSET CandidateType
    BY <1>1 DEF Accepted
  <2>2. Apart(accepted)
    BY <1>0, <1>1, AcceptedApart
  <2>3. lines \in LedgerType
    <3>1. ASSUME NEW c \in candidates
          PROVE  [id |-> c.id, disposition |-> Ruling(c, curation[r], accepted)] \in Rows
      BY <1>1, DispositionIn DEF Rows, Ruling, CandidateType
    <3> QED BY <3>1 DEF Ledger, LedgerType
  <2>4. IdsOf(lines.rows) = IdsOf(candidates)
    <3> DEFINE Row(c) == [id |-> c.id, disposition |-> Ruling(c, curation[r], accepted)]
    <3>1. lines.rows = {Row(c) : c \in candidates}
      BY DEF Ledger
    <3>2. \A c \in candidates : Row(c).id = c.id
      OBVIOUS
    <3> HIDE DEF lines, candidates, Row
    <3> QED BY <3>1, <3>2 DEF IdsOf
  <2>5. s \in StagedType
    <3>1. index \cup {Line(c) : c \in accepted} \in SUBSET {Line(c) : c \in CandidateType}
      BY <2>1 DEF TypeOK, FilesType
    <3> HIDE DEF lines
    <3> QED BY <2>1, <2>3, <3>1 DEF StagedType, ManifestType
  <2>6. next \in ExecType
    BY <1>1, <2>1 DEF ExecType, Staging
  <2>7. /\ next.pc = "objects" /\ next.run = r /\ next.items = exec[e].items
        /\ next.hand = exec[e].hand /\ next.todo = accepted
    BY <1>0, <1>1 DEF ExecType
  <2>8. Moves(e) /\ Stays(e) /\ exec'[e].pc = "objects" /\ exec'[e].todo = accepted
    <3>1. Go(e, next)
      BY <1>4
    <3> HIDE DEF next
    <3> QED BY <1>0, <2>6, <2>7, <3>1, GoType DEF Moves, Stays
  <2>9. Local(e)
    BY <1>0, <1>1, <1>2, <1>4 DEF Local, StoreGrows, root
  <2>10. StagedMove(e)
    BY <1>0, <1>1, <1>2, <2>8, <2>9 DEF StagedMove, Stays, Staging
  <2>11. s.manifest.accepted = accepted /\ s.ledger = lines /\ s.manifest.ledger = lines
    OBVIOUS
  <2>12. staged' = [staged EXCEPT ![r] = s]
    BY <1>4
  <2> HIDE DEF s, lines
  <2> QED BY <2>2, <2>4, <2>5, <2>8, <2>10, <2>11, <2>12
<1> QED BY <1>0, <1>1, <1>3, <1>4 DEF Build

-----------------------------------------------------------------------------
(* The staged workflow: the publication.                                   *)

LEMMA RefuseDraftEffect ==
  ASSUME TypeOK, NEW e \in Exec, RefuseDraft(e)
  PROVE  StagedMove(e) /\ Ends(e) /\ UNCHANGED <<batches, store, artifactVars>>
<1>1. /\ exec[e].pc = "filter" /\ End(e) /\ exec[e].run \in Run
      /\ UNCHANGED <<scenario, batches, store, artifactVars>>
  BY DEF RefuseDraft, TypeOK
<1>2. StoreGrows /\ Local(e)
  BY <1>1, StoreSame, LocalSame DEF LocalFiles, artifactVars, staging, root
<1> QED BY <1>1, <1>2, EndEffect DEF StagedMove, Staging

\* A document at a time goes to the store.
LEMMA UploadDocumentEffect ==
  ASSUME TypeOK, NEW e \in Exec, UploadDocument(e)
  PROVE  /\ StagedMove(e) /\ exec[e].pc = "objects" /\ exec'[e].pc = "objects"
         /\ \E c \in exec[e].todo : exec'[e].todo = exec[e].todo \ {c} /\ Stored(c)'
         /\ UNCHANGED <<batches, artifactVars>>
<1>0. /\ exec[e] \in ExecType /\ exec[e].pc = "objects" /\ exec[e].run \in Run
      /\ UNCHANGED <<scenario, batches, artifactVars>>
  BY ExecFields DEF UploadDocument, TypeOK
<1>1. PICK c \in exec[e].todo :
        Put(<<"v1", c>>, c) /\ Go(e, [exec[e] EXCEPT !.todo = @ \ {c}])
  BY DEF UploadDocument
<1> DEFINE next == [exec[e] EXCEPT !.todo = @ \ {c}]
<1>2. next \in ExecType
  BY <1>0 DEF ExecType
<1>3. /\ next.pc = "objects" /\ next.run = exec[e].run /\ next.items = exec[e].items
      /\ next.hand = exec[e].hand /\ next.todo = exec[e].todo \ {c}
  BY <1>0 DEF ExecType
<1>4. Moves(e) /\ Stays(e) /\ exec'[e].pc = "objects" /\ exec'[e].todo = exec[e].todo \ {c}
  <2> HIDE DEF next
  <2> QED BY <1>0, <1>1, <1>2, <1>3, GoType DEF Moves, Stays, next
<1>5. StoreGrows /\ Local(e) /\ Stored(c)'
  <2>1. StoreGrows
    BY <1>1, StagedPutGrows
  <2>2. Stored(c)'
    BY <1>1, PutGrows DEF Stored
  <2> QED BY <1>0, <2>1, <2>2, LocalSame DEF LocalFiles, artifactVars, staging, root
<1> QED BY <1>0, <1>4, <1>5 DEF StagedMove, Stays, Staging

LEMMA UploadDocumentFailsEffect ==
  ASSUME TypeOK, NEW e \in Exec, UploadDocumentFails(e)
  PROVE  StagedMove(e) /\ Ends(e) /\ UNCHANGED <<batches, artifactVars>>
<1>1. /\ exec[e].pc = "objects" /\ exec[e].run \in Run /\ End(e)
      /\ UNCHANGED <<scenario, batches, artifactVars>>
  BY DEF UploadDocumentFails, TypeOK
<1>2. PICK c \in exec[e].todo : Put(<<"v1", c>>, c) \/ UNCHANGED store
  BY DEF UploadDocumentFails, PutFails
<1>3. StoreGrows
  BY <1>2, StagedPutGrows, StoreSame
<1>4. Local(e)
  BY <1>1, <1>3, LocalSame DEF LocalFiles, artifactVars, staging, root
<1> QED BY <1>1, <1>3, <1>4, EndEffect DEF StagedMove, Staging

LEMMA PublishDocumentsEffect ==
  ASSUME TypeOK, NEW e \in Exec, PublishDocuments(e)
  PROVE  /\ StagedMove(e) /\ exec[e].pc = "objects" /\ exec[e].todo = {}
         /\ exec'[e].pc = "ledger" /\ exec'[e].todo = {}
         /\ documents' = documents \cup staged[exec[e].run].manifest.accepted
         /\ UNCHANGED <<batches, store, staging, ledger, index, published, feed>>
<1>1. /\ exec[e].pc = "objects" /\ exec[e].todo = {} /\ Goto(e, "ledger") /\ exec[e].run \in Run
      /\ documents' = documents \cup staged[exec[e].run].manifest.accepted
      /\ UNCHANGED <<scenario, batches, store, staging, ledger, index, published, feed>>
  BY DEF PublishDocuments, TypeOK
<1>2. Moves(e) /\ Stays(e) /\ exec'[e].pc = "ledger" /\ exec'[e].todo = exec[e].todo
  BY <1>1, GotoEffect DEF Staging
<1>3. StoreGrows
  BY <1>1, StoreSame
<1>4. Local(e)
  BY <1>1, <1>3 DEF Local, StoreGrows, staging
<1> QED BY <1>1, <1>2, <1>3, <1>4 DEF StagedMove, Stays, Staging

LEMMA PublishLedgerEffect ==
  ASSUME TypeOK, NEW e \in Exec, PublishLedger(e)
  PROVE  /\ StagedMove(e) /\ exec[e].pc = "ledger"
         /\ \/ Ends(e) /\ UNCHANGED ledger
            \/ /\ exec'[e].pc = "index" /\ exec'[e].todo = exec[e].todo
               /\ ledger[exec[e].run] \in {NoFile, staged[exec[e].run].ledger}
               /\ ledger' = [ledger EXCEPT ![exec[e].run] = staged[exec[e].run].ledger]
         /\ UNCHANGED <<batches, store, staging, documents, index, published, feed>>
<1> DEFINE r == exec[e].run
<1>1. /\ exec[e].pc = "ledger" /\ r \in Run
      /\ UNCHANGED <<scenario, batches, store, staging, documents, index, published, feed>>
  BY DEF PublishLedger, TypeOK
<1>2. StoreGrows
  BY <1>1, StoreSame
<1>3. CASE End(e) /\ UNCHANGED ledger
  <2>1. Local(e)
    BY <1>1, <1>2, <1>3, LocalSame DEF LocalFiles, staging
  <2> QED BY <1>1, <1>2, <1>3, <2>1, EndEffect DEF StagedMove, Staging
<1>4. CASE /\ Publishable(ledger[r], staged[r].ledger)
           /\ ledger' = [ledger EXCEPT ![r] = staged[r].ledger] /\ Goto(e, "index")
  <2>1. Moves(e) /\ Stays(e) /\ exec'[e].pc = "index" /\ exec'[e].todo = exec[e].todo
    BY <1>1, <1>4, GotoEffect DEF Staging
  <2>2. Local(e)
    BY <1>1, <1>2, <1>4 DEF Local, StoreGrows, staging, TypeOK, FilesType
  <2> QED BY <1>1, <1>2, <1>4, <2>1, <2>2 DEF StagedMove, Stays, Staging, Publishable
<1> QED BY <1>3, <1>4 DEF PublishLedger

LEMMA PublishIndexEffect ==
  ASSUME TypeOK, NEW e \in Exec, PublishIndex(e)
  PROVE  /\ StagedMove(e) /\ exec[e].pc = "index" /\ exec'[e].pc = "manifest"
         /\ exec'[e].todo = exec[e].todo /\ index' = staged[exec[e].run].index
         /\ UNCHANGED <<batches, store, staging, documents, ledger, published, feed>>
<1>1. /\ exec[e].pc = "index" /\ exec[e].run \in Run /\ Goto(e, "manifest")
      /\ index' = staged[exec[e].run].index
      /\ UNCHANGED <<scenario, batches, store, staging, documents, ledger, published, feed>>
  BY DEF PublishIndex, TypeOK
<1>2. Moves(e) /\ Stays(e) /\ exec'[e].pc = "manifest" /\ exec'[e].todo = exec[e].todo
  BY <1>1, GotoEffect DEF Staging
<1>3. StoreGrows /\ Local(e)
  BY <1>1, StoreSame, LocalSame DEF LocalFiles, staging
<1> QED BY <1>1, <1>2, <1>3 DEF StagedMove, Stays, Staging

LEMMA PublishManifestEffect ==
  ASSUME TypeOK, NEW e \in Exec, PublishManifest(e)
  PROVE  /\ StagedMove(e) /\ exec[e].pc = "manifest"
         /\ \/ Ends(e) /\ UNCHANGED published
            \/ /\ exec'[e].pc = "feed" /\ exec'[e].todo = exec[e].todo
               /\ published[exec[e].run] \in {NoFile, staged[exec[e].run].manifest}
               /\ published' = [published EXCEPT ![exec[e].run] = staged[exec[e].run].manifest]
         /\ UNCHANGED <<batches, store, staging, documents, ledger, index, feed>>
<1> DEFINE r == exec[e].run
<1>1. /\ exec[e].pc = "manifest" /\ r \in Run
      /\ UNCHANGED <<scenario, batches, store, staging, documents, ledger, index, feed>>
  BY DEF PublishManifest, TypeOK
<1>2. StoreGrows
  BY <1>1, StoreSame
<1>3. CASE End(e) /\ UNCHANGED published
  <2>1. Local(e)
    BY <1>1, <1>2, <1>3, LocalSame DEF LocalFiles, staging
  <2> QED BY <1>1, <1>2, <1>3, <2>1, EndEffect DEF StagedMove, Staging
<1>4. CASE /\ Publishable(published[r], staged[r].manifest)
           /\ published' = [published EXCEPT ![r] = staged[r].manifest] /\ Goto(e, "feed")
  <2>1. Moves(e) /\ Stays(e) /\ exec'[e].pc = "feed" /\ exec'[e].todo = exec[e].todo
    BY <1>1, <1>4, GotoEffect DEF Staging
  <2>2. Local(e)
    BY <1>1, <1>2, <1>4 DEF Local, StoreGrows, staging, TypeOK, FilesType
  <2> QED BY <1>1, <1>2, <1>4, <2>1, <2>2 DEF StagedMove, Stays, Staging, Publishable
<1> QED BY <1>3, <1>4 DEF PublishManifest

LEMMA AppendFeedEffect ==
  ASSUME TypeOK, NEW e \in Exec, AppendFeed(e)
  PROVE  /\ StagedMove(e) /\ exec[e].pc = "feed"
         /\ \/ Ends(e) /\ UNCHANGED feed
            \/ /\ exec'[e].pc = "clean" /\ exec'[e].todo = exec[e].todo
               /\ feed' = feed \cup {[run |-> exec[e].run, manifest |-> published[exec[e].run]]}
         /\ UNCHANGED <<batches, store, staging, documents, ledger, index, published>>
<1> DEFINE r == exec[e].run
<1>1. /\ exec[e].pc = "feed" /\ r \in Run
      /\ UNCHANGED <<scenario, batches, store, staging, documents, ledger, index, published>>
  BY DEF AppendFeed, TypeOK
<1>2. StoreGrows
  BY <1>1, StoreSame
<1>3. CASE End(e) /\ UNCHANGED feed
  <2>1. Local(e)
    BY <1>1, <1>2, <1>3, LocalSame DEF LocalFiles, staging
  <2> QED BY <1>1, <1>2, <1>3, <2>1, EndEffect DEF StagedMove, Staging
<1>4. CASE feed' = feed \cup {[run |-> r, manifest |-> published[r]]} /\ Goto(e, "clean")
  <2>1. Moves(e) /\ Stays(e) /\ exec'[e].pc = "clean" /\ exec'[e].todo = exec[e].todo
    BY <1>1, <1>4, GotoEffect DEF Staging
  <2>2. Local(e)
    BY <1>1, <1>2, <1>4 DEF Local, StoreGrows, staging
  <2> QED BY <1>1, <1>2, <1>4, <2>1, <2>2 DEF StagedMove, Stays, Staging
<1> QED BY <1>3, <1>4 DEF AppendFeed

LEMMA CleanEffect ==
  ASSUME TypeOK, NEW e \in Exec, Clean(e)
  PROVE  /\ StagedMove(e) /\ exec[e].pc = "clean" /\ Ends(e)
         /\ batches' = [batches EXCEPT ![exec[e].run] = {}]
         /\ curation' = [curation EXCEPT ![exec[e].run] = <<>>]
         /\ omissions' = [omissions EXCEPT ![exec[e].run] = <<>>]
         /\ staged' = [staged EXCEPT ![exec[e].run] = NoFile]
         /\ UNCHANGED <<store, root>>
<1> DEFINE r == exec[e].run
<1>1. /\ exec[e].pc = "clean" /\ r \in Run /\ End(e)
      /\ batches' = [batches EXCEPT ![r] = {}] /\ curation' = [curation EXCEPT ![r] = <<>>]
      /\ omissions' = [omissions EXCEPT ![r] = <<>>] /\ staged' = [staged EXCEPT ![r] = NoFile]
      /\ UNCHANGED <<scenario, store, root>>
  BY DEF Clean, TypeOK
<1>2. StoreGrows
  BY <1>1, StoreSame
<1>3. Local(e)
  <2>1. DOMAIN curation = Run /\ DOMAIN omissions = Run
    BY DEF TypeOK
  <2> QED BY <1>1, <1>2, <2>1 DEF Local, StoreGrows, root, TypeOK, FilesType
<1> QED BY <1>1, <1>2, <1>3, EndEffect DEF StagedMove, Staging

\* Every action of the staged workflow moves its execution so.
LEMMA StagedMoves ==
  ASSUME TypeOK, ArtifactInv, NEW e \in Exec, ArtifactStep(e)
  PROVE  StagedMove(e) /\ (exec[e].pc = "fetch" => scenario.workflow[exec[e].run] = "v1")
<1>1. exec[e].run \in Run =>
        \A c, d \in Candidates(batches[exec[e].run]) : c.id = d.id => c = d
  BY DEF ArtifactInv, CandidatesInv
<1>2. CASE Build(e)
  <2>1. exec[e].run \in Run
    BY <1>2 DEF Build, TypeOK
  <2> QED BY <1>1, <1>2, <2>1, BuildEffect DEF Build
<1>3. CASE \/ Collected(e) \/ Prepare(e) \/ SaveDecisions(e) \/ SaveCounts(e)
           \/ RefuseDraft(e)
  BY <1>3, CollectedEffect, PrepareEffect, SaveDecisionsEffect, SaveCountsEffect,
     RefuseDraftEffect DEF Prepare, RefuseDraft
<1>4. CASE \/ UploadDocument(e) \/ UploadDocumentFails(e) \/ PublishDocuments(e)
           \/ PublishLedger(e) \/ PublishIndex(e)
  BY <1>4, UploadDocumentEffect, UploadDocumentFailsEffect, PublishDocumentsEffect,
     PublishLedgerEffect, PublishIndexEffect DEF UploadDocumentFails
<1>5. CASE PublishManifest(e) \/ AppendFeed(e) \/ Clean(e)
  BY <1>5, PublishManifestEffect, AppendFeedEffect, CleanEffect
<1> QED BY <1>2, <1>3, <1>4, <1>5 DEF ArtifactStep

-----------------------------------------------------------------------------
(* The archive's invariant is kept by every step.                          *)

LEMMA QuietKeeps ==
  ASSUME ArchiveInv, TypeOK, NEW e \in Exec, Moves(e), Stays(e) \/ Ends(e),
         exec[e].pc \notin Publishing, exec'[e].pc \notin Publishing \cup {"publish"},
         StoreGrows, UNCHANGED archiveVars
  PROVE  ArchiveInv'
<1>1. exec'[e].items = {} /\ exec'[e].hand = NoFile
  BY DEF ArchiveInv, AtWork, Stays, Ends, Handling
<1> QED BY <1>1, OutsideKeeps DEF archiveVars

LEMMA ArchiveInvStep ==
  ASSUME TypeOK, ArchiveInv, ArtifactInv, NEW e \in Exec, Begins(e) \/ Works(e) \/ Die(e)
  PROVE  ArchiveInv'
<1>1. CASE StartArchive(e)
  <2>1. PICK r \in Run : Begin(e, r, IF acquisition[r] = NoFile THEN "snapshot" ELSE "publish")
    BY <1>1 DEF StartArchive
  <2>2. UNCHANGED <<archiveVars, store>>
    BY <1>1 DEF StartArchive
  <2>3. PICK pc \in {"snapshot", "publish"} :
          Begin(e, r, pc) /\ (pc = "publish" => acquisition[r] # NoFile)
    BY <2>1
  <2>4. /\ Moves(e) /\ exec'[e].pc = pc /\ exec'[e].run = r
        /\ exec'[e].items = {} /\ exec'[e].hand = NoFile
    BY <2>3, BeginEffect
  <2>5. pc = "publish" => acquisition[r] \in AcquisitionType
    BY <2>3 DEF TypeOK, FilesType
  <2> QED BY <2>2, <2>4, <2>5, StoreSame, OutsideKeeps DEF archiveVars, Publishing
<1>2. CASE StartStaged(e) /\ UNCHANGED archiveVars
  <2>1. PICK r \in Run : Begin(e, r, "snapshot")
    BY <1>2 DEF StartStaged
  <2>2. UNCHANGED store
    BY <1>2 DEF StartStaged
  <2>3. /\ Moves(e) /\ exec'[e].pc = "snapshot"
        /\ exec'[e].items = {} /\ exec'[e].hand = NoFile
    BY <2>1, BeginEffect
  <2> QED BY <1>2, <2>2, <2>3, StoreSame, OutsideKeeps DEF archiveVars, Publishing
<1>3. CASE LoadSnapshot(e) /\ UNCHANGED archiveVars
  <2>1. /\ Moves(e) /\ exec[e].pc = "snapshot" /\ UNCHANGED store
        /\ (exec'[e].pc = "fetch" /\ Stays(e)) \/ Ends(e)
    BY <1>3, LoadEffect
  <2> QED BY <1>3, <2>1, StoreSame, QuietKeeps DEF Publishing, Ends
<1>4. CASE Fetch(e) /\ UNCHANGED archiveVars
  <2>1. Moves(e) /\ exec[e].pc = "fetch" /\ UNCHANGED store /\ exec'[e].pc = "fetch" /\ Stays(e)
    BY <1>4, FetchEffect
  <2> QED BY <1>4, <2>1, StoreSame, QuietKeeps DEF Publishing
<1>5. CASE SaveAcquisition(e)
  <2>1. PICK a \in AcquisitionType : acquisition' = [acquisition EXCEPT ![exec[e].run] = a]
    BY <1>5, SaveAcquisitionEffect
  <2>2. /\ Moves(e) /\ Stays(e) /\ exec[e].pc = "fetch" /\ exec'[e].pc = "publish"
        /\ exec[e].run \in Run /\ UNCHANGED <<store, manifest, document, archived>>
    BY <1>5, SaveAcquisitionEffect
  <2>3. /\ acquisition'[exec[e].run] \in AcquisitionType
        /\ \A r \in Run : acquisition[r] \in AcquisitionType => acquisition'[r] \in AcquisitionType
    BY <2>1, <2>2 DEF TypeOK, FilesType
  <2>4. exec'[e].items = {} /\ exec'[e].hand = NoFile /\ exec'[e].run = exec[e].run
    BY <2>2 DEF ArchiveInv, AtWork, Stays, Publishing, Handling
  <2> QED BY <2>2, <2>3, <2>4, StoreSame, OutsideKeeps DEF Publishing
<1>6. CASE \/ LockPublish(e) \/ NextCandidate(e) \/ Freeze(e) \/ Inspect(e) \/ Upload(e)
           \/ UploadFails(e) \/ SaveReceipt(e) \/ WriteManifest(e)
  BY <1>6, LockPublishKeeps, NextCandidateKeeps, FreezeKeeps, InspectKeeps, UploadKeeps,
     UploadFailsKeeps, SaveReceiptKeeps, WriteManifestKeeps
<1>7. CASE ArtifactStep(e) /\ UNCHANGED archiveVars
  <2>1. StagedMove(e)
    BY <1>7, StagedMoves
  <2> QED BY <1>7, <2>1, QuietKeeps DEF StagedMove, Staging, Publishing, Ends
<1>8. CASE Die(e)
  <2>1. End(e) /\ UNCHANGED <<archiveVars, store>>
    BY <1>8 DEF Die
  <2> QED BY <2>1, StoreSame, EndKeeps DEF archiveVars
<1> QED BY <1>1, <1>2, <1>3, <1>4, <1>5, <1>6, <1>7, <1>8 DEF Begins, Works, ArchiveStep

-----------------------------------------------------------------------------
(* Types are kept by every step.                                           *)

LEMMA MovesType ==
  ASSUME TypeOK, NEW e \in Exec, Moves(e), UNCHANGED scenario, FilesType',
         UNCHANGED <<curation, omissions>>
  PROVE  TypeOK'
BY DEF TypeOK, Moves

LEMMA ArchiveFiles ==
  ASSUME TypeOK, UNCHANGED <<batches, artifactVars>>,
         acquisition' \in [Run -> AcquisitionType \cup {NoFile}],
         manifest' \in [Run -> ArchiveManifestType \cup {NoFile}], archived' \in SUBSET Versions
  PROVE  FilesType' /\ UNCHANGED <<curation, omissions>>
BY DEF TypeOK, FilesType, artifactVars, staging, root

LEMMA ArchiveTypeStep ==
  ASSUME TypeOK, ArchiveInv, NEW e \in Exec, ArchiveStep(e), UNCHANGED artifactVars
  PROVE  TypeOK'
<1>1. CASE SaveAcquisition(e)
  <2>1. PICK a \in AcquisitionType : acquisition' = [acquisition EXCEPT ![exec[e].run] = a]
    BY <1>1, SaveAcquisitionEffect
  <2>2. Moves(e) /\ UNCHANGED <<scenario, batches, manifest, archived>>
    BY <1>1, SaveAcquisitionEffect
  <2>3. acquisition' \in [Run -> AcquisitionType \cup {NoFile}]
    BY <2>1 DEF TypeOK, FilesType
  <2> QED BY <2>2, <2>3, ArchiveFiles, MovesType DEF TypeOK, FilesType
<1>2. CASE LockPublish(e)
  <2>1. Moves(e) /\ UNCHANGED <<scenario, batches, archiveVars>>
    BY <1>2, LockPublishEffect DEF ArchiveInv, AtWork
  <2> QED BY <2>1, ArchiveFiles, MovesType DEF TypeOK, FilesType, archiveVars
<1>3. CASE NextCandidate(e)
  <2>1. Moves(e) /\ UNCHANGED <<scenario, batches, archiveVars>>
    BY <1>3, NextCandidateEffect
  <2> QED BY <2>1, ArchiveFiles, MovesType DEF TypeOK, FilesType, archiveVars
<1>4. CASE exec[e].pc \in Handling /\ (Freeze(e) \/ Inspect(e) \/ Upload(e) \/ UploadFails(e))
  <2>1. exec[e].hand \in CandidateType
    BY <1>4 DEF ArchiveInv, AtWork
  <2>2. Moves(e)
    <3>1. CASE Freeze(e)
      BY <3>1, <1>4, GotoEffect DEF Freeze, Publishing
    <3>2. CASE Inspect(e)
      BY <3>2, <1>4, <2>1, GotoEffect, SettleEffect DEF Inspect, Publishing, Verdicts
    <3>3. CASE Upload(e)
      BY <3>3, <1>4, GotoEffect DEF Upload, Publishing
    <3>4. CASE UploadFails(e)
      BY <3>4, <1>4, <2>1, SettleEffect DEF UploadFails, Publishing, Verdicts
    <3> QED BY <1>4, <3>1, <3>2, <3>3, <3>4
  <2>3. UNCHANGED <<scenario, batches, acquisition, manifest, archived>>
    BY <1>4 DEF Freeze, Inspect, Upload, UploadFails, archiveVars
  <2> QED BY <2>2, <2>3, ArchiveFiles, MovesType DEF TypeOK, FilesType
<1>5. CASE SaveReceipt(e)
  <2>1. /\ exec[e].pc = "archived" /\ archived' = archived \cup {Version(exec[e].hand)}
        /\ Settle(e, exec[e].hand, "archived")
        /\ UNCHANGED <<scenario, batches, acquisition, manifest>>
    BY <1>5 DEF SaveReceipt
  <2>2. exec[e].hand \in CandidateType
    BY <2>1 DEF ArchiveInv, AtWork, Handling, Publishing
  <2>3. Moves(e)
    BY <2>1, <2>2, SettleEffect DEF Publishing, Verdicts
  <2>4. archived' \in SUBSET Versions
    BY <2>1, <2>2 DEF Versions, TypeOK, FilesType
  <2> QED BY <2>1, <2>3, <2>4, ArchiveFiles, MovesType DEF TypeOK, FilesType
<1>6. CASE WriteManifest(e)
  <2>1. /\ exec[e].run \in Run /\ End(e)
        /\ manifest' = [manifest EXCEPT ![exec[e].run] =
             [items |-> exec[e].items, outcome |-> Outcome(exec[e].items, exec[e].failed)]]
        /\ UNCHANGED <<scenario, batches, acquisition, archived>>
    BY <1>6 DEF WriteManifest, KeepArticles, TypeOK
  <2>2. Outcome(exec[e].items, exec[e].failed) \in {"partial", "failed", "completed", "no_change"}
    BY DEF Outcome
  <2>3. [items |-> exec[e].items, outcome |-> Outcome(exec[e].items, exec[e].failed)]
          \in ArchiveManifestType
    BY <2>2, ExecFields DEF ArchiveManifestType, ExecType
  <2>4. manifest' \in [Run -> ArchiveManifestType \cup {NoFile}]
    BY <2>1, <2>3 DEF TypeOK, FilesType
  <2> QED BY <2>1, <2>4, EndEffect, ArchiveFiles, MovesType DEF TypeOK, FilesType
<1> QED BY <1>1, <1>2, <1>3, <1>4, <1>5, <1>6
        DEF ArchiveStep, Freeze, Inspect, Upload, UploadFails, Handling, Publishing

LEMMA CountedType ==
  ASSUME NEW counts, NEW asked, NEW missing, DOMAIN counts \subseteq CandidateIds,
         missing \subseteq CandidateIds, \A id \in DOMAIN counts : counts[id] \in Nat
  PROVE  /\ DOMAIN Counted(counts, asked, missing) \subseteq CandidateIds
         /\ \A id \in DOMAIN Counted(counts, asked, missing) :
              Counted(counts, asked, missing)[id] \in Nat
         /\ DOMAIN Counted(counts, asked, missing) = (DOMAIN counts \ asked) \cup missing
         /\ \A id \in DOMAIN counts \cap ((DOMAIN counts \ asked) \cup missing) :
              Counted(counts, asked, missing)[id] >= counts[id]
BY DEF Counted

LEMMA ArtifactTypeStep ==
  ASSUME TypeOK, ArtifactInv, NEW e \in Exec, ArtifactStep(e), UNCHANGED archiveVars
  PROVE  TypeOK'
<1>0. PICK r \in Run : r = exec[e].run
  BY StagedMoves DEF StagedMove
<1>1. Moves(e) /\ UNCHANGED scenario
  BY StagedMoves DEF StagedMove
<1> USE DEF TypeOK, FilesType, archiveVars, artifactVars, staging, root
<1>2. CASE SaveDecisions(e)
  <2>1. /\ UNCHANGED <<batches, omissions, staged, root>>
        /\ \E said : curation' = [curation EXCEPT ![r] = Merged(@, said)]
    BY <1>0, <1>2, SaveDecisionsEffect
  <2>2. FilesType' /\ DOMAIN curation' = Run /\ DOMAIN omissions' = Run
    BY <2>1
  <2> QED BY <1>1, <2>2 DEF Moves
<1>2a. CASE SaveCounts(e)
  <2> DEFINE asked == exec[e].asked
             missing == exec[e].asked \ DOMAIN curation[r]
  <2>1. /\ UNCHANGED <<batches, curation, staged, root>>
        /\ omissions' = [omissions EXCEPT ![r] = Counted(@, asked, missing)]
    BY <1>0, <1>2a, SaveCountsEffect
  <2>2. missing \subseteq CandidateIds
    BY ExecFields DEF ExecType
  <2>3. /\ DOMAIN omissions' = Run
        /\ omissions'[r] = Counted(omissions[r], asked, missing)
        /\ \A q \in Run \ {r} : omissions'[q] = omissions[q]
    BY <2>1
  <2>4. /\ DOMAIN omissions[r] \subseteq CandidateIds
        /\ \A id \in DOMAIN omissions[r] : omissions[r][id] \in Nat
    OBVIOUS
  <2> HIDE DEF asked, missing
  <2>5. /\ DOMAIN Counted(omissions[r], asked, missing) \subseteq CandidateIds
        /\ \A id \in DOMAIN Counted(omissions[r], asked, missing) :
             Counted(omissions[r], asked, missing)[id] \in Nat
    BY <2>2, <2>4, CountedType
  <2>6. \A q \in Run : /\ DOMAIN omissions'[q] \subseteq CandidateIds
                       /\ \A id \in DOMAIN omissions'[q] : omissions'[q][id] \in Nat
    BY <2>3, <2>5
  <2>7. FilesType'
    BY <2>1, <2>6
  <2> QED BY <1>1, <2>1, <2>3, <2>7 DEF Moves
<1>3. CASE Build(e)
  <2>1. /\ UNCHANGED <<batches, curation, omissions, root>>
        /\ \/ UNCHANGED staged
           \/ \E s \in StagedType : staged' = [staged EXCEPT ![r] = s]
    BY <1>0, <1>3, BuildEffect DEF ArtifactInv, CandidatesInv
  <2>2. staged' \in [Run -> StagedType \cup {NoFile}]
    BY <2>1
  <2> QED BY <1>1, <2>1, <2>2, MovesType
<1>4. CASE PublishLedger(e)
  <2>1. /\ UNCHANGED <<batches, staging, documents, index, published, feed>>
        /\ \/ UNCHANGED ledger
           \/ exec[e].pc = "ledger" /\ ledger' = [ledger EXCEPT ![r] = staged[r].ledger]
    BY <1>0, <1>4, PublishLedgerEffect
  <2>2. exec[e].pc = "ledger" => staged[r].ledger \in LedgerType
    BY <1>0 DEF ArtifactInv, Reached, Staging, StagedType
  <2>3. ledger' \in [Run -> LedgerType \cup {NoFile}]
    BY <2>1, <2>2
  <2> QED BY <1>1, <2>1, <2>3, MovesType
<1>5. CASE PublishIndex(e)
  <2>1. /\ UNCHANGED <<batches, staging, documents, ledger, published, feed>>
        /\ exec[e].pc = "index" /\ index' = staged[r].index
    BY <1>0, <1>5, PublishIndexEffect
  <2>2. staged[r].index \in SUBSET {Line(c) : c \in CandidateType}
    BY <1>0, <2>1 DEF ArtifactInv, Reached, Staging, StagedType
  <2> QED BY <1>1, <2>1, <2>2, MovesType
<1>6. CASE PublishManifest(e)
  <2>1. /\ UNCHANGED <<batches, staging, documents, index, ledger, feed>>
        /\ \/ UNCHANGED published
           \/ exec[e].pc = "manifest" /\ published' = [published EXCEPT ![r] = staged[r].manifest]
    BY <1>0, <1>6, PublishManifestEffect
  <2>2. exec[e].pc = "manifest" => staged[r].manifest \in ManifestType
    BY <1>0 DEF ArtifactInv, Reached, Staging, StagedType
  <2>3. published' \in [Run -> ManifestType \cup {NoFile}]
    BY <2>1, <2>2
  <2> QED BY <1>1, <2>1, <2>3, MovesType
<1>7. CASE AppendFeed(e)
  <2>1. /\ UNCHANGED <<batches, staging, documents, index, ledger, published>>
        /\ exec[e].pc = "feed"
        /\ \/ UNCHANGED feed
           \/ feed' = feed \cup {[run |-> r, manifest |-> published[r]]}
    BY <1>0, <1>7, AppendFeedEffect
  <2>2. published[r] \in ManifestType
    BY <1>0, <2>1 DEF ArtifactInv, Reached, Staging, StagedType
  <2>3. feed' \in SUBSET [run : Run, manifest : ManifestType]
    BY <2>1, <2>2
  <2> QED BY <1>1, <2>1, <2>3, MovesType
<1>8. CASE Clean(e)
  <2>1. /\ batches' = [batches EXCEPT ![r] = {}] /\ curation' = [curation EXCEPT ![r] = <<>>]
        /\ omissions' = [omissions EXCEPT ![r] = <<>>] /\ staged' = [staged EXCEPT ![r] = NoFile]
        /\ UNCHANGED root
    BY <1>0, <1>8, CleanEffect
  <2>2. /\ DOMAIN omissions' = Run /\ DOMAIN curation' = Run /\ omissions'[r] = <<>>
        /\ \A q \in Run \ {r} : omissions'[q] = omissions[q]
    BY <2>1
  <2>3. \A q \in Run : /\ DOMAIN omissions'[q] \subseteq CandidateIds
                       /\ \A id \in DOMAIN omissions'[q] : omissions'[q][id] \in Nat
    BY <2>2
  <2>4. /\ batches' \in [Run -> SUBSET BatchType]
        /\ staged' \in [Run -> StagedType \cup {NoFile}]
    BY <2>1
  <2>5. FilesType'
    BY <2>1, <2>3, <2>4
  <2> QED BY <1>1, <2>2, <2>5 DEF Moves
<1>9. CASE PublishDocuments(e)
  <2>1. UNCHANGED <<batches, staging, ledger, index, published, feed>>
    BY <1>9, PublishDocumentsEffect
  <2> QED BY <1>1, <2>1, MovesType
<1>10. CASE \/ Collected(e) \/ Prepare(e) \/ RefuseDraft(e) \/ UploadDocument(e)
            \/ UploadDocumentFails(e)
  <2>1. UNCHANGED <<batches, artifactVars>>
    BY <1>10, CollectedEffect, PrepareEffect, RefuseDraftEffect, UploadDocumentEffect,
       UploadDocumentFailsEffect
  <2> QED BY <1>1, <2>1, MovesType
<1> QED BY <1>2, <1>2a, <1>3, <1>4, <1>5, <1>6, <1>7, <1>8, <1>9, <1>10 DEF ArtifactStep

LEMMA TypeStep ==
  ASSUME TypeOK, ArchiveInv, ArtifactInv, NEW e \in Exec, Begins(e) \/ Works(e) \/ Die(e)
  PROVE  TypeOK'
<1>1. CASE StartArchive(e) /\ UNCHANGED artifactVars
  <2>1. PICK r \in Run, pc \in {"snapshot", "publish"} : Begin(e, r, pc)
    BY <1>1 DEF StartArchive
  <2>2. Moves(e) /\ UNCHANGED <<scenario, batches>>
    BY <2>1, BeginEffect
  <2> QED BY <1>1, <2>2, ArchiveFiles, MovesType DEF StartArchive, TypeOK, FilesType, archiveVars
<1>2. CASE StartStaged(e) /\ UNCHANGED archiveVars
  <2>1. PICK r \in Run : Begin(e, r, "snapshot")
    BY <1>2 DEF StartStaged
  <2>2. Moves(e) /\ UNCHANGED <<scenario, batches>>
    BY <2>1, BeginEffect
  <2> QED BY <1>2, <2>2, ArchiveFiles, MovesType DEF StartStaged, TypeOK, FilesType, archiveVars
<1>3. CASE LoadSnapshot(e) /\ UNCHANGED <<archiveVars, artifactVars>>
  <2>1. Moves(e) /\ UNCHANGED <<scenario, batches>>
    BY <1>3, LoadEffect
  <2> QED BY <1>3, <2>1, ArchiveFiles, MovesType DEF TypeOK, FilesType, archiveVars
<1>4. CASE Fetch(e) /\ UNCHANGED <<archiveVars, artifactVars>>
  <2>1. Moves(e) /\ UNCHANGED scenario
    BY <1>4, FetchEffect
  <2>2. \/ UNCHANGED batches
        \/ \E b \in BatchType : batches' = [batches EXCEPT ![exec[e].run] = @ \cup {b}]
    BY <1>4, FetchEffect
  <2>3. batches' \in [Run -> SUBSET BatchType]
    BY <2>2 DEF TypeOK, FilesType
  <2>4. FilesType' /\ UNCHANGED <<curation, omissions>>
    BY <1>4, <2>3 DEF TypeOK, FilesType, archiveVars, artifactVars, staging, root
  <2> QED BY <2>1, <2>4, MovesType
<1>5. CASE ArchiveStep(e) /\ UNCHANGED artifactVars
  BY <1>5, ArchiveTypeStep
<1>6. CASE ArtifactStep(e) /\ UNCHANGED archiveVars
  BY <1>6, ArtifactTypeStep
<1>7. CASE Die(e)
  <2>1. End(e) /\ UNCHANGED <<scenario, batches, archiveVars, artifactVars>>
    BY <1>7 DEF Die
  <2> QED BY <2>1, EndEffect, ArchiveFiles, MovesType DEF TypeOK, FilesType, archiveVars
<1> QED BY <1>1, <1>2, <1>3, <1>4, <1>5, <1>6, <1>7 DEF Begins, Works

-----------------------------------------------------------------------------
(* The staged workflow: what a step leaves as it was.                      *)

LEMMA StagingKept ==
  ASSUME StagingInv, NEW e \in Exec, Moves(e), UNCHANGED scenario, exec'[e].run = exec[e].run,
         exec[e].pc \notin {"idle", "ended"},
         exec'[e].pc \in Staging => scenario.workflow[exec[e].run] = "v1"
  PROVE  StagingInv'
BY DEF StagingInv, Moves

LEMMA StagingBegun ==
  ASSUME StagingInv, NEW e \in Exec, Moves(e), UNCHANGED scenario, exec'[e].pc \notin Staging,
         scenario.workflow[exec'[e].run] = "v2" \/ \A d \in Exec : ~Active(d, exec'[e].run)
  PROVE  StagingInv'
<1>1. ASSUME NEW d \in Exec, exec'[d].pc \in Staging
      PROVE  scenario'.workflow[exec'[d].run] = "v1"
  BY <1>1 DEF StagingInv, Moves
<1>2. ASSUME NEW d \in Exec \ {e}, exec[d].pc \notin {"idle", "ended"}
      PROVE  exec[d].run # exec'[e].run \/ scenario.workflow[exec'[e].run] = "v2"
  BY <1>2 DEF Active
<1>3. ASSUME NEW d \in Exec, NEW f \in Exec, d # f,
             {exec'[d].pc, exec'[f].pc} \cap {"idle", "ended"} = {}
      PROVE  exec'[d].run # exec'[f].run \/ scenario.workflow[exec'[d].run] = "v2"
  <2>1. CASE d = e
    BY <1>2, <1>3, <2>1 DEF Moves
  <2>2. CASE f = e
    BY <1>2, <1>3, <2>2 DEF Moves
  <2>3. CASE d # e /\ f # e
    BY <1>3, <2>3 DEF StagingInv, Moves
  <2> QED BY <2>1, <2>2, <2>3
<1> QED BY <1>1, <1>3 DEF StagingInv

LEMMA CandidatesKept ==
  ASSUME TypeOK, CandidatesInv, NEW e \in Exec, Moves(e),
         \A q \in Run : batches'[q] \in {batches[q], {}},
         exec[e].pc \in {"idle", "snapshot"} \/ exec'[e].pc \notin {"idle", "snapshot", "fetch"}
  PROVE  CandidatesInv'
<1>1. ASSUME NEW q \in Run PROVE Candidates(batches[q])' \subseteq Candidates(batches[q])
  BY DEF Candidates
<1>2. ASSUME NEW q \in Run, NEW c \in Candidates(batches[q]), exec[c.id[1]].pc = "fetch",
             c.id[1] # e
      PROVE  exec'[c.id[1]] = exec[c.id[1]]
  <2>1. c \in CandidateType
    BY CandidatesType DEF TypeOK, FilesType
  <2>2. c.id[1] \in Exec
    BY <2>1 DEF CandidateType, CandidateIds
  <2> QED BY <1>2, <2>2 DEF Moves
<1>3. ASSUME NEW q \in Run, NEW c \in Candidates(batches[q])
      PROVE  /\ exec'[c.id[1]].pc \notin {"idle", "snapshot"}
             /\ exec'[c.id[1]].pc = "fetch" => c.id[2] \notin exec'[c.id[1]].pending
  <2>1. c \in CandidateType
    BY CandidatesType DEF TypeOK, FilesType
  <2>2. c.id[1] \in Exec
    BY <2>1 DEF CandidateType, CandidateIds
  <2>3. CASE c.id[1] = e
    BY <2>3 DEF CandidatesInv
  <2>4. CASE c.id[1] # e
    BY <2>2, <2>4 DEF CandidatesInv, Moves
  <2> QED BY <2>3, <2>4
<1> QED BY <1>1, <1>3 DEF CandidatesInv

\* A batch brings candidates of a channel that was not asked before.
LEMMA CandidatesFetched ==
  ASSUME TypeOK, CandidatesInv, NEW e \in Exec, Fetch(e)
  PROVE  CandidatesInv'
<1>0. PICK r \in Run : r = exec[e].run
  BY DEF Fetch, TypeOK
<1>1. /\ Moves(e) /\ exec[e].pc = "fetch" /\ exec'[e].pc = "fetch"
      /\ batches \in [Run -> SUBSET BatchType]
  BY FetchEffect DEF TypeOK, FilesType
<1>2. PICK code \in exec[e].pending :
        /\ exec'[e].pending = exec[e].pending \ {code}
        /\ \/ UNCHANGED batches
           \/ \E answer \in Answers[code] :
                /\ Batch(e, code, answer) \in BatchType
                /\ batches' = [batches EXCEPT ![exec[e].run] = @ \cup {Batch(e, code, answer)}]
  BY FetchEffect
<1>3. ASSUME NEW q \in Run, NEW c \in Candidates(batches[q])
      PROVE  /\ exec'[c.id[1]].pc \notin {"idle", "snapshot"}
             /\ exec'[c.id[1]].pc = "fetch" => c.id[2] \notin exec'[c.id[1]].pending
             /\ c.id[1] = e => c.id[2] # code
  <2>1. c \in CandidateType
    BY CandidatesType DEF TypeOK, FilesType
  <2>2. c.id[1] \in Exec
    BY <2>1 DEF CandidateType, CandidateIds
  <2>3. CASE c.id[1] = e
    BY <1>1, <1>2, <2>3 DEF CandidatesInv
  <2>4. CASE c.id[1] # e
    BY <1>1, <2>2, <2>4 DEF CandidatesInv, Moves
  <2> QED BY <2>3, <2>4
<1>4. CASE UNCHANGED batches
  <2>1. \A q \in Run : Candidates(batches[q])' = Candidates(batches[q])
    BY <1>4 DEF Candidates
  <2> QED BY <1>3, <2>1 DEF CandidatesInv
<1>5. ASSUME NEW answer \in Answers[code],
             batches' = [batches EXCEPT ![r] = @ \cup {Batch(e, code, answer)}]
      PROVE  CandidatesInv'
  <2> DEFINE new == Batch(e, code, answer).candidates
             At(i) == [id |-> <<e, code, i>>, article |-> answer[i]]
  <2>1. new = {At(i) : i \in DOMAIN answer}
    BY DEF Batch
  <2>2. ASSUME NEW c \in new PROVE c.id[1] = e /\ c.id[2] = code /\ c = At(c.id[3])
    <3>1. PICK i \in DOMAIN answer : c = At(i)
      BY <2>1
    <3>2. At(i).id[1] = e /\ At(i).id[2] = code /\ At(i).id[3] = i
      OBVIOUS
    <3> HIDE DEF At, new
    <3> QED BY <3>1, <3>2
  <2> HIDE DEF new, At
  <2>3. batches'[r] = batches[r] \cup {Batch(e, code, answer)}
        /\ \A q \in Run \ {r} : batches'[q] = batches[q]
    BY <1>1, <1>5
  <2>4. ASSUME NEW X, NEW b PROVE Candidates(X \cup {b}) = Candidates(X) \cup b.candidates
    BY DEF Candidates
  <2>5. Candidates(batches'[r]) = Candidates(batches[r]) \cup new
    BY <2>3, <2>4 DEF new
  <2>6. ASSUME NEW q \in Run, NEW c \in Candidates(batches'[q])
        PROVE  /\ exec'[c.id[1]].pc \notin {"idle", "snapshot"}
               /\ exec'[c.id[1]].pc = "fetch" => c.id[2] \notin exec'[c.id[1]].pending
    <3>1. CASE c \in Candidates(batches[q])
      BY <1>3, <3>1
    <3>2. CASE c \in new
      BY <1>1, <1>2, <2>2, <3>2
    <3> QED BY <2>3, <2>5, <3>1, <3>2
  <2>7. ASSUME NEW q \in Run, NEW c \in Candidates(batches'[q]), NEW d \in Candidates(batches'[q]),
               c.id = d.id
        PROVE  c = d
    <3>1. CASE c \in Candidates(batches[q]) /\ d \in Candidates(batches[q])
      BY <2>7, <3>1 DEF CandidatesInv
    <3>2. CASE c \in new /\ d \in new
      BY <2>2, <2>7, <3>2
    <3>3. CASE \/ c \in new /\ d \in Candidates(batches[q])
               \/ d \in new /\ c \in Candidates(batches[q])
      BY <1>3, <2>2, <2>7, <3>3
    <3> QED BY <2>3, <2>5, <3>1, <3>2, <3>3
  <2>8. \A q \in Run : Candidates(batches[q])' = Candidates(batches'[q])
    BY DEF Candidates
  <2> QED BY <2>6, <2>7, <2>8 DEF CandidatesInv
<1> QED BY <1>0, <1>2, <1>4, <1>5

\* Two that work on runs of the staged workflow work on different ones.
LEMMA Alone ==
  ASSUME StagingInv, NEW d \in Exec, NEW e \in Exec, d # e, exec[d].pc \in Staging,
         exec[e].pc \notin {"idle", "ended"}
  PROVE  exec[d].run # exec[e].run
BY DEF StagingInv, Staging

LEMMA OtherReached ==
  ASSUME NEW d \in Exec, Reached(d), exec'[d] = exec[d],
         documents \subseteq documents', feed \subseteq feed', DOMAIN store \subseteq DOMAIN store',
         exec[d].pc \in Staging =>
           LET r == exec[d].run IN
           /\ batches'[r] = batches[r] /\ curation'[r] = curation[r] /\ staged'[r] = staged[r]
           /\ ledger'[r] = ledger[r] /\ published'[r] = published[r]
  PROVE  Reached(d)'
<1>1. CASE exec[d].pc \notin Staging
  BY <1>1 DEF Reached, Staging
<1>2. CASE exec[d].pc \in Staging
  <2>1. PICK r : r = exec[d].run
    OBVIOUS
  <2>2. /\ batches'[r] = batches[r] /\ curation'[r] = curation[r] /\ staged'[r] = staged[r]
        /\ ledger'[r] = ledger[r] /\ published'[r] = published[r]
    BY <1>2, <2>1
  <2>3. Candidates(batches[r])' = Candidates(batches[r])
    BY <2>2 DEF Candidates
  <2>4. IdsOf(Candidates(batches[r]))' = IdsOf(Candidates(batches[r]))
    BY <2>3 DEF IdsOf
  <2>5. Apart(staged[r].manifest.accepted)' = Apart(staged[r].manifest.accepted)
        /\ IdsOf(staged[r].manifest.ledger.rows)' = IdsOf(staged[r].manifest.ledger.rows)
    BY <2>2 DEF Apart, Line, IdsOf
  <2> QED BY <2>1, <2>2, <2>4, <2>5 DEF Reached, Stored, StagedType, LedgerType, ManifestType
<1> QED BY <1>1, <1>2

LEMMA StagedOthers ==
  ASSUME TypeOK, ArtifactInv, NEW e \in Exec, StagedMove(e), NEW d \in Exec \ {e}
  PROVE  Reached(d)'
<1>1. Reached(d) /\ exec'[d] = exec[d]
  BY DEF ArtifactInv, StagedMove, Moves
<1>2. exec[d].pc \in Staging => exec[d].run \in Run \ {exec[e].run}
  BY Alone DEF ArtifactInv, StagedMove, Staging, TypeOK
<1> QED BY <1>1, <1>2, OtherReached DEF StagedMove, Local

LEMMA WholeKept ==
  ASSUME PublishedIsWhole, documents \subseteq documents', DOMAIN store \subseteq DOMAIN store',
         UNCHANGED <<published, feed>>,
         \A r \in Run : published[r] # NoFile => ledger'[r] = ledger[r]
  PROVE  PublishedIsWhole'
<1>1. ASSUME NEW r \in Run, published[r] # NoFile
      PROVE  Apart(published[r].accepted)' = Apart(published[r].accepted)
  BY DEF Apart, Line
<1> QED BY <1>1 DEF PublishedIsWhole

-----------------------------------------------------------------------------
(* The staged workflow: every step keeps its invariant.                    *)

LEMMA StagedAround ==
  ASSUME TypeOK, ArtifactInv, NEW e \in Exec, ArtifactStep(e)
  PROVE  /\ StagingInv' /\ CandidatesInv' /\ \A d \in Exec \ {e} : Reached(d)'
         /\ exec'[e].pc \notin Staging => Reached(e)'
<1>1. StagedMove(e) /\ (exec[e].pc = "fetch" => scenario.workflow[exec[e].run] = "v1")
  BY StagedMoves
<1>2. \A d \in Exec \ {e} : Reached(d)'
  BY <1>1, StagedOthers
<1>3. StagingInv'
  BY <1>1, StagingKept DEF ArtifactInv, StagedMove, Staging, StagingInv
<1>4. \A q \in Run : batches'[q] \in {batches[q], {}}
  <2>1. CASE Clean(e)
    BY <2>1, CleanEffect DEF TypeOK, FilesType
  <2>2. CASE ~Clean(e)
    BY <2>2 DEF ArtifactStep, Collected, Prepare, SaveDecisions, SaveCounts, RefuseDraft, Build,
       UploadDocument, UploadDocumentFails, PublishDocuments, PublishLedger, PublishIndex, PublishManifest, AppendFeed
  <2> QED BY <2>1, <2>2
<1>5. CandidatesInv'
  BY <1>1, <1>4, CandidatesKept DEF ArtifactInv, StagedMove, Ends, Staging
<1>6. exec'[e].pc \notin Staging => Reached(e)'
  BY DEF Reached, Staging
<1> QED BY <1>2, <1>3, <1>5, <1>6

LEMMA FilterKeeps ==
  ASSUME TypeOK, ArtifactInv, NEW e \in Exec,
         \/ Collected(e) \/ Prepare(e) \/ SaveDecisions(e) \/ SaveCounts(e)
         \/ RefuseDraft(e)
  PROVE  Reached(e)' /\ PublishedIsWhole'
<1>1. StagedMove(e) /\ (exec'[e].pc \notin Staging => Reached(e)')
  BY StagedMoves, StagedAround DEF ArtifactStep
<1>2. PublishedIsWhole'
  <2>1. UNCHANGED root
    BY CollectedEffect, PrepareEffect, SaveDecisionsEffect, SaveCountsEffect, RefuseDraftEffect
       DEF artifactVars
  <2> QED BY <1>1, <2>1, WholeKept DEF ArtifactInv, StagedMove, Local, root
<1>3. CASE Collected(e)
  BY <1>2, <1>3, CollectedEffect DEF Reached, Staging
<1>4. CASE Prepare(e)
  <2>1. /\ exec'[e].pc = "filter" /\ exec'[e].run = exec[e].run /\ curation' = curation
        /\ exec'[e].asked \in SUBSET (CandidateIds \ DOMAIN curation[exec[e].run])
    BY <1>4, PrepareEffect DEF StagedMove, artifactVars, staging
  <2> QED BY <1>2, <2>1 DEF Reached, Staging
<1>5. CASE SaveDecisions(e)
  BY <1>2, <1>5, SaveDecisionsEffect DEF Reached, Staging
<1>5a. CASE SaveCounts(e)
  <2>1. \/ exec'[e].pc = "prepare" \/ exec'[e].pc = "ended"
        \/ /\ exec'[e].pc = "build" /\ exec'[e].run = exec[e].run
           /\ UNCHANGED <<batches, curation>>
           /\ DOMAIN curation[exec[e].run] = IdsOf(Candidates(batches[exec[e].run]))
    BY <1>5a, SaveCountsEffect DEF StagedMove
  <2>2. CASE exec'[e].pc \in {"prepare", "ended"}
    BY <1>2, <2>2 DEF Reached, Staging
  <2>3. CASE /\ exec'[e].pc = "build" /\ exec'[e].run = exec[e].run
             /\ UNCHANGED <<batches, curation>>
             /\ DOMAIN curation[exec[e].run] = IdsOf(Candidates(batches[exec[e].run]))
    <3>1. (DOMAIN curation[exec[e].run] = IdsOf(Candidates(batches[exec[e].run])))'
      BY <2>3 DEF IdsOf, Candidates
    <3> QED BY <1>2, <2>3, <3>1 DEF Reached, Staging
  <2> QED BY <2>1, <2>2, <2>3
<1>6. CASE RefuseDraft(e)
  BY <1>1, <1>2, <1>6, RefuseDraftEffect DEF Ends, Staging
<1> QED BY <1>2, <1>3, <1>4, <1>5, <1>5a, <1>6

LEMMA BuildKeeps ==
  ASSUME TypeOK, ArtifactInv, NEW e \in Exec, Build(e)
  PROVE  Reached(e)' /\ PublishedIsWhole'
<1>0. PICK r \in Run : r = exec[e].run
  BY DEF Build, TypeOK
<1>1. /\ StagedMove(e) /\ exec[e].pc = "build"
      /\ UNCHANGED <<batches, store, curation, omissions, root>>
      /\ \/ Ends(e) /\ UNCHANGED staged
         \/ /\ exec'[e].pc = "objects"
            /\ \E s \in StagedType :
                 /\ staged' = [staged EXCEPT ![r] = s]
                 /\ exec'[e].todo = s.manifest.accepted /\ s.ledger = s.manifest.ledger
                 /\ IdsOf(s.ledger.rows) = IdsOf(Candidates(batches[r]))
                 /\ Apart(s.manifest.accepted)
  BY <1>0, BuildEffect DEF ArtifactInv, CandidatesInv
<1>2. PublishedIsWhole'
  BY <1>1, WholeKept DEF ArtifactInv, root
<1>3. CASE Ends(e)
  BY <1>2, <1>3, StagedAround DEF ArtifactStep, Ends, Staging
<1>4. ASSUME exec'[e].pc = "objects", NEW s \in StagedType,
             staged' = [staged EXCEPT ![r] = s], exec'[e].todo = s.manifest.accepted,
             s.ledger = s.manifest.ledger, Apart(s.manifest.accepted),
             IdsOf(s.ledger.rows) = IdsOf(Candidates(batches[r]))
      PROVE  Reached(e)'
  <2>1. staged'[r] = s /\ exec'[e].run = r
    BY <1>0, <1>1, <1>4 DEF TypeOK, FilesType, StagedMove
  <2>2. DOMAIN curation[r] = IdsOf(Candidates(batches[r]))
    BY <1>0, <1>1 DEF ArtifactInv, Reached, Staging
  <2>3. DOMAIN curation'[r] = IdsOf(Candidates(batches'[r]))
    BY <1>1, <2>2
  <2>4. Apart(s.manifest.accepted)' /\ (IdsOf(s.manifest.ledger.rows) = DOMAIN curation[r])'
    BY <1>1, <1>4, <2>2 DEF Apart, Line, IdsOf
  <2> QED BY <1>4, <2>1, <2>3, <2>4 DEF Reached, Staging, Candidates, IdsOf
<1> QED BY <1>1, <1>2, <1>3, <1>4

\* The set of a run stays as it was built until it is published.
LEMMA SetStays ==
  ASSUME TypeOK, ArtifactInv, NEW e \in Exec, StagedMove(e), UNCHANGED <<batches, staging>>,
         exec[e].pc \in Staging \ {"prepare", "filter", "count", "build"},
         exec'[e].pc \in Staging \ {"prepare", "filter", "count", "build", "clean"},
         exec'[e].pc # "objects" => exec'[e].todo = {},
         LET m == staged[exec[e].run].manifest IN
         /\ \A c \in m.accepted \ exec'[e].todo : Stored(c)'
         /\ exec'[e].pc # "objects" => m.accepted \subseteq documents'
         /\ exec'[e].pc \in {"index", "manifest", "feed"} => ledger'[exec[e].run] = m.ledger
         /\ exec'[e].pc = "feed" => published'[exec[e].run] = m
  PROVE  Reached(e)'
<1>0. PICK r \in Run : r = exec[e].run
  BY DEF StagedMove
<1>1. /\ exec'[e].run = r /\ staged'[r] = staged[r] /\ curation'[r] = curation[r]
      /\ batches'[r] = batches[r]
  BY <1>0 DEF StagedMove, staging
<1>2. /\ DOMAIN curation[r] = IdsOf(Candidates(batches[r]))
      /\ staged[r] \in StagedType /\ staged[r].ledger = staged[r].manifest.ledger
      /\ IdsOf(staged[r].manifest.ledger.rows) = DOMAIN curation[r]
      /\ Apart(staged[r].manifest.accepted)
  BY <1>0 DEF ArtifactInv, Reached
<1>3. (DOMAIN curation[r] = IdsOf(Candidates(batches[r])))'
  BY <1>1, <1>2 DEF IdsOf, Candidates
<1>4. Apart(staged[r].manifest.accepted)'
  BY <1>1, <1>2 DEF Apart, Line
<1>5. (IdsOf(staged[r].manifest.ledger.rows) = DOMAIN curation[r])'
  BY <1>1, <1>2 DEF IdsOf
<1>6. (staged[r] \in StagedType /\ staged[r].ledger = staged[r].manifest.ledger)'
  BY <1>1, <1>2 DEF StagedType, ManifestType, LedgerType, Line
<1> QED BY <1>0, <1>1, <1>3, <1>4, <1>5, <1>6 DEF Reached, Staging

LEMMA ObjectsKeep ==
  ASSUME TypeOK, ArtifactInv, NEW e \in Exec,
         UploadDocument(e) \/ UploadDocumentFails(e) \/ PublishDocuments(e)
  PROVE  Reached(e)' /\ PublishedIsWhole'
<1>0. PICK r \in Run : r = exec[e].run
  BY DEF UploadDocument, UploadDocumentFails, PublishDocuments, TypeOK
<1>1. StagedMove(e) /\ UNCHANGED <<batches, staging, published, feed, ledger>>
  BY UploadDocumentEffect, UploadDocumentFailsEffect, PublishDocumentsEffect
     DEF artifactVars, root
<1>2. PublishedIsWhole'
  BY <1>1, WholeKept DEF ArtifactInv, StagedMove, Local
<1>3. exec[e].pc = "objects" =>
        \A c \in staged[r].manifest.accepted \ exec[e].todo : Stored(c) /\ Stored(c)'
  BY <1>0, <1>1 DEF ArtifactInv, Reached, Staging, Stored, StagedMove, Local
<1>4. CASE UploadDocument(e)
  <2>1. PICK c \in exec[e].todo : exec'[e].todo = exec[e].todo \ {c} /\ Stored(c)'
    BY <1>4, UploadDocumentEffect
  <2>2. exec[e].pc = "objects" /\ exec'[e].pc = "objects"
    BY <1>4, UploadDocumentEffect
  <2>3. \A d \in staged[r].manifest.accepted \ exec'[e].todo : Stored(d)'
    BY <1>3, <2>1, <2>2
  <2> QED BY <1>0, <1>1, <1>2, <2>2, <2>3, SetStays DEF Staging
<1>5. CASE UploadDocumentFails(e)
  BY <1>2, <1>5, UploadDocumentFailsEffect, StagedAround DEF ArtifactStep, Ends, Staging
<1>6. CASE PublishDocuments(e)
  <2>1. /\ exec[e].pc = "objects" /\ exec[e].todo = {} /\ exec'[e].pc = "ledger"
        /\ exec'[e].todo = {} /\ documents' = documents \cup staged[r].manifest.accepted
    BY <1>0, <1>6, PublishDocumentsEffect
  <2> QED BY <1>0, <1>1, <1>2, <1>3, <2>1, SetStays DEF Staging
<1> QED BY <1>2, <1>4, <1>5, <1>6

LEMMA LedgerKeeps ==
  ASSUME TypeOK, ArtifactInv, NEW e \in Exec, PublishLedger(e)
  PROVE  /\ Reached(e)' /\ PublishedIsWhole'
         /\ \A q \in Run : ledger[q] # NoFile => ledger'[q] = ledger[q]
<1>0. PICK r \in Run : r = exec[e].run
  BY DEF PublishLedger, TypeOK
<1>1. /\ StagedMove(e) /\ exec[e].pc = "ledger"
      /\ \/ Ends(e) /\ UNCHANGED ledger
         \/ /\ exec'[e].pc = "index" /\ exec'[e].todo = exec[e].todo
            /\ ledger[r] \in {NoFile, staged[r].ledger}
            /\ ledger' = [ledger EXCEPT ![r] = staged[r].ledger]
      /\ UNCHANGED <<batches, store, staging, documents, index, published, feed>>
  BY <1>0, PublishLedgerEffect
<1>2. \A q \in Run : ledger[q] # NoFile => ledger'[q] = ledger[q]
  BY <1>1 DEF TypeOK, FilesType
<1>3. PublishedIsWhole'
  <2>1. \A q \in Run : published[q] # NoFile => ledger[q] # NoFile
    BY ArtifactAssumption DEF ArtifactInv, PublishedIsWhole, TypeOK, FilesType, ManifestType
  <2> QED BY <1>1, <1>2, <2>1, WholeKept DEF ArtifactInv
<1>4. CASE Ends(e)
  BY <1>2, <1>3, <1>4, StagedAround DEF ArtifactStep, Ends, Staging
<1>5. CASE /\ exec'[e].pc = "index" /\ exec'[e].todo = exec[e].todo
           /\ ledger' = [ledger EXCEPT ![r] = staged[r].ledger]
  <2>1. /\ exec[e].todo = {} /\ staged[r].manifest.accepted \subseteq documents
        /\ staged[r].ledger = staged[r].manifest.ledger
        /\ \A c \in staged[r].manifest.accepted : Stored(c)
    BY <1>0, <1>1 DEF ArtifactInv, Reached, Staging
  <2>2. ledger'[r] = staged[r].manifest.ledger
    BY <1>5, <2>1 DEF TypeOK, FilesType
  <2>3. \A c \in staged[r].manifest.accepted : Stored(c)'
    BY <1>1, <2>1 DEF Stored
  <2> QED BY <1>0, <1>1, <1>2, <1>3, <1>5, <2>1, <2>2, <2>3, SetStays DEF Staging
<1> QED BY <1>1, <1>2, <1>3, <1>4, <1>5

LEMMA IndexKeeps ==
  ASSUME TypeOK, ArtifactInv, NEW e \in Exec, PublishIndex(e)
  PROVE  Reached(e)' /\ PublishedIsWhole'
<1>0. PICK r \in Run : r = exec[e].run
  BY DEF PublishIndex, TypeOK
<1>1. /\ StagedMove(e) /\ exec[e].pc = "index" /\ exec'[e].pc = "manifest"
      /\ exec'[e].todo = exec[e].todo
      /\ UNCHANGED <<batches, store, staging, documents, ledger, published, feed>>
  BY PublishIndexEffect
<1>2. PublishedIsWhole'
  BY <1>1, WholeKept DEF ArtifactInv
<1>3. /\ exec[e].todo = {} /\ staged[r].manifest.accepted \subseteq documents
      /\ ledger[r] = staged[r].manifest.ledger
      /\ \A c \in staged[r].manifest.accepted : Stored(c)
  BY <1>0, <1>1 DEF ArtifactInv, Reached, Staging
<1>4. \A c \in staged[r].manifest.accepted : Stored(c)'
  BY <1>1, <1>3 DEF Stored
<1> QED BY <1>0, <1>1, <1>2, <1>3, <1>4, SetStays DEF Staging

\* A manifest is only published whole, and only once.
LEMMA ManifestKeeps ==
  ASSUME TypeOK, ArtifactInv, NEW e \in Exec, PublishManifest(e)
  PROVE  /\ Reached(e)' /\ PublishedIsWhole'
         /\ \A q \in Run : published[q] # NoFile => published'[q] = published[q]
<1>0. PICK r \in Run : r = exec[e].run
  BY DEF PublishManifest, TypeOK
<1>1. /\ StagedMove(e) /\ exec[e].pc = "manifest"
      /\ \/ Ends(e) /\ UNCHANGED published
         \/ /\ exec'[e].pc = "feed" /\ exec'[e].todo = exec[e].todo
            /\ published[r] \in {NoFile, staged[r].manifest}
            /\ published' = [published EXCEPT ![r] = staged[r].manifest]
      /\ UNCHANGED <<batches, store, staging, documents, ledger, index, feed>>
  BY <1>0, PublishManifestEffect
<1>2. \A q \in Run : published[q] # NoFile => published'[q] = published[q]
  BY <1>1 DEF TypeOK, FilesType
<1>3. CASE Ends(e) /\ UNCHANGED published
  <2>1. PublishedIsWhole'
    BY <1>1, <1>3, WholeKept DEF ArtifactInv
  <2> QED BY <1>2, <1>3, <2>1, StagedAround DEF ArtifactStep, Ends, Staging
<1>4. CASE /\ exec'[e].pc = "feed" /\ exec'[e].todo = exec[e].todo
           /\ published' = [published EXCEPT ![r] = staged[r].manifest]
  <2> DEFINE m == staged[r].manifest
  <2>1. /\ exec[e].todo = {} /\ m.accepted \subseteq documents /\ ledger[r] = m.ledger
        /\ Apart(m.accepted) /\ \A c \in m.accepted : Stored(c)
    BY <1>0, <1>1 DEF ArtifactInv, Reached, Staging
  <2>2. published'[r] = m /\ \A q \in Run \ {r} : published'[q] = published[q]
    BY <1>4 DEF TypeOK, FilesType
  <2>3. \A c \in m.accepted : Stored(c)'
    BY <1>1, <2>1 DEF Stored
  <2>4. Reached(e)'
    BY <1>0, <1>1, <1>4, <2>1, <2>2, <2>3, SetStays DEF Staging
  <2>5. PublishedIsWhole'
    <3> HIDE DEF m
    <3>1. ASSUME NEW q \in Run, published'[q] # NoFile
          PROVE  /\ published'[q].accepted \subseteq documents
                 /\ ledger[q] = published'[q].ledger
                 /\ \A c \in published'[q].accepted : <<"v1", c>> \in DOMAIN store
                 /\ Apart(published'[q].accepted)
      BY <2>1, <2>2, <3>1 DEF ArtifactInv, PublishedIsWhole, Stored
    <3>2. ASSUME NEW line \in feed PROVE published'[line.run] = line.manifest
      <4>1. line.run \in Run /\ line.manifest # NoFile
        BY ArtifactAssumption DEF TypeOK, FilesType
      <4> QED BY <1>2, <4>1 DEF ArtifactInv, PublishedIsWhole
    <3>3. ASSUME NEW q \in Run PROVE Apart(published[q].accepted)' = Apart(published'[q].accepted)
      BY DEF Apart, Line
    <3> QED BY <1>1, <3>1, <3>2, <3>3 DEF PublishedIsWhole
  <2> QED BY <1>2, <2>4, <2>5
<1> QED BY <1>1, <1>3, <1>4

LEMMA FeedKeeps ==
  ASSUME TypeOK, ArtifactInv, NEW e \in Exec, AppendFeed(e)
  PROVE  Reached(e)' /\ PublishedIsWhole'
<1>0. PICK r \in Run : r = exec[e].run
  BY DEF AppendFeed, TypeOK
<1>1. /\ StagedMove(e) /\ exec[e].pc = "feed"
      /\ \/ Ends(e) /\ UNCHANGED feed
         \/ /\ exec'[e].pc = "clean" /\ exec'[e].todo = exec[e].todo
            /\ feed' = feed \cup {[run |-> r, manifest |-> published[r]]}
      /\ UNCHANGED <<batches, store, staging, documents, ledger, index, published>>
  BY <1>0, AppendFeedEffect
<1>2. PublishedIsWhole'
  <2>1. PublishedIsWhole
    BY DEF ArtifactInv
  <2>2. \A line \in feed' : published[line.run] = line.manifest
    BY <1>1, <2>1 DEF PublishedIsWhole
  <2>3. \A q \in Run : Apart(published[q].accepted)' = Apart(published[q].accepted)
    BY <1>1 DEF Apart, Line
  <2> QED BY <1>1, <2>1, <2>2, <2>3 DEF PublishedIsWhole
<1>3. CASE Ends(e)
  BY <1>2, <1>3, StagedAround DEF ArtifactStep, Ends, Staging
<1>4. CASE /\ exec'[e].pc = "clean" /\ exec'[e].todo = exec[e].todo
           /\ feed' = feed \cup {[run |-> r, manifest |-> published[r]]}
  <2>1. Reached(e)
    BY DEF ArtifactInv
  <2>2. /\ exec'[e].run = r /\ staged'[r] = staged[r] /\ curation'[r] = curation[r]
        /\ batches'[r] = batches[r] /\ ledger'[r] = ledger[r] /\ published'[r] = published[r]
    BY <1>0, <1>1 DEF StagedMove, staging
  <2>3. /\ (DOMAIN curation[r] = IdsOf(Candidates(batches[r])))'
        /\ (IdsOf(staged[r].manifest.ledger.rows) = DOMAIN curation[r])'
    BY <1>0, <1>1, <2>1, <2>2 DEF Reached, Staging, IdsOf, Candidates
  <2>4. Apart(staged[r].manifest.accepted)'
    BY <1>0, <1>1, <2>1, <2>2 DEF Reached, Staging, Apart, Line
  <2>5. (staged[r] \in StagedType /\ staged[r].ledger = staged[r].manifest.ledger)'
    BY <1>0, <1>1, <2>1, <2>2
       DEF Reached, Staging, StagedType, ManifestType, LedgerType, Line
  <2>6. /\ exec[e].todo = {} /\ staged[r].manifest.accepted \subseteq documents
        /\ \A c \in staged[r].manifest.accepted : Stored(c)'
        /\ ledger[r] = staged[r].manifest.ledger /\ published[r] = staged[r].manifest
    BY <1>0, <1>1, <2>1 DEF Reached, Staging, Stored
  <2>7. [run |-> r, manifest |-> staged[r].manifest] \in feed'
    BY <1>4, <2>6
  <2> QED BY <1>1, <1>2, <1>4, <2>2, <2>3, <2>4, <2>5, <2>6, <2>7 DEF Reached, Staging
<1> QED BY <1>1, <1>2, <1>3, <1>4

LEMMA CleanKeeps ==
  ASSUME TypeOK, ArtifactInv, NEW e \in Exec, Clean(e)
  PROVE  Reached(e)' /\ PublishedIsWhole'
<1>1. Ends(e) /\ UNCHANGED <<store, root>>
  BY CleanEffect
<1>2. PublishedIsWhole'
  BY <1>1, WholeKept DEF ArtifactInv, root
<1> QED BY <1>1, <1>2, StagedAround DEF ArtifactStep, Ends, Staging

LEMMA ArtifactStepKeeps ==
  ASSUME TypeOK, ArtifactInv, NEW e \in Exec, ArtifactStep(e)
  PROVE  ArtifactInv'
<1>1. StagingInv' /\ CandidatesInv' /\ \A d \in Exec \ {e} : Reached(d)'
  BY StagedAround
<1>2. Reached(e)' /\ PublishedIsWhole'
  BY FilterKeeps, BuildKeeps, ObjectsKeep, LedgerKeeps, IndexKeeps, ManifestKeeps, FeedKeeps,
     CleanKeeps DEF ArtifactStep
<1> QED BY <1>1, <1>2 DEF ArtifactInv

-----------------------------------------------------------------------------
(* The staged workflow: the steps outside it keep its invariant too.       *)

LEMMA PassingBy ==
  ASSUME TypeOK, ArtifactInv, NEW e \in Exec, Moves(e), UNCHANGED artifactVars,
         exec'[e].pc \notin Staging, DOMAIN store \subseteq DOMAIN store',
         StagingInv', CandidatesInv',
         \A d \in Exec \ {e} : exec[d].pc \in Staging => batches'[exec[d].run] = batches[exec[d].run]
  PROVE  ArtifactInv'
<1>1. UNCHANGED <<curation, staged, documents, ledger, published, feed>>
  BY DEF artifactVars, staging, root
<1>2. ASSUME NEW d \in Exec \ {e} PROVE Reached(d)'
  BY <1>1, OtherReached DEF ArtifactInv, Moves
<1>3. Reached(e)'
  BY DEF Reached, Staging
<1>4. PublishedIsWhole'
  BY <1>1, WholeKept DEF ArtifactInv
<1> QED BY <1>2, <1>3, <1>4 DEF ArtifactInv

LEMMA BeginKeeps ==
  ASSUME TypeOK, ArtifactInv, NEW e \in Exec, StartArchive(e) \/ StartStaged(e),
         UNCHANGED artifactVars
  PROVE  ArtifactInv'
<1>1. PICK r \in Run, pc \in {"snapshot", "publish"} :
        /\ Begin(e, r, pc)
        /\ scenario.workflow[r] = "v2" \/ \A d \in Exec : ~Active(d, r)
  BY DEF StartArchive, StartStaged
<1>2. /\ Moves(e) /\ exec[e].pc = "idle" /\ exec'[e].pc = pc /\ exec'[e].run = r
      /\ UNCHANGED <<scenario, batches>>
  BY <1>1, BeginEffect
<1>3. UNCHANGED store
  BY DEF StartArchive, StartStaged
<1>4. StagingInv'
  BY <1>1, <1>2, StagingBegun DEF ArtifactInv, Staging
<1>5. CandidatesInv'
  BY <1>2, CandidatesKept DEF ArtifactInv
<1> QED BY <1>2, <1>3, <1>4, <1>5, PassingBy DEF Staging

LEMMA AcquisitionKeeps ==
  ASSUME TypeOK, ArtifactInv, NEW e \in Exec, LoadSnapshot(e) \/ Fetch(e), UNCHANGED artifactVars
  PROVE  ArtifactInv'
<1>1. /\ Moves(e) /\ exec[e].pc \in {"snapshot", "fetch"} /\ exec'[e].pc \in {"fetch", "ended"}
      /\ exec'[e].run = exec[e].run /\ UNCHANGED <<scenario, store>>
  BY LoadEffect, FetchEffect DEF Stays, Ends
<1>2. StagingInv'
  BY <1>1, StagingKept DEF ArtifactInv, Staging
<1>3. CASE LoadSnapshot(e)
  <2>1. exec[e].pc = "snapshot" /\ UNCHANGED batches
    BY <1>3, LoadEffect
  <2>2. CandidatesInv'
    BY <1>1, <2>1, CandidatesKept DEF ArtifactInv
  <2> QED BY <1>1, <1>2, <2>1, <2>2, PassingBy DEF Staging
<1>4. CASE Fetch(e)
  <2>1. CandidatesInv'
    BY <1>4, CandidatesFetched DEF ArtifactInv
  <2>2. PICK r \in Run : r = exec[e].run
    BY <1>1 DEF TypeOK
  <2>3. \A q \in Run \ {r} : batches'[q] = batches[q]
    BY <1>4, <2>2, FetchEffect DEF TypeOK, FilesType
  <2>4. ASSUME NEW d \in Exec \ {e}, exec[d].pc \in Staging
        PROVE  batches'[exec[d].run] = batches[exec[d].run]
    <3>1. exec[d].run # r /\ exec[d].run \in Run
      BY <1>1, <2>2, <2>4, Alone DEF ArtifactInv, TypeOK, Staging
    <3> QED BY <2>3, <3>1
  <2> QED BY <1>1, <1>2, <2>1, <2>4, PassingBy DEF Staging
<1> QED BY <1>3, <1>4

LEMMA ArchiveMoves ==
  ASSUME TypeOK, ArchiveInv, NEW e \in Exec, ArchiveStep(e)
  PROVE  /\ Moves(e) /\ exec'[e].run = exec[e].run /\ UNCHANGED <<scenario, batches>>
         /\ exec[e].pc \in {"fetch", "publish"} \cup Publishing
         /\ exec'[e].pc \in {"publish", "ended"} \cup Publishing
         /\ DOMAIN store \subseteq DOMAIN store'
<1>0. exec[e].pc \in Handling => exec[e].hand \in CandidateType
  BY DEF ArchiveInv, AtWork
<1>1. CASE SaveAcquisition(e)
  BY <1>1, SaveAcquisitionEffect DEF Stays
<1>2. CASE LockPublish(e)
  BY <1>2, LockPublishEffect DEF ArchiveInv, AtWork, Ends, Publishing
<1>3. CASE NextCandidate(e)
  BY <1>3, NextCandidateEffect DEF Publishing
<1>4. CASE Freeze(e)
  BY <1>4, GotoEffect DEF Freeze, Publishing, Stays
<1>5. CASE Inspect(e)
  BY <1>0, <1>5, GotoEffect, SettleEffect DEF Inspect, Publishing, Handling, Verdicts, Stays
<1>6. CASE Upload(e)
  <2>1. DOMAIN store \subseteq DOMAIN store'
    BY <1>6, PutGrows DEF Upload
  <2> QED BY <1>6, <2>1, GotoEffect DEF Upload, Publishing, Stays
<1>7. CASE UploadFails(e)
  <2>1. DOMAIN store \subseteq DOMAIN store'
    BY <1>7, PutGrows DEF UploadFails, PutFails
  <2> QED BY <1>0, <1>7, <2>1, SettleEffect DEF UploadFails, Publishing, Handling, Verdicts
<1>8. CASE SaveReceipt(e)
  BY <1>0, <1>8, SettleEffect DEF SaveReceipt, Publishing, Handling, Verdicts
<1>9. CASE WriteManifest(e)
  BY <1>9, EndEffect DEF WriteManifest, Ends, Publishing
<1> QED BY <1>1, <1>2, <1>3, <1>4, <1>5, <1>6, <1>7, <1>8, <1>9 DEF ArchiveStep

LEMMA ArchiveKeeps ==
  ASSUME TypeOK, ArchiveInv, ArtifactInv, NEW e \in Exec, ArchiveStep(e), UNCHANGED artifactVars
  PROVE  ArtifactInv'
<1>1. /\ Moves(e) /\ exec'[e].run = exec[e].run /\ UNCHANGED <<scenario, batches>>
      /\ exec[e].pc \notin {"idle", "ended"}
      /\ exec'[e].pc \notin Staging \cup {"idle", "snapshot", "fetch"}
      /\ DOMAIN store \subseteq DOMAIN store'
  BY ArchiveMoves DEF Publishing, Staging
<1>2. StagingInv'
  BY <1>1, StagingKept DEF ArtifactInv
<1>3. CandidatesInv'
  BY <1>1, CandidatesKept DEF ArtifactInv
<1> QED BY <1>1, <1>2, <1>3, PassingBy

LEMMA DieKeeps ==
  ASSUME TypeOK, ArtifactInv, NEW e \in Exec, Die(e)
  PROVE  ArtifactInv'
<1>1. /\ exec[e].pc \notin {"idle", "ended"} /\ End(e)
      /\ UNCHANGED <<scenario, batches, store, artifactVars>>
  BY DEF Die
<1>2. Moves(e) /\ exec'[e].pc = "ended" /\ exec'[e].run = exec[e].run
  BY <1>1, EndEffect DEF Ends
<1>3. StagingInv'
  BY <1>1, <1>2, StagingKept DEF ArtifactInv, Staging
<1>4. CandidatesInv'
  BY <1>1, <1>2, CandidatesKept DEF ArtifactInv
<1> QED BY <1>1, <1>2, <1>3, <1>4, PassingBy DEF Staging

-----------------------------------------------------------------------------
(* The theorems                                                            *)

LEMMA InitInv == Init => RawInv
<1> SUFFICES ASSUME Init PROVE RawInv
  OBVIOUS
<1>1. PICK s \in Scenarios :
        /\ scenario = s /\ batches = [r \in Run |-> {}] /\ store = <<>>
        /\ exec = [e \in Exec |-> IF e <= s.starts THEN Idle ELSE [Idle EXCEPT !.pc = "ended"]]
  BY DEF Init, AcquisitionInit
<1>2. \A e \in Exec : exec[e] \in {Idle, [Idle EXCEPT !.pc = "ended"]}
  BY <1>1
<1>3. \A e \in Exec : /\ exec[e].pc \in {"idle", "ended"} /\ exec[e].items = {}
                      /\ exec[e].hand = NoFile /\ exec[e] \in ExecType
  BY <1>2, IdleType DEF Idle, ExecType
<1>4. TypeOK
  <2>1. exec \in [Exec -> ExecType]
    BY <1>1, <1>3
  <2>2. FilesType
    BY <1>1 DEF Init, ArchiveInit, ArtifactInit, FilesType
  <2> QED BY <1>1, <1>3, <2>1, <2>2 DEF Init, ArtifactInit, TypeOK
<1>5. DOMAIN store = {}
  BY <1>1
<1>6. ArchiveInv
  <2>1. \A e \in Exec : AtWork(e)
    BY <1>3 DEF AtWork, Publishing, Handling
  <2>2. LocksInv
    BY <1>3 DEF LocksInv, Publishing, Handling
  <2>3. StoreInv
    BY <1>5 DEF Init, ArchiveInit, StoreInv
  <2>4. ItemsInv
    <3>1. Saved = {}
      BY DEF Init, ArchiveInit, Saved
    <3>2. \A e \in Exec : Coherent(exec[e].items) /\ ArchivedIn(exec[e].items) = {}
      BY <1>3 DEF Coherent, ArchivedIn
    <3> QED BY <3>1, <3>2 DEF ItemsInv
  <2> QED BY <2>1, <2>2, <2>3, <2>4 DEF ArchiveInv
<1>7. ArtifactInv
  <2>1. StagingInv
    BY <1>3 DEF StagingInv, Staging
  <2>2. CandidatesInv
    BY <1>1 DEF CandidatesInv, Candidates
  <2>3. \A e \in Exec : Reached(e)
    BY <1>3 DEF Reached, Staging
  <2>4. PublishedIsWhole
    BY DEF Init, ArtifactInit, PublishedIsWhole
  <2> QED BY <2>1, <2>2, <2>3, <2>4 DEF ArtifactInv
<1> QED BY <1>4, <1>6, <1>7 DEF RawInv

LEMMA ArtifactInvStep ==
  ASSUME TypeOK, ArchiveInv, ArtifactInv, NEW e \in Exec, Begins(e) \/ Works(e) \/ Die(e)
  PROVE  ArtifactInv'
<1>1. CASE Begins(e)
  <2>1. UNCHANGED artifactVars
    BY <1>1 DEF Begins, StartStaged
  <2> QED BY <1>1, <2>1, BeginKeeps DEF Begins
<1>2. CASE Works(e)
  BY <1>2, AcquisitionKeeps, ArchiveKeeps, ArtifactStepKeeps DEF Works
<1>3. CASE Die(e)
  BY <1>3, DieKeeps
<1> QED BY <1>1, <1>2, <1>3

LEMMA StepInv == RawInv /\ [Next]_vars => RawInv'
<1> SUFFICES ASSUME RawInv, [Next]_vars PROVE RawInv'
  OBVIOUS
<1>1. CASE Next
  <2>1. PICK e \in Exec : Begins(e) \/ Works(e) \/ Die(e)
    BY <1>1 DEF Next
  <2> QED BY <2>1, TypeStep, ArchiveInvStep, ArtifactInvStep DEF RawInv
<1>2. CASE UNCHANGED vars
  <2>1. TypeOK'
    BY <1>2 DEF RawInv, vars, archiveVars, artifactVars, staging, root, TypeOK, FilesType
  <2>2. ArchiveInv'
    <3>1. /\ ArchiveInv
          /\ UNCHANGED <<exec, store, acquisition, manifest, document, archived>>
      BY <1>2 DEF RawInv, vars, archiveVars
    <3>2. (\A e \in Exec : AtWork(e))' /\ LocksInv' /\ StoreInv'
      BY <3>1 DEF ArchiveInv, AtWork, LocksInv, StoreInv, HandVersion
    <3>3. Saved' = Saved
      BY <3>1 DEF Saved
    <3>4. (\A e \in Exec : Coherent(exec[e].items))' /\ (\A r \in Saved : Coherent(manifest[r].items))'
      BY <3>1, <3>3 DEF ArchiveInv, ItemsInv, Coherent
    <3>5. ItemsInv'
      BY <3>1, <3>3, <3>4 DEF ArchiveInv, ItemsInv, ArchivedIn
    <3> QED BY <3>2, <3>5 DEF ArchiveInv
  <2>3. ArtifactInv'
    BY <1>2 DEF RawInv, vars, artifactVars, staging, root, ArtifactInv, StagingInv, CandidatesInv,
                Reached, Stored, PublishedIsWhole
  <2> QED BY <2>1, <2>2, <2>3 DEF RawInv
<1> QED BY <1>1, <1>2 DEF Next

\* Every reachable state of raw collection, whatever runs overlap, die and are
\* repeated, is one of the inductive invariant.
THEOREM RawCollectionCorrect == Spec => []RawInv
<1> QED BY InitInv, StepInv, PTL DEF Spec

\* Receipts and manifests only name versions whose frozen document is in the
\* store, and an object is never anything else.
THEOREM ReceiptsAlwaysTrue == Spec => []ReceiptsAreTrue
<1>1. RawInv => ReceiptsAreTrue
  BY DEF RawInv, ArchiveInv, StoreInv, ItemsInv, Coherent, ReceiptsAreTrue
<1> QED BY <1>1, RawCollectionCorrect, PTL

\* One item of all manifests archives a version, and a manifest is of one mind
\* about it.
THEOREM OneVerdict == Spec => []OneVerdictPerVersion
<1>1. ASSUME RawInv PROVE OneVerdictPerVersion
  <2> SUFFICES ASSUME NEW r \in Saved, NEW s \in Saved, NEW i \in manifest[r].items,
                      NEW j \in manifest[s].items, i.version = j.version
               PROVE  /\ i.status = "archived" /\ j.status = "archived" => r = s /\ i = j
                      /\ r = s /\ i.status = "failed" => j.status = "failed"
    BY DEF OneVerdictPerVersion
  <2>1. ItemsInv
    BY <1>1 DEF RawInv, ArchiveInv
  <2>2. CASE r = s
    BY <2>1, <2>2 DEF ItemsInv, Coherent
  <2>3. CASE r # s
    BY <2>1, <2>3 DEF ItemsInv, ArchivedIn
  <2> QED BY <2>2, <2>3
<1> QED BY <1>1, RawCollectionCorrect, PTL

\* A manifest of the staged workflow that can be seen is whole.
THEOREM PublishedAlwaysWhole == Spec => []PublishedIsWhole
<1>1. RawInv => PublishedIsWhole
  BY DEF RawInv, ArtifactInv
<1> QED BY <1>1, RawCollectionCorrect, PTL

-----------------------------------------------------------------------------
(* What was decided and published stands.                                  *)

LEMMA QuietStands ==
  ASSUME TypeOK, UNCHANGED <<curation, omissions, published, ledger>>, feed \subseteq feed'
  PROVE  AllStands
<1>1. \A r \in Run : \A id \in DOMAIN omissions[r] : omissions[r][id] >= omissions[r][id]
  BY DEF TypeOK, FilesType
<1> QED BY <1>1 DEF AllStands, DecisionStands, OmissionStands

\* Only the run at work is touched; what else a step promises is about that run.
LEMMA LocalStands ==
  ASSUME TypeOK, NEW e \in Exec, StagedMove(e), NEW r \in Run, r = exec[e].run,
         UNCHANGED <<published, ledger>>,
         \A id \in DOMAIN curation[r] : DecisionStands(r, id),
         \A id \in DOMAIN omissions[r] : OmissionStands(r, id)
  PROVE  AllStands
<1>1. ASSUME NEW q \in Run \ {r}
      PROVE  /\ \A id \in DOMAIN curation[q] : DecisionStands(q, id)
             /\ \A id \in DOMAIN omissions[q] : OmissionStands(q, id)
  <2>1. curation'[q] = curation[q] /\ omissions'[q] = omissions[q]
    BY DEF StagedMove, Local
  <2>2. \A id \in DOMAIN omissions[q] : omissions[q][id] >= omissions[q][id]
    BY DEF TypeOK, FilesType
  <2> QED BY <2>1, <2>2 DEF DecisionStands, OmissionStands
<1> QED BY <1>1 DEF AllStands, StagedMove, Local

LEMMA SaveDecisionsStands ==
  ASSUME TypeOK, ArtifactInv, NEW e \in Exec, SaveDecisions(e)
  PROVE  AllStands
<1>1. PICK r \in Run : r = exec[e].run
  BY DEF SaveDecisions, TypeOK
<1>2. StagedMove(e) /\ exec[e].pc = "filter" /\ UNCHANGED <<omissions, published, ledger>>
  BY SaveDecisionsEffect DEF root
<1>3. PICK said : /\ DOMAIN said \subseteq exec[e].asked
                  /\ curation' = [curation EXCEPT ![r] = Merged(@, said)]
  BY <1>1, SaveDecisionsEffect
<1>4. exec[e].asked \in SUBSET (CandidateIds \ DOMAIN curation[r])
  BY <1>1, <1>2 DEF ArtifactInv, Reached
<1>5. curation'[r] = Merged(curation[r], said)
  BY <1>3 DEF TypeOK
<1>6. ASSUME NEW id \in DOMAIN curation[r] PROVE DecisionStands(r, id)
  BY <1>3, <1>4, <1>5 DEF DecisionStands, Merged
<1>7. ASSUME NEW id \in DOMAIN omissions[r] PROVE OmissionStands(r, id)
  BY <1>2 DEF OmissionStands, TypeOK, FilesType
<1> QED BY <1>1, <1>2, <1>6, <1>7, LocalStands

LEMMA SaveCountsStands ==
  ASSUME TypeOK, ArtifactInv, NEW e \in Exec, SaveCounts(e)
  PROVE  AllStands
<1>1. PICK r \in Run : r = exec[e].run
  BY DEF SaveCounts, TypeOK
<1>2. StagedMove(e) /\ UNCHANGED <<curation, published, ledger>>
  BY SaveCountsEffect DEF root
<1>3. PICK asked, missing :
        /\ asked = exec[e].asked /\ missing = asked \ DOMAIN curation[r]
        /\ omissions'[r] = Counted(omissions[r], asked, missing)
  <2> DEFINE a == exec[e].asked
             m == exec[e].asked \ DOMAIN curation[r]
  <2>1. omissions' = [omissions EXCEPT ![r] = Counted(@, a, m)]
    BY <1>1, SaveCountsEffect
  <2>2. omissions'[r] = Counted(omissions[r], a, m)
    BY <2>1 DEF TypeOK
  <2> QED BY <2>2
<1>4. ASSUME NEW id \in DOMAIN curation[r] PROVE DecisionStands(r, id)
  BY <1>2, <1>4 DEF DecisionStands
<1>5. ASSUME NEW id \in DOMAIN omissions[r] PROVE OmissionStands(r, id)
  <2>1. CASE id \in DOMAIN curation[r]
    BY <1>2, <2>1 DEF OmissionStands
  <2>2. CASE id \notin DOMAIN curation[r]
    <3>1. /\ DOMAIN omissions[r] \subseteq CandidateIds /\ missing \subseteq CandidateIds
          /\ \A i \in DOMAIN omissions[r] : omissions[r][i] \in Nat
      BY <1>3, ExecFields DEF TypeOK, FilesType, ExecType
    <3>2. id \in (DOMAIN omissions[r] \ asked) \cup missing
      BY <1>3, <1>5, <2>2
    <3>3. /\ id \in DOMAIN Counted(omissions[r], asked, missing)
          /\ Counted(omissions[r], asked, missing)[id] >= omissions[r][id]
      BY <1>5, <3>1, <3>2, CountedType
    <3> QED BY <1>3, <3>3 DEF OmissionStands
  <2> QED BY <2>1, <2>2
<1> QED BY <1>1, <1>2, <1>4, <1>5, LocalStands

LEMMA CleanStands ==
  ASSUME TypeOK, ArtifactInv, NEW e \in Exec, Clean(e)
  PROVE  AllStands
<1>1. PICK r \in Run : r = exec[e].run
  BY DEF Clean, TypeOK
<1>2. /\ StagedMove(e) /\ exec[e].pc = "clean" /\ UNCHANGED <<published, ledger>>
      /\ batches' = [batches EXCEPT ![r] = {}]
  BY <1>1, CleanEffect DEF root
<1>3. /\ [run |-> r, manifest |-> staged[r].manifest] \in feed
      /\ IdsOf(staged[r].manifest.ledger.rows) = DOMAIN curation[r]
  BY <1>1, <1>2 DEF ArtifactInv, Reached, Staging
<1>4. \A id \in DOMAIN curation[r] : DecisionStands(r, id)
  BY <1>3 DEF DecisionStands
<1>5. \A id \in DOMAIN omissions[r] : OmissionStands(r, id)
  BY <1>2 DEF OmissionStands, TypeOK, FilesType
<1> QED BY <1>1, <1>2, <1>4, <1>5, LocalStands

LEMMA PublicationStands ==
  ASSUME TypeOK, ArtifactInv, NEW e \in Exec, PublishLedger(e) \/ PublishManifest(e)
  PROVE  AllStands
<1>1. /\ UNCHANGED <<curation, omissions, feed>>
      /\ \A q \in Run : ledger[q] # NoFile => ledger'[q] = ledger[q]
      /\ \A q \in Run : published[q] # NoFile => published'[q] = published[q]
  BY PublishLedgerEffect, PublishManifestEffect, LedgerKeeps, ManifestKeeps DEF staging
<1>2. \A r \in Run : \A id \in DOMAIN omissions[r] : omissions[r][id] >= omissions[r][id]
  BY DEF TypeOK, FilesType
<1> QED BY <1>1, <1>2 DEF AllStands, DecisionStands, OmissionStands

LEMMA ArtifactStepStands ==
  ASSUME TypeOK, ArtifactInv, NEW e \in Exec, ArtifactStep(e)
  PROVE  AllStands
<1>1. CASE Build(e)
  <2>1. UNCHANGED <<curation, omissions, published, ledger, feed>>
    BY <1>1 DEF Build, root
  <2> QED BY <2>1, QuietStands
<1>2. CASE \/ Collected(e) \/ Prepare(e) \/ RefuseDraft(e)
           \/ UploadDocument(e) \/ UploadDocumentFails(e)
  <2>1. UNCHANGED <<curation, omissions, published, ledger, feed>>
    BY <1>2 DEF Collected, Prepare, RefuseDraft, UploadDocument, UploadDocumentFails,
                artifactVars, staging, root
  <2> QED BY <2>1, QuietStands
<1>3. CASE PublishDocuments(e) \/ PublishIndex(e) \/ AppendFeed(e)
  <2>1. UNCHANGED <<curation, omissions, published, ledger>> /\ feed \subseteq feed'
    BY <1>3 DEF PublishDocuments, PublishIndex, AppendFeed, staging
  <2> QED BY <2>1, QuietStands
<1> QED BY <1>1, <1>2, <1>3, SaveDecisionsStands, SaveCountsStands, CleanStands,
       PublicationStands DEF ArtifactStep

\* Decisions, omission counts, ledgers, manifests and feed lines stand.
THEOREM DecisionsAlwaysStand == Spec => DecisionsStand
<1>1. ASSUME RawInv, [Next]_vars PROVE [AllStands]_<<artifactVars>>
  <2>1. CASE UNCHANGED artifactVars
    BY <2>1
  <2>2. CASE ~UNCHANGED artifactVars
    <3>1. PICK e \in Exec : Begins(e) \/ Works(e) \/ Die(e)
      BY <1>1, <2>2 DEF Next, vars
    <3>2. ArtifactStep(e)
      BY <2>2, <3>1 DEF Begins, Works, Die, StartStaged
    <3> QED BY <1>1, <3>2, ArtifactStepStands DEF RawInv
  <2> QED BY <2>1, <2>2
<1> QED BY <1>1, RawCollectionCorrect, PTL DEF Spec, DecisionsStand
=============================================================================
