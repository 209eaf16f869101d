-------------------------- MODULE ArticleQueueProofs --------------------------
(***************************************************************************)
(* Theorems about ArticleQueue for any articles, legacy documents, runs    *)
(* and any number of faults.                                               *)
(***************************************************************************)
EXTENDS ArticleQueue, TLAPS

\* TypeOK is about files, about what runs hold, and about the faults so far.
FilesType ==
  /\ status \in [Article -> {"absent", "pending"} \cup Terminal]
  /\ attempts \in [Article -> Nat]
  /\ token \in [Article -> Worker \cup {Nobody}]
  /\ live \in [Article -> BOOLEAN]
  /\ lastError \subseteq Article
  /\ marker \subseteq Directory \X Article
  /\ review \in [Article -> Draft \cup {"none"}]
  /\ publication \subseteq Article
  /\ uploaded \subseteq Article
  /\ data \subseteq Article
  /\ evidence \subseteq Article
  /\ eventMarks \subseteq Article
  /\ legacy \subseteq LegacyDocs
  /\ phase \in {"legacy", "article"}

HandsType ==
  /\ job \in [Worker -> [pc : Point, article : Article \cup {Nobody},
                         draft : Draft \cup {"none"}]]
  /\ \A w \in Worker : job[w].pc # "idle" => job[w].article \in Article

LEMMA FilesTyped == ArticleInv => FilesType
BY DEF ArticleInv, TypeOK, FilesType

LEMMA FaultEffect ==
  ASSUME TypeOK, Fault \/ UNCHANGED faults
  PROVE  faults' \in 0 .. MaxFaults
BY ConstantsAssumption DEF TypeOK, Fault

-----------------------------------------------------------------------------
(* An article in hand.                                                     *)

\* It is an article with an attempt that is this run's own, in no other hand.
LEMMA Alone ==
  ASSUME ArticleInv, NEW w \in Worker, job[w].pc # "idle"
  PROVE  /\ job[w].article \in Article /\ job[w].article # Nobody
         /\ attempts[job[w].article] > 0 /\ token[job[w].article] = w
         /\ OnRecord(job[w].article) /\ status[job[w].article] # "absent"
         /\ \A v \in Worker \ {w} : job[v].article # job[w].article
<1>1. job[w].article \in Article /\ job[w].article # Nobody
  BY ConstantsAssumption DEF ArticleInv, TypeOK
<1>2. attempts[job[w].article] > 0 /\ token[job[w].article] = w
  BY DEF ArticleInv, InHand
<1>3. OnRecord(job[w].article)
  BY <1>1 DEF ArticleInv
<1>4. status[job[w].article] # "absent"
  BY <1>2, <1>3 DEF OnRecord
<1>5. ASSUME NEW v \in Worker \ {w}, job[v].article = job[w].article PROVE FALSE
  BY <1>1, <1>2, <1>5 DEF ArticleInv, InHand
<1> QED BY <1>1, <1>2, <1>3, <1>4, <1>5

\* Nothing that is recorded of c changes.
Untouched(c) ==
  /\ status'[c] = status[c] /\ attempts'[c] = attempts[c] /\ token'[c] = token[c]
  /\ live'[c] = live[c] /\ review'[c] = review[c]
  /\ (c \in publication') = (c \in publication) /\ (c \in uploaded') = (c \in uploaded)
  /\ (c \in evidence') = (c \in evidence) /\ (c \in eventMarks') = (c \in eventMarks)
  /\ (c \in legacy') = (c \in legacy)
  /\ \A d \in Directory : (<<d, c>> \in marker') = (<<d, c>> \in marker)

LEMMA UntouchedRecord ==
  ASSUME NEW c \in Article, OnRecord(c), Untouched(c)
  PROVE  OnRecord(c)'
<1>1. status[c] \in Terminal => status[c] \in Directory
  BY DEF Directory
<1>2. "pending" \in Directory
  BY DEF Directory
<1> QED BY <1>1, <1>2 DEF OnRecord, Untouched

LEMMA UntouchedHand ==
  ASSUME NEW v \in Worker, InHand(v), job'[v] = job[v],
         job[v].pc = "idle" \/ Untouched(job[v].article)
  PROVE  InHand(v)'
BY DEF InHand, Untouched, Unpublished, Published

\* A step that touches one article, in the hand of w or of nobody, keeps the
\* invariant when it keeps it of this article and of w.
LEMMA OneArticle ==
  ASSUME ArticleInv, NEW w \in Worker, NEW a \in Article,
         \A v \in Worker \ {w} : job'[v] = job[v] /\ job[v].article # a,
         FilesType', HandsType', Fault \/ UNCHANGED faults,
         \A c \in Article \ {a} : Untouched(c), OnRecord(a)', InHand(w)'
  PROVE  ArticleInv'
<1>1. ASSUME NEW c \in Article PROVE OnRecord(c)'
  <2>1. CASE c = a
    BY <2>1
  <2>2. CASE c # a
    BY <2>2, UntouchedRecord DEF ArticleInv
  <2> QED BY <2>1, <2>2
<1>2. ASSUME NEW v \in Worker PROVE InHand(v)'
  <2>1. CASE v = w
    BY <2>1
  <2>2. CASE v # w
    <3>1. job[v].pc # "idle" => job[v].article \in Article \ {a}
      BY <2>2 DEF ArticleInv, TypeOK
    <3> QED BY <2>2, <3>1, UntouchedHand DEF ArticleInv
  <2> QED BY <2>1, <2>2
<1>3. TypeOK'
  <2>1. faults' \in 0 .. MaxFaults
    BY FaultEffect DEF ArticleInv
  <2> QED BY <2>1 DEF TypeOK, FilesType, HandsType
<1> QED BY <1>1, <1>2, <1>3 DEF ArticleInv

\* The run moves on with its article.
LEMMA GoesOn ==
  ASSUME ArticleInv, NEW w \in Worker, NEW a \in Article, a = job[w].article,
         job[w].pc # "idle", NEW p \in Point \ {"idle"}, Goto(w, p),
         FilesType', Fault \/ UNCHANGED faults,
         \A c \in Article \ {a} : Untouched(c), OnRecord(a)',
         attempts'[a] > 0, token'[a] = w,
         p # "failing" => status'[a] \in {"pending", "failed"},
         p \in Unpublished => a \notin publication',
         p \in Published => a \in publication',
         p \in Unpublished \cup {"publishing", "uploading", "posting", "binding"} =>
           a \notin evidence' \/ a \in LegacyDocs,
         p = "finishing" => a \in eventMarks'
  PROVE  ArticleInv'
<1>1. /\ HandsType'
      /\ job'[w].pc = p /\ job'[w].article = a
      /\ \A v \in Worker \ {w} : job'[v] = job[v]
  BY DEF ArticleInv, TypeOK, HandsType, Goto
<1>2. InHand(w)'
  BY <1>1 DEF InHand
<1>3. \A v \in Worker \ {w} : job[v].article # a
  BY Alone
<1> QED BY <1>1, <1>2, <1>3, OneArticle

\* The run puts it down.
LEMMA PutsDown ==
  ASSUME ArticleInv, NEW w \in Worker, NEW a \in Article, a = job[w].article,
         job[w].pc # "idle", Done(w),
         FilesType', Fault \/ UNCHANGED faults,
         \A c \in Article \ {a} : Untouched(c), OnRecord(a)'
  PROVE  ArticleInv'
<1>1. /\ HandsType'
      /\ job'[w].pc = "idle" /\ job'[w].article = Nobody
      /\ \A v \in Worker \ {w} : job'[v] = job[v]
  BY DEF ArticleInv, TypeOK, HandsType, Done, IdleJob, Point
<1>2. InHand(w)'
  BY <1>1 DEF InHand, Unpublished, Published
<1>3. \A v \in Worker \ {w} : job[v].article # a
  BY Alone
<1> QED BY <1>1, <1>2, <1>3, OneArticle

-----------------------------------------------------------------------------
(* Steps of a run with its article.                                        *)

\* Memory moves, files stay.
LEMMA MemoryStep ==
  ASSUME ArticleInv, NEW w \in Worker,
         Prepare(w) \/ AgentReviews(w) \/ CheckUpload(w) \/ ClaimLost(w)
           \/ RecordingRefused(w) \/ StepFails(w) \/ Crash(w)
  PROVE  ArticleInv'
<1>1. /\ UNCHANGED <<claim, saved, world, legacy, phase>>
      /\ Fault \/ UNCHANGED faults
  BY DEF Prepare, AgentReviews, CheckUpload, ClaimLost, RecordingRefused, StepFails, Crash
<1>2. job[w].pc # "idle"
  BY DEF Prepare, AgentReviews, CheckUpload, ClaimLost, AsksForClaim, Ending, RecordingRefused,
         StepFails, Crash
<1>3. FilesType'
  BY <1>1, FilesTyped DEF FilesType, claim, saved, world
<1>4. \A c : Untouched(c)
  BY <1>1 DEF Untouched, claim, saved, world
<1>5. PICK a \in Article : a = job[w].article
  BY <1>2, Alone
<1>6. OnRecord(a)'
  BY <1>4, <1>5, UntouchedRecord DEF ArticleInv
<1>7. InHand(w) /\ attempts'[a] > 0 /\ token'[a] = w
  BY <1>1, <1>2, <1>5, Alone DEF ArticleInv, claim
<1> USE <1>1, <1>2, <1>3, <1>4, <1>5, <1>6, <1>7
<1>8. CASE RecordingRefused(w) \/ Crash(w)
  BY <1>8, PutsDown DEF RecordingRefused, Crash
<1>9. CASE StepFails(w) \/ ClaimLost(w)
  <2>1. Goto(w, "failing")
    BY <1>9 DEF StepFails, ClaimLost
  <2> QED BY <2>1, GoesOn DEF Point, Unpublished, Published
<1>10. CASE Prepare(w)
  <2>1. Goto(w, "reviewing")
    BY <1>10 DEF Prepare
  <2> QED BY <1>10, <2>1, GoesOn
    DEF Prepare, InHand, Point, Unpublished, Published, claim, saved, world
<1>11. CASE CheckUpload(w)
  <2>1. Goto(w, "uploading")
    BY <1>11 DEF CheckUpload
  <2> QED BY <1>11, <2>1, GoesOn
    DEF CheckUpload, InHand, Point, Unpublished, Published, claim, saved, world
<1>12. CASE AgentReviews(w)
  <2>1. /\ HandsType'
        /\ job'[w].pc = "reviewed" /\ job'[w].article = a
        /\ \A v \in Worker \ {w} : job'[v] = job[v]
    BY <1>12 DEF ArticleInv, TypeOK, HandsType, AgentReviews, Draft, Point
  <2>2. InHand(w)'
    BY <1>12, <2>1 DEF AgentReviews, InHand, Unpublished, Published, claim, saved, world
  <2> QED BY <2>1, <2>2, Alone, OneArticle
<1> QED BY <1>8, <1>9, <1>10, <1>11, <1>12

\* What the steps below have in common: the article in hand, and why its record
\* and the run's knowledge of it can be used.
LEMMA WithArticle ==
  ASSUME ArticleInv, NEW w \in Worker, NEW a \in Article, a = job[w].article,
         job[w].pc # "idle"
  PROVE  /\ FilesType /\ OnRecord(a) /\ InHand(w)
         /\ attempts[a] > 0 /\ token[a] = w /\ status[a] # "absent"
BY Alone, FilesTyped DEF ArticleInv

\* The draft is saved, rejected or curated.
LEMMA ReviewStep ==
  ASSUME ArticleInv, NEW w \in Worker,
         SaveReview(w) \/ RejectReview(w) \/ SavePublication(w)
  PROVE  ArticleInv'
<1>1. /\ UNCHANGED <<claim, world, legacy, phase, faults>>
      /\ job[w].pc \in {"reviewed", "validating"}
  BY DEF SaveReview, RejectReview, SavePublication
<1>2. PICK a \in Article : a = job[w].article
  BY <1>1, Alone
<1>3. /\ FilesType /\ OnRecord(a) /\ InHand(w)
      /\ attempts[a] > 0 /\ token[a] = w /\ status[a] # "absent"
  BY <1>1, <1>2, WithArticle
<1>4. /\ a \notin publication /\ status[a] \in {"pending", "failed"}
      /\ a \notin evidence \/ a \in LegacyDocs
      /\ a \notin uploaded
  BY <1>1, <1>2, <1>3 DEF InHand, Unpublished, OnRecord
<1>5. attempts'[a] > 0 /\ token'[a] = w /\ status'[a] \in {"pending", "failed"}
  BY <1>1, <1>3, <1>4 DEF claim
<1>6. a \notin evidence' \/ a \in LegacyDocs
  BY <1>1, <1>4 DEF world
<1>7. CASE SaveReview(w)
  <2>1. review' = [review EXCEPT ![a] = job[w].draft] /\ publication' = publication
    BY <1>2, <1>7 DEF SaveReview
  <2>2. FilesType'
    <3>1. job[w].draft \in Draft \cup {"none"}
      BY DEF ArticleInv, TypeOK
    <3> QED BY <1>1, <1>3, <2>1, <3>1 DEF FilesType, claim, world
  <2>3. \A c \in Article \ {a} : Untouched(c)
    BY <1>1, <1>3, <2>1 DEF FilesType, Untouched, claim, world
  <2>4. OnRecord(a)'
    BY <1>1, <1>3, <1>4, <2>1 DEF OnRecord, claim, world
  <2>5. /\ HandsType'
        /\ job'[w].pc = "validating" /\ job'[w].article = a
        /\ \A v \in Worker \ {w} : job'[v] = job[v]
    <3>1. job' = [job EXCEPT ![w].pc = "validating", ![w].draft = "none"]
      BY <1>7 DEF SaveReview
    <3>2. HandsType
      BY DEF ArticleInv, TypeOK, HandsType
    <3>3. /\ job'[w].pc = "validating" /\ job'[w].article = a
          /\ \A v \in Worker \ {w} : job'[v] = job[v]
      BY <1>2, <3>1, <3>2 DEF HandsType
    <3>4. job' \in [Worker -> [pc : Point, article : Article \cup {Nobody},
                              draft : Draft \cup {"none"}]]
      <4>1. job[w] \in [pc : Point, article : Article \cup {Nobody}, draft : Draft \cup {"none"}]
        BY <3>2 DEF HandsType
      <4>2. [job[w] EXCEPT !.pc = "validating", !.draft = "none"]
              \in [pc : Point, article : Article \cup {Nobody}, draft : Draft \cup {"none"}]
        BY <4>1 DEF Point
      <4>3. job' = [job EXCEPT ![w] = [job[w] EXCEPT !.pc = "validating", !.draft = "none"]]
        BY <3>1, <3>2 DEF HandsType
      <4> QED BY <3>2, <4>2, <4>3 DEF HandsType
    <3> QED BY <3>2, <3>3, <3>4 DEF HandsType
  <2>6. InHand(w)'
    BY <1>4, <1>5, <1>6, <2>1, <2>5 DEF InHand, Unpublished, Published
  <2> QED BY <1>1, <1>2, <2>2, <2>3, <2>4, <2>5, <2>6, Alone, OneArticle
<1>8. CASE RejectReview(w)
  <2>1. review' = [review EXCEPT ![a] = "none"] /\ publication' = publication
    BY <1>2, <1>4, <1>8 DEF RejectReview
  <2>2. FilesType'
    BY <1>1, <1>3, <2>1 DEF FilesType, claim, world
  <2>3. \A c \in Article \ {a} : Untouched(c)
    BY <1>1, <1>3, <2>1 DEF FilesType, Untouched, claim, world
  <2>4. OnRecord(a)'
    BY <1>1, <1>3, <1>4, <2>1 DEF OnRecord, claim, world
  <2>5. Goto(w, "failing")
    BY <1>8 DEF RejectReview
  <2> QED BY <1>1, <1>2, <1>5, <2>2, <2>3, <2>4, <2>5, GoesOn DEF Point, Unpublished, Published
<1>9. CASE SavePublication(w)
  <2>1. review' = review /\ publication' = publication \cup {a} /\ review[a] = "publishable"
    BY <1>2, <1>9 DEF SavePublication
  <2>2. FilesType'
    BY <1>1, <1>3, <2>1 DEF FilesType, claim, world
  <2>3. \A c \in Article \ {a} : Untouched(c)
    BY <1>1, <1>3, <2>1 DEF FilesType, Untouched, claim, world
  <2>4. OnRecord(a)'
    BY <1>1, <1>3, <1>4, <2>1 DEF OnRecord, claim, world
  <2>5. Goto(w, "publishing")
    BY <1>9 DEF SavePublication
  <2> QED BY <1>1, <1>2, <1>5, <1>6, <2>1, <2>2, <2>3, <2>4, <2>5, GoesOn DEF Point, Unpublished, Published
<1> QED BY <1>7, <1>8, <1>9

\* The original, the Evidence and its Event marker leave for the outside.
LEMMA PublishStep ==
  ASSUME ArticleInv, NEW w \in Worker,
         Upload(w) \/ PublishAgain(w) \/ PostEvidence(w) \/ WriteManifest(w)
           \/ WriteManifestCut(w)
  PROVE  ArticleInv'
<1>1. /\ UNCHANGED <<claim, saved, legacy, phase>>
      /\ Fault \/ UNCHANGED faults
      /\ job[w].pc \in {"uploading", "posting", "binding"}
  BY DEF Upload, PublishAgain, PostEvidence, WriteManifest, WriteManifestCut
<1>2. PICK a \in Article : a = job[w].article
  BY <1>1, Alone
<1>3. /\ FilesType /\ OnRecord(a) /\ InHand(w)
      /\ attempts[a] > 0 /\ token[a] = w /\ status[a] # "absent"
  BY <1>1, <1>2, WithArticle
<1>4. a \in publication /\ status[a] \in {"pending", "failed"}
  BY <1>1, <1>2, <1>3 DEF InHand, Published
<1>5. /\ attempts'[a] > 0 /\ token'[a] = w /\ status'[a] \in {"pending", "failed"}
      /\ a \in publication'
  BY <1>1, <1>3, <1>4 DEF claim, saved
<1>6. /\ uploaded' \in {uploaded, uploaded \cup {a}} /\ data' \in {data, data \cup {a}}
      /\ evidence' \in {evidence, evidence \cup {a}}
      /\ eventMarks' \in {eventMarks, eventMarks \cup {a}}
  BY <1>2 DEF Upload, PublishAgain, PostEvidence, WriteManifest, WriteManifestCut
<1>7. FilesType'
  BY <1>1, <1>3, <1>6 DEF FilesType, claim, saved
<1>8. \A c \in Article \ {a} : Untouched(c)
  BY <1>1, <1>6 DEF Untouched, claim, saved
<1>9. OnRecord(a)'
  BY <1>1, <1>3, <1>4, <1>6 DEF OnRecord, claim, saved
<1> USE <1>1, <1>2, <1>3, <1>4, <1>5, <1>7, <1>8, <1>9
<1>10. CASE Upload(w)
  <2>1. Goto(w, "posting") /\ evidence' = evidence
    BY <1>10 DEF Upload
  <2> QED BY <2>1, GoesOn DEF InHand, Point, Unpublished, Published
<1>11. CASE PublishAgain(w)
  <2>1. Goto(w, "finishing") /\ a \in eventMarks'
    BY <1>11 DEF PublishAgain
  <2> QED BY <2>1, GoesOn DEF Point, Unpublished, Published
<1>12. CASE PostEvidence(w)
  <2>1. Goto(w, "binding") /\ evidence' = evidence /\ a \notin evidence
    BY <1>12 DEF PostEvidence
  <2> QED BY <2>1, GoesOn DEF Point, Unpublished, Published
<1>13. CASE WriteManifest(w)
  <2>1. Goto(w, "finishing") /\ a \in eventMarks'
    BY <1>13 DEF WriteManifest
  <2> QED BY <2>1, GoesOn DEF Point, Unpublished, Published
<1>14. CASE WriteManifestCut(w)
  <2>1. Done(w) \/ Goto(w, "failing")
    BY <1>14 DEF WriteManifestCut
  <2>2. CASE Done(w)
    BY <2>2, PutsDown
  <2>3. CASE Goto(w, "failing")
    BY <2>3, GoesOn DEF Point, Unpublished, Published
  <2> QED BY <2>1, <2>2, <2>3
<1> QED BY <1>10, <1>11, <1>12, <1>13, <1>14

\* The steps that settle an article as completed or excluded, and those that cut
\* them short.
LEMMA EndingStep ==
  ASSUME ArticleInv, NEW w \in Worker,
         ReusePublished(w) \/ Exclude(w) \/ CompleteArticle(w) \/ FinishCut(w)
  PROVE  ArticleInv'
<1>1. /\ UNCHANGED <<attempts, token, lastError, saved, world, legacy, phase>>
      /\ Fault \/ UNCHANGED faults
      /\ job[w].pc \in {"claimed", "validating", "finishing"}
  BY DEF ReusePublished, Exclude, CompleteArticle, FinishCut, Finish, Ending
<1>2. PICK a \in Article : a = job[w].article
  BY <1>1, Alone
<1>3. /\ FilesType /\ OnRecord(a) /\ InHand(w)
      /\ attempts[a] > 0 /\ token[a] = w /\ status[a] # "absent"
  BY <1>1, <1>2, WithArticle
<1>4. PICK s \in {"completed", "excluded"} :
        /\ s = "completed" => a \in LegacyDocs \/ a \in eventMarks
        /\ s = "excluded" => a \notin publication
        /\ \/ /\ status' = [status EXCEPT ![a] = s]
              /\ live' = [live EXCEPT ![a] = FALSE]
              /\ marker' \in {marker \cup {<<s, a>>}, (marker \cup {<<s, a>>}) \ {<<"pending", a>>}}
           \/ UNCHANGED <<status, live>> /\ marker' = marker \cup {<<s, a>>}
  <2>1. CASE ReusePublished(w)
    <3>1. a \in LegacyDocs
      BY <1>2, <1>3, <2>1 DEF ReusePublished, InHand, Unpublished
    <3> QED BY <1>2, <2>1, <3>1 DEF ReusePublished, Finish
  <2>2. CASE Exclude(w)
    <3>1. a \notin publication
      BY <1>2, <1>3, <2>2 DEF Exclude, InHand, Unpublished
    <3> QED BY <1>2, <2>2, <3>1 DEF Exclude, Finish
  <2>3. CASE CompleteArticle(w)
    <3>1. a \in eventMarks
      BY <1>2, <1>3, <2>3 DEF CompleteArticle, InHand
    <3> QED BY <1>2, <2>3, <3>1 DEF CompleteArticle, Finish
  <2>4. CASE FinishCut(w)
    <3>1. /\ Ending(w) \in {"completed", "excluded"}
          /\ Ending(w) = "completed" =>
               job[w].pc = "finishing" \/ (job[w].pc = "claimed" /\ a \in evidence)
          /\ Ending(w) = "excluded" => job[w].pc = "validating"
      BY <1>2, <2>4 DEF FinishCut, Ending
    <3>2. /\ Ending(w) = "completed" => a \in LegacyDocs \/ a \in eventMarks
          /\ Ending(w) = "excluded" => a \notin publication
      BY <1>2, <1>3, <3>1 DEF InHand, Unpublished
    <3> QED BY <1>2, <2>4, <3>1, <3>2 DEF FinishCut
  <2> QED BY <2>1, <2>2, <2>3, <2>4
<1>5. FilesType'
  <2>1. /\ status' \in [Article -> {"absent", "pending"} \cup Terminal]
        /\ live' \in [Article -> BOOLEAN]
    BY <1>3, <1>4 DEF FilesType, Terminal
  <2>2. marker' \subseteq Directory \X Article
    <3>1. marker' \subseteq marker \cup {<<s, a>>}
      BY <1>4
    <3>2. <<s, a>> \in Directory \X Article
      BY DEF Directory, Terminal
    <3> QED BY <1>3, <3>1, <3>2 DEF FilesType
  <2> QED BY <1>1, <1>3, <1>4, <2>1, <2>2 DEF FilesType, saved, world
<1>6. \A c \in Article \ {a} : Untouched(c)
  BY <1>1, <1>3, <1>4 DEF FilesType, Untouched, saved, world
<1>7. OnRecord(a)'
  <2>1. /\ <<s, a>> \in marker'
        /\ \/ status'[a] = s /\ ~live'[a]
           \/ /\ status'[a] = status[a] /\ live'[a] = live[a]
              /\ \A d \in Directory : <<d, a>> \in marker => <<d, a>> \in marker'
    BY <1>3, <1>4 DEF FilesType
  <2>2. s \in Terminal /\ Terminal \subseteq Directory /\ "pending" \in Directory
    BY DEF Terminal, Directory
  <2> QED BY <1>1, <1>3, <1>4, <2>1, <2>2 DEF OnRecord, saved, world
<1>8. attempts'[a] > 0 /\ token'[a] = w
  BY <1>1, <1>3
<1>9. Done(w) \/ Goto(w, "failing")
  BY DEF ReusePublished, Exclude, CompleteArticle, FinishCut, Finish
<1>10. CASE Done(w)
  BY <1>1, <1>2, <1>5, <1>6, <1>7, <1>10, PutsDown
<1>11. CASE Goto(w, "failing")
  BY <1>1, <1>2, <1>5, <1>6, <1>7, <1>8, <1>11, GoesOn DEF Point, Unpublished, Published
<1> QED BY <1>9, <1>10, <1>11

\* The failure is recorded, or its record is cut short.
LEMMA FailureStep ==
  ASSUME ArticleInv, NEW w \in Worker, RecordFailure(w) \/ RecordFailureCut(w)
  PROVE  ArticleInv'
<1>1. /\ UNCHANGED <<attempts, token, saved, world, legacy, phase>>
      /\ Fault \/ UNCHANGED faults
      /\ job[w].pc = "failing" /\ Done(w)
  BY DEF RecordFailure, RecordFailureCut
<1>2. PICK a \in Article : a = job[w].article
  BY <1>1, Alone
<1>3. /\ FilesType /\ OnRecord(a)
      /\ attempts[a] > 0 /\ status[a] \notin {"absent", "completed", "excluded"}
  BY <1>1, <1>2, WithArticle DEF RecordFailure, RecordFailureCut, Recordable
<1>4. /\ status' \in {status, [status EXCEPT ![a] = "failed"]}
      /\ live' \in {live, [live EXCEPT ![a] = FALSE]}
      /\ status'[a] = "failed" /\ status[a] # "failed" => ~live'[a]
      /\ lastError' \in {lastError, lastError \cup {a}}
      /\ marker' \in {marker \cup {<<"failed", a>>},
                     (marker \cup {<<"failed", a>>}) \ {<<"pending", a>>}}
      /\ <<"pending", a>> \in marker /\ <<"pending", a>> \notin marker' => status'[a] = "failed"
  BY <1>2, <1>3 DEF RecordFailure, RecordFailureCut, FilesType
<1>5. FilesType'
  <2>1. /\ status' \in [Article -> {"absent", "pending"} \cup Terminal]
        /\ live' \in [Article -> BOOLEAN]
    BY <1>3, <1>4 DEF FilesType, Terminal
  <2>2. marker' \subseteq Directory \X Article
    <3>1. marker' \subseteq marker \cup {<<"failed", a>>}
      BY <1>4
    <3>2. <<"failed", a>> \in Directory \X Article
      BY DEF Directory, Terminal
    <3> QED BY <1>3, <3>1, <3>2 DEF FilesType
  <2> QED BY <1>1, <1>3, <1>4, <2>1, <2>2 DEF FilesType, saved, world
<1>6. \A c \in Article \ {a} : Untouched(c)
  BY <1>1, <1>3, <1>4 DEF FilesType, Untouched, saved, world
<1>7. OnRecord(a)'
  <2>1. /\ <<"failed", a>> \in marker'
        /\ status'[a] \in {status[a], "failed"} /\ live'[a] \in {live[a], FALSE}
        /\ \A d \in Directory \ {"pending"} : <<d, a>> \in marker => <<d, a>> \in marker'
    BY <1>3, <1>4 DEF FilesType
  <2>2. "failed" \in Terminal /\ Terminal \subseteq Directory \ {"pending"} /\ "pending" \in Directory
    BY DEF Terminal, Directory
  <2> QED BY <1>1, <1>3, <1>4, <2>1, <2>2 DEF OnRecord, saved, world
<1> QED BY <1>1, <1>2, <1>5, <1>6, <1>7, PutsDown

-----------------------------------------------------------------------------
(* Steps of others: acquisition, the legacy consumer, sweeps, time.        *)

\* What no step of another run may do to an article in a run's hand.
HandKept(c) ==
  /\ attempts'[c] = attempts[c] /\ token'[c] = token[c]
  /\ status'[c] \in {status[c], "failed"}
  /\ (c \in publication') = (c \in publication)
  /\ c \in evidence' => c \in evidence \/ c \in LegacyDocs
  /\ c \in eventMarks => c \in eventMarks'

LEMMA KeepsHand ==
  ASSUME NEW v \in Worker, InHand(v), job'[v] = job[v],
         job[v].pc = "idle" \/ HandKept(job[v].article)
  PROVE  InHand(v)'
BY DEF InHand, HandKept, Unpublished, Published

LEMMA ByOthers ==
  ASSUME ArticleInv, UNCHANGED job, FilesType', Fault \/ UNCHANGED faults,
         \A c \in Article : attempts[c] > 0 => HandKept(c),
         \A c \in Article : OnRecord(c)'
  PROVE  ArticleInv'
<1>1. ASSUME NEW v \in Worker PROVE InHand(v)'
  <2>1. job[v].pc # "idle" => job[v].article \in Article /\ attempts[job[v].article] > 0
    BY Alone
  <2> QED BY <2>1, KeepsHand DEF ArticleInv
<1>2. TypeOK'
  <2>1. faults' \in 0 .. MaxFaults
    BY FaultEffect DEF ArticleInv
  <2>2. HandsType'
    BY DEF ArticleInv, TypeOK, HandsType
  <2> QED BY <2>1, <2>2 DEF TypeOK, FilesType, HandsType
<1> QED BY <1>1, <1>2 DEF ArticleInv

\* One article is touched by others.
LEMMA OneByOthers ==
  ASSUME ArticleInv, UNCHANGED job, NEW a \in Article, FilesType', Fault \/ UNCHANGED faults,
         \A c \in Article \ {a} : Untouched(c),
         attempts[a] > 0 => HandKept(a), OnRecord(a)'
  PROVE  ArticleInv'
<1>1. ASSUME NEW c \in Article PROVE OnRecord(c)'
  <2>1. CASE c = a
    BY <2>1
  <2>2. CASE c # a
    BY <2>2, UntouchedRecord DEF ArticleInv
  <2> QED BY <2>1, <2>2
<1>2. \A c \in Article \ {a} : HandKept(c)
  BY DEF Untouched, HandKept
<1> QED BY <1>1, <1>2, ByOthers

\* An article enters the queue: its state, its marker, or both.
LEMMA Entering ==
  ASSUME ArticleInv, NEW a \in Article, NEW s \in {"pending", "excluded"},
         UNCHANGED <<attempts, token, live, lastError, saved, world, phase, job>>,
         Fault \/ UNCHANGED faults,
         legacy' \subseteq legacy, legacy \ {a} \subseteq legacy',
         \/ /\ status[a] = "absent" /\ status' = [status EXCEPT ![a] = s]
            /\ s = "excluded" => a \notin LegacyDocs
            /\ marker' = marker \cup {<<s, a>>} \/ UNCHANGED <<marker, legacy>>
         \/ /\ status[a] # "absent" /\ UNCHANGED status
            /\ marker' = marker \cup {<<"pending", a>>}
         \/ status[a] \in Terminal /\ UNCHANGED <<status, marker>>
  PROVE  ArticleInv'
<1>1. FilesType /\ OnRecord(a)
  BY FilesTyped DEF ArticleInv
<1>2. s \in Directory /\ "pending" \in Directory /\ Terminal \subseteq Directory
  BY DEF Directory, Terminal
<1>3. FilesType'
  <2>1. status' \in [Article -> {"absent", "pending"} \cup Terminal]
    BY <1>1 DEF FilesType, Terminal
  <2>2. marker' \subseteq Directory \X Article
    BY <1>1, <1>2 DEF FilesType
  <2> QED BY <1>1, <2>1, <2>2 DEF FilesType, saved, world
<1>4. \A c \in Article \ {a} : Untouched(c)
  BY <1>1 DEF FilesType, Untouched, saved, world
<1>5. attempts[a] > 0 => HandKept(a)
  BY <1>1 DEF OnRecord, HandKept, saved, world
<1>6. OnRecord(a)'
  <2>1. /\ s # "absent" /\ s # "completed"
        /\ "pending" \notin Terminal /\ "absent" \notin Terminal
    BY DEF Terminal
  <2>2. CASE status[a] = "absent"
    <3>1. status'[a] = s
      BY <1>1, <2>2 DEF FilesType, Terminal
    <3>2. /\ s = "excluded" => a \notin LegacyDocs
          /\ <<s, a>> \in marker' \/ legacy' = legacy
      BY <2>2 DEF Terminal
    <3> QED BY <1>1, <1>2, <2>1, <2>2, <3>1, <3>2 DEF OnRecord, saved, world
  <2>3. CASE status[a] # "absent"
    <3>1. /\ status'[a] = status[a]
          /\ <<"pending", a>> \in marker' \/ status[a] \in Terminal
          /\ \A d \in Directory : <<d, a>> \in marker => <<d, a>> \in marker'
      BY <2>3
    <3> QED BY <1>1, <1>2, <2>1, <2>3, <3>1 DEF OnRecord, saved, world
  <2> QED BY <2>2, <2>3
<1> QED BY <1>3, <1>4, <1>5, <1>6, OneByOthers

LEMMA ArrivalStep ==
  ASSUME ArticleInv, NEW a \in Article, Arrival(a)
  PROVE  ArticleInv'
<1>1. FilesType /\ OnRecord(a)
  BY FilesTyped DEF ArticleInv
<1>2. CASE Collect(a)
  BY <1>2, Entering DEF Collect, Accept, Repair
<1>3. CASE CollectCut(a)
  BY <1>3, Entering DEF CollectCut
<1>4. CASE Cutover(a)
  BY <1>4, Entering DEF Cutover, Accept, Repair, Known, claim
<1>5. CASE CutoverCut(a)
  BY <1>5, Entering DEF CutoverCut, Accept, Repair
<1>6. CASE CutoverExcluded(a)
  BY <1>6, Entering DEF CutoverExcluded, Accept
<1>7. CASE CutoverExcludedCut(a)
  BY <1>7, Entering DEF CutoverExcludedCut
<1>8. CASE LegacyPublish(a) \/ LegacyPublishCut(a)
  <2>1. /\ a \in LegacyDocs /\ UNCHANGED <<claim, saved, uploaded, phase, job>>
        /\ data' = data \cup {a} /\ evidence' = evidence \cup {a}
        /\ \/ eventMarks' = eventMarks \cup {a} /\ legacy' = legacy \ {a}
           \/ UNCHANGED <<eventMarks, legacy>>
        /\ Fault \/ UNCHANGED faults
    BY <1>1, <1>8 DEF LegacyPublish, LegacyPublishCut, FilesType
  <2>2. FilesType'
    BY <1>1, <2>1 DEF FilesType, claim, saved
  <2>3. \A c \in Article \ {a} : Untouched(c)
    BY <2>1 DEF Untouched, claim, saved
  <2>4. HandKept(a)
    BY <2>1 DEF HandKept, claim, saved
  <2>5. OnRecord(a)'
    BY <1>1, <2>1 DEF OnRecord, claim, saved
  <2> QED BY <2>1, <2>2, <2>3, <2>4, <2>5, OneByOthers
<1> QED BY <1>2, <1>3, <1>4, <1>5, <1>6, <1>7, <1>8 DEF Arrival

\* The operator stops the consumers, or a claim expires.
LEMMA TimeStep ==
  ASSUME ArticleInv,
         StopConsumers \/ \E a \in Article : ExpireOrphan(a) \/ ExpireHeld(a)
  PROVE  ArticleInv'
<1>1. FilesType /\ \A c \in Article : OnRecord(c)
  BY FilesTyped DEF ArticleInv
<1>2. CASE StopConsumers
  <2>1. /\ FilesType' /\ UNCHANGED <<job, faults>>
        /\ \A c : Untouched(c)
    BY <1>1, <1>2 DEF StopConsumers, FilesType, Untouched, claim, saved, world
  <2>2. \A c \in Article : OnRecord(c)'
    BY <1>1, <2>1, UntouchedRecord
  <2> QED BY <2>1, <2>2, ByOthers DEF HandKept, Untouched
<1>3. ASSUME NEW a \in Article, ExpireOrphan(a) \/ ExpireHeld(a) PROVE ArticleInv'
  <2>1. /\ live' = [live EXCEPT ![a] = FALSE]
        /\ UNCHANGED <<status, attempts, token, lastError, marker, saved, world, legacy,
                       phase, job>>
        /\ Fault \/ UNCHANGED faults
    BY <1>3 DEF ExpireOrphan, ExpireHeld
  <2>2. FilesType'
    BY <1>1, <2>1 DEF FilesType, saved, world
  <2>3. \A c \in Article \ {a} : Untouched(c)
    BY <1>1, <2>1 DEF FilesType, Untouched, saved, world
  <2>4. HandKept(a)
    BY <2>1 DEF HandKept, saved, world
  <2>5. OnRecord(a)'
    BY <1>1, <2>1 DEF FilesType, OnRecord, saved, world
  <2> QED BY <2>1, <2>2, <2>3, <2>4, <2>5, OneByOthers
<1> QED BY <1>2, <1>3

-----------------------------------------------------------------------------
(* Sweeps and claims.                                                      *)

\* A sweep leaves an article as it is, takes the pending marker of a settled
\* one, or settles an expired one as failed with its archive marker.
SweptTo(c) ==
  \/ /\ status'[c] = status[c]
     /\ \A d \in Directory : (<<d, c>> \in marker') = (<<d, c>> \in marker)
  \/ /\ status[c] \in Terminal /\ status'[c] = status[c]
     /\ \A d \in Directory \ {"pending"} : (<<d, c>> \in marker') = (<<d, c>> \in marker)
  \/ /\ status[c] \notin Terminal \cup {"absent"} /\ ~live[c]
     /\ status'[c] = "failed" /\ <<"failed", c>> \in marker'

LEMMA SweepEffect ==
  ASSUME FilesType, \A c \in Article : OnRecord(c), NEW S \in SUBSET Marked("pending"),
         status' = SweptStatus(S), lastError' = SweptError(S), marker' = SweptMarker(S)
  PROVE  /\ status' \in [Article -> {"absent", "pending"} \cup Terminal]
         /\ lastError' \subseteq Article
         /\ marker' \subseteq Directory \X Article
         /\ \A c \in Article : SweptTo(c)
         /\ \A c \in Article \ S : status'[c] = status[c]
<1>1. S \subseteq Article /\ Expired(S) \subseteq S
  BY DEF Marked, Expired
<1>2. /\ status' \in [Article -> {"absent", "pending"} \cup Terminal]
      /\ lastError' \subseteq Article
      /\ \A c \in Article : status'[c] = IF c \in Expired(S) THEN "failed" ELSE status[c]
  BY <1>1 DEF FilesType, SweptStatus, SweptError, Terminal
<1>3. marker' \subseteq Directory \X Article
  <2>1. {<<"failed", a>> : a \in Expired(S)} \subseteq Directory \X Article
    BY <1>1 DEF Directory, Terminal
  <2> QED BY <2>1 DEF FilesType, SweptMarker
<1>4. ASSUME NEW c \in Article, NEW d \in Directory
      PROVE  <<d, c>> \in marker' <=>
               /\ <<d, c>> \in marker \/ (d = "failed" /\ c \in Expired(S))
               /\ ~(d = "pending" /\ c \in S /\ (status[c] \in Terminal \/ ~live[c]))
  <2>1. <<d, c>> \in {<<"failed", a>> : a \in Expired(S)} <=> d = "failed" /\ c \in Expired(S)
    BY Zenon
  <2>2. <<d, c>> \in {<<"pending", a>> : a \in {x \in S : status[x] \in Terminal \/ ~live[x]}}
          <=> d = "pending" /\ c \in S /\ (status[c] \in Terminal \/ ~live[c])
    BY Zenon
  <2> QED BY <2>1, <2>2 DEF SweptMarker
<1>5. ASSUME NEW c \in Article PROVE SweptTo(c)
  <2>1. "failed" \in Directory /\ "failed" # "pending" /\ "pending" \in Directory
    BY DEF Directory, Terminal
  <2>2. CASE c \in Expired(S)
    <3>1. c \in S /\ status[c] \notin Terminal /\ ~live[c]
      BY <2>2 DEF Expired
    <3>2. status[c] # "absent"
      BY <2>1, <3>1 DEF Marked, OnRecord
    <3> QED BY <1>2, <1>4, <2>1, <2>2, <3>1, <3>2 DEF SweptTo
  <2>3. CASE c \notin Expired(S) /\ c \in S
    <3>1. status[c] \in Terminal \/ live[c]
      BY <2>3 DEF Expired
    <3>2. live[c] => status[c] \notin Terminal
      BY DEF OnRecord, Terminal
    <3>3. status'[c] = status[c]
      BY <1>2, <2>3
    <3>4. CASE status[c] \in Terminal
      BY <1>4, <2>3, <3>3, <3>4 DEF SweptTo
    <3>5. CASE live[c]
      BY <1>4, <2>3, <3>2, <3>3, <3>5 DEF SweptTo
    <3> QED BY <3>1, <3>4, <3>5
  <2>4. CASE c \notin S
    BY <1>1, <1>2, <1>4, <2>4 DEF SweptTo
  <2> QED BY <2>2, <2>3, <2>4
<1> QED BY <1>1, <1>2, <1>3, <1>5

LEMMA SweptRecord ==
  ASSUME NEW c \in Article, OnRecord(c), SweptTo(c),
         attempts'[c] = attempts[c], live'[c] = live[c], UNCHANGED <<saved, world, legacy>>
  PROVE  OnRecord(c)'
<1>1. /\ Terminal \subseteq Directory \ {"pending"} /\ "pending" \in Directory
      /\ "failed" \in Terminal
  BY DEF Directory, Terminal
<1>2. CASE /\ status'[c] = status[c]
           /\ \A d \in Directory : (<<d, c>> \in marker') = (<<d, c>> \in marker)
  BY <1>1, <1>2 DEF OnRecord, saved, world
<1>3. CASE /\ status[c] \in Terminal /\ status'[c] = status[c]
           /\ \A d \in Directory \ {"pending"} : (<<d, c>> \in marker') = (<<d, c>> \in marker)
  BY <1>1, <1>3 DEF OnRecord, Terminal, saved, world
<1>4. CASE /\ status[c] \notin Terminal \cup {"absent"} /\ ~live[c]
           /\ status'[c] = "failed" /\ <<"failed", c>> \in marker'
  BY <1>1, <1>4 DEF OnRecord, saved, world
<1> QED BY <1>2, <1>3, <1>4 DEF SweptTo

LEMMA SweepStep ==
  ASSUME ArticleInv, NEW w \in Worker,
         ClaimNothing(w) \/ \E a \in Article : SweepCut(w, a)
  PROVE  ArticleInv'
<1>1. FilesType /\ \A c \in Article : OnRecord(c)
  BY FilesTyped DEF ArticleInv
<1>2. CASE ClaimNothing(w)
  <2>1. /\ status' = SweptStatus(Marked("pending")) /\ lastError' = SweptError(Marked("pending"))
        /\ marker' = SweptMarker(Marked("pending"))
        /\ UNCHANGED <<attempts, token, live, saved, world, legacy, phase, job, faults>>
    BY <1>2 DEF ClaimNothing
  <2>2. /\ status' \in [Article -> {"absent", "pending"} \cup Terminal]
        /\ lastError' \subseteq Article
        /\ marker' \subseteq Directory \X Article
        /\ \A c \in Article : SweptTo(c)
    BY <1>1, <2>1, SweepEffect
  <2>3. FilesType'
    BY <1>1, <2>1, <2>2 DEF FilesType, saved, world
  <2>4. \A c \in Article : OnRecord(c)'
    BY <1>1, <2>1, <2>2, SweptRecord
  <2>5. \A c \in Article : HandKept(c)
    BY <2>1, <2>2 DEF SweptTo, HandKept, saved, world
  <2> QED BY <2>1, <2>3, <2>4, <2>5, ByOthers
<1>3. ASSUME NEW a \in Article, SweepCut(w, a) PROVE ArticleInv'
  <2>1. /\ <<"pending", a>> \in marker /\ status[a] \notin Terminal
        /\ marker' = marker \cup {<<"failed", a>>} /\ Fault
        /\ UNCHANGED <<status, attempts, token, live, lastError, saved, world, legacy, phase, job>>
    BY <1>3 DEF SweepCut
  <2>2. "pending" \in Directory /\ "failed" \in Directory
    BY DEF Directory, Terminal
  <2>3. FilesType'
    BY <1>1, <2>1, <2>2 DEF FilesType, saved, world
  <2>4. \A c \in Article \ {a} : Untouched(c)
    BY <2>1 DEF Untouched, saved, world
  <2>5. HandKept(a)
    BY <2>1 DEF HandKept, saved, world
  <2>6. OnRecord(a)'
    BY <1>1, <2>1, <2>2 DEF OnRecord, saved, world
  <2> QED BY <2>1, <2>3, <2>4, <2>5, <2>6, OneByOthers
<1> QED BY <1>2, <1>3

\* A fresh article is claimed after some markers were swept.
LEMMA ClaimStep ==
  ASSUME ArticleInv, NEW w \in Worker, NEW a \in Article, Claim(w, a)
  PROVE  ArticleInv'
<1>1. FilesType /\ HandsType /\ \A c \in Article : OnRecord(c)
  BY FilesTyped DEF ArticleInv, TypeOK, HandsType
<1>2. PICK S \in SUBSET (Marked("pending") \ {a}) :
        status' = SweptStatus(S) /\ lastError' = SweptError(S) /\ marker' = SweptMarker(S)
  BY DEF Claim
<1>3. /\ token' = [token EXCEPT ![a] = w] /\ live' = [live EXCEPT ![a] = TRUE]
      /\ attempts' = [attempts EXCEPT ![a] = @ + 1]
      /\ job' = [job EXCEPT ![w] = [pc |-> "claimed", article |-> a, draft |-> "none"]]
      /\ UNCHANGED <<saved, world, legacy, phase, faults>>
      /\ job[w].pc = "idle"
  BY DEF Claim
<1>4. /\ status' \in [Article -> {"absent", "pending"} \cup Terminal]
      /\ lastError' \subseteq Article /\ marker' \subseteq Directory \X Article
      /\ \A c \in Article : SweptTo(c)
      /\ status'[a] = status[a]
  BY <1>1, <1>2, SweepEffect
<1>5. /\ attempts[a] = 0 /\ status[a] = "pending" /\ review[a] = "none" /\ a \notin publication
      /\ a \notin evidence \/ a \in LegacyDocs
  <2>1. <<"pending", a>> \in marker /\ status[a] \notin Terminal
        /\ ~(attempts[a] > 0) /\ review[a] = "none" /\ a \notin publication
    BY DEF Claim, Swept, NotFresh
  <2>2. "pending" \in Directory
    BY DEF Directory
  <2>3. status[a] # "absent"
    BY <1>1, <2>1, <2>2 DEF OnRecord
  <2>4. attempts[a] = 0 /\ status[a] = "pending"
    BY <1>1, <2>1, <2>3 DEF FilesType
  <2> QED BY <1>1, <2>1, <2>4 DEF OnRecord
<1>6. FilesType'
  <2>1. /\ attempts' \in [Article -> Nat] /\ live' \in [Article -> BOOLEAN]
        /\ token' \in [Article -> Worker \cup {Nobody}]
    BY <1>1, <1>3 DEF FilesType
  <2> QED BY <1>1, <1>3, <1>4, <2>1 DEF FilesType, saved, world
<1>7. HandsType'
  BY <1>1, <1>3 DEF HandsType, Point
<1>8. TypeOK'
  BY <1>3, <1>6, <1>7 DEF TypeOK, FilesType, HandsType, ArticleInv
<1>9. ASSUME NEW c \in Article PROVE OnRecord(c)'
  <2>1. CASE c = a
    <3>1. attempts'[a] = 1 /\ live'[a] = TRUE /\ status'[a] = "pending"
      BY <1>1, <1>3, <1>4, <1>5 DEF FilesType
    <3>2. a \in LegacyDocs \ legacy => a \in eventMarks \/ <<"pending", a>> \in marker'
      <4>1. "pending" \in Directory /\ "pending" \notin Terminal /\ "failed" # "pending"
        BY DEF Directory, Terminal
      <4>2. <<"pending", a>> \in marker => <<"pending", a>> \in marker'
        BY <1>4, <1>5, <3>1, <4>1 DEF SweptTo
      <4> QED BY <1>1, <1>5, <4>1, <4>2 DEF OnRecord
    <3>3. "pending" \notin Terminal
      BY DEF Terminal
    <3> QED BY <1>1, <1>3, <1>5, <2>1, <3>1, <3>2, <3>3 DEF OnRecord, saved, world
  <2>2. CASE c # a
    <3>1. attempts'[c] = attempts[c] /\ live'[c] = live[c]
      BY <1>1, <1>3, <2>2 DEF FilesType
    <3> QED BY <1>1, <1>3, <1>4, <3>1, SweptRecord
  <2> QED BY <2>1, <2>2
<1>10. ASSUME NEW v \in Worker PROVE InHand(v)'
  <2>1. CASE v = w
    <3>1. /\ job'[w].pc = "claimed" /\ job'[w].article = a
          /\ attempts'[a] > 0 /\ token'[a] = w /\ status'[a] = "pending"
      BY <1>1, <1>3, <1>4, <1>5 DEF FilesType, HandsType
    <3> QED BY <1>3, <1>5, <2>1, <3>1 DEF InHand, Unpublished, Published, saved, world
  <2>2. CASE v # w
    <3>1. job'[v] = job[v]
      BY <1>1, <1>3, <2>2 DEF HandsType
    <3>2. ASSUME job[v].pc # "idle" PROVE HandKept(job[v].article)
      <4>1. PICK c \in Article : c = job[v].article
        BY <3>2, Alone
      <4>2. c # a
        BY <1>5, <3>2, <4>1, Alone
      <4>3. attempts'[c] = attempts[c] /\ token'[c] = token[c]
        BY <1>1, <1>3, <4>2 DEF FilesType
      <4>4. status'[c] \in {status[c], "failed"}
        BY <1>4 DEF SweptTo
      <4> QED BY <1>3, <4>1, <4>3, <4>4 DEF HandKept, saved, world
    <3> QED BY <3>1, <3>2, KeepsHand DEF ArticleInv
  <2> QED BY <2>1, <2>2
<1> QED BY <1>8, <1>9, <1>10 DEF ArticleInv

-----------------------------------------------------------------------------
(* The invariant.                                                          *)

LEMMA ArticleInit == Init => ArticleInv
<1> SUFFICES ASSUME Init PROVE ArticleInv
  OBVIOUS
<1>1. TypeOK
  BY ConstantsAssumption DEF Init, TypeOK, IdleJob, Point, Draft
<1>2. ASSUME NEW a \in Article PROVE OnRecord(a)
  BY DEF Init, OnRecord, Terminal
<1>3. ASSUME NEW w \in Worker PROVE InHand(w)
  BY DEF Init, InHand, IdleJob, Unpublished, Published
<1> QED BY <1>1, <1>2, <1>3 DEF ArticleInv

LEMMA ArticleStep == ArticleInv /\ [Next]_vars => ArticleInv'
<1> SUFFICES ASSUME ArticleInv, [Next]_vars PROVE ArticleInv'
  OBVIOUS
<1>1. CASE UNCHANGED vars
  BY <1>1 DEF vars, claim, saved, world, ArticleInv, TypeOK, OnRecord, InHand
<1>2. CASE \E a \in Article : Arrival(a)
  BY <1>2, ArrivalStep
<1>3. CASE StopConsumers \/ \E a \in Article : ExpireOrphan(a) \/ ExpireHeld(a)
  BY <1>3, TimeStep
<1>4. ASSUME NEW w \in Worker, Run(w) PROVE ArticleInv'
  BY <1>4, ClaimStep, SweepStep, EndingStep, MemoryStep, ReviewStep, PublishStep, FailureStep
     DEF Run
<1>5. ASSUME NEW w \in Worker, Misfortune(w) PROVE ArticleInv'
  BY <1>5, SweepStep, EndingStep, FailureStep, MemoryStep, PublishStep DEF Misfortune
<1> QED BY <1>1, <1>2, <1>3, <1>4, <1>5 DEF Next

\* The inductive invariant of the article queue holds of every behaviour.
THEOREM ArticleQueueCorrect == Spec => []ArticleInv
BY ArticleInit, ArticleStep, PTL DEF Spec

\* TypeOK holds of every behaviour.
THEOREM ArticleTypeCorrect == Spec => []TypeOK
<1>1. ArticleInv => TypeOK
  BY DEF ArticleInv
<1> QED BY <1>1, ArticleQueueCorrect, PTL

\* An article reaches the Reviewer in one attempt of one run only.
THEOREM OneReview == Spec => []ReviewedOnce
<1>1. ArticleInv => ReviewedOnce
  <2> SUFFICES ASSUME ArticleInv PROVE ReviewedOnce
    OBVIOUS
  <2>1. \A a \in Article : attempts[a] <= 1
    BY DEF ArticleInv, OnRecord
  <2>2. ASSUME NEW v \in Worker, NEW w \in Worker, job[v].pc # "idle",
               job[v].article = job[w].article
        PROVE  v = w
    BY <2>2, Alone
  <2> QED BY <2>1, <2>2 DEF ReviewedOnce
<1> QED BY <1>1, ArticleQueueCorrect, PTL

\* The Event markers of a collected article and the archive marker of any claimed
\* one are on disk before its terminal state, at every cut between the writes.
THEOREM OutcomesComeLast == Spec => []OutcomeComesLast
<1>1. ArticleInv => OutcomeComesLast
  BY DEF ArticleInv, OnRecord, OutcomeComesLast, CollectedMarkersFirst, ArchiveBeforeState
<1> QED BY <1>1, ArticleQueueCorrect, PTL

\* What left the local queue is what a saved review and its curation accepted.
THEOREM UploadsAreReviewed == Spec => []PublishedAsReviewed
<1>1. ArticleInv => PublishedAsReviewed
  <2> SUFFICES ASSUME ArticleInv, NEW a \in uploaded
               PROVE  a \in publication /\ review[a] = "publishable" /\ status[a] # "excluded"
    BY DEF PublishedAsReviewed
  <2>1. a \in Article
    BY DEF ArticleInv, TypeOK
  <2> QED BY <2>1 DEF ArticleInv, OnRecord
<1> QED BY <1>1, ArticleQueueCorrect, PTL

\* The legacy cursor never passes a document that nothing will take care of.
THEOREM LegacyIsHandedOver == Spec => []LegacyHandedOver
<1>1. ArticleInv => LegacyHandedOver
  BY ConstantsAssumption DEF ArticleInv, OnRecord, LegacyHandedOver
<1> QED BY <1>1, ArticleQueueCorrect, PTL

-----------------------------------------------------------------------------
(* An article is settled once, and by its owner.                           *)

\* What the step does to article a, of what SettledOnceByOwner restricts.
SettledOnce(a) ==
  /\ status[a] \in Terminal => status'[a] = status[a]
  /\ \/ review'[a] # review[a]
     \/ (a \in publication') # (a \in publication)
     \/ status[a] = "pending" /\ status'[a] \in {"completed", "excluded"}
     => \E w \in Worker : job[w].article = a /\ token[a] = w /\ live[a]

LEMMA Bystanding ==
  ASSUME NEW a \in Article, UNCHANGED saved,
         \/ status'[a] = status[a]
         \/ status[a] = "absent"
         \/ status[a] = "pending" /\ status'[a] = "failed"
  PROVE  SettledOnce(a)
BY DEF SettledOnce, saved, Terminal

\* The writes of a run that owns its article.
LEMMA OwnWrites ==
  ASSUME ArticleInv, NEW w \in Worker, NEW a \in Article,
         \/ ReusePublished(w) \/ Exclude(w) \/ CompleteArticle(w) \/ FinishCut(w)
         \/ SaveReview(w) \/ RejectReview(w) \/ SavePublication(w)
  PROVE  SettledOnce(a)
<1>1. Owned(w) /\ job[w].pc # "idle"
  BY DEF ReusePublished, Exclude, CompleteArticle, FinishCut, Finish, Ending, SaveReview,
         RejectReview, SavePublication
<1>2. PICK b \in Article : b = job[w].article
  BY <1>1, Alone
<1>3. /\ \E s : status' \in {status, [status EXCEPT ![b] = s]}
      /\ \E r : review' \in {review, [review EXCEPT ![b] = r]}
      /\ publication' \in {publication, publication \cup {b}}
  <2>1. CASE SaveReview(w) \/ RejectReview(w) \/ SavePublication(w)
    BY <1>2, <2>1 DEF SaveReview, RejectReview, SavePublication, claim
  <2>2. CASE ReusePublished(w) \/ Exclude(w) \/ CompleteArticle(w) \/ FinishCut(w)
    BY <1>2, <2>2 DEF ReusePublished, Exclude, CompleteArticle, FinishCut, Finish, saved
  <2> QED BY <2>1, <2>2
<1>4. FilesType /\ OnRecord(b)
  BY <1>1, <1>2, WithArticle
<1>5. CASE a = b
  <2>1. token[a] = w /\ live[a]
    BY <1>1, <1>2, <1>5 DEF Owned
  <2>2. status[a] \notin Terminal
    BY <1>4, <1>5, <2>1 DEF OnRecord, Terminal
  <2> QED BY <1>2, <1>5, <2>1, <2>2 DEF SettledOnce
<1>6. CASE a # b
  <2>1. status'[a] = status[a] /\ review'[a] = review[a]
        /\ (a \in publication') = (a \in publication)
    BY <1>3, <1>4, <1>6 DEF FilesType
  <2> QED BY <2>1 DEF SettledOnce, Terminal
<1> QED BY <1>5, <1>6

LEMMA SettleStep ==
  ASSUME ArticleInv, [Next]_vars, NEW a \in Article
  PROVE  SettledOnce(a)
<1>1. FilesType /\ \A c \in Article : OnRecord(c)
  BY FilesTyped DEF ArticleInv
<1>2. CASE UNCHANGED <<status, saved>>
  BY <1>2, Bystanding
<1>3. ASSUME NEW b \in Article, Arrival(b) PROVE SettledOnce(a)
  <2>1. UNCHANGED saved
    BY <1>3 DEF Arrival, Collect, CollectCut, LegacyPublish, LegacyPublishCut, Cutover,
                CutoverCut, CutoverExcluded, CutoverExcludedCut
  <2>2. \/ UNCHANGED status
        \/ status[b] = "absent" /\ \E s : status' = [status EXCEPT ![b] = s]
    BY <1>3 DEF Arrival, Collect, CollectCut, LegacyPublish, LegacyPublishCut, Cutover,
                CutoverCut, CutoverExcluded, CutoverExcludedCut, Accept, Repair, Known, claim
  <2>3. status'[a] = status[a] \/ status[a] = "absent"
    BY <1>1, <2>2 DEF FilesType
  <2> QED BY <2>1, <2>3, Bystanding
<1>4. CASE StopConsumers \/ \E b \in Article : ExpireOrphan(b) \/ ExpireHeld(b)
  BY <1>2, <1>4 DEF StopConsumers, ExpireOrphan, ExpireHeld, claim
<1>5. ASSUME NEW w \in Worker,
             Prepare(w) \/ AgentReviews(w) \/ CheckUpload(w) \/ ClaimLost(w)
               \/ RecordingRefused(w) \/ StepFails(w) \/ Crash(w)
               \/ Upload(w) \/ PublishAgain(w) \/ PostEvidence(w) \/ WriteManifest(w)
               \/ WriteManifestCut(w) \/ \E b \in Article : SweepCut(w, b)
      PROVE  SettledOnce(a)
  <2>1. UNCHANGED <<status, saved>>
    BY <1>5 DEF Prepare, AgentReviews, CheckUpload, ClaimLost, RecordingRefused, StepFails, Crash,
                Upload, PublishAgain, PostEvidence, WriteManifest, WriteManifestCut, SweepCut, claim
  <2> QED BY <1>2, <2>1
<1>6. ASSUME NEW w \in Worker, ClaimNothing(w) \/ \E b \in Article : Claim(w, b)
      PROVE  SettledOnce(a)
  <2>1. /\ UNCHANGED saved
        /\ \E S \in SUBSET Marked("pending") :
             /\ status' = SweptStatus(S) /\ lastError' = SweptError(S)
             /\ marker' = SweptMarker(S)
    BY <1>6 DEF ClaimNothing, Claim
  <2>2. SweptTo(a)
    BY <1>1, <2>1, SweepEffect
  <2> QED BY <1>1, <2>1, <2>2, Bystanding DEF SweptTo, FilesType
<1>7. ASSUME NEW w \in Worker, RecordFailure(w) \/ RecordFailureCut(w) PROVE SettledOnce(a)
  <2>1. PICK b \in Article : b = job[w].article
    BY <1>7, Alone DEF RecordFailure, RecordFailureCut
  <2>2. /\ status' \in {status, [status EXCEPT ![b] = "failed"]} /\ UNCHANGED saved
        /\ status[b] \in {"pending", "failed"}
    <3>1. status[b] \notin {"absent", "completed", "excluded"}
      BY <1>7, <2>1, Alone DEF RecordFailure, RecordFailureCut, Recordable
    <3> QED BY <1>1, <1>7, <2>1, <3>1 DEF RecordFailure, RecordFailureCut, FilesType, Terminal
  <2> QED BY <1>1, <2>2, Bystanding DEF FilesType
<1>8. ASSUME NEW w \in Worker, Run(w) PROVE SettledOnce(a)
  BY <1>5, <1>6, <1>7, <1>8, OwnWrites DEF Run
<1>9. ASSUME NEW w \in Worker, Misfortune(w) PROVE SettledOnce(a)
  BY <1>5, <1>7, <1>9, OwnWrites DEF Misfortune
<1> QED BY <1>2, <1>3, <1>4, <1>8, <1>9 DEF Next, vars, claim

\* A terminal article stays as it is, and reviews, publications and outcomes are
\* written only under the writer's own unexpired claim.
THEOREM SettledByOwner == Spec => SettledOnceByOwner
<1>1. ArticleInv /\ [Next]_vars =>
        [\A a \in Article : status[a] \in Terminal => status'[a] = status[a]]_status
  BY SettleStep DEF SettledOnce
<1>2. ArticleInv /\ [Next]_vars =>
        [\A a \in Article :
           \/ review'[a] # review[a]
           \/ (a \in publication') # (a \in publication)
           \/ status[a] = "pending" /\ status'[a] \in {"completed", "excluded"}
           => \E w \in Worker : job[w].article = a /\ token[a] = w /\ live[a]]_<<saved, status>>
  BY SettleStep DEF SettledOnce
<1> QED
  BY <1>1, <1>2, ArticleQueueCorrect, PTL
     DEF Spec, SettledOnceByOwner, TerminalIsFinal, FencedWrites
==============================================================================
