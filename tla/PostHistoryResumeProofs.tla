----------------------- MODULE PostHistoryResumeProofs -----------------------
(***************************************************************************)
(* No resume sends again an article the server has confirmed, for any      *)
(* number of files, articles, faults, resumes and ends of the program,     *)
(* save the two cases that ConfirmedIsNotResent names.  The confirmation   *)
(* is either on its way to its row or already in the plan of the resume.   *)
(***************************************************************************)
EXTENDS PostHistoryProofs

\* What the worker may be told of a file: a status of a file that has a row.
Known == {e \in Entries : e.of \in Files => e.kind # "absent" /\ e.of \in Registered}

\* What this job may still write.
Ahead == {"todo", "sent", "ambiguous", "unknown"}

\* A post without a row has nothing else.
NothingBefore ==
    post = "absent" => phase = "none" /\ answered = {} /\ Registered = {} /\ plan = NoPlan

\* A file has a row when the job or the plan has its identifier; an article
\* that the job posts without one is of a file without a row.
RowsOfJob ==
    /\ ids \subseteq Registered /\ plan.files \subseteq Registered
    /\ resumed => ids = files
    /\ phase = "preparing" /\ ~resumed => answered = {}
    /\ \A a \in Articles : art[a] # "out" =>
          phase # "none" /\ (fileOf[a] \in ids \/ fileOf[a] \notin Registered)

\* A confirmation is in its row, or on its way to it.
OnItsWay(a) ==
    \/ row[a] = "posted" \/ Queued(a, "posted") \/ art[a] = "won"
    \/ a \in lost \/ fileOf[a] \notin Registered
WordIsKept == \A a \in answered : OnItsWay(a)

AheadIsUnconfirmed == \A a \in answered : art[a] \in Ahead => a \in lost \/ stale

\* A plan made while nothing was posted knows all the confirmations.
PlanIsTrue ==
    plan # NoPlan /\ ~plan.live =>
        /\ phase = "none"
        /\ \A a \in answered : fileOf[a] \in plan.files => a \in plan.posted \cup lost

ResendInv ==
    /\ TypeOK /\ journal \in Seq(Known) /\ NothingBefore /\ RowsOfJob
    /\ WordIsKept /\ AheadIsUnconfirmed /\ PlanIsTrue
-----------------------------------------------------------------------------
(* The steps. *)

\* A step that neither makes a job nor ends one: an article is answered by being
\* won, and a won article only goes on to be recorded.
GoesOn ==
    /\ UNCHANGED <<lost, stale, resumed, files>>
    /\ phase' = "none" <=> phase = "none"
    /\ phase' = "preparing" => phase = "preparing"
    /\ phase \in {"none", "preparing"} => answered' = answered
    /\ post' = "absent" => post = "absent"
    /\ UNCHANGED ids \/ \E f \in Files : RegisterHistoryFile(f)
    /\ UNCHANGED plan \/ Resume
    /\ \A a \in Articles :
         /\ art'[a] # "out" => art[a] # "out"
         /\ art'[a] \in Ahead => art[a] \in Ahead
         /\ a \in answered' => a \in answered \/ art'[a] = "won"
         /\ art[a] = "won" => art'[a] = "won" \/ Record(a, "posted")

LEMMA WorkerGoesOn == TypeOK /\ Worker => GoesOn
BY DEF Worker, FlushArticleEvents, UpdateFileStatus, PrepareForUse, Cleanup, CleanedPost, Fault,
   NoFault, appVars, jobVars, artVars, boundVars, GoesOn

LEMMA ApplicationGoesOn ==
    TypeOK /\ Application => CreatePost \/ StartResume \/ JobDeleted \/ Restart \/ GoesOn
<1> SUFFICES ASSUME TypeOK, Application, ~(CreatePost \/ StartResume \/ JobDeleted \/ Restart)
             PROVE  GoesOn
  OBVIOUS
<1>1. CASE \E ok \in BOOLEAN : _ensureHistoryStore(ok)
  BY <1>1 DEF _ensureHistoryStore, Cleanup, CleanedPost, Fault, NoFault, jobVars, artVars,
     boundVars, GoesOn
<1>2. CASE \E ok \in BOOLEAN : StartTransfer(ok)
  BY <1>2 DEF StartTransfer, appVars, artVars, GoesOn
<1>3. CASE OnPrepared \/ Resume
  BY <1>3 DEF OnPrepared, Resume, dbVars, appVars, jobVars, artVars, boundVars, GoesOn
<1>4. CASE _abortBeforeTransfer \/ \E f \in Files : RegisterHistoryFile(f)
  BY <1>4 DEF _abortBeforeTransfer, RegisterHistoryFile, dbVars, appVars, artVars, boundVars, GoesOn
<1> QED
  BY <1>1, <1>2, <1>3, <1>4 DEF Application

LEMMA JobGoesOn == TypeOK /\ Job => GoesOn
<1> SUFFICES ASSUME TypeOK, Job PROVE GoesOn
  OBVIOUS
<1>0. art \in [Articles -> ArtStatuses]
  BY DEF TypeOK
<1>1. ASSUME NEW a \in Articles, Send(a) \/ MarkUnknown(a) \/ LeftInFlight(a) PROVE GoesOn
  BY <1>0, <1>1 DEF Send, MarkUnknown, LeftInFlight, dbVars, appVars, jobVars, boundVars, Ahead,
     GoesOn
<1>2. ASSUME NEW a \in Articles, OnArticle(a) PROVE GoesOn
  BY <1>0, <1>2 DEF OnArticle, dbVars, appVars, jobVars, boundVars, Ahead, GoesOn
<1>3. ASSUME NEW a \in Articles, NEW ok \in BOOLEAN, Reply(a, ok) PROVE GoesOn
  BY <1>0, <1>3 DEF Reply, dbVars, appVars, jobVars, boundVars, Ahead, GoesOn
<1>4. ASSUME NEW a \in Articles, NEW ok \in BOOLEAN, FlushReturns(a, ok) PROVE GoesOn
  BY <1>0, <1>4 DEF FlushReturns, Fault, NoFault, dbVars, appVars, jobVars, boundVars, Ahead, GoesOn
<1>5. ASSUME NEW f \in Files, onNntpFilePosted(f) PROVE GoesOn
  BY <1>5 DEF onNntpFilePosted, FileOver, dbVars, appVars, artVars, boundVars, GoesOn
<1>6. ASSUME NEW f \in Files, onNntpErrorReading(f) PROVE GoesOn
  BY <1>0, <1>6 DEF onNntpErrorReading, FileOver, dbVars, appVars, boundVars, Ahead, GoesOn
<1>7. CASE Stop \/ \E ok \in BOOLEAN : FinalizePost(ok)
  BY <1>7 DEF Stop, FinalizePost, Status, Fault, NoFault, dbVars, appVars, artVars, boundVars, GoesOn
<1>8. CASE \E ok \in BOOLEAN : _closeNzb(ok)
  BY <1>8 DEF _closeNzb, Fault, NoFault, dbVars, appVars, artVars, boundVars, GoesOn
<1> QED
  BY <1>1, <1>2, <1>3, <1>4, <1>5, <1>6, <1>7, <1>8 DEF Job

LEMMA Steps ==
    ASSUME TypeOK, [Next]_vars
    PROVE  CreatePost \/ StartResume \/ JobDeleted \/ Restart \/ GoesOn
<1>1. CASE UNCHANGED vars
  BY <1>1 DEF vars, dbVars, appVars, jobVars, artVars, boundVars, GoesOn
<1> QED
  BY <1>1, WorkerGoesOn, ApplicationGoesOn, JobGoesOn DEF Next
-----------------------------------------------------------------------------
(* The rows of the files, and the queue. *)

\* Only the registration of a file adds a row to the files that have one.
LEMMA RegisteredStep ==
    ASSUME TypeOK, journal \in Seq(Known), [Next]_vars
    PROVE  \/ Registered' = Registered /\ ~ \E f \in Files : RegisterHistoryFile(f)
           \/ \E f \in Files : RegisterHistoryFile(f) /\ Registered' = Registered \cup {f}
<1>0. fileRow \in [Files -> FileStatuses]
  BY DEF TypeOK
<1> SUFFICES ASSUME ~ \E f \in Files : RegisterHistoryFile(f) PROVE Registered' = Registered
  BY <1>0 DEF RegisterHistoryFile, Registered
<1>1. CASE UNCHANGED fileRow
  BY <1>1 DEF Registered
<1>2. CASE Worker
  <2>1. ASSUME NEW i \in 1..Len(journal), UpdateFileStatus(i) PROVE Registered' = Registered
    <3>1. journal[i] \in Known /\ journal[i].of \in Files
      BY <2>1, ElementOfSeq DEF UpdateFileStatus
    <3>2. journal[i].kind # "absent" /\ fileRow[journal[i].of] # "absent"
      BY <3>1 DEF Known, Registered
    <3>3. fileRow' \in {fileRow, [fileRow EXCEPT ![journal[i].of] = journal[i].kind]}
      BY <2>1 DEF UpdateFileStatus
    <3> QED
      BY <1>0, <3>1, <3>2, <3>3 DEF Registered
  <2> QED
    BY <1>1, <1>2, <2>1 DEF Worker, FlushArticleEvents, PrepareForUse, Cleanup
<1>3. CASE Application
  BY <1>1, <1>3 DEF Application, OnPrepared, _ensureHistoryStore, Cleanup, StartTransfer,
     CreatePost, _abortBeforeTransfer, Resume, StartResume, JobDeleted, Restart, dbVars
<1>4. CASE Job
  BY <1>1, <1>4 DEF Job, Send, MarkUnknown, LeftInFlight, OnArticle, Reply, FlushReturns,
     onNntpFilePosted, onNntpErrorReading, Stop, FinalizePost, _closeNzb, dbVars
<1>5. CASE UNCHANGED vars
  BY <1>1, <1>5 DEF vars, dbVars
<1> QED
  BY <1>2, <1>3, <1>4, <1>5 DEF Next

LEMMA KnownStep ==
    ASSUME TypeOK, journal \in Seq(Known), RowsOfJob, [Next]_vars
    PROVE  journal' \in Seq(Known')
<1>1. Prepare \in Known
  BY PrepareIsNoEvent DEF Known
<1>2. \A a \in Articles, kind \in RowStatuses :
          (kind = "posted" => art[a] = "won") => Entry(kind, a) \in Known
  BY EntryTypes, HistoryAssumption DEF Known, Entry
<1>3. \A f \in ids, kind \in {"posted", "partial", "failed"} : Entry(kind, f) \in Known
  BY EntryTypes DEF Known, Entry, RowsOfJob, TypeOK, FileStatuses
<1>4. journal' \in Seq(Known)
  BY <1>1, <1>2, <1>3, JournalStep
<1>5. Known \subseteq Known'
  BY RegisteredStep DEF Known
<1> QED
  BY <1>4, <1>5, SeqMonotonic

\* A job only adds to the queue.
LEMMA JobAppends ==
    ASSUME Job
    PROVE  journal' = journal \/ \E e : journal' = Append(journal, e)
BY DEF Job, Send, MarkUnknown, LeftInFlight, OnArticle, Reply, FlushReturns, onNntpFilePosted,
   onNntpErrorReading, FileOver, Stop, FinalizePost, _closeNzb, Write, Record, Enqueue

\* What leaves the queue out of its middle leaves the rest in it.
LEMMA RestStays ==
    ASSUME NEW S, NEW s \in Seq(S), NEW i \in 1..Len(s), NEW k \in 1..Len(s), i # k
    PROVE  LET t == SubSeq(s, 1, k - 1) \o SubSeq(s, k + 1, Len(s))
           IN  \E m \in 1..Len(t) : t[m] = s[i]
<1> DEFINE front == SubSeq(s, 1, k - 1)
           back == SubSeq(s, k + 1, Len(s))
<1>0. Len(s) \in Nat /\ \A j \in 1..Len(s) : s[j] \in S
  BY LenProperties, ElementOfSeq
<1>1. /\ front \in Seq(S) /\ Len(front) = k - 1
      /\ \A j \in 1..k - 1 : front[j] = s[j]
  BY <1>0, SubSeqProperties
<1>2. /\ back \in Seq(S) /\ Len(back) = Len(s) - k
      /\ \A j \in 1..Len(s) - k : back[j] = s[k + j]
  BY <1>0, SubSeqProperties
<1> SUFFICES \E m \in 1..Len(front \o back) : (front \o back)[m] = s[i]
  OBVIOUS
<1> HIDE DEF front, back
<1>3. Len(front \o back) = Len(front) + Len(back)
  BY <1>1, <1>2, ConcatProperties
<1>4. CASE i < k
  <2>1. (front \o back)[i] = s[i]
    BY <1>0, <1>1, <1>2, <1>4, ConcatProperties
  <2>2. i \in 1..Len(front \o back)
    BY <1>0, <1>1, <1>2, <1>3, <1>4
  <2> QED
    BY <2>1, <2>2
<1>5. CASE i > k
  <2>1. (front \o back)[i - 1] = back[i - k]
    BY <1>0, <1>1, <1>2, <1>5, ConcatProperties
  <2>2. back[i - k] = s[i]
    BY <1>0, <1>2, <1>5
  <2>3. i - 1 \in 1..Len(front \o back)
    BY <1>0, <1>1, <1>2, <1>3, <1>5
  <2> QED
    BY <2>1, <2>2, <2>3
<1> QED
  BY <1>0, <1>4, <1>5

\* A confirmation in the queue stays there until it is written.
LEMMA QueuedStep ==
    ASSUME TypeOK, [Next]_vars, ~Restart, NEW a \in Articles, Queued(a, "posted")
    PROVE  Queued(a, "posted")' \/ row'[a] = "posted"
<1>0. /\ journal \in Seq(Entries) /\ Len(journal) \in Nat
      /\ \A i \in 1..Len(journal) : journal[i] \in Entries
  BY LenProperties, ElementOfSeq DEF TypeOK
<1>1. PICK i \in 1..Len(journal) : journal[i] = Entry("posted", a)
  BY DEF Queued
<1>2. journal[i].of = a /\ journal[i].kind = "posted" /\ journal[i] # Prepare
  BY <1>1, PrepareIsNoEvent DEF Entry
<1>3. CASE UNCHANGED journal
  BY <1>1, <1>3 DEF Queued
<1>4. ASSUME NEW n \in 1..Len(journal), FlushArticleEvents(n)
      PROVE  Queued(a, "posted")' \/ row'[a] = "posted"
  <2> DEFINE batch == SubSeq(journal, 1, n)
  <2>1. Len(batch) = n /\ \A j \in 1..n : batch[j] = journal[j]
    BY <1>0, SubSeqProperties
  <2>2. CASE i <= n
    <3>1. i \in 1..Len(batch) /\ batch[i].of = a /\ batch[i].kind = "posted"
      BY <1>0, <1>2, <2>1, <2>2
    <3>2. "posted" \in Said(batch, a)
      BY <3>1 DEF Said
    <3> QED
      BY <1>4, <3>2 DEF FlushArticleEvents, Applied
  <2>3. CASE i > n
    <3>1. journal' = SubSeq(journal, n + 1, Len(journal))
      BY <1>4 DEF FlushArticleEvents
    <3>2. \A j \in n + 1..Len(journal) : journal[j] \in Entries
      BY <1>0
    <3>3. Len(journal') = Len(journal) - n
      BY <1>0, <3>1, <3>2, SubSeqProperties
    <3>4. journal'[i - n] = journal[i]
      BY <1>0, <2>3, <3>1, <3>2, SubSeqProperties
    <3>5. i - n \in 1..Len(journal')
      BY <1>0, <2>3, <3>3
    <3> QED
      BY <1>1, <3>4, <3>5 DEF Queued
  <2> QED
    BY <1>0, <2>2, <2>3
<1>5. ASSUME NEW k \in 1..Len(journal), UpdateFileStatus(k) PROVE Queued(a, "posted")'
  <2>1. i # k
    BY <1>2, <1>5, HistoryAssumption DEF UpdateFileStatus
  <2>2. \E m \in 1..Len(journal') : journal'[m] = journal[i]
    BY <1>0, <1>5, <2>1, RestStays DEF UpdateFileStatus
  <2> QED
    BY <1>1, <2>2 DEF Queued
<1>6. ASSUME NEW ok \in BOOLEAN, PrepareForUse(ok) PROVE Queued(a, "posted")'
  <2>1. journal # <<>> /\ Head(journal) = Prepare /\ journal' = Tail(journal)
    BY <1>6 DEF PrepareForUse
  <2>2. i # 1
    BY <1>0, <1>2, <2>1, HeadTailProperties
  <2>3. Len(journal') = Len(journal) - 1 /\ journal'[i - 1] = journal[i]
    BY <1>0, <2>1, <2>2, HeadTailProperties
  <2> QED
    BY <1>0, <1>1, <2>2, <2>3 DEF Queued
<1>7. CASE Worker
  BY <1>4, <1>5, <1>6, <1>7 DEF Worker
<1>8. CASE Application
  BY <1>3, <1>8 DEF Application, OnPrepared, _ensureHistoryStore, StartTransfer, CreatePost,
     RegisterHistoryFile, _abortBeforeTransfer, Resume, StartResume, JobDeleted
<1>9. CASE Job
  <2>1. ASSUME NEW e, journal' = Append(journal, e) PROVE Queued(a, "posted")'
    <3>1. Len(journal') = Len(journal) + 1 /\ journal'[i] = journal[i]
      BY <1>0, <2>1, AppendProperties
    <3> QED
      BY <1>0, <1>1, <3>1 DEF Queued
  <2> QED
    BY <1>3, <1>9, <2>1, JobAppends
<1>10. CASE UNCHANGED vars
  BY <1>3, <1>10 DEF vars
<1> QED
  BY <1>7, <1>8, <1>9, <1>10 DEF Next
-----------------------------------------------------------------------------
(* The invariant. *)

LEMMA ResendInit == Init => ResendInv
<1> SUFFICES ASSUME Init PROVE ResendInv
  OBVIOUS
<1>1. Prepare \in Known
  BY PrepareIsNoEvent DEF Known
<1>2. journal \in Seq(Known)
  BY <1>1 DEF Init
<1>3. Registered = {} /\ ids = {} /\ plan = NoPlan /\ plan.files = {}
  BY DEF Init, Registered, NoPlan
<1>4. NothingBefore /\ RowsOfJob /\ WordIsKept /\ AheadIsUnconfirmed /\ PlanIsTrue
  BY <1>3 DEF Init, NothingBefore, RowsOfJob, WordIsKept, AheadIsUnconfirmed, PlanIsTrue
<1> QED
  BY <1>2, <1>4, TypeInit DEF ResendInv

LEMMA NothingBeforeStep ==
    ASSUME ResendInv, [Next]_vars
    PROVE  NothingBefore'
<1>0. TypeOK /\ journal \in Seq(Known) /\ NothingBefore
  BY DEF ResendInv
<1> SUFFICES ASSUME post' = "absent"
             PROVE  phase' = "none" /\ answered' = {} /\ Registered' = {} /\ plan' = NoPlan
  BY DEF NothingBefore
<1>1. CASE CreatePost \/ StartResume \/ JobDeleted
  BY <1>0, <1>1 DEF CreatePost, StartResume, JobDeleted, NothingBefore, dbVars
<1>2. CASE Restart
  BY <1>0, <1>2 DEF Restart, NoJob, NothingBefore, Registered, dbVars
<1>3. CASE GoesOn
  <2>1. phase = "none" /\ answered = {} /\ Registered = {} /\ plan = NoPlan
    BY <1>0, <1>3 DEF GoesOn, NothingBefore
  <2>2. Registered' = {}
    BY <1>0, <2>1, RegisteredStep DEF RegisterHistoryFile
  <2>3. ~Resume
    BY <2>1 DEF Resume
  <2> QED
    BY <1>3, <2>1, <2>2, <2>3 DEF GoesOn
<1> QED
  BY <1>0, <1>1, <1>2, <1>3, Steps

LEMMA RowsOfJobStep ==
    ASSUME ResendInv, [Next]_vars
    PROVE  RowsOfJob'
<1>0. /\ TypeOK /\ journal \in Seq(Known) /\ NothingBefore /\ RowsOfJob
      /\ fileOf' = fileOf
  BY DEF ResendInv, Next, vars
<1>1. Registered \subseteq Registered'
  BY <1>0, RegisteredStep
<1>2. CASE CreatePost
  <2>1. Registered' = {} /\ answered = {} /\ plan = NoPlan
    BY <1>0, <1>2 DEF CreatePost, NothingBefore, Registered
  <2> QED
    BY <1>2, <2>1 DEF CreatePost, NewJob, RowsOfJob, appVars, NoPlan
<1>3. CASE StartResume
  <2>1. ids' = plan.files /\ files' = plan.files /\ resumed' = TRUE /\ phase' = "preparing"
    BY <1>3 DEF StartResume, NewJob
  <2>2. plan'.files = {}
    BY <1>3 DEF StartResume, NoPlan
  <2>3. \A a \in Articles : art'[a] # "out" => fileOf[a] \in plan.files
    BY <1>3 DEF StartResume, NewJob
  <2> QED
    BY <1>0, <1>1, <2>1, <2>2, <2>3 DEF RowsOfJob
<1>4. CASE JobDeleted \/ Restart
  <2>1. plan'.files \subseteq Registered'
    BY <1>0, <1>1, <1>4 DEF JobDeleted, Restart, RowsOfJob, appVars, NoPlan
  <2> QED
    BY <1>4, <2>1 DEF JobDeleted, Restart, NoJob, RowsOfJob
<1>5. CASE GoesOn
  <2>1. ids' \subseteq Registered' /\ (resumed' => ids' = files')
    BY <1>0, <1>1, <1>5, RegisteredStep DEF GoesOn, RowsOfJob, RegisterHistoryFile
  <2>2. plan'.files \subseteq Registered'
    <3>1. CASE Resume
      BY <1>1, <3>1 DEF Resume
    <3> QED
      BY <1>0, <1>1, <1>5, <3>1 DEF GoesOn, RowsOfJob
  <2>3. phase' = "preparing" /\ ~resumed' => answered' = {}
    BY <1>0, <1>5 DEF GoesOn, RowsOfJob
  <2>4. ASSUME NEW a \in Articles, art'[a] # "out"
        PROVE  phase' # "none" /\ (fileOf[a] \in ids' \/ fileOf[a] \notin Registered')
    <3>1. phase # "none" /\ (fileOf[a] \in ids \/ fileOf[a] \notin Registered)
      BY <1>0, <1>5, <2>4 DEF GoesOn, RowsOfJob
    <3>2. ids \subseteq ids' /\ Registered' \subseteq Registered \cup ids'
      BY <1>0, <1>5, RegisteredStep DEF GoesOn, RegisterHistoryFile
    <3> QED
      BY <1>5, <3>1, <3>2 DEF GoesOn
  <2> QED
    BY <1>0, <2>1, <2>2, <2>3, <2>4 DEF RowsOfJob
<1> QED
  BY <1>0, <1>2, <1>3, <1>4, <1>5, Steps

\* Once an article is confirmed, no file gets a row.
LEMMA RowsAreKnown ==
    ASSUME ResendInv, [Next]_vars, GoesOn, answered' # {}
    PROVE  Registered' = Registered
<1>1. ASSUME NEW f \in Files, RegisterHistoryFile(f) PROVE FALSE
  BY <1>1 DEF RegisterHistoryFile, GoesOn, ResendInv, RowsOfJob
<1> QED
  BY <1>1, RegisteredStep DEF ResendInv

LEMMA WordIsKeptStep ==
    ASSUME ResendInv, [Next]_vars
    PROVE  WordIsKept'
<1>0. /\ TypeOK /\ journal \in Seq(Known) /\ NothingBefore /\ RowsOfJob /\ WordIsKept
      /\ fileOf' = fileOf /\ answered' \subseteq Articles
  BY TypeStep DEF ResendInv, Next, vars, TypeOK
<1> SUFFICES ASSUME NEW a \in answered' PROVE OnItsWay(a)'
  BY DEF WordIsKept
<1>1. CASE CreatePost
  BY <1>0, <1>1 DEF CreatePost, NewJob, NothingBefore
<1>2. CASE Restart
  BY <1>2 DEF Restart, NoJob, OnItsWay, dbVars
<1>3. CASE StartResume \/ JobDeleted
  <2>1. a \in answered /\ art[a] # "won"
    BY <1>0, <1>3 DEF StartResume, JobDeleted, NewJob, NoJob, RowsOfJob
  <2>2. UNCHANGED <<row, journal, lost, fileRow>>
    BY <1>3 DEF StartResume, JobDeleted, dbVars, boundVars
  <2> QED
    BY <1>0, <2>1, <2>2 DEF WordIsKept, OnItsWay, Queued, Registered
<1>4. CASE GoesOn /\ ~Restart
  <2>1. Registered' = Registered
    BY <1>4, RowsAreKnown
  <2>2. CASE art'[a] = "won"
    BY <2>2 DEF OnItsWay
  <2>3. CASE row[a] = "posted"
    <3>1. journal \in Seq(Entries)
      BY <1>0 DEF TypeOK
    <3>2. row'[a] = "posted"
      BY <1>0, <2>3, <3>1, RowStep
    <3> QED
      BY <3>2 DEF OnItsWay
  <2>4. CASE Queued(a, "posted")
    BY <1>0, <1>4, <2>4, QueuedStep DEF OnItsWay
  <2>5. CASE a \in lost \/ fileOf[a] \notin Registered
    BY <1>0, <1>4, <2>1, <2>5 DEF OnItsWay, GoesOn
  <2>6. CASE art[a] = "won" /\ Record(a, "posted")
    <3>1. CASE fileOf[a] \in ids
      <4>1. journal' = Append(journal, Entry("posted", a))
        BY <2>6, <3>1 DEF Record, Enqueue
      <4>2. Len(journal) \in Nat /\ Len(journal') = Len(journal) + 1
            /\ journal'[Len(journal) + 1] = Entry("posted", a)
        BY <1>0, <4>1, AppendProperties, LenProperties, EntryTypes DEF TypeOK, RowStatuses
      <4> QED
        BY <4>2 DEF OnItsWay, Queued
    <3>2. CASE fileOf[a] \notin ids
      BY <1>0, <2>1, <2>6, <3>2 DEF RowsOfJob, OnItsWay
    <3> QED
      BY <3>1, <3>2
  <2> QED
    BY <1>0, <1>4, <2>2, <2>3, <2>4, <2>5, <2>6 DEF GoesOn, WordIsKept, OnItsWay
<1> QED
  BY <1>0, <1>1, <1>2, <1>3, <1>4, Steps

LEMMA AheadStep ==
    ASSUME ResendInv, [Next]_vars
    PROVE  AheadIsUnconfirmed'
<1>0. TypeOK /\ NothingBefore /\ AheadIsUnconfirmed /\ PlanIsTrue /\ answered' \subseteq Articles
  BY TypeStep DEF ResendInv, TypeOK
<1> SUFFICES ASSUME NEW a \in answered', art'[a] \in Ahead PROVE a \in lost' \/ stale'
  BY DEF AheadIsUnconfirmed
<1>1. CASE CreatePost
  BY <1>0, <1>1 DEF CreatePost, NewJob, NothingBefore
<1>2. CASE StartResume
  <2>1. /\ a \in answered /\ plan # NoPlan /\ stale' = plan.live /\ lost' = lost
        /\ fileOf[a] \in plan.files /\ a \notin plan.posted
    BY <1>0, <1>2 DEF StartResume, NewJob, Ahead, boundVars
  <2> QED
    BY <1>0, <2>1 DEF PlanIsTrue
<1>3. CASE JobDeleted \/ Restart
  BY <1>0, <1>3 DEF JobDeleted, Restart, NoJob, Ahead
<1>4. CASE GoesOn
  BY <1>0, <1>4 DEF GoesOn, AheadIsUnconfirmed, Ahead
<1> QED
  BY <1>0, <1>1, <1>2, <1>3, <1>4, Steps

LEMMA PlanStep ==
    ASSUME ResendInv, [Next]_vars
    PROVE  PlanIsTrue'
<1>0. /\ TypeOK /\ NothingBefore /\ RowsOfJob /\ WordIsKept /\ PlanIsTrue
      /\ fileOf' = fileOf
  BY DEF ResendInv, Next, vars
<1> SUFFICES ASSUME plan' # NoPlan, ~plan'.live
             PROVE  /\ phase' = "none"
                    /\ \A a \in answered' : fileOf[a] \in plan'.files => a \in plan'.posted \cup lost'
  BY <1>0 DEF PlanIsTrue
<1>1. CASE CreatePost \/ StartResume \/ JobDeleted \/ Restart
  BY <1>0, <1>1 DEF CreatePost, StartResume, JobDeleted, Restart, NothingBefore, PlanIsTrue, appVars
<1>2. CASE GoesOn /\ UNCHANGED plan
  BY <1>0, <1>2 DEF GoesOn, PlanIsTrue
<1>3. CASE GoesOn /\ Resume
  <2>1. /\ phase = "none" /\ journal = <<>> /\ plan'.posted = Posted
        /\ plan'.files \subseteq Registered /\ phase' = "none"
        /\ answered' = answered /\ lost' = lost
    BY <1>3 DEF Resume, checkResume, Flushed, GoesOn
  <2>2. ASSUME NEW a \in answered, fileOf[a] \in plan'.files PROVE a \in Posted \cup lost
    <3>1. a \in Articles /\ art[a] # "won" /\ ~Queued(a, "posted") /\ fileOf[a] \in Registered
      BY <1>0, <2>1, <2>2 DEF RowsOfJob, Queued, TypeOK
    <3> QED
      BY <1>0, <3>1 DEF WordIsKept, OnItsWay, Posted
  <2> QED
    BY <2>1, <2>2
<1> QED
  BY <1>0, <1>1, <1>2, <1>3, Steps DEF GoesOn

LEMMA ResendStep == ResendInv /\ [Next]_vars => ResendInv'
<1> SUFFICES ASSUME ResendInv, [Next]_vars PROVE ResendInv'
  OBVIOUS
<1>1. TypeOK' /\ journal' \in Seq(Known')
  BY TypeStep, KnownStep DEF ResendInv
<1> QED
  BY <1>1, NothingBeforeStep, RowsOfJobStep, WordIsKeptStep, AheadStep, PlanStep DEF ResendInv

\* An article whose confirmation is neither lost with the program nor later than
\* the plan of the resume is never written to a server a second time (checkResume(),
\* which flushes before it reads; applyArticleEvents()).
THEOREM ConfirmedStays == Spec => ConfirmedIsNotResent
<1>1. ResendInv /\ [Next]_vars =>
        [\A a \in Articles :
            art[a] # "sent" /\ art'[a] = "sent" /\ a \in answered => a \in lost \/ stale]_vars
  <2> SUFFICES ASSUME ResendInv, [Next]_vars, NEW a \in Articles,
                      art'[a] = "sent", a \in answered
               PROVE  a \in lost \/ stale
    OBVIOUS
  <2>1. ~(CreatePost \/ StartResume \/ JobDeleted \/ Restart)
    BY DEF CreatePost, StartResume, JobDeleted, Restart, NewJob, NoJob
  <2>2. art[a] \in Ahead
    BY <2>1, Steps DEF ResendInv, GoesOn, Ahead
  <2> QED
    BY <2>2 DEF ResendInv, AheadIsUnconfirmed
<1> QED
  BY <1>1, ResendInit, ResendStep, PTL DEF Spec, ConfirmedIsNotResent
=============================================================================
