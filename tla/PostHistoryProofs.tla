-------------------------- MODULE PostHistoryProofs --------------------------
(***************************************************************************)
(* What the history says of an article, for any number of files, articles, *)
(* retries, faults, resumes and ends of the program.  A row or the NZB may *)
(* call an article posted only on the word of the server; the inductive    *)
(* invariant AnsweredInv follows that word from the reply to the queue of  *)
(* the worker, and from there to the row.                                  *)
(***************************************************************************)
EXTENDS PostHistory, SequenceTheorems, FiniteSetTheorems, TLAPS

\* What the worker may be told: a confirmation only of an article the server
\* confirmed.
Told == {e \in Entries : e.of \in Articles /\ e.kind = "posted" => e.of \in answered}

\* A confirmation on its way is one of the server.
WordIsTrue == \A a \in Articles : art[a] \in {"won", "posted"} => a \in answered

\* A fresh job leaves an article out only with its file, which is then over.
OutIsOver ==
    ~resumed => \A a \in Articles :
                   art[a] = "out" /\ fileOf[a] \in files => fileOf[a] \in over

AnsweredInv ==
    /\ TypeOK /\ PostedIsAnswered
    /\ journal \in Seq(Told) /\ WordIsTrue /\ OutIsOver
-----------------------------------------------------------------------------
(* The queue of the worker. *)

LEMMA PrepareIsNoEvent == Prepare.of \notin Articles /\ Prepare.of \notin Files /\ Prepare \in Entries
BY HistoryAssumption DEF Prepare, Entry, Entries

LEMMA SlicedSeq ==
    ASSUME NEW S, NEW s \in Seq(S), NEW m \in Nat \ {0}, NEW n \in Int, n <= Len(s)
    PROVE  SubSeq(s, m, n) \in Seq(S)
<1>1. \A i \in m..n : s[i] \in S
  BY LenProperties, ElementOfSeq
<1> QED
  BY <1>1, SubSeqProperties

\* What leaves the queue leaves a queue.
LEMMA WithoutOne ==
    ASSUME NEW S, NEW s \in Seq(S), NEW i \in 1..Len(s)
    PROVE  SubSeq(s, 1, i - 1) \o SubSeq(s, i + 1, Len(s)) \in Seq(S)
<1>1. Len(s) \in Nat
  BY LenProperties
<1>2. SubSeq(s, 1, i - 1) \in Seq(S)
  BY <1>1, SlicedSeq
<1>3. SubSeq(s, i + 1, Len(s)) \in Seq(S)
  BY <1>1, SlicedSeq
<1> QED
  BY <1>2, <1>3, ConcatProperties

LEMMA Queueing ==
    ASSUME NEW S, journal \in Seq(S), NEW f, NEW e, f \in ids => e \in S, Enqueue(f, e)
    PROVE  journal' \in Seq(S)
BY AppendProperties DEF Enqueue

\* The worker and the application only take from the queue, or start anew.
LEMMA Draining ==
    ASSUME NEW S, journal \in Seq(S), Prepare \in S, Worker \/ Application
    PROVE  journal' \in Seq(S)
<1>0. Len(journal) \in Nat
  BY LenProperties
<1>1. CASE \E n \in 1..Len(journal) : FlushArticleEvents(n)
  BY <1>0, <1>1, SlicedSeq DEF FlushArticleEvents
<1>2. CASE \E i \in 1..Len(journal) : UpdateFileStatus(i)
  BY <1>2, WithoutOne DEF UpdateFileStatus
<1>3. CASE \E ok \in BOOLEAN : PrepareForUse(ok)
  BY <1>3, HeadTailProperties DEF PrepareForUse
<1>4. CASE Restart
  <2>1. journal' = <<>> \/ journal' = <<Prepare>>
    BY <1>4 DEF Restart
  <2>2. <<>> \in Seq(S)
    BY EmptySeq
  <2>3. <<Prepare>> \in Seq(S)
    OBVIOUS
  <2> QED
    BY <2>1, <2>2, <2>3
<1>5. CASE Application /\ ~Restart
  BY <1>5 DEF Application, OnPrepared, _ensureHistoryStore, StartTransfer, CreatePost,
     RegisterHistoryFile, _abortBeforeTransfer, Resume, StartResume, JobDeleted
<1> QED
  BY <1>1, <1>2, <1>3, <1>4, <1>5 DEF Worker
-----------------------------------------------------------------------------
(* The rows of the articles. *)

\* A batch says of an article one of its statuses, and nothing it was not told.
LEMMA SaidIsTold ==
    ASSUME NEW S \in SUBSET Entries, NEW batch \in Seq(S), NEW a \in Articles
    PROVE  /\ Said(batch, a) \subseteq RowStatuses
           /\ LastSaid(batch, a) \subseteq Said(batch, a)
           /\ "posted" \in Said(batch, a) => Entry("posted", a) \in S
<1>1. \A i \in 1..Len(batch) : batch[i] \in S
  BY ElementOfSeq
<1>2. \A e \in S : e.of = a => e.kind \in RowStatuses /\ e = Entry(e.kind, a)
  BY PrepareIsNoEvent, HistoryAssumption DEF Entries, Entry
<1>3. Said(batch, a) \subseteq RowStatuses
  BY <1>1, <1>2 DEF Said
<1>4. LastSaid(batch, a) \subseteq Said(batch, a)
  BY DEF LastSaid, Said
<1>5. ASSUME "posted" \in Said(batch, a) PROVE Entry("posted", a) \in S
  <2>1. PICK i \in 1..Len(batch) : batch[i].of = a /\ batch[i].kind = "posted"
    BY <1>5 DEF Said
  <2> QED
    BY <2>1, <1>1, <1>2
<1> QED
  BY <1>3, <1>4, <1>5

\* A batch keeps the rows of their type, keeps those that say posted, and adds
\* only those it was told of.
LEMMA AppliedIsSound ==
    ASSUME NEW S \in SUBSET Entries, NEW batch \in Seq(S),
           row \in [Articles -> RowStatuses]
    PROVE  /\ Applied(batch) \in [Articles -> RowStatuses]
           /\ \A a \in Articles :
                 /\ row[a] = "posted" => Applied(batch)[a] = "posted"
                 /\ Applied(batch)[a] = "posted" => row[a] = "posted" \/ Entry("posted", a) \in S
<1> SUFFICES ASSUME NEW a \in Articles
             PROVE  /\ Applied(batch)[a] \in RowStatuses
                    /\ row[a] = "posted" => Applied(batch)[a] = "posted"
                    /\ Applied(batch)[a] = "posted" => row[a] = "posted" \/ Entry("posted", a) \in S
  BY DEF Applied
<1>1. /\ Said(batch, a) \subseteq RowStatuses
      /\ LastSaid(batch, a) \subseteq Said(batch, a)
      /\ "posted" \in Said(batch, a) => Entry("posted", a) \in S
  BY SaidIsTold
<1>2. Applied(batch)[a] =
        IF row[a] = "posted" \/ "posted" \in Said(batch, a) THEN "posted"
        ELSE IF LastSaid(batch, a) = {} THEN row[a]
        ELSE CHOOSE s \in LastSaid(batch, a) : TRUE
  BY DEF Applied
<1>3. LastSaid(batch, a) # {} =>
        (CHOOSE s \in LastSaid(batch, a) : TRUE) \in LastSaid(batch, a)
  OBVIOUS
<1>4. "posted" \in RowStatuses
  BY DEF RowStatuses
<1> QED
  BY <1>1, <1>2, <1>3, <1>4

\* Of what the program does, only a batch of the worker and a cleanup write the
\* rows of articles.
LEMMA WhoWritesRows ==
    ASSUME [Next]_vars
    PROVE  \/ UNCHANGED row
           \/ \E n \in 1..Len(journal) : FlushArticleEvents(n)
           \/ row' = Cleaned(row)
<1>1. CASE Worker
  BY <1>1 DEF Worker, UpdateFileStatus, PrepareForUse, Cleanup
<1>2. CASE Application
  BY <1>2 DEF Application, OnPrepared, _ensureHistoryStore, StartTransfer, CreatePost,
     RegisterHistoryFile, _abortBeforeTransfer, Resume, StartResume, JobDeleted, Restart, Cleanup,
     dbVars
<1>3. CASE Job
  BY <1>3 DEF Job, Send, MarkUnknown, LeftInFlight, OnArticle, Reply, FlushReturns,
     onNntpFilePosted, onNntpErrorReading, Stop, FinalizePost, _closeNzb, dbVars
<1>4. CASE UNCHANGED vars
  BY <1>4 DEF vars, dbVars
<1> QED
  BY <1>1, <1>2, <1>3, <1>4 DEF Next

\* No row is written posted that was not, but by a batch.
LEMMA RowStep ==
    ASSUME TypeOK, NEW S \in SUBSET Entries, journal \in Seq(S), [Next]_vars
    PROVE  /\ row' \in [Articles -> RowStatuses]
           /\ \A a \in Articles :
                 /\ row[a] = "posted" => row'[a] = "posted"
                 /\ row'[a] = "posted" => row[a] = "posted" \/ Entry("posted", a) \in S
<1>0. row \in [Articles -> RowStatuses]
  BY DEF TypeOK
<1>1. CASE UNCHANGED row
  BY <1>0, <1>1
<1>2. ASSUME NEW n \in 1..Len(journal), FlushArticleEvents(n)
      PROVE  \E batch \in Seq(S) : row' = Applied(batch)
  <2>1. Len(journal) \in Nat
    BY LenProperties
  <2>2. SubSeq(journal, 1, n) \in Seq(S)
    BY <2>1, SlicedSeq
  <2> QED
    BY <1>2, <2>2 DEF FlushArticleEvents
<1>3. CASE row' = Cleaned(row)
  BY <1>0, <1>3 DEF Cleaned, RowStatuses
<1> QED
  BY <1>0, <1>1, <1>2, <1>3, WhoWritesRows, AppliedIsSound
-----------------------------------------------------------------------------
(* Types. *)

LEMMA TypeInit == Init => TypeOK
<1> SUFFICES ASSUME Init PROVE TypeOK
  OBVIOUS
<1>1. <<Prepare>> \in Seq(Entries)
  BY PrepareIsNoEvent
<1>2. /\ row \in [Articles -> RowStatuses] /\ fileRow \in [Files -> FileStatuses]
      /\ art \in [Articles -> ArtStatuses] /\ tries \in [Articles -> Nat]
  BY DEF Init, RowStatuses, FileStatuses, ArtStatuses
<1>3. plan \in [files : SUBSET Files, posted : SUBSET Articles, live : BOOLEAN]
  BY DEF Init, NoPlan
<1>4. /\ resumed \in BOOLEAN /\ unreliable \in BOOLEAN /\ finished \in BOOLEAN
      /\ nzbOpen \in BOOLEAN /\ stale \in BOOLEAN
      /\ files = {} /\ over = {} /\ filesFailed = {} /\ ids = {}
      /\ nzb = {} /\ answered = {} /\ lost = {} /\ abandoned = {}
      /\ nbFaults = 0 /\ nbMishaps = 0 /\ nbEnds = 0 /\ nbResumes = 0
  BY DEF Init
<1>5. /\ fileOf \in [Articles -> Files] /\ post \in PostStatuses
      /\ checked \in BOOLEAN /\ prepared \in {"none", "ok", "failed"} /\ phase \in Phases
  BY DEF Init, PostStatuses, Phases
<1>6. journal \in Seq(Entries)
  BY <1>1 DEF Init
<1> QED
  BY <1>2, <1>3, <1>4, <1>5, <1>6 DEF TypeOK

\* What a job queues is an event of an article or the status of a file.
LEMMA EntryTypes ==
    /\ \A a \in Articles, kind \in RowStatuses : Entry(kind, a) \in Entries
    /\ \A f \in Files, kind \in FileStatuses : Entry(kind, f) \in Entries
BY DEF Entry, Entries

\* The status of a post is written as one of its statuses.
LEMMA StatusTypes == Status \in PostStatuses /\ CleanedPost \in PostStatuses \cup {post}
BY DEF Status, CleanedPost, PostStatuses

\* What a job is to itself, without its queue and its history.
JobType ==
    /\ phase \in Phases /\ resumed \in BOOLEAN /\ unreliable \in BOOLEAN /\ finished \in BOOLEAN
    /\ files \in SUBSET Files /\ over \in SUBSET Files /\ filesFailed \in SUBSET Files
    /\ art \in [Articles -> ArtStatuses] /\ tries \in [Articles -> Nat]
    /\ answered \in SUBSET Articles /\ nbMishaps \in Nat

\* A new job, and the absence of one, are of their types.
LEMMA NewJobType ==
    ASSUME TypeOK, NEW S \in SUBSET Files, NEW done, NEW isResume \in BOOLEAN,
           NewJob(S, done, isResume)
    PROVE  JobType'
<1>1. art' \in [Articles -> ArtStatuses] /\ tries' \in [Articles -> Nat]
  BY DEF NewJob, ArtStatuses
<1> QED
  BY <1>1 DEF NewJob, TypeOK, JobType, Phases

LEMMA NoJobType ==
    ASSUME TypeOK, NoJob
    PROVE  JobType' /\ ids' \in SUBSET Files /\ stale' \in BOOLEAN
<1>1. art' \in [Articles -> ArtStatuses] /\ tries' \in [Articles -> Nat]
  BY DEF NoJob, ArtStatuses
<1> QED
  BY <1>1 DEF NoJob, TypeOK, JobType, Phases

LEMMA OneMoreTry ==
    ASSUME NEW f \in [Articles -> Nat], NEW a \in Articles
    PROVE  [f EXCEPT ![a] = @ + 1] \in [Articles -> Nat]
OBVIOUS

\* The queue holds what the events of articles, the final statuses of recorded
\* files and the preparation of the history may be, if a confirmation is queued
\* only for an article that is won.
LEMMA JournalStep ==
    ASSUME TypeOK, [Next]_vars, NEW S, journal \in Seq(S), Prepare \in S,
           \A a \in Articles, kind \in RowStatuses :
               (kind = "posted" => art[a] = "won") => Entry(kind, a) \in S,
           \A f \in ids, kind \in {"posted", "partial", "failed"} : Entry(kind, f) \in S
    PROVE  journal' \in Seq(S)
<1>0. fileOf \in [Articles -> Files]
  BY DEF TypeOK
<1>1. CASE Worker \/ Application
  BY <1>1, Draining
<1>2. CASE Job
  <2>1. ASSUME NEW a \in Articles, NEW kind \in RowStatuses, kind = "posted" => art[a] = "won",
               Record(a, kind)
        PROVE  journal' \in Seq(S)
    BY <2>1, Queueing DEF Record
  <2>2. ASSUME NEW f \in Files, NEW kind \in {"posted", "partial", "failed"},
               Enqueue(f, Entry(kind, f))
        PROVE  journal' \in Seq(S)
    BY <2>2, Queueing
  <2>3. ASSUME NEW a \in Articles, Send(a) \/ MarkUnknown(a) \/ LeftInFlight(a) \/ OnArticle(a)
        PROVE  journal' \in Seq(S)
    BY <2>1, <2>3 DEF Send, MarkUnknown, LeftInFlight, OnArticle, Write, RowStatuses
  <2>4. ASSUME NEW a \in Articles, NEW ok \in BOOLEAN, Reply(a, ok) \/ FlushReturns(a, ok)
        PROVE  journal' \in Seq(S)
    BY <2>1, <2>4 DEF Reply, FlushReturns, Write, RowStatuses
  <2>5. ASSUME NEW f \in Files, onNntpFilePosted(f) \/ onNntpErrorReading(f)
        PROVE  journal' \in Seq(S)
    BY <2>2, <2>5 DEF onNntpFilePosted, onNntpErrorReading, FileOver
  <2>6. CASE Stop \/ \E ok \in BOOLEAN : FinalizePost(ok) \/ _closeNzb(ok)
    BY <2>6 DEF Stop, FinalizePost, _closeNzb
  <2> QED
    BY <1>2, <2>3, <2>4, <2>5, <2>6 DEF Job
<1>3. CASE UNCHANGED vars
  BY <1>3 DEF vars
<1> QED
  BY <1>1, <1>2, <1>3 DEF Next

LEMMA JournalType ==
    ASSUME TypeOK, [Next]_vars
    PROVE  journal' \in Seq(Entries)
<1>1. journal \in Seq(Entries)
  BY DEF TypeOK
<1>2. \A f \in ids, kind \in {"posted", "partial", "failed"} : Entry(kind, f) \in Entries
  BY EntryTypes DEF TypeOK, FileStatuses
<1> QED
  BY <1>1, <1>2, PrepareIsNoEvent, EntryTypes, JournalStep

LEMMA TypeStep == TypeOK /\ [Next]_vars => TypeOK'
<1> SUFFICES ASSUME TypeOK, [Next]_vars PROVE TypeOK'
  OBVIOUS
<1> USE DEF TypeOK
<1>1. journal' \in Seq(Entries) /\ row' \in [Articles -> RowStatuses]
  BY JournalType, RowStep
<1>2. fileOf' \in [Articles -> Files]
  BY DEF Next, vars
<1>3. CASE Worker
  <2>1. ASSUME NEW n \in 1..Len(journal), FlushArticleEvents(n) PROVE TypeOK'
    BY <1>1, <1>2, <2>1 DEF FlushArticleEvents, appVars, jobVars, artVars, nzbVars, boundVars
  <2>2. ASSUME NEW i \in 1..Len(journal), UpdateFileStatus(i) PROVE TypeOK'
    <3>1. journal[i] \in Entries
      BY ElementOfSeq
    <3>2. journal[i].kind \in FileStatuses
      BY <2>2, <3>1, PrepareIsNoEvent, HistoryAssumption DEF UpdateFileStatus, Entries
    <3>3. fileRow' \in [Files -> FileStatuses] /\ UNCHANGED <<post, appVars, jobVars, artVars, nzbVars>>
      BY <2>2, <3>2 DEF UpdateFileStatus
    <3>4. Fault \/ NoFault
      BY <2>2 DEF UpdateFileStatus
    <3>5. nbFaults' \in Nat /\ UNCHANGED <<lost, abandoned, nbEnds, nbResumes>>
      BY <3>4 DEF Fault, NoFault, boundVars
    <3> QED
      BY <1>1, <1>2, <3>3, <3>5
      DEF appVars, jobVars, artVars, nzbVars
  <2>3. ASSUME NEW ok \in BOOLEAN, PrepareForUse(ok) PROVE TypeOK'
    BY <1>1, <1>2, <2>3, StatusTypes
    DEF PrepareForUse, Cleanup, Fault, NoFault, appVars, jobVars, artVars, nzbVars, boundVars
  <2> QED
    BY <1>3, <2>1, <2>2, <2>3 DEF Worker
<1>4. CASE Application
  <2>1. CASE OnPrepared
    BY <1>1, <1>2, <2>1 DEF OnPrepared, dbVars, jobVars, artVars, nzbVars, boundVars
  <2>2. ASSUME NEW ok \in BOOLEAN, _ensureHistoryStore(ok) PROVE TypeOK'
    BY <1>1, <1>2, <2>2, StatusTypes
    DEF _ensureHistoryStore, Cleanup, Fault, NoFault, jobVars, artVars, nzbVars, boundVars
  <2>3. ASSUME NEW ok \in BOOLEAN, StartTransfer(ok) PROVE TypeOK'
    <3>1. Cardinality(files \ ids) \in Nat
      BY HistoryAssumption, FS_Subset, FS_CardinalityType
    <3> QED
      BY <1>1, <1>2, <2>3, <3>1
      DEF StartTransfer, appVars, artVars, Phases, PostStatuses
  <2>4. CASE CreatePost
    <3>1. PostFiles \in SUBSET Files
      BY DEF PostFiles
    <3>2. JobType'
      BY <2>4, <3>1, NewJobType DEF CreatePost
    <3> QED
      BY <1>1, <1>2, <2>4, <3>1, <3>2
      DEF CreatePost, JobType, appVars, nzbVars, boundVars, PostStatuses
  <2>5. ASSUME NEW f \in Files, RegisterHistoryFile(f) PROVE TypeOK'
    BY <1>1, <1>2, <2>5
    DEF RegisterHistoryFile, appVars, artVars, nzbVars, boundVars, FileStatuses
  <2>6. CASE _abortBeforeTransfer
    BY <1>1, <1>2, <2>6
    DEF _abortBeforeTransfer, dbVars, appVars, artVars, nzbVars, boundVars, Phases
  <2>7. CASE Resume
    <3>1. Registered \in SUBSET Files /\ Posted \in SUBSET Articles
      BY DEF Registered, Posted
    <3> QED
      BY <1>1, <1>2, <2>7, <3>1 DEF Resume, dbVars, jobVars, artVars, nzbVars
  <2>8. CASE StartResume
    <3>1. JobType'
      BY <2>8, NewJobType DEF StartResume
    <3> QED
      BY <1>1, <1>2, <2>8, <3>1 DEF StartResume, JobType, NoPlan, dbVars, nzbVars, boundVars
  <2>9. CASE JobDeleted
    <3>1. JobType' /\ ids' \in SUBSET Files /\ stale' \in BOOLEAN
      BY <2>9, NoJobType DEF JobDeleted
    <3> QED
      BY <1>1, <1>2, <2>9, <3>1 DEF JobDeleted, JobType, dbVars, appVars, nzbVars, boundVars
  <2>10. CASE Restart
    <3>1. JobType' /\ ids' \in SUBSET Files /\ stale' \in BOOLEAN
      BY <2>10, NoJobType DEF Restart
    <3>2. lost' \in SUBSET Articles /\ abandoned' \in SUBSET Articles /\ nbEnds' \in Nat
      BY <2>10 DEF Restart
    <3>3. plan' \in [files : SUBSET Files, posted : SUBSET Articles, live : BOOLEAN]
      BY <2>10 DEF Restart, NoPlan
    <3> QED
      BY <1>1, <1>2, <2>10, <3>1, <3>2, <3>3 DEF Restart, JobType, dbVars
  <2> QED
    BY <1>4, <2>1, <2>2, <2>3, <2>4, <2>5, <2>6, <2>7, <2>8, <2>9, <2>10 DEF Application
<1>5. CASE Job
  <2>1. ASSUME NEW a \in Articles, Send(a) \/ MarkUnknown(a) \/ LeftInFlight(a) \/ OnArticle(a)
        PROVE  TypeOK'
    <3>0. \E s \in ArtStatuses : art' = [art EXCEPT ![a] = s]
      BY <2>1 DEF Send, MarkUnknown, LeftInFlight, OnArticle, ArtStatuses
    <3>1. tries' = tries \/ tries' = [tries EXCEPT ![a] = @ + 1]
      BY <2>1 DEF Send, Write, MarkUnknown, LeftInFlight, OnArticle
    <3>2. tries' \in [Articles -> Nat]
      <4> HIDE DEF TypeOK
      <4>1. tries \in [Articles -> Nat]
        BY DEF TypeOK
      <4> QED
        BY <3>1, <4>1, OneMoreTry
    <3>3. art' \in [Articles -> ArtStatuses]
      BY <3>0
    <3>4. /\ nbMishaps' \in Nat /\ UNCHANGED <<dbVars, appVars, jobVars, answered, nzbVars>>
          /\ UNCHANGED <<lost, nbFaults, nbEnds, nbResumes>>
      BY <2>1 DEF Send, Write, MarkUnknown, LeftInFlight, OnArticle, Mishap, boundVars
    <3>5. abandoned' \in SUBSET Articles
      BY <2>1 DEF Send, MarkUnknown, LeftInFlight, OnArticle, boundVars
    <3> QED
      BY <1>1, <1>2, <3>2, <3>3, <3>4, <3>5 DEF dbVars, appVars, jobVars, nzbVars
  <2>2. ASSUME NEW a \in Articles, NEW ok \in BOOLEAN, Reply(a, ok) \/ FlushReturns(a, ok)
        PROVE  TypeOK'
    <3>0. art' = art \/ \E s \in ArtStatuses : art' = [art EXCEPT ![a] = s]
      BY <2>2 DEF Reply, FlushReturns, ArtStatuses
    <3>1. art' \in [Articles -> ArtStatuses]
      BY <3>0
    <3>2. tries' = tries \/ tries' = [tries EXCEPT ![a] = @ + 1]
      BY <2>2 DEF Reply, Write, FlushReturns
    <3>3. tries' \in [Articles -> Nat]
      <4> HIDE DEF TypeOK
      <4>1. tries \in [Articles -> Nat]
        BY DEF TypeOK
      <4> QED
        BY <3>2, <4>1, OneMoreTry
    <3>4. /\ nbMishaps' \in Nat /\ nbFaults' \in Nat /\ answered' \in SUBSET Articles
          /\ UNCHANGED <<dbVars, appVars, jobVars, nzbVars, lost, abandoned, nbEnds, nbResumes>>
      BY <2>2 DEF Reply, FlushReturns, Mishap, Fault, NoFault, boundVars
    <3> QED
      BY <1>1, <1>2, <3>1, <3>3, <3>4 DEF dbVars, appVars, jobVars, nzbVars
  <2>3. ASSUME NEW f \in Files, onNntpFilePosted(f) PROVE TypeOK'
    BY <1>1, <1>2, <2>3 DEF onNntpFilePosted, FileOver, ArticlesOf, dbVars, appVars, artVars,
       boundVars, Phases
  <2>4. ASSUME NEW f \in Files, onNntpErrorReading(f) PROVE TypeOK'
    BY <1>1, <1>2, <2>4 DEF onNntpErrorReading, FileOver, dbVars, appVars, nzbVars, boundVars,
       Phases, ArtStatuses
  <2>5. CASE Stop
    BY <1>1, <1>2, <2>5 DEF Stop, dbVars, appVars, artVars, nzbVars, boundVars, Phases
  <2>6. ASSUME NEW ok \in BOOLEAN, FinalizePost(ok) PROVE TypeOK'
    BY <1>1, <1>2, <2>6, StatusTypes
    DEF FinalizePost, Fault, NoFault, appVars, artVars, nzbVars, boundVars, Phases
  <2>7. ASSUME NEW ok \in BOOLEAN, _closeNzb(ok) PROVE TypeOK'
    <3>1. Fault \/ NoFault
      BY <2>7 DEF _closeNzb
    <3>2. nbFaults' \in Nat /\ UNCHANGED <<lost, abandoned, nbEnds, nbResumes>>
      BY <3>1 DEF Fault, NoFault, boundVars
    <3>3. nzb' \in {nzb, Posted} /\ phase' \in Phases /\ nzbOpen' \in BOOLEAN
      BY <2>7 DEF _closeNzb, Phases
    <3>4. nzb' \in SUBSET Articles
      BY <3>3 DEF Posted
    <3> QED
      BY <1>1, <1>2, <2>7, <3>2, <3>3, <3>4 DEF _closeNzb, dbVars, appVars, artVars
  <2> QED
    BY <1>5, <2>1, <2>2, <2>3, <2>4, <2>5, <2>6, <2>7 DEF Job
<1>6. CASE UNCHANGED vars
  BY <1>1, <1>2, <1>6
  DEF vars, dbVars, appVars, jobVars, artVars, nzbVars, boundVars
<1> QED
  BY <1>3, <1>4, <1>5, <1>6 DEF Next

\* Every state the program reaches is of its type.
THEOREM TypeCorrect == Spec => []TypeOK
<1> QED
  BY TypeInit, TypeStep, PTL DEF Spec

\* A row that says posted keeps saying so, whatever batch, cleanup or resume
\* comes after it (applyArticleEvents(), markPostCrashedArticlesUnknown()).
THEOREM PostedForGood == Spec => PostedIsForGood
<1>1. TypeOK /\ [Next]_vars => [\A a \in Articles : row[a] = "posted" => row'[a] = "posted"]_vars
  <2> SUFFICES ASSUME TypeOK, [Next]_vars, NEW a \in Articles, row[a] = "posted"
               PROVE  row'[a] = "posted"
    OBVIOUS
  <2>1. journal \in Seq(Entries)
    BY DEF TypeOK
  <2> QED
    BY <2>1, RowStep
<1> QED
  BY <1>1, TypeCorrect, PTL DEF Spec, PostedIsForGood
-----------------------------------------------------------------------------
(* The word of the server. *)

\* What was confirmed stays confirmed.
LEMMA AnsweredGrows ==
    ASSUME [Next]_vars
    PROVE  answered \subseteq answered'
<1>1. CASE Worker
  BY <1>1 DEF Worker, FlushArticleEvents, UpdateFileStatus, PrepareForUse, artVars
<1>2. CASE Application
  BY <1>2 DEF Application, OnPrepared, _ensureHistoryStore, StartTransfer, CreatePost,
     RegisterHistoryFile, _abortBeforeTransfer, Resume, StartResume, JobDeleted, Restart, NewJob,
     NoJob, artVars
<1>3. CASE Job
  <2>1. ASSUME NEW a \in Articles, Send(a) \/ MarkUnknown(a) \/ LeftInFlight(a) \/ OnArticle(a)
        PROVE  answered' = answered
    BY <2>1 DEF Send, MarkUnknown, LeftInFlight, OnArticle
  <2>2. ASSUME NEW a \in Articles, NEW ok \in BOOLEAN, Reply(a, ok) \/ FlushReturns(a, ok)
        PROVE  answered \subseteq answered'
    BY <2>2 DEF Reply, FlushReturns
  <2>3. CASE \/ \E f \in Files : onNntpFilePosted(f) \/ onNntpErrorReading(f)
             \/ Stop \/ \E ok \in BOOLEAN : FinalizePost(ok) \/ _closeNzb(ok)
    BY <2>3 DEF onNntpFilePosted, onNntpErrorReading, Stop, FinalizePost, _closeNzb, artVars
  <2> QED
    BY <1>3, <2>1, <2>2, <2>3 DEF Job
<1>4. CASE UNCHANGED vars
  BY <1>4 DEF vars, artVars
<1> QED
  BY <1>1, <1>2, <1>3, <1>4 DEF Next

\* The queue is told nothing else.
LEMMA ToldStep ==
    ASSUME TypeOK, journal \in Seq(Told), WordIsTrue, [Next]_vars
    PROVE  journal' \in Seq(Told')
<1>1. Prepare \in Told
  BY PrepareIsNoEvent DEF Told
<1>2. \A a \in Articles, kind \in RowStatuses :
          (kind = "posted" => art[a] = "won") => Entry(kind, a) \in Told
  BY EntryTypes DEF Told, WordIsTrue, Entry
<1>3. \A f \in ids, kind \in {"posted", "partial", "failed"} : Entry(kind, f) \in Told
  BY EntryTypes, HistoryAssumption DEF Told, Entry, TypeOK, FileStatuses
<1>4. journal' \in Seq(Told)
  BY <1>1, <1>2, <1>3, JournalStep
<1>5. Told \subseteq Told'
  BY AnsweredGrows DEF Told
<1> QED
  BY <1>4, <1>5, SeqMonotonic

\* An article is won by the reply that confirms it.
LEMMA WordStep ==
    ASSUME TypeOK, WordIsTrue, [Next]_vars
    PROVE  WordIsTrue'
<1>0. answered \subseteq answered' /\ art \in [Articles -> ArtStatuses]
  BY AnsweredGrows DEF TypeOK
<1>1. CASE UNCHANGED art
  BY <1>0, <1>1 DEF WordIsTrue
<1>2. CASE Worker
  BY <1>1, <1>2 DEF Worker, FlushArticleEvents, UpdateFileStatus, PrepareForUse, artVars
<1>3. CASE Application
  <2>1. CASE \A a \in Articles : art'[a] \in {"todo", "out"}
    BY <2>1 DEF WordIsTrue
  <2>2. CASE CreatePost \/ StartResume \/ JobDeleted \/ Restart
    BY <2>1, <2>2 DEF CreatePost, StartResume, JobDeleted, Restart, NewJob, NoJob
  <2> QED
    BY <1>1, <1>3, <2>2 DEF Application, OnPrepared, _ensureHistoryStore, StartTransfer,
       RegisterHistoryFile, _abortBeforeTransfer, Resume, artVars
<1>4. CASE Job
  <2>1. ASSUME NEW a \in Articles, NEW s \in ArtStatuses, art' = [art EXCEPT ![a] = s],
               s \in {"won", "posted"} => a \in answered'
        PROVE  WordIsTrue'
    BY <1>0, <2>1 DEF WordIsTrue
  <2>2. ASSUME NEW a \in Articles, Send(a) \/ MarkUnknown(a) \/ LeftInFlight(a) PROVE WordIsTrue'
    BY <2>1, <2>2 DEF Send, MarkUnknown, LeftInFlight, ArtStatuses
  <2>3. ASSUME NEW a \in Articles, OnArticle(a) PROVE WordIsTrue'
    <3>1. a \in answered' \/ art[a] # "won"
      BY <1>0 DEF WordIsTrue
    <3> QED
      BY <2>1, <2>3, <3>1 DEF OnArticle, ArtStatuses
  <2>4. ASSUME NEW a \in Articles, NEW ok \in BOOLEAN, Reply(a, ok) PROVE WordIsTrue'
    BY <1>1, <2>1, <2>4 DEF Reply, ArtStatuses
  <2>5. ASSUME NEW a \in Articles, NEW ok \in BOOLEAN, FlushReturns(a, ok) PROVE WordIsTrue'
    BY <2>1, <2>5 DEF FlushReturns, ArtStatuses
  <2>6. ASSUME NEW f \in Files, onNntpErrorReading(f) PROVE WordIsTrue'
    BY <1>0, <2>6 DEF onNntpErrorReading, WordIsTrue
  <2>7. CASE \/ \E f \in Files : onNntpFilePosted(f)
             \/ Stop \/ \E ok \in BOOLEAN : FinalizePost(ok) \/ _closeNzb(ok)
    BY <1>1, <2>7 DEF onNntpFilePosted, Stop, FinalizePost, _closeNzb, artVars
  <2> QED
    BY <1>4, <2>2, <2>3, <2>4, <2>5, <2>6, <2>7 DEF Job
<1>5. CASE UNCHANGED vars
  BY <1>1, <1>5 DEF vars, artVars
<1> QED
  BY <1>2, <1>3, <1>4, <1>5 DEF Next

\* A file whose reading failed is over before its articles are left out.
LEMMA OutStep ==
    ASSUME TypeOK, OutIsOver, [Next]_vars
    PROVE  OutIsOver'
<1>0. art \in [Articles -> ArtStatuses] /\ fileOf' = fileOf
  BY DEF TypeOK, Next, vars
<1>1. CASE UNCHANGED <<resumed, files, over, art>>
  BY <1>0, <1>1 DEF OutIsOver
<1>2. CASE Worker
  BY <1>1, <1>2 DEF Worker, FlushArticleEvents, UpdateFileStatus, PrepareForUse, artVars, jobVars
<1>3. CASE Application
  <2>1. CASE CreatePost \/ StartResume
    BY <1>0, <2>1 DEF CreatePost, StartResume, NewJob, OutIsOver
  <2>2. CASE JobDeleted \/ Restart
    BY <2>2 DEF JobDeleted, Restart, NoJob, OutIsOver
  <2> QED
    BY <1>1, <1>3, <2>1, <2>2 DEF Application, OnPrepared, _ensureHistoryStore, StartTransfer,
       RegisterHistoryFile, _abortBeforeTransfer, Resume, artVars, jobVars
<1>4. CASE Job
  <2>1. ASSUME NEW a \in Articles, NEW s \in ArtStatuses \ {"out"}, art' = [art EXCEPT ![a] = s],
               UNCHANGED <<resumed, files, over>>
        PROVE  OutIsOver'
    BY <1>0, <2>1 DEF OutIsOver
  <2>2. ASSUME NEW a \in Articles, Send(a) \/ MarkUnknown(a) \/ LeftInFlight(a) \/ OnArticle(a)
        PROVE  OutIsOver'
    BY <2>1, <2>2 DEF Send, MarkUnknown, LeftInFlight, OnArticle, ArtStatuses, jobVars
  <2>3. ASSUME NEW a \in Articles, NEW ok \in BOOLEAN, Reply(a, ok) \/ FlushReturns(a, ok)
        PROVE  OutIsOver'
    BY <1>1, <2>1, <2>3 DEF Reply, FlushReturns, ArtStatuses, jobVars
  <2>4. ASSUME NEW f \in Files, onNntpFilePosted(f) PROVE OutIsOver'
    BY <1>0, <2>4 DEF onNntpFilePosted, FileOver, OutIsOver, artVars
  <2>5. ASSUME NEW f \in Files, onNntpErrorReading(f) PROVE OutIsOver'
    BY <1>0, <2>5 DEF onNntpErrorReading, FileOver, OutIsOver
  <2>6. CASE Stop \/ \E ok \in BOOLEAN : FinalizePost(ok) \/ _closeNzb(ok)
    BY <1>1, <2>6 DEF Stop, FinalizePost, _closeNzb, artVars
  <2> QED
    BY <1>4, <2>2, <2>3, <2>4, <2>5, <2>6 DEF Job
<1>5. CASE UNCHANGED vars
  BY <1>1, <1>5 DEF vars, artVars, jobVars
<1> QED
  BY <1>2, <1>3, <1>4, <1>5 DEF Next

\* The NZB lists confirmed articles, whether it is streamed or rebuilt.
LEMMA NzbStep ==
    ASSUME AnsweredInv, [Next]_vars
    PROVE  nzb' \subseteq answered
<1>0. nzb \subseteq answered /\ Posted \subseteq answered
  BY DEF AnsweredInv, PostedIsAnswered
<1>1. CASE nzb' \in {nzb, {}, Posted}
  BY <1>0, <1>1
<1>2. CASE Worker
  BY <1>1, <1>2 DEF Worker, FlushArticleEvents, UpdateFileStatus, PrepareForUse, nzbVars
<1>3. CASE Application
  BY <1>1, <1>3 DEF Application, OnPrepared, _ensureHistoryStore, StartTransfer, CreatePost,
     RegisterHistoryFile, _abortBeforeTransfer, Resume, StartResume, JobDeleted, Restart, nzbVars
<1>4. CASE Job
  <2>1. ASSUME NEW f \in Files, onNntpFilePosted(f), ~resumed, ~Failed(f)
        PROVE  ArticlesOf({f}) \subseteq answered
    <3>1. ASSUME NEW a \in ArticlesOf({f}) PROVE a \in answered
      <4>1. /\ a \in Articles /\ fileOf[a] = f /\ f \in files \ over
            /\ art[a] \in {"out", "posted", "failed"} /\ art[a] # "failed"
        BY <2>1, <3>1 DEF onNntpFilePosted, Failed, ArticlesOf
      <4>2. art[a] # "out"
        BY <2>1, <4>1 DEF AnsweredInv, OutIsOver
      <4> QED
        BY <4>1, <4>2 DEF AnsweredInv, WordIsTrue
    <3> QED
      BY <3>1
  <2>2. ASSUME NEW f \in Files, onNntpFilePosted(f) PROVE nzb' \subseteq answered
    BY <1>0, <2>1, <2>2 DEF onNntpFilePosted
  <2>3. ASSUME NEW ok \in BOOLEAN, _closeNzb(ok) PROVE nzb' \subseteq answered
    BY <1>1, <2>3 DEF _closeNzb
  <2>4. ASSUME NEW a \in Articles, NEW ok \in BOOLEAN,
               \/ Send(a) \/ MarkUnknown(a) \/ LeftInFlight(a) \/ OnArticle(a)
               \/ Reply(a, ok) \/ FlushReturns(a, ok)
        PROVE  nzb' \subseteq answered
    BY <1>1, <2>4 DEF Send, MarkUnknown, LeftInFlight, OnArticle, Reply, FlushReturns, nzbVars
  <2>5. CASE \/ \E f \in Files : onNntpErrorReading(f)
             \/ Stop \/ \E ok \in BOOLEAN : FinalizePost(ok)
    BY <1>1, <2>5 DEF onNntpErrorReading, Stop, FinalizePost, nzbVars
  <2> QED
    BY <1>4, <2>2, <2>3, <2>4, <2>5 DEF Job
<1>5. CASE UNCHANGED vars
  BY <1>1, <1>5 DEF vars, nzbVars
<1> QED
  BY <1>2, <1>3, <1>4, <1>5 DEF Next

LEMMA AnsweredInit == Init => AnsweredInv
<1> SUFFICES ASSUME Init PROVE AnsweredInv
  OBVIOUS
<1>1. Prepare \in Told
  BY PrepareIsNoEvent DEF Told
<1>2. journal \in Seq(Told)
  BY <1>1 DEF Init
<1>3. PostedIsAnswered /\ WordIsTrue /\ OutIsOver
  BY DEF Init, PostedIsAnswered, Posted, WordIsTrue, OutIsOver
<1> QED
  BY <1>2, <1>3, TypeInit DEF AnsweredInv

LEMMA AnsweredStep == AnsweredInv /\ [Next]_vars => AnsweredInv'
<1> SUFFICES ASSUME AnsweredInv, [Next]_vars PROVE AnsweredInv'
  OBVIOUS
<1>1. TypeOK /\ PostedIsAnswered /\ journal \in Seq(Told) /\ WordIsTrue /\ OutIsOver
  BY DEF AnsweredInv
<1>2. TypeOK' /\ journal' \in Seq(Told') /\ WordIsTrue' /\ OutIsOver'
  BY <1>1, TypeStep, ToldStep, WordStep, OutStep
<1>3. answered \subseteq answered' /\ nzb' \subseteq answered
  BY AnsweredGrows, NzbStep
<1>4. Posted' \subseteq answered
  <2>1. Told \in SUBSET Entries
    BY DEF Told
  <2>2. ASSUME NEW a \in Articles, row'[a] = "posted" PROVE a \in answered
    <3>1. row[a] = "posted" \/ Entry("posted", a) \in Told
      BY <1>1, <2>1, <2>2, RowStep
    <3> QED
      BY <1>1, <3>1 DEF PostedIsAnswered, Posted, Told, Entry
  <2> QED
    BY <2>2 DEF Posted
<1>5. PostedIsAnswered'
  BY <1>3, <1>4 DEF PostedIsAnswered
<1> QED
  BY <1>2, <1>5 DEF AnsweredInv

\* Neither a row of the history nor the NZB calls posted an article the server
\* has not confirmed (README: articles are marked posted after a 240 response).
THEOREM AnsweredCorrect == Spec => []PostedIsAnswered
<1>1. AnsweredInv => PostedIsAnswered
  BY DEF AnsweredInv
<1> QED
  BY <1>1, AnsweredInit, AnsweredStep, PTL DEF Spec
=============================================================================
