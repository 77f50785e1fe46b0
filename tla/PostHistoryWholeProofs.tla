----------------------- MODULE PostHistoryWholeProofs -----------------------
(***************************************************************************)
(* What the history says of an article in flight, of a file and of a post, *)
(* for any number of files, articles, faults, resumes and ends of the      *)
(* program.  The status of a file or of a post is not written with the     *)
(* articles it speaks of; what makes it true is the order of the queue of  *)
(* the worker, and what a job or the plan of a resume knew.  The inductive *)
(* invariant is WholeInv.                                                  *)
(***************************************************************************)
EXTENDS PostHistoryResumeProofs

(* Positions in the queue. *)

\* A set of positions has a last one: what follows a position of the set is
\* least, among finite sets, for the last.
LEMMA LastPosition ==
    ASSUME NEW n \in Nat, NEW X \in SUBSET (1..n), X # {}
    PROVE  \E i \in X : \A j \in X : j <= i
<1> DEFINE S == 1..n
           after(i) == {k \in S : k > i}
           T == {after(i) : i \in X}
<1>1. IsFiniteSet(S)
  BY FS_Interval
<1>2. T \subseteq FiniteSubsetsOf(S) /\ T # {}
  <2>1. \A i \in X : after(i) \in SUBSET S
    OBVIOUS
  <2>2. FiniteSubsetsOf(S) = SUBSET S
    BY <1>1, FS_FiniteSubsetsOfFinite
  <2> HIDE DEF S, after
  <2> QED
    BY <2>1, <2>2
<1>3. PICK t \in T : \A u \in T : <<u, t>> \notin StrictSubsetOrdering(S)
  BY <1>2, FS_StrictSubsetOrderingWellFounded, WFMin
<1>4. PICK i \in X : t = after(i)
  OBVIOUS
<1>5. ASSUME NEW j \in X, ~(j <= i) PROVE FALSE
  <2>1. i \in 1..n /\ j \in 1..n /\ j > i
    BY <1>5
  <2>2. after(j) \subseteq after(i) /\ j \in after(i) /\ j \notin after(j)
    BY <2>1
  <2>3. <<after(j), t>> \in StrictSubsetOrdering(S)
    BY <1>4, <2>2 DEF StrictSubsetOrdering
  <2> QED
    BY <1>3, <2>3
<1> QED
  BY <1>5

\* What is left of a queue when the entry at k is taken out.
LEMMA Removed ==
    ASSUME NEW S, NEW s \in Seq(S), NEW k \in 1..Len(s), NEW t,
           t = SubSeq(s, 1, k - 1) \o SubSeq(s, k + 1, Len(s))
    PROVE  Len(t) = Len(s) - 1 /\ \A m \in 1..Len(t) : t[m] = IF m < k THEN s[m] ELSE s[m + 1]
<1> DEFINE front == SubSeq(s, 1, k - 1)
           back == SubSeq(s, k + 1, Len(s))
<1>0. Len(s) \in Nat /\ \A j \in 1..Len(s) : s[j] \in S
  BY LenProperties, ElementOfSeq
<1>1. /\ front \in Seq(S) /\ Len(front) = k - 1
      /\ \A j \in 1..k - 1 : front[j] = s[j]
  BY <1>0, SubSeqProperties
<1>2. /\ back \in Seq(S) /\ Len(back) = Len(s) - k
      /\ \A j \in 1..Len(s) - k : back[j] = s[k + j]
  BY <1>0, SubSeqProperties
<1>3. t = front \o back
  OBVIOUS
<1> HIDE DEF front, back
<1>4. /\ Len(t) = Len(s) - 1
      /\ \A m \in 1..Len(s) - 1 : t[m] = IF m <= k - 1 THEN front[m] ELSE back[m - (k - 1)]
  <2>1. Len(front) + Len(back) = Len(s) - 1
    BY <1>0, <1>1, <1>2
  <2>2. /\ Len(t) = Len(front) + Len(back)
        /\ \A m \in 1..Len(front) + Len(back) :
             t[m] = IF m <= Len(front) THEN front[m] ELSE back[m - Len(front)]
    <3>1. front \in Seq(S) /\ back \in Seq(S)
      BY <1>1, <1>2
    <3>2. /\ Len(front \o back) = Len(front) + Len(back)
          /\ \A m \in 1..Len(front) + Len(back) :
               (front \o back)[m] = IF m <= Len(front) THEN front[m] ELSE back[m - Len(front)]
      BY <3>1, ConcatProperties, Zenon
    <3> QED
      BY <1>3, <3>2, Zenon
  <2> QED
    BY <1>1, <2>1, <2>2
<1>5. ASSUME NEW m \in 1..Len(s) - 1 PROVE t[m] = IF m < k THEN s[m] ELSE s[m + 1]
  <2>1. CASE m < k
    <3>1. m \in 1..k - 1 /\ m <= k - 1
      BY <1>0, <2>1
    <3> QED
      BY <1>1, <1>4, <2>1, <3>1
  <2>2. CASE ~(m < k)
    <3>1. m - (k - 1) \in 1..Len(s) - k /\ k + (m - (k - 1)) = m + 1 /\ ~(m <= k - 1)
      BY <1>0, <2>2
    <3> QED
      BY <1>2, <1>4, <2>2, <3>1
  <2> QED
    BY <2>1, <2>2
<1> QED
  BY <1>4, <1>5

\* The moves of the queue: an entry is added, one that is no event is taken out,
\* or a batch of events is written.
Adds(e) ==
    /\ e \in Entries /\ journal' = Append(journal, e)
    /\ Len(journal') = Len(journal) + 1 /\ journal'[Len(journal) + 1] = e
    /\ \A m \in 1..Len(journal) : journal'[m] = journal[m]

Drops(k) ==
    /\ k \in 1..Len(journal) /\ journal[k].of \notin Articles
    /\ Len(journal') = Len(journal) - 1
    /\ \A m \in 1..Len(journal') : journal'[m] = IF m < k THEN journal[m] ELSE journal[m + 1]

Writes(n) ==
    /\ n \in 1..Len(journal) /\ \A m \in 1..n : IsEvent(journal[m])
    /\ Len(journal') = Len(journal) - n
    /\ \A m \in 1..Len(journal') : journal'[m] = journal[m + n]
    /\ \A a \in Articles :
         /\ (\E m \in 1..n : journal[m] = Entry("posted", a)) => row'[a] = "posted"
         /\ row[a] = "posted" => row'[a] = "posted"
         /\ (\A m \in 1..n : journal[m].of # a) => row'[a] = row[a]
         /\ \A m \in 1..n : journal[m].of = a /\ (\A j \in m + 1..n : journal[j].of # a) =>
              row'[a] \in {"posted", journal[m].kind}

LEMMA WritesBatch ==
    ASSUME TypeOK, NEW n \in 1..Len(journal), FlushArticleEvents(n)
    PROVE  Writes(n)
<1> DEFINE batch == SubSeq(journal, 1, n)
<1>0. /\ journal \in Seq(Entries) /\ Len(journal) \in Nat
      /\ \A i \in 1..Len(journal) : journal[i] \in Entries
      /\ row \in [Articles -> RowStatuses]
  BY LenProperties, ElementOfSeq DEF TypeOK
<1>1. Len(batch) = n /\ \A j \in 1..n : batch[j] = journal[j]
  BY <1>0, SubSeqProperties
<1>2. OnlyEvents(batch) /\ row' = Applied(batch)
      /\ journal' = SubSeq(journal, n + 1, Len(journal))
  BY DEF FlushArticleEvents
<1>3. /\ Len(journal') = Len(journal) - n
      /\ \A m \in 1..Len(journal') : journal'[m] = journal[m + n]
  <2>1. \A j \in n + 1..Len(journal) : journal[j] \in Entries
    BY <1>0
  <2>2. Len(journal') = Len(journal) - n
    BY <1>0, <1>2, <2>1, SubSeqProperties
  <2>3. \A m \in 1..Len(journal) - (n + 1) + 1 : journal'[m] = journal[(n + 1) + m - 1]
    BY <1>0, <1>2, <2>1, SubSeqProperties
  <2> QED
    BY <1>0, <2>2, <2>3
<1>4. \A m \in 1..n : IsEvent(journal[m])
  BY <1>1, <1>2 DEF OnlyEvents
<1> HIDE DEF batch
<1>5. ASSUME NEW a \in Articles
      PROVE  /\ (\E m \in 1..n : journal[m] = Entry("posted", a)) => row'[a] = "posted"
             /\ row[a] = "posted" => row'[a] = "posted"
             /\ (\A m \in 1..n : journal[m].of # a) => row'[a] = row[a]
             /\ \A m \in 1..n : journal[m].of = a /\ (\A j \in m + 1..n : journal[j].of # a) =>
                  row'[a] \in {"posted", journal[m].kind}
  <2>1. row'[a] = IF row[a] = "posted" \/ "posted" \in Said(batch, a) THEN "posted"
                  ELSE IF LastSaid(batch, a) = {} THEN row[a]
                  ELSE CHOOSE s \in LastSaid(batch, a) : TRUE
    BY <1>2 DEF Applied
  <2>2. ASSUME NEW m \in 1..n, journal[m] = Entry("posted", a) PROVE "posted" \in Said(batch, a)
    BY <1>1, <2>2 DEF Said, Entry
  <2>3. ASSUME \A m \in 1..n : journal[m].of # a
        PROVE  Said(batch, a) = {} /\ LastSaid(batch, a) = {}
    BY <1>1, <2>3 DEF Said, LastSaid
  <2>4. ASSUME NEW m \in 1..n, journal[m].of = a, \A j \in m + 1..n : journal[j].of # a
        PROVE  LastSaid(batch, a) = {journal[m].kind}
    <3>1. \A i \in 1..n : batch[i].of = a /\ (\A k \in i + 1..n : batch[k].of # a) => i = m
      BY <1>1, <2>4
    <3>2. batch[m].of = a /\ \A k \in m + 1..n : batch[k].of # a
      BY <1>1, <2>4
    <3>3. {j \in 1..Len(batch) :
              batch[j].of = a /\ \A k \in j + 1..Len(batch) : batch[k].of # a} = {m}
      BY <1>1, <3>1, <3>2
    <3> QED
      BY <1>1, <3>3 DEF LastSaid
  <2>5. ASSUME NEW m \in 1..n, journal[m].of = a, \A j \in m + 1..n : journal[j].of # a
        PROVE  row'[a] \in {"posted", journal[m].kind}
    BY <2>1, <2>4, <2>5
  <2> QED
    BY <2>1, <2>2, <2>3, <2>5
<1> QED
  BY <1>3, <1>4, <1>5 DEF Writes

\* What a job queues is one entry, if the file it concerns has a row.
LEMMA EnqueueAdds ==
    ASSUME TypeOK, NEW f, NEW e \in Entries, Enqueue(f, e)
    PROVE  IF f \in ids THEN Adds(e) ELSE journal' = journal
<1>1. journal \in Seq(Entries)
  BY DEF TypeOK
<1> QED
  BY <1>1, AppendProperties DEF Enqueue, Adds

LEMMA RecordAdds ==
    ASSUME TypeOK, NEW a \in Articles, NEW kind \in RowStatuses, Record(a, kind)
    PROVE  IF fileOf[a] \in ids THEN Adds(Entry(kind, a)) ELSE journal' = journal
BY EnqueueAdds, EntryTypes DEF Record

LEMMA StatusAdds ==
    ASSUME TypeOK, NEW f \in Files, onNntpFilePosted(f) \/ onNntpErrorReading(f)
    PROVE  \E kind \in FileStatuses :
               IF f \in ids THEN Adds(Entry(kind, f)) ELSE journal' = journal
<1>1. PICK kind \in FileStatuses : Enqueue(f, Entry(kind, f))
  BY DEF onNntpFilePosted, onNntpErrorReading, FileOver, FileStatuses
<1> QED
  BY <1>1, EnqueueAdds, EntryTypes

\* Two entries are not added at once.
LEMMA AddsOne ==
    ASSUME TypeOK, NEW e, NEW d, Adds(e), Adds(d) \/ journal' = journal
    PROVE  d = e /\ journal' # journal
<1>1. Len(journal) \in Nat
  BY LenProperties DEF TypeOK
<1>2. Len(journal') = Len(journal) + 1 /\ journal'[Len(journal) + 1] = e
  BY DEF Adds
<1>3. journal' # journal
  BY <1>1, <1>2
<1> QED
  BY <1>2, <1>3 DEF Adds

\* What a step does to the queue and to the rows of articles.
LEMMA QueueMoves ==
    ASSUME TypeOK, [Next]_vars
    PROVE  \/ UNCHANGED <<row, journal>>
           \/ UNCHANGED row /\ Job /\ \E e \in Entries : Adds(e)
           \/ UNCHANGED row /\ \E k \in 1..Len(journal) : UpdateFileStatus(k) /\ Drops(k)
           \/ \E n \in 1..Len(journal) : FlushArticleEvents(n) /\ Writes(n)
           \/ \E ok \in BOOLEAN : PrepareForUse(ok) \/ _ensureHistoryStore(ok)
           \/ Restart
<1>1. CASE Worker
  <2>1. ASSUME NEW k \in 1..Len(journal), UpdateFileStatus(k) PROVE UNCHANGED row /\ Drops(k)
    <3>1. journal \in Seq(Entries)
      BY DEF TypeOK
    <3>2. journal' = SubSeq(journal, 1, k - 1) \o SubSeq(journal, k + 1, Len(journal))
      BY <2>1 DEF UpdateFileStatus
    <3>3. /\ Len(journal') = Len(journal) - 1
          /\ \A m \in 1..Len(journal') : journal'[m] = IF m < k THEN journal[m] ELSE journal[m + 1]
      BY <3>1, <3>2, Removed
    <3>4. UNCHANGED row /\ journal[k].of \notin Articles
      BY <2>1, HistoryAssumption DEF UpdateFileStatus
    <3> QED
      BY <3>3, <3>4 DEF Drops
  <2> QED
    BY <1>1, <2>1, WritesBatch DEF Worker
<1>2. CASE Application
  BY <1>2 DEF Application, OnPrepared, StartTransfer, CreatePost, RegisterHistoryFile,
     _abortBeforeTransfer, Resume, StartResume, JobDeleted, dbVars
<1>3. CASE Job
  <2>1. UNCHANGED row
    BY <1>3 DEF Job, Send, MarkUnknown, LeftInFlight, OnArticle, Reply, FlushReturns,
       onNntpFilePosted, onNntpErrorReading, Stop, FinalizePost, _closeNzb, dbVars
  <2>2. ASSUME NEW a \in Articles, NEW kind \in RowStatuses, Record(a, kind)
        PROVE  journal' = journal \/ \E e \in Entries : Adds(e)
    BY <2>2, RecordAdds, EntryTypes
  <2>3. ASSUME NEW a \in Articles, Send(a) \/ MarkUnknown(a) \/ LeftInFlight(a) \/ OnArticle(a)
        PROVE  journal' = journal \/ \E kind \in RowStatuses : Record(a, kind)
    BY <2>3 DEF Send, MarkUnknown, LeftInFlight, OnArticle, Write, RowStatuses
  <2>4. ASSUME NEW a \in Articles, NEW ok \in BOOLEAN, Reply(a, ok) \/ FlushReturns(a, ok)
        PROVE  journal' = journal \/ \E kind \in RowStatuses : Record(a, kind)
    BY <2>4 DEF Reply, FlushReturns, Write, RowStatuses
  <2>5. ASSUME NEW f \in Files, onNntpFilePosted(f) \/ onNntpErrorReading(f)
        PROVE  journal' = journal \/ \E e \in Entries : Adds(e)
    BY <2>5, StatusAdds, EntryTypes
  <2>6. ASSUME Stop \/ \E ok \in BOOLEAN : FinalizePost(ok) \/ _closeNzb(ok)
        PROVE  journal' = journal
    BY <2>6 DEF Stop, FinalizePost, _closeNzb
  <2>7. journal' = journal \/ \E e \in Entries : Adds(e)
    BY <1>3, <2>2, <2>3, <2>4, <2>5, <2>6 DEF Job
  <2> QED
    BY <1>3, <2>1, <2>7
<1>4. CASE UNCHANGED vars
  BY <1>4 DEF vars, dbVars
<1> QED
  BY <1>1, <1>2, <1>3, <1>4 DEF Next

\* Where an article is changes by an action on it, or by the end of its file;
\* an event of it is queued by an action on it.
StepOf(a) ==
    \/ Send(a) \/ MarkUnknown(a) \/ LeftInFlight(a) \/ OnArticle(a)
    \/ \E ok \in BOOLEAN : Reply(a, ok) \/ FlushReturns(a, ok)

Still(a) ==
    /\ art'[a] = art[a] \/ (art[a] = "todo" /\ art'[a] = "out" /\ fileOf[a] \in filesFailed')
    /\ \A e \in Entries : Adds(e) => e.of # a

LEMMA ArticleMoves ==
    ASSUME TypeOK, [Next]_vars, ~(CreatePost \/ StartResume \/ JobDeleted \/ Restart),
           NEW a \in Articles
    PROVE  StepOf(a) \/ Still(a)
<1>0. art \in [Articles -> ArtStatuses] /\ Len(journal) \in Nat
  BY LenProperties DEF TypeOK
<1>1. ASSUME journal' = journal \/ Len(journal') < Len(journal)
      PROVE  \A e \in Entries : ~Adds(e)
  <2> SUFFICES ASSUME NEW e \in Entries, Adds(e) PROVE FALSE
    OBVIOUS
  <2>1. Len(journal') = Len(journal) + 1
    BY DEF Adds
  <2> QED
    BY <1>0, <1>1, <2>1
<1>2. CASE Worker
  <2>1. art' = art
    BY <1>2 DEF Worker, FlushArticleEvents, UpdateFileStatus, PrepareForUse, artVars
  <2>2. Len(journal') < Len(journal)
    <3>1. CASE \E n \in 1..Len(journal) : FlushArticleEvents(n)
      BY <1>0, <3>1, WritesBatch DEF Writes
    <3>2. ASSUME NEW k \in 1..Len(journal), UpdateFileStatus(k)
          PROVE  Len(journal') < Len(journal)
      <4>1. journal \in Seq(Entries)
        BY DEF TypeOK
      <4>2. journal' = SubSeq(journal, 1, k - 1) \o SubSeq(journal, k + 1, Len(journal))
        BY <3>2 DEF UpdateFileStatus
      <4>3. Len(journal') = Len(journal) - 1
        BY <4>1, <4>2, Removed
      <4> QED
        BY <1>0, <4>3
    <3>3. CASE \E ok \in BOOLEAN : PrepareForUse(ok)
      <4>1. journal \in Seq(Entries) /\ journal # <<>> /\ journal' = Tail(journal)
        BY <3>3 DEF PrepareForUse, TypeOK
      <4> QED
        BY <1>0, <4>1, HeadTailProperties
    <3> QED
      BY <1>2, <3>1, <3>2, <3>3 DEF Worker
  <2> QED
    BY <1>1, <2>1, <2>2 DEF Still
<1>3. CASE Application
  <2>1. art' = art /\ journal' = journal
    BY <1>3 DEF Application, OnPrepared, _ensureHistoryStore, StartTransfer, RegisterHistoryFile,
       _abortBeforeTransfer, Resume, artVars
  <2> QED
    BY <1>1, <2>1 DEF Still
<1>4. CASE Job
  <2>1. ASSUME NEW b \in Articles, b # a, NEW kind \in RowStatuses,
               journal' = journal \/ Record(b, kind)
        PROVE  \A e \in Entries : Adds(e) => e.of # a
    <3> SUFFICES ASSUME NEW e \in Entries, Adds(e) PROVE e.of # a
      OBVIOUS
    <3>1. Adds(Entry(kind, b)) \/ journal' = journal
      BY <2>1, RecordAdds
    <3>2. Entry(kind, b) = e
      BY <2>1, <3>1, AddsOne
    <3> QED
      BY <2>1, <3>2 DEF Entry
  <2>2. ASSUME NEW b \in Articles, b # a, StepOf(b) PROVE Still(a)
    <3>1. \E s \in ArtStatuses : art' = art \/ art' = [art EXCEPT ![b] = s]
      BY <2>2 DEF StepOf, Send, MarkUnknown, LeftInFlight, OnArticle, Reply, FlushReturns,
         ArtStatuses
    <3>2. art'[a] = art[a]
      BY <1>0, <2>2, <3>1
    <3>3. \E kind \in RowStatuses : journal' = journal \/ Record(b, kind)
      BY <2>2 DEF StepOf, Send, MarkUnknown, LeftInFlight, OnArticle, Reply, FlushReturns, Write,
         RowStatuses
    <3> QED
      BY <2>1, <2>2, <3>2, <3>3 DEF Still
  <2>3. ASSUME NEW f \in Files, onNntpFilePosted(f) \/ onNntpErrorReading(f) PROVE Still(a)
    <3>1. art'[a] = art[a] \/ (art[a] = "todo" /\ art'[a] = "out" /\ fileOf[a] \in filesFailed')
      <4>1. CASE onNntpFilePosted(f)
        BY <4>1 DEF onNntpFilePosted, artVars
      <4>2. CASE onNntpErrorReading(f)
        <5>1. art'[a] = IF fileOf[a] = f /\ art[a] = "todo" THEN "out" ELSE art[a]
          BY <4>2 DEF onNntpErrorReading
        <5>2. f \in filesFailed'
          BY <4>2 DEF onNntpErrorReading
        <5> QED
          BY <5>1, <5>2
      <4> QED
        BY <2>3, <4>1, <4>2
    <3>2. \A e \in Entries : Adds(e) => e.of # a
      <4> SUFFICES ASSUME NEW e \in Entries, Adds(e) PROVE e.of # a
        OBVIOUS
      <4>1. PICK kind \in FileStatuses : Adds(Entry(kind, f)) \/ journal' = journal
        BY <2>3, StatusAdds
      <4>2. Entry(kind, f) = e
        BY <4>1, AddsOne
      <4> QED
        BY <4>2, HistoryAssumption DEF Entry
    <3> QED
      BY <3>1, <3>2 DEF Still
  <2>4. CASE Stop \/ \E ok \in BOOLEAN : FinalizePost(ok) \/ _closeNzb(ok)
    <3>1. art' = art /\ journal' = journal
      BY <2>4 DEF Stop, FinalizePost, _closeNzb, artVars
    <3> QED
      BY <1>1, <3>1 DEF Still
  <2>5. (\E b \in Articles : StepOf(b)) \/ (\E f \in Files : onNntpFilePosted(f) \/ onNntpErrorReading(f))
        \/ Stop \/ \E ok \in BOOLEAN : FinalizePost(ok) \/ _closeNzb(ok)
    BY <1>4 DEF Job, StepOf
  <2> QED
    BY <2>2, <2>3, <2>4, <2>5
<1>5. CASE UNCHANGED vars
  <2>1. art' = art /\ journal' = journal
    BY <1>5 DEF vars, artVars
  <2> QED
    BY <1>1, <2>1 DEF Still
<1> QED
  BY <1>2, <1>3, <1>4, <1>5 DEF Next
-----------------------------------------------------------------------------
(* The articles in flight. *)

\* What the history will say of an article when the queue is written, if no
\* event before says that it is posted.
NotOf(a) == \A i \in 1..Len(journal) : journal[i].of # a
LastQueued(a, k) ==
    \E i \in 1..Len(journal) :
        journal[i] = Entry(k, a) /\ \A j \in i + 1..Len(journal) : journal[j].of # a
LastWord(a, k) == LastQueued(a, k) \/ (row[a] = k /\ NotOf(a))

LEMMA WordAdded ==
    ASSUME TypeOK, NEW a \in Articles, NEW k \in RowStatuses, NEW e \in Entries,
           UNCHANGED row, Adds(e)
    PROVE  /\ e.of # a => (LastWord(a, k)' <=> LastWord(a, k)) /\ (NotOf(a)' <=> NotOf(a))
           /\ e.of = a => (LastWord(a, k)' <=> e = Entry(k, a))
<1>0. /\ Len(journal) \in Nat /\ Len(journal') = Len(journal) + 1
      /\ journal'[Len(journal) + 1] = e
      /\ \A m \in 1..Len(journal) : journal'[m] = journal[m]
      /\ Entry(k, a).of = a
  BY LenProperties DEF TypeOK, Adds, Entry
<1>1. ASSUME e.of # a PROVE NotOf(a)' <=> NotOf(a)
  BY <1>0, <1>1 DEF NotOf
<1>2. ASSUME e.of # a PROVE LastQueued(a, k)' <=> LastQueued(a, k)
  <2>1. ASSUME NEW i \in 1..Len(journal), journal[i] = Entry(k, a),
               \A j \in i + 1..Len(journal) : journal[j].of # a
        PROVE  LastQueued(a, k)'
    <3>1. i \in 1..Len(journal') /\ journal'[i] = Entry(k, a)
      BY <1>0, <2>1
    <3>2. \A j \in i + 1..Len(journal') : journal'[j].of # a
      BY <1>0, <1>2, <2>1
    <3> QED
      BY <3>1, <3>2 DEF LastQueued
  <2>2. ASSUME NEW i \in 1..Len(journal'), journal'[i] = Entry(k, a),
               \A j \in i + 1..Len(journal') : journal'[j].of # a
        PROVE  LastQueued(a, k)
    <3>1. i # Len(journal) + 1
      BY <1>0, <1>2, <2>2
    <3>2. i \in 1..Len(journal) /\ journal[i] = Entry(k, a)
      BY <1>0, <2>2, <3>1
    <3>3. \A j \in i + 1..Len(journal) : journal[j].of # a
      BY <1>0, <2>2
    <3> QED
      BY <3>2, <3>3 DEF LastQueued
  <2> QED
    BY <2>1, <2>2 DEF LastQueued
<1>3. ASSUME e.of = a PROVE LastWord(a, k)' <=> e = Entry(k, a)
  <2>1. ~NotOf(a)'
    BY <1>0, <1>3 DEF NotOf
  <2>2. ASSUME e = Entry(k, a) PROVE LastQueued(a, k)'
    BY <1>0, <2>2 DEF LastQueued
  <2>3. ASSUME NEW i \in 1..Len(journal'), journal'[i] = Entry(k, a),
               \A j \in i + 1..Len(journal') : journal'[j].of # a
        PROVE  e = Entry(k, a)
    <3>1. i = Len(journal) + 1
      BY <1>0, <1>3, <2>3
    <3> QED
      BY <1>0, <2>3, <3>1
  <2> QED
    BY <2>1, <2>2, <2>3 DEF LastWord, LastQueued
<1> QED
  BY <1>1, <1>2, <1>3 DEF LastWord

LEMMA WordDropped ==
    ASSUME TypeOK, NEW a \in Articles, NEW k \in RowStatuses, UNCHANGED row,
           NEW n \in 1..Len(journal), Drops(n)
    PROVE  (LastWord(a, k)' <=> LastWord(a, k)) /\ (NotOf(a)' <=> NotOf(a))
<1>0. /\ Len(journal) \in Nat /\ Len(journal') = Len(journal) - 1
      /\ \A m \in 1..Len(journal') : journal'[m] = IF m < n THEN journal[m] ELSE journal[m + 1]
      /\ journal[n].of # a /\ Entry(k, a).of = a
  BY LenProperties DEF TypeOK, Drops, Entry
<1>1. NotOf(a)' => NotOf(a)
  <2> SUFFICES ASSUME NotOf(a)', NEW i \in 1..Len(journal) PROVE journal[i].of # a
    BY DEF NotOf
  <2>1. CASE i < n
    <3>1. i \in 1..Len(journal') /\ journal'[i] = journal[i]
      BY <1>0, <2>1
    <3> QED
      BY <3>1 DEF NotOf
  <2>2. CASE i > n
    <3>1. i - 1 \in 1..Len(journal') /\ journal'[i - 1] = journal[i]
      BY <1>0, <2>2
    <3> QED
      BY <3>1 DEF NotOf
  <2> QED
    BY <1>0, <2>1, <2>2
<1>2. NotOf(a) => NotOf(a)'
  BY <1>0 DEF NotOf
<1>3. ASSUME NEW i \in 1..Len(journal), journal[i] = Entry(k, a),
             \A j \in i + 1..Len(journal) : journal[j].of # a
      PROVE  LastQueued(a, k)'
  <2>0. i # n
    BY <1>0, <1>3
  <2>1. CASE i < n
    <3>1. i \in 1..Len(journal') /\ journal'[i] = Entry(k, a)
      BY <1>0, <1>3, <2>1
    <3>2. \A j \in i + 1..Len(journal') : journal'[j].of # a
      BY <1>0, <1>3, <2>1
    <3> QED
      BY <3>1, <3>2 DEF LastQueued
  <2>2. CASE i > n
    <3>1. i - 1 \in 1..Len(journal') /\ journal'[i - 1] = Entry(k, a)
      BY <1>0, <1>3, <2>2
    <3>2. \A j \in (i - 1) + 1..Len(journal') : journal'[j].of # a
      BY <1>0, <1>3, <2>2
    <3> QED
      BY <3>1, <3>2 DEF LastQueued
  <2> QED
    BY <1>0, <2>0, <2>1, <2>2
<1>4. ASSUME NEW i \in 1..Len(journal'), journal'[i] = Entry(k, a),
             \A j \in i + 1..Len(journal') : journal'[j].of # a
      PROVE  LastQueued(a, k)
  <2> DEFINE p == IF i < n THEN i ELSE i + 1
  <2>1. p \in 1..Len(journal) /\ journal[p] = Entry(k, a)
    BY <1>0, <1>4
  <2>2. ASSUME NEW j \in p + 1..Len(journal) PROVE journal[j].of # a
    <3>1. CASE j < n
      <4>1. j \in i + 1..Len(journal') /\ journal'[j] = journal[j]
        BY <1>0, <3>1
      <4> QED
        BY <1>4, <4>1
    <3>2. CASE j > n
      <4>1. j - 1 \in i + 1..Len(journal') /\ journal'[j - 1] = journal[j]
        BY <1>0, <3>2
      <4> QED
        BY <1>4, <4>1
    <3> QED
      BY <1>0, <3>1, <3>2
  <2> QED
    BY <2>1, <2>2 DEF LastQueued
<1> QED
  BY <1>1, <1>2, <1>3, <1>4 DEF LastWord, LastQueued

LEMMA WordWritten ==
    ASSUME TypeOK, NEW a \in Articles, NEW k \in RowStatuses, NEW n \in 1..Len(journal), Writes(n)
    PROVE  /\ LastWord(a, k)' /\ k # "posted" => LastWord(a, k)
           /\ LastWord(a, k) => row'[a] = "posted" \/ LastWord(a, k)'
           /\ NotOf(a) => row'[a] = row[a] /\ NotOf(a)'
<1>0. /\ Len(journal) \in Nat /\ Len(journal') = Len(journal) - n
      /\ \A m \in 1..Len(journal') : journal'[m] = journal[m + n]
      /\ \A i \in 1..Len(journal) : journal[i] \in Entries
      /\ Entry(k, a).of = a
  BY LenProperties, ElementOfSeq DEF TypeOK, Writes, Entry
<1>1. /\ (\A m \in 1..n : journal[m].of # a) => row'[a] = row[a]
      /\ \A m \in 1..n : journal[m].of = a /\ (\A j \in m + 1..n : journal[j].of # a) =>
           row'[a] \in {"posted", journal[m].kind}
      /\ \A m \in 1..n : journal[m].of # a \/ journal[m] = Entry(journal[m].kind, a)
  <2>1. \A m \in 1..n : journal[m].of # a \/ journal[m] = Entry(journal[m].kind, a)
    BY <1>0, PrepareIsNoEvent, HistoryAssumption DEF Entry, Entries
  <2> QED
    BY <2>1 DEF Writes
<1>2. NotOf(a) => row'[a] = row[a] /\ NotOf(a)'
  BY <1>0, <1>1 DEF NotOf
<1>3. ASSUME NEW i \in 1..Len(journal), journal[i] = Entry(k, a),
             \A j \in i + 1..Len(journal) : journal[j].of # a
      PROVE  row'[a] = "posted" \/ LastWord(a, k)'
  <2>1. CASE i <= n
    <3>1. NotOf(a)'
      <4> SUFFICES ASSUME NEW m \in 1..Len(journal') PROVE journal'[m].of # a
        BY DEF NotOf
      <4>1. m + n \in i + 1..Len(journal) /\ journal'[m] = journal[m + n]
        BY <1>0, <2>1
      <4> QED
        BY <1>3, <4>1
    <3>2. i \in 1..n /\ journal[i].of = a /\ journal[i].kind = k
      BY <1>3, <2>1 DEF Entry
    <3>3. \A j \in i + 1..n : journal[j].of # a
      BY <1>0, <1>3
    <3>4. row'[a] \in {"posted", k}
      BY <1>1, <3>2, <3>3
    <3> QED
      BY <3>1, <3>4 DEF LastWord
  <2>2. CASE i > n
    <3>1. i - n \in 1..Len(journal') /\ journal'[i - n] = Entry(k, a)
      BY <1>0, <1>3, <2>2
    <3>2. \A j \in (i - n) + 1..Len(journal') : journal'[j].of # a
      BY <1>0, <1>3, <2>2
    <3> QED
      BY <3>1, <3>2 DEF LastWord, LastQueued
  <2> QED
    BY <1>0, <2>1, <2>2
<1>4. ASSUME NEW i \in 1..Len(journal'), journal'[i] = Entry(k, a),
             \A j \in i + 1..Len(journal') : journal'[j].of # a
      PROVE  LastQueued(a, k)
  <2>1. i + n \in 1..Len(journal) /\ journal[i + n] = Entry(k, a)
    BY <1>0, <1>4
  <2>2. ASSUME NEW j \in (i + n) + 1..Len(journal) PROVE journal[j].of # a
    <3>1. j - n \in i + 1..Len(journal') /\ journal'[j - n] = journal[j]
      BY <1>0
    <3> QED
      BY <1>4, <3>1
  <2> QED
    BY <2>1, <2>2 DEF LastQueued
<1>5. ASSUME row'[a] = k, NotOf(a)', k # "posted" PROVE LastWord(a, k)
  <2>0. \A j \in n + 1..Len(journal) : journal[j].of # a
    <3> SUFFICES ASSUME NEW j \in n + 1..Len(journal) PROVE journal[j].of # a
      OBVIOUS
    <3>1. j - n \in 1..Len(journal') /\ journal'[j - n] = journal[j]
      BY <1>0
    <3> QED
      BY <1>5, <3>1 DEF NotOf
  <2>1. CASE \A m \in 1..n : journal[m].of # a
    <3>1. NotOf(a)
      BY <1>0, <2>0, <2>1 DEF NotOf
    <3> QED
      BY <1>2, <1>5, <3>1 DEF LastWord
  <2>2. CASE \E m \in 1..n : journal[m].of = a
    <3>1. PICK i \in 1..n : journal[i].of = a /\ \A j \in 1..n : journal[j].of = a => j <= i
      <4> DEFINE X == {m \in 1..n : journal[m].of = a}
      <4>1. n \in Nat /\ X \in SUBSET (1..n) /\ X # {}
        BY <1>0, <2>2
      <4>2. PICK i \in X : \A j \in X : j <= i
        <5> HIDE DEF X
        <5> QED
          BY <4>1, LastPosition
      <4> QED
        BY <4>2
    <3>2. \A j \in i + 1..n : journal[j].of # a
      BY <1>0, <3>1
    <3>3. row'[a] \in {"posted", journal[i].kind}
      BY <1>1, <3>1, <3>2
    <3>4. journal[i] = Entry(k, a)
      BY <1>1, <1>5, <3>1, <3>3
    <3>5. \A j \in i + 1..Len(journal) : journal[j].of # a
      BY <1>0, <2>0, <3>2
    <3> QED
      BY <1>0, <3>4, <3>5 DEF LastWord, LastQueued
  <2> QED
    BY <2>1, <2>2
<1> QED
  BY <1>2, <1>3, <1>4, <1>5 DEF LastWord, LastQueued

\* The preparation of the history is queued before anything else.
PrepareAlone ==
    (\E i \in 1..Len(journal) : journal[i] = Prepare) =>
        /\ journal = <<Prepare>> /\ ~checked /\ prepared = "none"
        /\ phase = "none" /\ plan = NoPlan

\* Outside the transfer no connection has an article.
Quiet == \A a \in Articles :
    /\ phase \in {"finalized", "over"} => art[a] \notin {"sent", "ambiguous"}
    /\ phase = "preparing" => art[a] \in {"out", "todo"}

\* From the preparation on, an article that the history is to leave in flight
\* has been written by a job that waits for its answer or has it, or that ended
\* without a word on it.
InUse == checked \/ prepared = "ok" \/ plan # NoPlan \/ phase # "none"
Awaited(a) == art[a] \in {"sent", "won", "lost"} /\ fileOf[a] \in ids
Settled ==
    InUse => \A a \in Articles :
        LastWord(a, "posting") =>
            Awaited(a) \/ (a \in abandoned /\ fileOf[a] \in Registered)

\* A loss that its connection waits for is queued; one it no longer waits for is
\* written.
Durable ==
    nbFaults = 0 => \A a \in Articles : fileOf[a] \in ids =>
        /\ art[a] = "ambiguous" => row[a] = "posted" \/ LastWord(a, "unknown")
        /\ art[a] = "unknown" => row[a] = "posted" \/ (row[a] = "unknown" /\ NotOf(a))

FlightInv == ResendInv /\ PrepareAlone /\ Quiet /\ Settled /\ Durable

LEMMA FlightInit == Init => FlightInv
<1> SUFFICES ASSUME Init PROVE FlightInv
  OBVIOUS
<1>1. PrepareAlone /\ Quiet /\ Settled /\ Durable
  BY DEF Init, PrepareAlone, Quiet, Settled, InUse, Durable
<1> QED
  BY <1>1, ResendInit DEF FlightInv

LEMMA PrepareAloneStep ==
    ASSUME FlightInv, [Next]_vars
    PROVE  PrepareAlone'
<1>0. /\ TypeOK /\ PrepareAlone /\ Len(journal) \in Nat
      /\ \A i \in 1..Len(journal) : journal[i] \in Entries
      /\ \A a \in Articles : art[a] # "out" => phase # "none"
  BY LenProperties, ElementOfSeq DEF FlightInv, ResendInv, RowsOfJob, TypeOK
<1>1. CASE Restart
  <2>1. /\ checked' = FALSE /\ prepared' = "none" /\ plan' = NoPlan /\ phase' = "none"
        /\ journal' = <<>> \/ journal' = <<Prepare>>
    BY <1>1 DEF Restart, NoJob
  <2>2. NoPlan' = NoPlan /\ Prepare' = Prepare
    BY DEF NoPlan, Prepare, Entry
  <2>3. CASE journal' = <<>>
    <3>1. Len(journal') = 0
      BY <2>3
    <3> QED
      BY <3>1 DEF PrepareAlone
  <2> QED
    BY <2>1, <2>2, <2>3 DEF PrepareAlone
<1>2. ASSUME ~Restart, NEW i \in 1..Len(journal'), journal'[i] = Prepare
      PROVE  \E m \in 1..Len(journal) : journal[m] = Prepare
  <2>1. CASE UNCHANGED journal
    BY <1>2, <2>1
  <2>2. ASSUME NEW e \in Entries, Adds(e), Job
        PROVE  \E m \in 1..Len(journal) : journal[m] = Prepare
    <3>1. e # Prepare
      <4>1. ASSUME NEW b \in Articles, StepOf(b) PROVE e # Prepare
        <5>1. \E kind \in RowStatuses : journal' = journal \/ Record(b, kind)
          BY <4>1 DEF StepOf, Send, MarkUnknown, LeftInFlight, OnArticle, Reply, FlushReturns,
             Write, RowStatuses
        <5>2. \E kind \in RowStatuses : Adds(Entry(kind, b)) \/ journal' = journal
          BY <1>0, <5>1, RecordAdds
        <5> QED
          BY <1>0, <2>2, <5>2, AddsOne, PrepareIsNoEvent DEF Entry
      <4>2. ASSUME NEW f \in Files, onNntpFilePosted(f) \/ onNntpErrorReading(f)
            PROVE  e # Prepare
        <5>1. \E kind \in FileStatuses : Adds(Entry(kind, f)) \/ journal' = journal
          BY <1>0, <4>2, StatusAdds
        <5> QED
          BY <1>0, <2>2, <5>1, AddsOne, PrepareIsNoEvent DEF Entry
      <4>3. ASSUME Stop \/ \E ok \in BOOLEAN : FinalizePost(ok) \/ _closeNzb(ok) PROVE FALSE
        <5>1. journal' = journal
          BY <4>3 DEF Stop, FinalizePost, _closeNzb
        <5> QED
          BY <1>0, <2>2, <5>1, AddsOne
      <4>4. \/ \E b \in Articles : StepOf(b)
            \/ \E f \in Files : onNntpFilePosted(f) \/ onNntpErrorReading(f)
            \/ Stop \/ \E ok \in BOOLEAN : FinalizePost(ok) \/ _closeNzb(ok)
        BY <2>2 DEF Job, StepOf
      <4> QED
        BY <4>1, <4>2, <4>3, <4>4
    <3> QED
      BY <1>0, <1>2, <2>2, <3>1 DEF Adds
  <2>3. ASSUME NEW k \in 1..Len(journal), Drops(k)
        PROVE  \E m \in 1..Len(journal) : journal[m] = Prepare
    <3>1. /\ Len(journal') = Len(journal) - 1
          /\ journal'[i] = IF i < k THEN journal[i] ELSE journal[i + 1]
      BY <1>2, <2>3 DEF Drops
    <3>2. i \in 1..Len(journal) /\ i + 1 \in 1..Len(journal)
      BY <1>0, <1>2, <3>1
    <3> QED
      BY <1>2, <3>1, <3>2
  <2>4. ASSUME NEW n \in 1..Len(journal), Writes(n)
        PROVE  \E m \in 1..Len(journal) : journal[m] = Prepare
    <3>1. /\ Len(journal') = Len(journal) - n
          /\ \A m \in 1..Len(journal') : journal'[m] = journal[m + n]
      BY <2>4 DEF Writes
    <3>2. i + n \in 1..Len(journal) /\ journal[i + n] = Prepare
      BY <1>0, <1>2, <3>1
    <3> QED
      BY <3>2
  <2>5. ASSUME NEW ok \in BOOLEAN, PrepareForUse(ok)
        PROVE  \E m \in 1..Len(journal) : journal[m] = Prepare
    <3>1. journal # <<>> /\ Head(journal) = Prepare /\ journal \in Seq(Entries)
      BY <1>0, <2>5 DEF PrepareForUse, TypeOK
    <3>2. journal[1] = Prepare /\ Len(journal) >= 1
      BY <1>0, <3>1, HeadTailProperties
    <3> QED
      BY <1>0, <3>2
  <2>6. ASSUME NEW ok \in BOOLEAN, _ensureHistoryStore(ok) PROVE UNCHANGED journal
    BY <2>6 DEF _ensureHistoryStore
  <2> QED
    BY <1>0, <1>2, <2>1, <2>2, <2>3, <2>4, <2>5, <2>6, QueueMoves
<1>3. ASSUME ~Restart, PrepareAlone, NEW i \in 1..Len(journal), journal[i] = Prepare
      PROVE  PrepareAlone'
  <2>0. /\ journal = <<Prepare>> /\ Len(journal) = 1 /\ journal[1] = Prepare
        /\ ~checked /\ prepared = "none" /\ phase = "none" /\ plan = NoPlan
        /\ ~Reached /\ journal # <<>> /\ Prepare.of \notin Articles
        /\ \A a \in Articles : art[a] = "out"
    BY <1>0, <1>3, PrepareIsNoEvent DEF PrepareAlone, Reached, OnlyEvents, IsEvent
  <2>1. CASE Worker
    <3>1. ASSUME NEW n \in 1..Len(journal), FlushArticleEvents(n) PROVE FALSE
      BY <1>0, <2>0, <3>1, WritesBatch DEF Writes, IsEvent
    <3>2. ASSUME NEW k \in 1..Len(journal), UpdateFileStatus(k) PROVE FALSE
      BY <2>0, <3>2, PrepareIsNoEvent DEF UpdateFileStatus
    <3>3. ASSUME NEW ok \in BOOLEAN, PrepareForUse(ok) PROVE Len(journal') = 0
      BY <2>0, <3>3 DEF PrepareForUse
    <3>4. Len(journal') = 0
      BY <2>1, <3>1, <3>2, <3>3 DEF Worker
    <3> QED
      BY <3>4 DEF PrepareAlone
  <2>2. CASE Application
    BY <1>3, <2>0, <2>2 DEF Application, OnPrepared, _ensureHistoryStore, StartTransfer, CreatePost,
       RegisterHistoryFile, _abortBeforeTransfer, Resume, StartResume, JobDeleted
  <2>3. CASE Job
    <3>1. ~Job
      BY <2>0 DEF Job, Send, MarkUnknown, LeftInFlight, OnArticle, Reply, FlushReturns,
         onNntpFilePosted, onNntpErrorReading, Stop, FinalizePost, _closeNzb
    <3> QED
      BY <2>3, <3>1
  <2>4. CASE UNCHANGED vars
    <3>1. UNCHANGED <<journal, checked, prepared, plan, phase>>
      BY <2>4 DEF vars, appVars, jobVars
    <3> QED
      BY <1>0, <3>1 DEF PrepareAlone
  <2> QED
    BY <2>1, <2>2, <2>3, <2>4 DEF Next
<1> QED
  BY <1>0, <1>1, <1>2, <1>3 DEF PrepareAlone

\* How the phase of a job changes.
LEMMA PhaseMoves ==
    ASSUME TypeOK, [Next]_vars
    PROVE  \/ phase' = phase
           \/ CreatePost \/ StartResume \/ JobDeleted \/ Restart
           \/ phase = "preparing" /\ _abortBeforeTransfer
           \/ phase = "preparing" /\ \E ok \in BOOLEAN : StartTransfer(ok)
           \/ phase = "sending" /\ phase' = "closing" /\ Job
           \/ phase = "closing" /\ \E ok \in BOOLEAN : FinalizePost(ok)
           \/ phase = "finalized" /\ \E ok \in BOOLEAN : _closeNzb(ok)
<1>1. CASE Worker
  BY <1>1 DEF Worker, FlushArticleEvents, UpdateFileStatus, PrepareForUse, jobVars
<1>2. CASE Application
  BY <1>2 DEF Application, OnPrepared, _ensureHistoryStore, StartTransfer, RegisterHistoryFile,
     _abortBeforeTransfer, Resume, jobVars
<1>3. CASE Job
  <2>1. CASE \E a \in Articles : StepOf(a)
    BY <2>1 DEF StepOf, Send, MarkUnknown, LeftInFlight, OnArticle, Reply, FlushReturns, jobVars
  <2>2. CASE \E f \in Files : onNntpFilePosted(f) \/ onNntpErrorReading(f)
    BY <1>3, <2>2 DEF onNntpFilePosted, onNntpErrorReading, FileOver
  <2>3. CASE Stop \/ \E ok \in BOOLEAN : FinalizePost(ok) \/ _closeNzb(ok)
    BY <1>3, <2>3 DEF Stop, FinalizePost, _closeNzb
  <2> QED
    BY <1>3, <2>1, <2>2, <2>3 DEF Job, StepOf
<1>4. CASE UNCHANGED vars
  BY <1>4 DEF vars, jobVars
<1> QED
  BY <1>1, <1>2, <1>3, <1>4 DEF Next

LEMMA QuietStep ==
    ASSUME TypeOK, Quiet, [Next]_vars
    PROVE  Quiet'
<1> SUFFICES ASSUME NEW a \in Articles
             PROVE  /\ phase' \in {"finalized", "over"} => art'[a] \notin {"sent", "ambiguous"}
                    /\ phase' = "preparing" => art'[a] \in {"out", "todo"}
  BY DEF Quiet
<1>0. /\ art \in [Articles -> ArtStatuses]
      /\ phase \in {"finalized", "over"} => art[a] \notin {"sent", "ambiguous"}
      /\ phase = "preparing" => art[a] \in {"out", "todo"}
  BY DEF Quiet, TypeOK
<1>1. CASE CreatePost \/ StartResume
  BY <1>1 DEF CreatePost, StartResume, NewJob
<1>2. CASE JobDeleted \/ Restart
  BY <1>2 DEF JobDeleted, Restart, NoJob
<1>3. CASE ~(CreatePost \/ StartResume \/ JobDeleted \/ Restart)
  <2>1. ASSUME NEW ok \in BOOLEAN, FinalizePost(ok) \/ StartTransfer(ok) \/ _closeNzb(ok)
               \/ _abortBeforeTransfer
        PROVE  art' = art
    BY <2>1 DEF FinalizePost, StartTransfer, _closeNzb, _abortBeforeTransfer, artVars
  <2>2. ASSUME NEW ok \in BOOLEAN, FinalizePost(ok) PROVE art'[a] \notin {"sent", "ambiguous"}
    BY <2>1, <2>2 DEF FinalizePost, AllKilled
  <2>3. ASSUME phase' = phase PROVE art'[a] = art[a] \/ StepOf(a) \/ (art[a] = "todo" /\ art'[a] = "out")
    BY <1>3, ArticleMoves DEF Still
  <2>4. ASSUME StepOf(a), phase \notin {"sending", "closing"}
        PROVE  /\ phase \in {"finalized", "over"} => art'[a] \notin {"sent", "ambiguous"}
               /\ phase # "preparing"
    <3>1. CASE OnArticle(a)
      <4>1. \E s \in {"posted", "failed"} : art' = [art EXCEPT ![a] = s]
        BY <3>1 DEF OnArticle
      <4> QED
        BY <1>0, <3>1, <4>1 DEF OnArticle
    <3>2. ASSUME NEW ok \in BOOLEAN, FlushReturns(a, ok)
          PROVE  art[a] = "ambiguous" /\ art'[a] = "unknown"
      BY <1>0, <3>2 DEF FlushReturns
    <3> QED
      BY <1>0, <2>4, <3>1, <3>2 DEF StepOf, Send, MarkUnknown, LeftInFlight, Reply
  <2>5. CASE phase' = phase
    BY <1>0, <2>3, <2>4, <2>5
  <2>6. CASE \E ok \in BOOLEAN : FinalizePost(ok) \/ StartTransfer(ok) \/ _closeNzb(ok)
    BY <1>0, <2>1, <2>2, <2>6 DEF FinalizePost, StartTransfer, _closeNzb
  <2>7. CASE _abortBeforeTransfer
    BY <1>0, <2>1, <2>7 DEF _abortBeforeTransfer
  <2> QED
    BY <1>3, <2>5, <2>6, <2>7, PhaseMoves
<1> QED
  BY <1>1, <1>2, <1>3

\* What an action on an article records of it.
LEMMA StepMoves ==
    ASSUME TypeOK, NEW a \in Articles, StepOf(a)
    PROVE  /\ UNCHANGED <<row, fileRow, post, ids, files, filesFailed, over, finished, resumed,
                          unreliable, phase, plan, nzb, nzbOpen, published, checked, prepared>>
           /\ \/ Record(a, "posting") /\ art[a] \in {"todo", "unknown", "sent"} /\ art'[a] = "sent"
              \/ Record(a, "unknown") /\ art[a] = "sent" /\ art'[a] = "ambiguous"
              \/ Record(a, "posted") /\ art[a] = "won" /\ art'[a] = "posted"
              \/ Record(a, "failed") /\ art[a] = "lost" /\ art'[a] = "failed"
              \/ UNCHANGED journal /\ art[a] = "sent" /\ art'[a] \in {"won", "lost"}
              \/ UNCHANGED journal /\ art[a] = "sent" /\ art'[a] = "left" /\ a \in abandoned'
              \/ /\ UNCHANGED journal /\ art[a] = "ambiguous" /\ art'[a] = "unknown"
                 /\ \E ok \in BOOLEAN : FlushReturns(a, ok)
<1>0. art \in [Articles -> ArtStatuses]
  BY DEF TypeOK
<1>1. UNCHANGED <<row, fileRow, post, ids, files, filesFailed, over, finished, resumed,
                  unreliable, phase, plan, nzb, nzbOpen, published, checked, prepared>>
  BY DEF StepOf, Send, MarkUnknown, LeftInFlight, OnArticle, Reply, FlushReturns, dbVars,
     appVars, jobVars,
     nzbVars
<1>2. CASE Send(a)
  BY <1>0, <1>1, <1>2 DEF Send, Write
<1>3. CASE MarkUnknown(a) \/ LeftInFlight(a)
  BY <1>0, <1>1, <1>3 DEF MarkUnknown, LeftInFlight
<1>4. CASE OnArticle(a)
  BY <1>0, <1>1, <1>4 DEF OnArticle
<1>5. ASSUME NEW ok \in BOOLEAN, Reply(a, ok)
      PROVE  \/ Record(a, "posting") /\ art[a] = "sent" /\ art'[a] = "sent"
             \/ UNCHANGED journal /\ art[a] = "sent" /\ art'[a] \in {"won", "lost"}
  BY <1>0, <1>5 DEF Reply, Write
<1>6. ASSUME NEW ok \in BOOLEAN, FlushReturns(a, ok)
      PROVE  UNCHANGED journal /\ art[a] = "ambiguous" /\ art'[a] = "unknown"
  BY <1>0, <1>6 DEF FlushReturns
<1> QED
  BY <1>1, <1>2, <1>3, <1>4, <1>5, <1>6 DEF StepOf

\* The history comes into use with a preparation.
LEMMA UseStep ==
    ASSUME TypeOK, [Next]_vars, InUse',
           ~ \E ok \in BOOLEAN : PrepareForUse(ok) \/ _ensureHistoryStore(ok)
    PROVE  InUse /\ ~Restart
<1>1. ~Restart
  <2> SUFFICES ASSUME Restart PROVE FALSE
    OBVIOUS
  <2>1. checked' = FALSE /\ prepared' = "none" /\ plan' = NoPlan /\ phase' = "none"
    BY DEF Restart, NoJob
  <2>2. NoPlan' = NoPlan
    BY DEF NoPlan
  <2> QED
    BY <2>1, <2>2 DEF InUse
<1>2. CASE CreatePost \/ StartResume \/ JobDeleted
  BY <1>1, <1>2 DEF CreatePost, StartResume, JobDeleted, InUse
<1>3. CASE OnPrepared
  <2>1. UNCHANGED <<plan, phase>>
    BY <1>3 DEF OnPrepared, jobVars
  <2> QED
    BY <1>1, <1>3, <2>1 DEF OnPrepared, InUse
<1>4. CASE Resume
  BY <1>1, <1>4 DEF Resume, InUse
<1>5. CASE ~(CreatePost \/ StartResume \/ JobDeleted \/ OnPrepared \/ Resume)
  <2>1. GoesOn
    BY <1>1, <1>5, Steps
  <2>2. plan' = plan /\ (phase' = "none" <=> phase = "none")
    BY <1>5, <2>1 DEF GoesOn
  <2>3. UNCHANGED <<checked, prepared>>
    <3>1. CASE Worker
      BY <3>1 DEF Worker, FlushArticleEvents, UpdateFileStatus, appVars
    <3>2. CASE Application
      BY <1>1, <1>5, <3>2 DEF Application, StartTransfer, RegisterHistoryFile,
         _abortBeforeTransfer, appVars
    <3>3. CASE Job
      BY <3>3 DEF Job, Send, MarkUnknown, LeftInFlight, OnArticle, Reply, FlushReturns,
         onNntpFilePosted, onNntpErrorReading, Stop, FinalizePost, _closeNzb, appVars
    <3>4. CASE UNCHANGED vars
      BY <3>4 DEF vars, appVars
    <3> QED
      BY <3>1, <3>2, <3>3, <3>4 DEF Next
  <2> QED
    BY <1>1, <2>2, <2>3 DEF InUse
<1> QED
  BY <1>2, <1>3, <1>4, <1>5

\* What the queue and the rows say of an article changes with an action on it,
\* with a batch that says it is posted, or with a preparation.
LEMMA WordStays ==
    ASSUME TypeOK, [Next]_vars, ~Restart,
           ~ \E ok \in BOOLEAN : PrepareForUse(ok) \/ _ensureHistoryStore(ok),
           NEW a \in Articles, \A e \in Entries : Adds(e) => e.of # a, NEW k \in RowStatuses
    PROVE  /\ LastWord(a, k)' /\ k # "posted" => LastWord(a, k)
           /\ LastWord(a, k) => row'[a] = "posted" \/ LastWord(a, k)'
           /\ NotOf(a) => row'[a] = row[a] /\ NotOf(a)'
<1>1. CASE UNCHANGED <<row, journal>>
  BY <1>1 DEF LastWord, LastQueued, NotOf
<1>2. ASSUME UNCHANGED row, NEW e \in Entries, Adds(e)
      PROVE  (LastWord(a, k)' <=> LastWord(a, k)) /\ (NotOf(a)' <=> NotOf(a))
  BY <1>2, WordAdded
<1>3. ASSUME UNCHANGED row, NEW n \in 1..Len(journal), Drops(n)
      PROVE  (LastWord(a, k)' <=> LastWord(a, k)) /\ (NotOf(a)' <=> NotOf(a))
  BY <1>3, WordDropped
<1>4. ASSUME NEW n \in 1..Len(journal), Writes(n)
      PROVE  /\ LastWord(a, k)' /\ k # "posted" => LastWord(a, k)
             /\ LastWord(a, k) => row'[a] = "posted" \/ LastWord(a, k)'
             /\ NotOf(a) => row'[a] = row[a] /\ NotOf(a)'
  BY <1>4, WordWritten
<1> QED
  BY <1>1, <1>2, <1>3, <1>4, QueueMoves

\* A preparation finds nothing queued that it could change the end of, and
\* leaves no row in flight when it succeeds.
LEMMA PreparationStep ==
    ASSUME FlightInv, [Next]_vars, NEW ok \in BOOLEAN,
           PrepareForUse(ok) \/ _ensureHistoryStore(ok)
    PROVE  /\ UNCHANGED <<jobVars, artVars, nzbVars, fileRow, plan, abandoned>>
           /\ row' \in {row, Cleaned(row)}
           /\ InUse' /\ ~InUse => ok
           /\ ok => journal' = <<>> /\ \A a \in Articles : row'[a] # "posting"
           /\ PrepareForUse(ok) => journal' = <<>> /\ phase = "none" /\ ~InUse /\ (ok \/ ~InUse')
           /\ _ensureHistoryStore(ok) => UNCHANGED journal
           /\ ok => post' = CleanedPost
           /\ ~ok => post' = post /\ nbFaults' = nbFaults + 1
<1>0. TypeOK /\ PrepareAlone /\ Len(journal) \in Nat
  BY LenProperties DEF FlightInv, ResendInv, TypeOK
<1>1. /\ UNCHANGED <<jobVars, artVars, nzbVars, fileRow, plan, abandoned>>
      /\ row' \in {row, Cleaned(row)}
  BY DEF PrepareForUse, _ensureHistoryStore, Cleanup, Fault, NoFault, boundVars
<1>2. /\ ok => post' = CleanedPost /\ row' = Cleaned(row)
      /\ ~ok => post' = post /\ nbFaults' = nbFaults + 1
  BY DEF PrepareForUse, _ensureHistoryStore, Cleanup, Fault
<1>3. \A a \in Articles : Cleaned(row)[a] # "posting"
  BY DEF Cleaned
<1>4. phase' = phase /\ plan' = plan
  BY <1>1 DEF jobVars
<1>5. CASE PrepareForUse(ok)
  <2>1. journal # <<>> /\ Head(journal) = Prepare /\ journal \in Seq(Entries)
    BY <1>0, <1>5 DEF PrepareForUse, TypeOK
  <2>2. journal[1] = Prepare /\ Len(journal) >= 1
    BY <1>0, <2>1, HeadTailProperties
  <2>3. journal = <<Prepare>> /\ ~checked /\ prepared = "none" /\ phase = "none" /\ plan = NoPlan
    BY <1>0, <2>2 DEF PrepareAlone
  <2>4. journal' = <<>> /\ checked' = checked /\ prepared' = (IF ok THEN "ok" ELSE "failed")
    BY <1>5, <2>3 DEF PrepareForUse
  <2>5. ~InUse /\ (ok \/ ~InUse')
    BY <1>4, <2>3, <2>4 DEF InUse, NoPlan
  <2>6. ~_ensureHistoryStore(ok)
    BY <2>3, PrepareIsNoEvent DEF _ensureHistoryStore, Reached, OnlyEvents, IsEvent
  <2> QED
    BY <1>1, <1>2, <1>3, <2>3, <2>4, <2>5, <2>6
<1>6. CASE _ensureHistoryStore(ok) /\ ~PrepareForUse(ok)
  <2>1. UNCHANGED <<journal, prepared>> /\ checked' = ok /\ (ok => journal = <<>>)
    BY <1>6 DEF _ensureHistoryStore, Flushed
  <2>2. InUse' /\ ~InUse => ok
    BY <1>4, <2>1 DEF InUse, NoPlan
  <2> QED
    BY <1>1, <1>2, <1>3, <1>6, <2>1, <2>2
<1> QED
  BY <1>5, <1>6

\* An article that a job left in flight is accounted for until it is sent again.
LEMMA AbandonedStays ==
    ASSUME TypeOK, [Next]_vars, ~Restart, NEW a \in abandoned
    PROVE  a \in abandoned' \/ Send(a)
<1>1. CASE Worker
  BY <1>1 DEF Worker, FlushArticleEvents, UpdateFileStatus, PrepareForUse, Cleanup, Fault, NoFault,
     boundVars
<1>2. CASE Application
  BY <1>2 DEF Application, OnPrepared, _ensureHistoryStore, Cleanup, Fault, NoFault, StartTransfer,
     CreatePost, RegisterHistoryFile, _abortBeforeTransfer, Resume, StartResume, JobDeleted,
     boundVars
<1>3. CASE Job
  BY <1>3 DEF Job, Send, MarkUnknown, LeftInFlight, OnArticle, Reply, FlushReturns,
     onNntpFilePosted, onNntpErrorReading, Stop, FinalizePost, _closeNzb, Fault, NoFault, boundVars
<1>4. CASE UNCHANGED vars
  BY <1>4 DEF vars, boundVars
<1> QED
  BY <1>1, <1>2, <1>3, <1>4 DEF Next

LEMMA SettledStep ==
    ASSUME FlightInv, [Next]_vars
    PROVE  Settled'
<1>0. /\ TypeOK /\ RowsOfJob /\ Quiet /\ Settled /\ PrepareAlone /\ fileOf' = fileOf
      /\ "posting" \in RowStatuses /\ "posting" # "posted" /\ journal \in Seq(Known)
  BY DEF FlightInv, ResendInv, Next, vars, RowStatuses
<1> SUFFICES ASSUME InUse', NEW a \in Articles, LastWord(a, "posting")'
             PROVE  Awaited(a)' \/ (a \in abandoned' /\ fileOf[a] \in Registered')
  BY <1>0 DEF Settled
<1>1. Registered \subseteq Registered'
  BY <1>0, RegisteredStep
<1>2. ~Restart
  <2> SUFFICES ASSUME Restart PROVE FALSE
    OBVIOUS
  <2>1. ~InUse'
    <3>1. checked' = FALSE /\ prepared' = "none" /\ plan' = NoPlan /\ phase' = "none"
      BY DEF Restart, NoJob
    <3>2. NoPlan' = NoPlan
      BY DEF NoPlan
    <3> QED
      BY <3>1, <3>2 DEF InUse
  <2> QED
    BY <2>1
<1>3. ASSUME a \in abandoned, fileOf[a] \in Registered
      PROVE  Awaited(a)' \/ (a \in abandoned' /\ fileOf[a] \in Registered')
  <2>1. CASE Send(a)
    <3>1. art[a] # "out" /\ art'[a] = "sent" /\ ids' = ids
      BY <1>0, <2>1 DEF Send, jobVars, TypeOK
    <3> QED
      BY <1>0, <1>3, <3>1 DEF RowsOfJob, Awaited
  <2> QED
    BY <1>0, <1>1, <1>2, <1>3, <2>1, AbandonedStays
<1>4. CASE CreatePost \/ StartResume \/ JobDeleted
  <2>1. UNCHANGED <<row, journal>>
    BY <1>4 DEF CreatePost, StartResume, JobDeleted, dbVars
  <2>2. LastWord(a, "posting")
    BY <2>1 DEF LastWord, LastQueued, NotOf
  <2>3. InUse
    BY <1>4 DEF CreatePost, StartResume, JobDeleted, InUse
  <2>4. CASE Awaited(a)
    <3>1. phase # "none" /\ art[a] \in {"sent", "won", "lost"}
      BY <1>0, <2>4 DEF RowsOfJob, Awaited
    <3> QED
      BY <1>0, <1>4, <3>1 DEF CreatePost, StartResume, JobDeleted, Quiet
  <2> QED
    BY <1>0, <1>3, <2>2, <2>3, <2>4 DEF Settled
<1>5. ASSUME NEW ok \in BOOLEAN, PrepareForUse(ok) \/ _ensureHistoryStore(ok)
      PROVE  Awaited(a)' \/ (a \in abandoned' /\ fileOf[a] \in Registered')
  <2>1. UNCHANGED <<art, ids, abandoned>> /\ row' \in {row, Cleaned(row)}
    BY <1>5, PreparationStep DEF jobVars, artVars
  <2>2. ASSUME ok PROVE FALSE
    <3>1. journal' = <<>> /\ row'[a] # "posting"
      BY <1>5, <2>2, PreparationStep
    <3>2. Len(journal') = 0
      BY <3>1
    <3> QED
      BY <3>1, <3>2 DEF LastWord, LastQueued
  <2>3. InUse /\ UNCHANGED journal
    BY <1>5, <2>2, PreparationStep
  <2>4. row'[a] = "posting" => row[a] = "posting"
    BY <2>1 DEF Cleaned
  <2>5. LastWord(a, "posting")
    BY <2>3, <2>4 DEF LastWord, LastQueued, NotOf
  <2> QED
    BY <1>0, <1>1, <2>1, <2>3, <2>5 DEF Settled, Awaited
<1>6. CASE /\ ~(CreatePost \/ StartResume \/ JobDeleted)
           /\ ~ \E ok \in BOOLEAN : PrepareForUse(ok) \/ _ensureHistoryStore(ok)
  <2>1. InUse
    BY <1>0, <1>6, UseStep
  <2>2. GoesOn
    BY <1>0, <1>2, <1>6, Steps
  <2>3. ids \subseteq ids'
    BY <2>2 DEF GoesOn, RegisterHistoryFile
  <2>4. CASE Still(a)
    <3>1. LastWord(a, "posting")
      BY <1>0, <1>2, <1>6, <2>4, WordStays DEF Still
    <3>2. CASE Awaited(a)
      BY <1>0, <2>3, <2>4, <3>2 DEF Still, Awaited
    <3> QED
      BY <1>0, <1>3, <2>1, <3>1, <3>2 DEF Settled
  <2>5. CASE StepOf(a)
    <3>1. CASE UNCHANGED journal
      <4>1. LastWord(a, "posting")
        BY <1>0, <2>5, <3>1, StepMoves DEF LastWord, LastQueued, NotOf
      <4>2. CASE Awaited(a)
        <5>1. art[a] \in {"sent", "won", "lost"} /\ fileOf[a] \in ids
          BY <4>2 DEF Awaited
        <5>2. ASSUME NEW kind \in RowStatuses, Record(a, kind) PROVE FALSE
          BY <1>0, <3>1, <5>1, <5>2, RecordAdds, AddsOne
        <5>3. art'[a] \in {"won", "lost"} \/ a \in abandoned'
          BY <1>0, <2>5, <5>1, <5>2, StepMoves DEF RowStatuses
        <5>4. fileOf[a] \in Registered'
          BY <1>0, <1>1, <5>1 DEF RowsOfJob
        <5> QED
          BY <1>0, <2>3, <5>1, <5>3, <5>4 DEF Awaited
      <4> QED
        BY <1>0, <1>3, <2>1, <4>1, <4>2 DEF Settled
    <3>2. CASE ~UNCHANGED journal
      <4>1. PICK kind \in RowStatuses : Record(a, kind) /\ (kind = "posting" => art'[a] = "sent")
        BY <1>0, <2>5, <3>2, StepMoves DEF RowStatuses
      <4>2. fileOf[a] \in ids /\ Adds(Entry(kind, a)) /\ Entry(kind, a) \in Entries
        BY <1>0, <3>2, <4>1, RecordAdds, EntryTypes
      <4>3. Entry(kind, a) = Entry("posting", a)
        <5>1. UNCHANGED row /\ Entry(kind, a).of = a
          BY <1>0, <2>5, StepMoves DEF Entry
        <5> QED
          BY <1>0, <4>2, <5>1, WordAdded
      <4>4. kind = "posting"
        BY <4>3 DEF Entry
      <4> QED
        BY <1>0, <2>3, <4>1, <4>2, <4>4 DEF Awaited
    <3> QED
      BY <3>1, <3>2
  <2> QED
    BY <1>0, <1>2, <1>6, <2>4, <2>5, ArticleMoves
<1> QED
  BY <1>4, <1>5, <1>6

\* Faults are only counted.
LEMMA FaultsGrow ==
    ASSUME TypeOK, [Next]_vars, nbFaults' = 0
    PROVE  nbFaults = 0
<1>0. nbFaults \in Nat
  BY DEF TypeOK
<1>1. CASE UNCHANGED nbFaults \/ nbFaults' = nbFaults + 1
  BY <1>0, <1>1
<1>2. CASE Worker
  BY <1>1, <1>2 DEF Worker, FlushArticleEvents, UpdateFileStatus, PrepareForUse, Cleanup, Fault,
     NoFault, boundVars
<1>3. CASE Application
  <2>1. ASSUME NEW ok \in BOOLEAN, StartTransfer(ok) PROVE nbFaults = 0
    <3>1. Cardinality(files \ ids) \in Nat
      BY HistoryAssumption, FS_Subset, FS_CardinalityType DEF TypeOK
    <3>2. nbFaults' = nbFaults + (Cardinality(files \ ids) + (IF ok THEN 0 ELSE 1))
      BY <2>1 DEF StartTransfer
    <3> QED
      BY <1>0, <3>1, <3>2
  <2> QED
    BY <1>1, <1>3, <2>1 DEF Application, OnPrepared, _ensureHistoryStore, Cleanup, Fault, NoFault,
       CreatePost, RegisterHistoryFile, _abortBeforeTransfer, Resume, StartResume, JobDeleted,
       Restart, boundVars
<1>4. CASE Job
  BY <1>1, <1>4 DEF Job, Send, MarkUnknown, LeftInFlight, OnArticle, Reply, FlushReturns,
     onNntpFilePosted, onNntpErrorReading, Stop, FinalizePost, _closeNzb, Fault, NoFault, boundVars
<1>5. CASE UNCHANGED vars
  BY <1>1, <1>5 DEF vars, boundVars
<1> QED
  BY <1>2, <1>3, <1>4, <1>5 DEF Next

LEMMA DurableStep ==
    ASSUME FlightInv, [Next]_vars
    PROVE  Durable'
<1>0. /\ TypeOK /\ RowsOfJob /\ Quiet /\ Durable /\ fileOf' = fileOf
      /\ {"unknown", "posted", "posting", "failed"} \subseteq RowStatuses /\ "unknown" # "posted"
      /\ art \in [Articles -> ArtStatuses]
  BY DEF FlightInv, ResendInv, Next, vars, RowStatuses, TypeOK
<1> SUFFICES ASSUME nbFaults' = 0, NEW a \in Articles, fileOf[a] \in ids'
             PROVE  /\ art'[a] = "ambiguous" => row'[a] = "posted" \/ LastWord(a, "unknown")'
                    /\ art'[a] = "unknown" =>
                          row'[a] = "posted" \/ (row'[a] = "unknown" /\ NotOf(a)')
  BY <1>0 DEF Durable
<1>1. nbFaults = 0
  BY <1>0, FaultsGrow
<1>2. CASE art'[a] \in {"out", "todo"}
  BY <1>2
<1>3. CASE CreatePost \/ StartResume \/ JobDeleted \/ Restart
  <2>1. art'[a] \in {"out", "todo"}
    BY <1>3 DEF CreatePost, StartResume, JobDeleted, Restart, NewJob, NoJob
  <2> QED
    BY <1>2, <2>1
<1>4. ASSUME NEW ok \in BOOLEAN, PrepareForUse(ok) \/ _ensureHistoryStore(ok), fileOf[a] \in ids,
             art'[a] \notin {"out", "todo"}
      PROVE  /\ art'[a] = "ambiguous" => row'[a] = "posted" \/ LastWord(a, "unknown")'
             /\ art'[a] = "unknown" =>
                   row'[a] = "posted" \/ (row'[a] = "unknown" /\ NotOf(a)')
  <2>1. UNCHANGED <<art, ids>> /\ row' \in {row, Cleaned(row)}
    BY <1>4, PreparationStep DEF jobVars, artVars
  <2>2. UNCHANGED journal
    <3>1. phase # "none"
      BY <1>0, <1>4, <2>1 DEF RowsOfJob
    <3> QED
      BY <1>4, <3>1, PreparationStep
  <2>3. /\ row[a] = "posted" => row'[a] = "posted"
        /\ row[a] = "unknown" => row'[a] = "unknown"
    BY <2>1 DEF Cleaned
  <2>4. /\ art[a] = "ambiguous" => row[a] = "posted" \/ LastWord(a, "unknown")
        /\ art[a] = "unknown" => row[a] = "posted" \/ (row[a] = "unknown" /\ NotOf(a))
    BY <1>0, <1>1, <1>4 DEF Durable
  <2>5. NotOf(a)' <=> NotOf(a)
    BY <2>2 DEF NotOf
  <2>6. LastQueued(a, "unknown")' <=> LastQueued(a, "unknown")
    BY <2>2 DEF LastQueued
  <2> QED
    BY <2>1, <2>3, <2>4, <2>5, <2>6 DEF LastWord
<1>5. CASE ~(CreatePost \/ StartResume \/ JobDeleted \/ Restart)
  <2>1. GoesOn
    BY <1>0, <1>5, Steps
  <2>2. CASE \E f \in Files : RegisterHistoryFile(f)
    <3>1. phase = "preparing" /\ art' = art
      BY <2>2 DEF RegisterHistoryFile, artVars
    <3> QED
      BY <1>0, <1>2, <3>1 DEF Quiet
  <2>3. CASE UNCHANGED ids
    <3>1. fileOf[a] \in ids
      BY <2>3
    <3>2. /\ art[a] = "ambiguous" => row[a] = "posted" \/ LastWord(a, "unknown")
          /\ art[a] = "unknown" => row[a] = "posted" \/ (row[a] = "unknown" /\ NotOf(a))
      BY <1>0, <1>1, <3>1 DEF Durable
    <3>3. row[a] = "posted" => row'[a] = "posted"
      <4>1. journal \in Seq(Entries)
        BY <1>0 DEF TypeOK
      <4> QED
        BY <1>0, <4>1, RowStep
    <3>4. CASE \E ok \in BOOLEAN : PrepareForUse(ok) \/ _ensureHistoryStore(ok)
      BY <1>2, <1>4, <3>1, <3>4
    <3>5. CASE Still(a) /\ ~ \E ok \in BOOLEAN : PrepareForUse(ok) \/ _ensureHistoryStore(ok)
      <4>1. /\ LastWord(a, "unknown") => row'[a] = "posted" \/ LastWord(a, "unknown")'
            /\ NotOf(a) => row'[a] = row[a] /\ NotOf(a)'
        BY <1>0, <1>5, <3>5, WordStays DEF Still
      <4> QED
        BY <3>2, <3>3, <3>5, <4>1 DEF Still
    <3>6. CASE StepOf(a)
      <4>1. CASE Record(a, "unknown") /\ art'[a] = "ambiguous"
        <5>1. Adds(Entry("unknown", a)) /\ Entry("unknown", a) \in Entries /\ UNCHANGED row
              /\ Entry("unknown", a).of = a
          BY <1>0, <3>1, <3>6, <4>1, RecordAdds, EntryTypes, StepMoves DEF Entry
        <5>2. LastWord(a, "unknown")'
          BY <1>0, <5>1, WordAdded
        <5> QED
          BY <4>1, <5>2
      <4>2. ASSUME NEW ok \in BOOLEAN, FlushReturns(a, ok), UNCHANGED <<row, journal>>
            PROVE  row'[a] = "posted" \/ (row'[a] = "unknown" /\ NotOf(a)')
        <5>1. art[a] = "ambiguous" /\ ~Queued(a, "unknown")
          BY <1>0, <1>1, <4>2 DEF FlushReturns, Fault
        <5>2. row[a] = "posted" \/ (row[a] = "unknown" /\ NotOf(a))
          BY <3>2, <5>1 DEF LastWord, LastQueued, Queued
        <5>3. NotOf(a)' <=> NotOf(a)
          BY <4>2 DEF NotOf
        <5> QED
          BY <4>2, <5>2, <5>3
      <4>3. CASE art'[a] \in {"sent", "posted", "failed", "won", "lost"}
        BY <4>3
      <4>4. CASE /\ art'[a] = "unknown" /\ UNCHANGED <<row, journal>>
                 /\ \E ok \in BOOLEAN : FlushReturns(a, ok)
        BY <4>2, <4>4
      <4> QED
        BY <1>0, <3>6, <4>1, <4>3, <4>4, StepMoves
    <3> QED
      BY <1>0, <1>5, <3>4, <3>5, <3>6, ArticleMoves
  <2> QED
    BY <2>1, <2>2, <2>3 DEF GoesOn
<1> QED
  BY <1>3, <1>5

LEMMA FlightStep == FlightInv /\ [Next]_vars => FlightInv'
<1> SUFFICES ASSUME FlightInv, [Next]_vars PROVE FlightInv'
  OBVIOUS
<1>1. ResendInv' /\ Quiet'
  BY ResendStep, QuietStep DEF FlightInv, ResendInv
<1> QED
  BY <1>1, PrepareAloneStep, SettledStep, DurableStep DEF FlightInv

\* With no job, an article that a job did not leave in flight and whose end is
\* not queued is not in flight.
LEMMA FlightIsLive == FlightInv => InFlightIsLive
<1> SUFFICES ASSUME FlightInv, checked, phase = "none", NEW a \in Articles, row[a] = "posting",
                    a \notin abandoned
             PROVE  \E k \in RowStatuses \ {"posting"} : Queued(a, k)
  BY DEF InFlightIsLive
<1>0. /\ Len(journal) \in Nat /\ art[a] = "out" /\ ~LastWord(a, "posting")
      /\ \A i \in 1..Len(journal) : journal[i] \in Entries
  BY LenProperties, ElementOfSeq DEF FlightInv, ResendInv, TypeOK, RowsOfJob, Settled, InUse, Awaited
<1> DEFINE X == {i \in 1..Len(journal) : journal[i].of = a}
<1>1. X \in SUBSET (1..Len(journal)) /\ X # {}
  BY <1>0 DEF LastWord, NotOf
<1>2. PICK i \in X : \A j \in X : j <= i
  <2> HIDE DEF X
  <2> QED
    BY <1>0, <1>1, LastPosition
<1>3. i \in 1..Len(journal) /\ journal[i].of = a /\ \A j \in i + 1..Len(journal) : journal[j].of # a
  BY <1>0, <1>2
<1>4. journal[i].kind \in RowStatuses /\ journal[i] = Entry(journal[i].kind, a)
  BY <1>0, <1>3, PrepareIsNoEvent, HistoryAssumption DEF Entry, Entries
<1>5. journal[i].kind # "posting"
  BY <1>0, <1>3, <1>4 DEF LastWord, LastQueued
<1> QED
  BY <1>3, <1>4, <1>5 DEF Queued

\* Between two jobs no article stays in flight in the history but one that the
\* kills of _finishPosting() left out: a crash is dealt with before the history
\* is used, and the end of any other article is queued before its job is gone
\* (_ensureHistoryStore(), markPostCrashedArticlesUnknown(), deleteLater()
\* behind the answers).
THEOREM FlightCorrect == Spec => []InFlightIsLive
BY FlightInit, FlightStep, FlightIsLive, PTL DEF Spec

\* Without a fault, the loss of an article is in its row before its connection
\* goes on (recordHistoryArticleUnknown(), FlushReturns), and no event queued
\* before takes its place.
THEOREM AmbiguityCorrect == Spec => []AmbiguityIsDurable
<1>1. FlightInv => AmbiguityIsDurable
  BY DEF FlightInv, ResendInv, TypeOK, Durable, AmbiguityIsDurable
<1> QED
  BY <1>1, FlightInit, FlightStep, PTL DEF Spec
-----------------------------------------------------------------------------
(* The files and the post. *)

Whole(f) == ArticlesOf({f}) \subseteq Posted

\* A file is queued as posted behind the confirmations of its articles, and the
\* queue keeps that order.
ArticlesFirst ==
    \A i \in 1..Len(journal) : \A f \in Files : journal[i] = Entry("posted", f) =>
        \A a \in ArticlesOf({f}) :
            row[a] = "posted" \/ \E j \in 1..i - 1 : journal[j] = Entry("posted", a)

\* An article the job counts as posted is written so, or is about to be; one it
\* has nothing to do for was posted before it.
Kept == \A a \in Articles :
    /\ art[a] = "posted" /\ fileOf[a] \in ids => row[a] = "posted" \/ Queued(a, "posted")
    /\ art[a] = "out" /\ fileOf[a] \in files \ filesFailed => row[a] = "posted"

\* A file that is over has nothing left to send, unless it could not be read.
OverDone ==
    /\ \A a \in Articles : fileOf[a] \in over \ filesFailed => art[a] \in {"out", "posted", "failed"}
    /\ finished => over = files
    /\ phase = "preparing" => over = {}
    /\ filesFailed \subseteq over

\* The files a plan or a resume leaves aside are whole.
Elsewhere ==
    /\ plan # NoPlan => plan.posted \subseteq Posted /\ \A f \in Registered \ plan.files : Whole(f)
    /\ resumed => \A f \in Registered \ files : Whole(f)

\* A fresh job is of the whole post, and begins with nothing of it announced.
Fresh ==
    /\ ~resumed /\ phase # "none" => files = PostFiles
    /\ phase = "preparing" /\ ~resumed => plan = NoPlan /\ post # "success" /\ published = Nothing
    /\ post = "absent" => published = Nothing

\* The NZB of a fresh job has the files that are over and failed in nothing.
Streamed ==
    ~resumed /\ phase # "over" =>
       \A a \in Articles : fileOf[a] \in over \ filesFailed => a \in nzb \/ Failed(fileOf[a])

\* The status that finalizePost() wrote is that of the job until it is announced.
Final == phase = "finalized" /\ ~unreliable => post = Status

WholeInv ==
    /\ FlightInv /\ ArticlesFirst /\ Kept /\ OverDone /\ Elsewhere /\ Fresh /\ Streamed /\ Final
    /\ SuccessIsWhole /\ PublishedIsWhole

LEMMA WholeInit == Init => WholeInv
<1> SUFFICES ASSUME Init PROVE WholeInv
  OBVIOUS
<1>1. ArticlesFirst
  <2>1. \A i \in 1..Len(journal) : journal[i] = Prepare
    BY DEF Init
  <2> QED
    BY <2>1, PrepareIsNoEvent DEF ArticlesFirst, Entry
<1>2. Kept /\ OverDone /\ Elsewhere /\ Fresh /\ Streamed /\ Final
  BY DEF Init, Kept, OverDone, Elsewhere, Fresh, Streamed, Final
<1>3. SuccessIsWhole /\ PublishedIsWhole
  BY DEF Init, SuccessIsWhole, PublishedIsWhole, Nothing
<1> QED
  BY <1>1, <1>2, <1>3, FlightInit DEF WholeInv

\* Between the beginning and the end of a job, a file is over once.
LEMMA FileMoves ==
    ASSUME TypeOK, [Next]_vars, ~(CreatePost \/ StartResume \/ JobDeleted \/ Restart)
    PROVE  \/ UNCHANGED <<over, filesFailed, finished>> /\ ~ \E f \in Files : onNntpFilePosted(f)
           \/ \E f \in files \ over :
                 /\ over' = over \cup {f} /\ finished' = (over' = files) /\ phase = "sending"
                 /\ \/ onNntpFilePosted(f) /\ UNCHANGED <<art, filesFailed>>
                    \/ onNntpErrorReading(f) /\ filesFailed' = filesFailed \cup {f}
<1>1. ASSUME NEW f \in Files, onNntpFilePosted(f)
      PROVE  /\ f \in files \ over /\ over' = over \cup {f} /\ finished' = (over' = files)
             /\ phase = "sending" /\ UNCHANGED <<art, filesFailed>>
  BY <1>1 DEF onNntpFilePosted, FileOver, artVars
<1>2. ASSUME NEW f \in Files, onNntpErrorReading(f)
      PROVE  /\ f \in files \ over /\ over' = over \cup {f} /\ finished' = (over' = files)
             /\ phase = "sending" /\ filesFailed' = filesFailed \cup {f}
  BY <1>2 DEF onNntpErrorReading, FileOver
<1>3. ASSUME ~ \E f \in Files : onNntpFilePosted(f) \/ onNntpErrorReading(f)
      PROVE  UNCHANGED <<over, filesFailed, finished>>
  <2>1. CASE Worker
    BY <2>1 DEF Worker, FlushArticleEvents, UpdateFileStatus, PrepareForUse, jobVars
  <2>2. CASE Application
    BY <2>2 DEF Application, OnPrepared, _ensureHistoryStore, StartTransfer, RegisterHistoryFile,
       _abortBeforeTransfer, Resume, jobVars
  <2>3. CASE Job
    BY <1>3, <2>3 DEF Job, Send, MarkUnknown, LeftInFlight, OnArticle, Reply, FlushReturns, Stop,
       FinalizePost,
       _closeNzb, jobVars
  <2>4. CASE UNCHANGED vars
    BY <2>4 DEF vars, jobVars
  <2> QED
    BY <2>1, <2>2, <2>3, <2>4 DEF Next
<1> QED
  BY <1>1, <1>2, <1>3

\* Who writes the row of the post, those of its files and the NZB.
LEMMA PostMoves ==
    ASSUME TypeOK, [Next]_vars
    PROVE  \/ post' = post
           \/ CreatePost /\ post' = "posting"
           \/ (\E ok \in BOOLEAN : PrepareForUse(ok) \/ _ensureHistoryStore(ok)) /\ post' = CleanedPost
           \/ (\E ok \in BOOLEAN : StartTransfer(ok)) /\ post' = "posting"
           \/ FinalizePost(TRUE) /\ post' = Status
<1>1. CASE Worker
  BY <1>1 DEF Worker, FlushArticleEvents, UpdateFileStatus, PrepareForUse, Cleanup
<1>2. CASE Application
  BY <1>2 DEF Application, OnPrepared, _ensureHistoryStore, Cleanup, StartTransfer, CreatePost,
     RegisterHistoryFile, _abortBeforeTransfer, Resume, StartResume, JobDeleted, Restart, dbVars
<1>3. CASE Job
  <2>1. ASSUME NEW ok \in BOOLEAN, FinalizePost(ok)
        PROVE  post' = post \/ (FinalizePost(TRUE) /\ post' = Status)
    BY <2>1 DEF FinalizePost
  <2> QED
    BY <1>3, <2>1 DEF Job, Send, MarkUnknown, LeftInFlight, OnArticle, Reply, FlushReturns,
       onNntpFilePosted, onNntpErrorReading, Stop, _closeNzb, dbVars
<1>4. CASE UNCHANGED vars
  BY <1>4 DEF vars, dbVars
<1> QED
  BY <1>1, <1>2, <1>3, <1>4 DEF Next

LEMMA FileRowMoves ==
    ASSUME TypeOK, [Next]_vars
    PROVE  \/ fileRow' = fileRow
           \/ \E f \in Files : RegisterHistoryFile(f) /\ fileRow' = [fileRow EXCEPT ![f] = "pending"]
           \/ \E e \in Entries : /\ Len(journal) >= 1 /\ journal[1] = e /\ e.of \in Files
                                 /\ fileRow' = [fileRow EXCEPT ![e.of] = e.kind]
<1>1. CASE Worker
  <2>1. ASSUME NEW i \in 1..Len(journal), UpdateFileStatus(i), fileRow' # fileRow
        PROVE  \E e \in Entries : /\ Len(journal) >= 1 /\ journal[1] = e /\ e.of \in Files
                                  /\ fileRow' = [fileRow EXCEPT ![e.of] = e.kind]
    <3>1. journal[i] \in Entries /\ Len(journal) \in Nat
      BY ElementOfSeq, LenProperties DEF TypeOK
    <3> QED
      BY <2>1, <3>1 DEF UpdateFileStatus
  <2> QED
    BY <1>1, <2>1 DEF Worker, FlushArticleEvents, PrepareForUse, Cleanup
<1>2. CASE Application
  BY <1>2 DEF Application, OnPrepared, _ensureHistoryStore, Cleanup, StartTransfer, CreatePost,
     RegisterHistoryFile, _abortBeforeTransfer, Resume, StartResume, JobDeleted, Restart, dbVars
<1>3. CASE Job
  BY <1>3 DEF Job, Send, MarkUnknown, LeftInFlight, OnArticle, Reply, FlushReturns,
     onNntpFilePosted, onNntpErrorReading, Stop, FinalizePost, _closeNzb, dbVars
<1>4. CASE UNCHANGED vars
  BY <1>4 DEF vars, dbVars
<1> QED
  BY <1>1, <1>2, <1>3, <1>4 DEF Next

LEMMA NzbMoves ==
    ASSUME TypeOK, [Next]_vars
    PROVE  \/ nzb' = nzb /\ published' = published
           \/ Restart /\ published' = Nothing
           \/ (\E ok \in BOOLEAN : StartTransfer(ok)) /\ published' = published
           \/ (\E f \in Files : onNntpFilePosted(f)) /\ published' = published
           \/ \E ok \in BOOLEAN : _closeNzb(ok)
<1>1. CASE Worker
  BY <1>1 DEF Worker, FlushArticleEvents, UpdateFileStatus, PrepareForUse, nzbVars
<1>2. CASE Application
  BY <1>2 DEF Application, OnPrepared, _ensureHistoryStore, StartTransfer, CreatePost,
     RegisterHistoryFile, _abortBeforeTransfer, Resume, StartResume, JobDeleted, Restart, nzbVars
<1>3. CASE Job
  BY <1>3 DEF Job, Send, MarkUnknown, LeftInFlight, OnArticle, Reply, FlushReturns,
     onNntpFilePosted, onNntpErrorReading, Stop, FinalizePost, nzbVars
<1>4. CASE UNCHANGED vars
  BY <1>4 DEF vars, nzbVars
<1> QED
  BY <1>1, <1>2, <1>3, <1>4 DEF Next

\* A posted row stays posted, and so does a whole file.
LEMMA PostedGrows ==
    ASSUME TypeOK, [Next]_vars
    PROVE  /\ \A a \in Articles : row[a] = "posted" => row'[a] = "posted"
           /\ Posted \subseteq Posted'
           /\ \A f \in Files : Whole(f) => Whole(f)'
<1>1. journal \in Seq(Entries) /\ fileOf' = fileOf
  BY DEF TypeOK, Next, vars
<1>2. \A a \in Articles : row[a] = "posted" => row'[a] = "posted"
  BY <1>1, RowStep
<1>3. Posted \subseteq Posted'
  BY <1>2 DEF Posted
<1> QED
  BY <1>1, <1>2, <1>3 DEF Whole, ArticlesOf

\* A file gets its row before the transfer of a fresh job.
LEMMA NewRow ==
    ASSUME ResendInv, [Next]_vars, Registered' # Registered
    PROVE  \E f \in Files : RegisterHistoryFile(f) /\ ~resumed /\ phase = "preparing"
                            /\ Registered' = Registered \cup {f}
<1>1. PICK f \in Files : RegisterHistoryFile(f) /\ Registered' = Registered \cup {f}
  BY RegisteredStep DEF ResendInv
<1> QED
  BY <1>1 DEF RegisterHistoryFile, ResendInv, RowsOfJob

LEMMA OverDoneStep ==
    ASSUME TypeOK, OverDone, [Next]_vars
    PROVE  OverDone'
<1>0. fileOf' = fileOf
  BY DEF Next, vars
<1>1. CASE CreatePost \/ StartResume
  BY <1>1 DEF CreatePost, StartResume, NewJob, OverDone
<1>2. CASE JobDeleted \/ Restart
  BY <1>2 DEF JobDeleted, Restart, NoJob, OverDone
<1>3. CASE ~(CreatePost \/ StartResume \/ JobDeleted \/ Restart)
  <2>0. files' = files /\ (phase' = "preparing" => phase = "preparing")
    BY <1>3, Steps DEF GoesOn
  <2>1. ASSUME NEW a \in Articles, fileOf[a] \in over' \ filesFailed'
        PROVE  art'[a] \in {"out", "posted", "failed"}
    <3>1. CASE fileOf[a] \in over \ filesFailed
      <4>1. art[a] \in {"out", "posted", "failed"}
        BY <3>1 DEF OverDone
      <4>2. ~StepOf(a)
        BY <4>1, StepMoves
      <4> QED
        BY <1>3, <4>1, <4>2, ArticleMoves DEF Still
    <3>2. CASE fileOf[a] \notin over \ filesFailed
      <4>1. onNntpFilePosted(fileOf[a]) /\ art' = art
        BY <1>3, <2>1, <3>2, FileMoves
      <4> QED
        BY <4>1 DEF onNntpFilePosted, ArticlesOf
    <3> QED
      BY <3>1, <3>2
  <2>2. finished' => over' = files'
    BY <1>3, <2>0, FileMoves DEF OverDone
  <2>3. phase' = "preparing" => over' = {}
    BY <1>3, <2>0, FileMoves DEF OverDone
  <2>4. filesFailed' \subseteq over'
    BY <1>3, FileMoves DEF OverDone
  <2> QED
    BY <1>0, <2>1, <2>2, <2>3, <2>4 DEF OverDone
<1> QED
  BY <1>1, <1>2, <1>3

LEMMA KeptStep ==
    ASSUME WholeInv, [Next]_vars
    PROVE  Kept'
<1>0. /\ TypeOK /\ Kept /\ Quiet /\ Elsewhere /\ fileOf' = fileOf
      /\ "posted" \in RowStatuses /\ Len(journal) \in Nat
      /\ \A a \in Articles : row[a] = "posted" => row'[a] = "posted"
  BY PostedGrows, LenProperties DEF WholeInv, FlightInv, ResendInv, Next, vars, RowStatuses, TypeOK
<1> SUFFICES ASSUME NEW a \in Articles
             PROVE  /\ art'[a] = "posted" /\ fileOf[a] \in ids' => row'[a] = "posted" \/ Queued(a, "posted")'
                    /\ art'[a] = "out" /\ fileOf[a] \in files' \ filesFailed' => row'[a] = "posted"
  BY <1>0 DEF Kept
<1>1. CASE CreatePost
  BY <1>0, <1>1 DEF CreatePost, NewJob, PostFiles
<1>2. CASE StartResume
  <2>1. ASSUME art'[a] = "out", fileOf[a] \in files' PROVE row[a] = "posted"
    <3>1. plan # NoPlan /\ a \in plan.posted
      BY <1>2, <2>1 DEF StartResume, NewJob
    <3> QED
      BY <1>0, <3>1 DEF Elsewhere, Posted
  <2>2. art'[a] # "posted"
    BY <1>2 DEF StartResume, NewJob
  <2> QED
    BY <1>0, <2>1, <2>2
<1>3. CASE JobDeleted \/ Restart
  BY <1>3 DEF JobDeleted, Restart, NoJob
<1>4. CASE ~(CreatePost \/ StartResume \/ JobDeleted \/ Restart)
  <2>0. GoesOn /\ files' = files /\ filesFailed \subseteq filesFailed'
    BY <1>0, <1>4, Steps, FileMoves DEF GoesOn
  <2>1. CASE Still(a)
    <3>1. ASSUME art'[a] = "posted", fileOf[a] \in ids'
          PROVE  row'[a] = "posted" \/ Queued(a, "posted")'
      <4>1. art[a] = "posted"
        BY <2>1, <3>1 DEF Still
      <4>2. phase # "preparing"
        BY <1>0, <4>1 DEF Quiet
      <4>3. fileOf[a] \in ids
        BY <2>0, <3>1, <4>2 DEF GoesOn, RegisterHistoryFile
      <4> QED
        BY <1>0, <1>4, <4>1, <4>3, QueuedStep DEF Kept
    <3>2. ASSUME art'[a] = "out", fileOf[a] \in files' \ filesFailed' PROVE row'[a] = "posted"
      BY <1>0, <2>0, <2>1, <3>2 DEF Kept, Still
    <3> QED
      BY <3>1, <3>2
  <2>2. CASE StepOf(a)
    <3>1. ASSUME art'[a] = "posted", fileOf[a] \in ids' PROVE Queued(a, "posted")'
      <4>1. Record(a, "posted") /\ ids' = ids
        BY <1>0, <2>2, <3>1, StepMoves
      <4>2. Adds(Entry("posted", a))
        BY <1>0, <3>1, <4>1, RecordAdds
      <4> QED
        BY <1>0, <4>2 DEF Adds, Queued
    <3> QED
      BY <1>0, <2>2, <3>1, StepMoves
  <2> QED
    BY <1>0, <1>4, <2>1, <2>2, ArticleMoves
<1> QED
  BY <1>1, <1>2, <1>3, <1>4

\* The last file to be queued as posted finds its articles written or queued.
LEMMA PostedBehind ==
    ASSUME WholeInv, NEW f \in Files, onNntpFilePosted(f), ~Failed(f), f \in ids,
           NEW a \in ArticlesOf({f})
    PROVE  row[a] = "posted" \/ Queued(a, "posted")
<1>1. /\ a \in Articles /\ fileOf[a] = f /\ f \in files \ filesFailed
      /\ art[a] \in {"out", "posted", "failed"} /\ art[a] # "failed"
  BY DEF onNntpFilePosted, ArticlesOf, Failed, WholeInv, OverDone
<1> QED
  BY <1>1 DEF WholeInv, Kept

LEMMA ArticlesFirstStep ==
    ASSUME WholeInv, [Next]_vars
    PROVE  ArticlesFirst'
<1>0. /\ TypeOK /\ ArticlesFirst /\ fileOf' = fileOf /\ Len(journal) \in Nat
      /\ \A a \in Articles : row[a] = "posted" => row'[a] = "posted"
      /\ \A i \in 1..Len(journal) : journal[i] \in Entries
  BY PostedGrows, LenProperties, ElementOfSeq
  DEF WholeInv, FlightInv, ResendInv, Next, vars, TypeOK
<1> SUFFICES ASSUME NEW i \in 1..Len(journal'), NEW f \in Files, journal'[i] = Entry("posted", f),
                    NEW a \in ArticlesOf({f})
             PROVE  row'[a] = "posted" \/ \E j \in 1..i - 1 : journal'[j] = Entry("posted", a)
  BY <1>0 DEF ArticlesFirst, ArticlesOf
<1>1. a \in Articles /\ fileOf[a] = f /\ Entry("posted", a).of = a /\ Entry("posted", f).of = f
  BY DEF ArticlesOf, Entry
<1>2. CASE UNCHANGED journal
  BY <1>0, <1>1, <1>2 DEF ArticlesFirst
<1>3. ASSUME NEW e \in Entries, Adds(e), Job
      PROVE  row'[a] = "posted" \/ \E j \in 1..i - 1 : journal'[j] = Entry("posted", a)
  <2>1. CASE i <= Len(journal)
    <3>1. i \in 1..Len(journal) /\ journal[i] = Entry("posted", f)
      BY <1>0, <1>3, <2>1 DEF Adds
    <3>2. row[a] = "posted" \/ \E j \in 1..i - 1 : journal[j] = Entry("posted", a)
      BY <1>0, <3>1 DEF ArticlesFirst
    <3> QED
      BY <1>0, <1>1, <1>3, <3>1, <3>2 DEF Adds
  <2>2. CASE i = Len(journal) + 1
    <3>1. e = Entry("posted", f)
      BY <1>3, <2>2 DEF Adds
    <3>2. onNntpFilePosted(f) /\ ~Failed(f) /\ f \in ids
      <4>1. ASSUME NEW b \in Articles, StepOf(b) PROVE FALSE
        <5>1. \E kind \in RowStatuses : journal' = journal \/ Record(b, kind)
          BY <4>1 DEF StepOf, Send, MarkUnknown, LeftInFlight, OnArticle, Reply, FlushReturns,
             Write, RowStatuses
        <5>2. \E kind \in RowStatuses : Adds(Entry(kind, b)) \/ journal' = journal
          BY <1>0, <5>1, RecordAdds
        <5>3. PICK kind \in RowStatuses : Entry(kind, b) = e
          BY <1>0, <1>3, <5>2, AddsOne
        <5> QED
          BY <3>1, <5>3, HistoryAssumption DEF Entry
      <4>2. ASSUME NEW g \in Files, NEW kind \in FileStatuses,
                   onNntpFilePosted(g) \/ onNntpErrorReading(g), Enqueue(g, Entry(kind, g))
            PROVE  g = f /\ kind = "posted" /\ f \in ids
        <5>1. IF g \in ids THEN Adds(Entry(kind, g)) ELSE journal' = journal
          BY <1>0, <4>2, EnqueueAdds, EntryTypes
        <5>2. journal' # journal
          BY <1>0, <1>3, AddsOne
        <5>3. g \in ids /\ Adds(Entry(kind, g))
          BY <5>1, <5>2
        <5>4. Entry(kind, g) = e
          BY <1>0, <1>3, <5>3, AddsOne
        <5> QED
          BY <3>1, <5>3, <5>4 DEF Entry
      <4>3. ASSUME NEW g \in Files, onNntpErrorReading(g) PROVE FALSE
        <5>1. Enqueue(g, Entry("failed", g)) /\ "failed" \in FileStatuses
          BY <4>3 DEF onNntpErrorReading, FileOver, FileStatuses
        <5> QED
          BY <4>2, <4>3, <5>1
      <4>4. ASSUME NEW g \in Files, onNntpFilePosted(g)
            PROVE  g = f /\ ~Failed(f) /\ f \in ids
        <5>1. CASE Failed(g)
          <6>1. Enqueue(g, Entry("partial", g)) /\ "partial" \in FileStatuses
            BY <4>4, <5>1 DEF onNntpFilePosted, FileOver, FileStatuses
          <6> QED
            BY <4>2, <4>4, <6>1
        <5>2. CASE ~Failed(g)
          <6>1. Enqueue(g, Entry("posted", g)) /\ "posted" \in FileStatuses
            BY <4>4, <5>2 DEF onNntpFilePosted, FileOver, FileStatuses
          <6> QED
            BY <4>2, <4>4, <5>2, <6>1
        <5> QED
          BY <5>1, <5>2
      <4>5. ASSUME Stop \/ \E ok \in BOOLEAN : FinalizePost(ok) \/ _closeNzb(ok) PROVE FALSE
        <5>1. journal' = journal
          BY <4>5 DEF Stop, FinalizePost, _closeNzb
        <5> QED
          BY <1>0, <1>3, <5>1, AddsOne
      <4>6. \/ \E b \in Articles : StepOf(b)
            \/ \E g \in Files : onNntpFilePosted(g) \/ onNntpErrorReading(g)
            \/ Stop \/ \E ok \in BOOLEAN : FinalizePost(ok) \/ _closeNzb(ok)
        BY <1>3 DEF Job, StepOf
      <4> QED
        BY <4>1, <4>3, <4>4, <4>5, <4>6
    <3>3. row[a] = "posted" \/ Queued(a, "posted")
      BY <3>2, PostedBehind
    <3> QED
      BY <1>0, <1>1, <1>3, <2>2, <3>3 DEF Queued, Adds
  <2> QED
    BY <1>0, <1>3, <2>1, <2>2 DEF Adds
<1>4. ASSUME NEW k \in 1..Len(journal), Drops(k)
      PROVE  row'[a] = "posted" \/ \E j \in 1..i - 1 : journal'[j] = Entry("posted", a)
  <2>0. /\ Len(journal') = Len(journal) - 1
        /\ \A m \in 1..Len(journal') : journal'[m] = IF m < k THEN journal[m] ELSE journal[m + 1]
        /\ journal[k].of # a
    BY <1>1, <1>4 DEF Drops
  <2>1. PICK p \in 1..Len(journal) : journal[p] = Entry("posted", f) /\ p = (IF i < k THEN i ELSE i + 1)
    BY <1>0, <2>0
  <2>2. CASE row[a] = "posted"
    BY <1>0, <1>1, <2>2
  <2>3. ASSUME NEW j \in 1..p - 1, journal[j] = Entry("posted", a)
        PROVE  \E m \in 1..i - 1 : journal'[m] = Entry("posted", a)
    <3>1. j # k
      BY <1>1, <2>0, <2>3
    <3>2. CASE j < k
      <4>1. j \in 1..i - 1 /\ journal'[j] = journal[j]
        BY <1>0, <2>0, <2>1, <3>2
      <4> QED
        BY <2>3, <4>1
    <3>3. CASE j > k
      <4>1. ~(i < k) /\ p = i + 1
        BY <2>1, <3>3
      <4>2. j - 1 \in 1..i - 1 /\ j - 1 \in 1..Len(journal') /\ ~(j - 1 < k) /\ (j - 1) + 1 = j
        BY <1>0, <2>0, <3>3, <4>1
      <4>3. journal'[j - 1] = journal[j]
        BY <2>0, <4>2
      <4> QED
        BY <2>3, <4>2, <4>3
    <3> QED
      BY <1>0, <3>1, <3>2, <3>3
  <2> QED
    BY <1>0, <2>1, <2>2, <2>3 DEF ArticlesFirst
<1>5. ASSUME NEW n \in 1..Len(journal), Writes(n)
      PROVE  row'[a] = "posted" \/ \E j \in 1..i - 1 : journal'[j] = Entry("posted", a)
  <2>0. /\ Len(journal') = Len(journal) - n
        /\ \A m \in 1..Len(journal') : journal'[m] = journal[m + n]
        /\ (\E m \in 1..n : journal[m] = Entry("posted", a)) => row'[a] = "posted"
    BY <1>1, <1>5 DEF Writes
  <2>1. i + n \in 1..Len(journal) /\ journal[i + n] = Entry("posted", f)
    BY <1>0, <2>0
  <2>2. CASE row[a] = "posted"
    BY <1>0, <1>1, <2>2
  <2>3. ASSUME NEW j \in 1..(i + n) - 1, journal[j] = Entry("posted", a)
        PROVE  row'[a] = "posted" \/ \E m \in 1..i - 1 : journal'[m] = Entry("posted", a)
    <3>1. CASE j <= n
      <4>1. j \in 1..n
        BY <3>1
      <4> QED
        BY <2>0, <2>3, <4>1
    <3>2. CASE j > n
      <4>1. j - n \in 1..i - 1 /\ journal'[j - n] = journal[j]
        BY <1>0, <2>0, <2>1, <3>2
      <4> QED
        BY <2>3, <4>1
    <3> QED
      BY <1>0, <3>1, <3>2
  <2> QED
    BY <1>0, <2>1, <2>2, <2>3 DEF ArticlesFirst
<1>6. ASSUME NEW ok \in BOOLEAN, PrepareForUse(ok) \/ _ensureHistoryStore(ok) PROVE UNCHANGED journal
  <2>1. ASSUME journal' = <<>> PROVE FALSE
    BY <2>1
  <2> QED
    BY <1>6, <2>1, PreparationStep DEF WholeInv
<1>7. ASSUME Restart PROVE FALSE
  <2>1. journal' = <<>> \/ journal' = <<Prepare>>
    BY <1>7 DEF Restart
  <2>2. journal'[i] = Prepare
    BY <2>1
  <2> QED
    BY <2>2, PrepareIsNoEvent DEF Entry
<1> QED
  BY <1>0, <1>2, <1>3, <1>4, <1>5, <1>6, <1>7, QueueMoves

LEMMA ElsewhereStep ==
    ASSUME WholeInv, [Next]_vars
    PROVE  Elsewhere'
<1>0. /\ TypeOK /\ Elsewhere /\ Fresh /\ NothingBefore /\ ResendInv
      /\ Posted \subseteq Posted' /\ \A f \in Files : Whole(f) => Whole(f)'
      /\ Registered \subseteq Files /\ NoPlan' = NoPlan
  BY PostedGrows DEF WholeInv, FlightInv, ResendInv, Registered, NoPlan
<1>1. CASE CreatePost
  <2>1. plan' = NoPlan /\ resumed' = FALSE
    BY <1>0, <1>1 DEF CreatePost, NewJob, NothingBefore, appVars
  <2> QED
    BY <1>0, <2>1 DEF Elsewhere
<1>2. CASE StartResume
  <2>1. plan # NoPlan /\ plan' = NoPlan /\ files' = plan.files /\ Registered' = Registered
    BY <1>2 DEF StartResume, NewJob, dbVars, Registered
  <2> QED
    BY <1>0, <2>1 DEF Elsewhere
<1>3. CASE JobDeleted
  <2>1. plan' = plan /\ resumed' = FALSE /\ Registered' = Registered
    BY <1>3 DEF JobDeleted, NoJob, appVars, dbVars, Registered
  <2> QED
    BY <1>0, <2>1 DEF Elsewhere
<1>4. CASE Restart
  <2>1. plan' = NoPlan /\ resumed' = FALSE
    BY <1>4 DEF Restart, NoJob
  <2> QED
    BY <1>0, <2>1 DEF Elsewhere
<1>5. CASE GoesOn /\ Registered' # Registered
  <2>1. PICK f \in Files : RegisterHistoryFile(f) /\ ~resumed /\ phase = "preparing"
    BY <1>0, <1>5, NewRow
  <2>2. plan' = NoPlan /\ resumed' = resumed
    BY <1>0, <2>1 DEF RegisterHistoryFile, Fresh, appVars
  <2> QED
    BY <1>0, <2>1, <2>2 DEF Elsewhere
<1>6. CASE GoesOn /\ Registered' = Registered
  <2>1. resumed' = resumed /\ files' = files /\ (plan' = plan \/ Resume)
    BY <1>6 DEF GoesOn
  <2>2. resumed' => \A f \in Registered' \ files' : Whole(f)'
    BY <1>0, <1>6, <2>1 DEF Elsewhere
  <2>3. CASE plan' = plan
    BY <1>0, <1>6, <2>2, <2>3 DEF Elsewhere
  <2>4. CASE Resume
    <3>1. /\ plan'.posted = Posted
          /\ plan'.files = {f \in Registered : ~ ArticlesOf({f}) \subseteq Posted}
      BY <2>4 DEF Resume
    <3>2. \A f \in Registered' \ plan'.files : Whole(f)
      BY <1>6, <3>1 DEF Whole
    <3> QED
      BY <1>0, <1>6, <2>2, <3>1, <3>2 DEF Elsewhere
  <2> QED
    BY <2>1, <2>3, <2>4
<1> QED
  BY <1>0, <1>1, <1>2, <1>3, <1>4, <1>5, <1>6, Steps

LEMMA FreshStep ==
    ASSUME WholeInv, [Next]_vars
    PROVE  Fresh'
<1>0. TypeOK /\ Fresh /\ NothingBefore /\ FlightInv /\ PostFiles' = PostFiles /\ NoPlan' = NoPlan
      /\ Nothing' = Nothing
  BY DEF WholeInv, FlightInv, ResendInv, Next, vars, PostFiles, NoPlan, Nothing
<1>1. CASE CreatePost
  <2>1. /\ plan = NoPlan /\ published = Nothing /\ UNCHANGED <<plan, published>>
        /\ post' = "posting" /\ files' = PostFiles
    BY <1>0, <1>1 DEF CreatePost, NewJob, NothingBefore, Fresh, appVars, nzbVars
  <2> QED
    BY <1>0, <2>1 DEF Fresh
<1>2. CASE StartResume
  <2>1. resumed' = TRUE /\ UNCHANGED <<post, published>>
    BY <1>2 DEF StartResume, NewJob, dbVars, nzbVars
  <2> QED
    BY <1>0, <2>1 DEF Fresh
<1>3. CASE JobDeleted
  <2>1. phase' = "none" /\ UNCHANGED <<post, published>>
    BY <1>3 DEF JobDeleted, NoJob, dbVars, nzbVars
  <2> QED
    BY <1>0, <2>1 DEF Fresh
<1>4. CASE Restart
  <2>1. phase' = "none" /\ published' = Nothing
    BY <1>4 DEF Restart, NoJob
  <2> QED
    BY <1>0, <2>1 DEF Fresh
<1>5. CASE ~(CreatePost \/ StartResume \/ JobDeleted \/ Restart)
  <2>1. GoesOn
    BY <1>0, <1>5, Steps
  <2>2. ~resumed' /\ phase' # "none" => files' = PostFiles
    BY <1>0, <2>1 DEF GoesOn, Fresh
  <2>3. published' = published \/ phase = "finalized"
    BY <1>0, <1>5, NzbMoves DEF _closeNzb
  <2>4. ASSUME phase' = "preparing", ~resumed'
        PROVE  plan' = NoPlan /\ post' # "success" /\ published' = Nothing
    <3>1. phase = "preparing" /\ ~resumed
      BY <2>1, <2>4 DEF GoesOn
    <3>2. plan = NoPlan /\ post # "success" /\ published = Nothing
      BY <1>0, <3>1 DEF Fresh
    <3>3. plan' = plan
      BY <2>1, <3>1 DEF GoesOn, Resume
    <3>4. post' # "success"
      BY <1>0, <3>1, <3>2, PostMoves DEF CleanedPost, FinalizePost
    <3> QED
      BY <2>3, <3>1, <3>2, <3>3, <3>4
  <2>5. post' = "absent" => published' = Nothing
    BY <1>0, <2>1, <2>3 DEF GoesOn, Fresh, NothingBefore
  <2> QED
    BY <1>0, <2>2, <2>4, <2>5 DEF Fresh
<1> QED
  BY <1>1, <1>2, <1>3, <1>4, <1>5

LEMMA StreamedStep ==
    ASSUME WholeInv, [Next]_vars
    PROVE  Streamed'
<1>0. TypeOK /\ Streamed /\ OverDone /\ fileOf' = fileOf
  BY DEF WholeInv, FlightInv, ResendInv, Next, vars
<1> SUFFICES ASSUME ~resumed', phase' # "over", NEW a \in Articles, fileOf[a] \in over' \ filesFailed'
             PROVE  a \in nzb' \/ Failed(fileOf[a])'
  BY <1>0 DEF Streamed
<1>1. ~(CreatePost \/ StartResume \/ JobDeleted \/ Restart)
  BY DEF CreatePost, StartResume, JobDeleted, Restart, NewJob, NoJob
<1>2. ~resumed /\ phase # "over"
  <2>1. resumed' = resumed
    BY <1>0, <1>1, Steps DEF GoesOn
  <2> QED
    BY <1>0, <1>1, <2>1, PhaseMoves
<1>3. Failed(fileOf[a]) => Failed(fileOf[a])'
  <2> SUFFICES ASSUME NEW b \in Articles, fileOf[b] = fileOf[a], art[b] = "failed"
               PROVE  Failed(fileOf[a])'
    BY DEF Failed, ArticlesOf
  <2>1. art'[b] = "failed"
    <3>1. ~StepOf(b)
      BY <1>0, StepMoves
    <3> QED
      BY <1>0, <1>1, <3>1, ArticleMoves DEF Still
  <2> QED
    BY <1>0, <2>1 DEF Failed, ArticlesOf
<1>4. CASE fileOf[a] \in over \ filesFailed
  <2>1. a \in nzb \/ Failed(fileOf[a])
    BY <1>0, <1>2, <1>4 DEF Streamed
  <2>2. nzb \subseteq nzb'
    <3>1. ~ \E ok \in BOOLEAN : StartTransfer(ok)
      BY <1>0, <1>4 DEF StartTransfer, OverDone
    <3>2. ~ \E ok \in BOOLEAN : _closeNzb(ok)
      BY DEF _closeNzb
    <3> QED
      BY <1>0, <1>1, <3>1, <3>2, NzbMoves DEF onNntpFilePosted
  <2> QED
    BY <1>3, <2>1, <2>2
<1>5. CASE fileOf[a] \notin over \ filesFailed
  <2>1. onNntpFilePosted(fileOf[a])
    BY <1>0, <1>1, <1>5, FileMoves
  <2>2. Failed(fileOf[a]) \/ a \in nzb'
    BY <1>2, <2>1 DEF onNntpFilePosted, ArticlesOf
  <2> QED
    BY <1>3, <2>2
<1> QED
  BY <1>4, <1>5

LEMMA FinalStep ==
    ASSUME WholeInv, [Next]_vars
    PROVE  Final'
<1>0. /\ TypeOK /\ Final /\ Quiet /\ FlightInv /\ art \in [Articles -> ArtStatuses]
  BY DEF WholeInv, FlightInv, ResendInv, TypeOK
<1> SUFFICES ASSUME phase' = "finalized", ~unreliable' PROVE post' = Status'
  BY DEF Final
<1>1. ~(CreatePost \/ StartResume \/ JobDeleted \/ Restart)
  BY DEF CreatePost, StartResume, JobDeleted, Restart, NewJob, NoJob
<1>2. CASE \E ok \in BOOLEAN : FinalizePost(ok)
  <2>1. PICK ok \in BOOLEAN : FinalizePost(ok)
    BY <1>2
  <2>2. ok /\ post' = Status /\ UNCHANGED <<finished, filesFailed, art>>
    BY <2>1 DEF FinalizePost, artVars
  <2>3. Status' = Status
    BY <2>2 DEF Status
  <2> QED
    BY <2>2, <2>3
<1>3. CASE phase = "finalized"
  <2>1. UNCHANGED <<finished, filesFailed>>
    BY <1>0, <1>1, <1>3, FileMoves
  <2>2. ASSUME NEW a \in Articles PROVE art'[a] = "failed" <=> art[a] = "failed"
    <3>1. ~StepOf(a)
      <4>1. art[a] \notin {"sent", "ambiguous"}
        BY <1>0, <1>3 DEF Quiet
      <4> QED
        BY <1>3, <4>1 DEF StepOf, Send, MarkUnknown, LeftInFlight, OnArticle, Reply, FlushReturns
    <3> QED
      BY <1>0, <1>1, <3>1, ArticleMoves DEF Still
  <2>3. Status' = Status
    BY <2>1, <2>2 DEF Status
  <2>4. unreliable' = unreliable \/ (\E ok \in BOOLEAN : StartTransfer(ok) \/ FinalizePost(ok))
    <3>1. CASE Worker
      BY <3>1 DEF Worker, FlushArticleEvents, UpdateFileStatus, PrepareForUse, jobVars
    <3>2. CASE Application
      BY <1>1, <3>2 DEF Application, OnPrepared, _ensureHistoryStore, RegisterHistoryFile,
         _abortBeforeTransfer, Resume, jobVars
    <3>3. CASE Job
      BY <3>3 DEF Job, Send, MarkUnknown, LeftInFlight, OnArticle, Reply, FlushReturns,
         onNntpFilePosted, onNntpErrorReading, Stop, _closeNzb, jobVars
    <3>4. CASE UNCHANGED vars
      BY <3>4 DEF vars, jobVars
    <3> QED
      BY <3>1, <3>2, <3>3, <3>4 DEF Next
  <2>5. ~unreliable
    BY <1>3, <2>4 DEF StartTransfer, FinalizePost
  <2>6. post' = post
    <3>1. ~ \E ok \in BOOLEAN : PrepareForUse(ok) \/ _ensureHistoryStore(ok)
      BY <1>0, <1>3, PreparationStep DEF _ensureHistoryStore
    <3> QED
      BY <1>0, <1>3, <3>1, PostMoves DEF CreatePost, StartTransfer, FinalizePost
  <2> QED
    BY <1>0, <1>3, <2>3, <2>5, <2>6 DEF Final
<1> QED
  BY <1>0, <1>1, <1>2, <1>3, PhaseMoves DEF _abortBeforeTransfer, StartTransfer, _closeNzb

\* What finalizePost() finds when the job ends as a success.
LEMMA SuccessIsTrue ==
    ASSUME WholeInv, FinalizePost(TRUE), Status = "success"
    PROVE  ArticlesOf(Registered) \subseteq Posted
<1>0. /\ phase = "closing" /\ Len(journal) = 0 /\ finished /\ filesFailed = {}
      /\ \A a \in Articles : art[a] # "failed"
  BY DEF FinalizePost, FinalizeFlushed, Flushed, Status
<1>1. over = files /\ Kept /\ OverDone /\ Elsewhere /\ Fresh /\ RowsOfJob
  BY <1>0 DEF WholeInv, OverDone, FlightInv, ResendInv
<1> SUFFICES ASSUME NEW a \in Articles, fileOf[a] \in Registered PROVE row[a] = "posted"
  BY DEF ArticlesOf, Posted
<1>2. CASE fileOf[a] \in files
  <2>1. art[a] \in {"out", "posted"}
    BY <1>0, <1>1, <1>2 DEF OverDone
  <2>2. ~Queued(a, "posted")
    BY <1>0 DEF Queued
  <2>3. art[a] = "posted" => fileOf[a] \in ids
    BY <1>1 DEF RowsOfJob
  <2> QED
    BY <1>0, <1>1, <1>2, <2>1, <2>2, <2>3 DEF Kept
<1>3. CASE fileOf[a] \notin files
  <2>1. resumed
    BY <1>0, <1>1, <1>3 DEF Fresh, PostFiles
  <2>2. Whole(fileOf[a])
    BY <1>1, <1>3, <2>1 DEF Elsewhere
  <2> QED
    BY <2>2 DEF Whole, ArticlesOf, Posted
<1> QED
  BY <1>2, <1>3

LEMMA SuccessStep ==
    ASSUME WholeInv, [Next]_vars
    PROVE  SuccessIsWhole'
<1>0. /\ TypeOK /\ SuccessIsWhole /\ Fresh /\ ArticlesFirst /\ FlightInv /\ ResendInv
      /\ Posted \subseteq Posted' /\ \A f \in Files : Whole(f) => Whole(f)'
      /\ fileOf' = fileOf
      /\ fileRow \in [Files -> FileStatuses]
  BY PostedGrows DEF WholeInv, FlightInv, ResendInv, Next, vars, TypeOK
<1>1. ASSUME post' = "success" PROVE ArticlesOf(Registered)' \subseteq Posted'
  <2>1. post = "success" \/ (FinalizePost(TRUE) /\ Status = "success")
    BY <1>0, <1>1, PostMoves DEF CleanedPost
  <2>2. ArticlesOf(Registered) \subseteq Posted
    BY <1>0, <2>1, SuccessIsTrue DEF SuccessIsWhole
  <2>3. Registered' = Registered
    <3>1. CASE post = "success"
      <4>1. ~(phase = "preparing" /\ ~resumed)
        BY <1>0, <3>1 DEF Fresh
      <4> QED
        BY <1>0, <4>1, NewRow
    <3>2. CASE FinalizePost(TRUE)
      BY <3>2 DEF FinalizePost, Registered
    <3> QED
      BY <2>1, <3>1, <3>2
  <2> QED
    BY <1>0, <2>2, <2>3 DEF ArticlesOf
<1>2. ASSUME NEW f \in Files, fileRow'[f] = "posted" PROVE Whole(f)'
  <2>1. CASE fileRow[f] = "posted"
    BY <1>0, <2>1 DEF SuccessIsWhole, Whole
  <2>2. CASE fileRow[f] # "posted"
    <3>1. PICK e \in Entries : /\ Len(journal) >= 1 /\ journal[1] = e /\ e.of \in Files
                               /\ fileRow' = [fileRow EXCEPT ![e.of] = e.kind]
      BY <1>0, <1>2, <2>2, FileRowMoves
    <3>2. e.of = f /\ e.kind = "posted"
      BY <1>0, <1>2, <2>2, <3>1
    <3>3. e = Entry("posted", f)
      BY <3>1, <3>2, HistoryAssumption, PrepareIsNoEvent DEF Entries, Entry
    <3>4. 1 \in 1..Len(journal)
      BY <1>0, <3>1, LenProperties DEF TypeOK
    <3>5. Whole(f)
      BY <1>0, <3>1, <3>3, <3>4 DEF ArticlesFirst, Whole, Posted, ArticlesOf
    <3> QED
      BY <1>0, <3>5
  <2> QED
    BY <2>1, <2>2
<1> QED
  BY <1>1, <1>2 DEF SuccessIsWhole, Whole

\* What _closeNzb() announces with a success.
LEMMA PublishedIsTrue ==
    ASSUME WholeInv, NEW ok \in BOOLEAN, _closeNzb(ok), published'.status = "success"
    PROVE  nzb' = Articles \/ Registered # PostFiles
<1>0. /\ TypeOK /\ Final /\ Streamed /\ OverDone /\ Fresh
  BY DEF WholeInv, FlightInv, ResendInv
<1>1. /\ phase = "finalized" /\ nzbOpen /\ NzbReady /\ (resumed => ok) /\ Status = "success"
  BY DEF _closeNzb, Nothing
<1>2. /\ finished /\ filesFailed = {} /\ over = files
      /\ \A a \in Articles : art[a] # "failed"
  BY <1>0, <1>1 DEF Status, OverDone
<1>3. ASSUME ~resumed PROVE nzb = Articles
  <2>1. \A a \in Articles : fileOf[a] \in over \ filesFailed
    BY <1>0, <1>1, <1>2, <1>3 DEF Fresh, PostFiles
  <2>2. \A a \in Articles : a \in nzb
    BY <1>0, <1>1, <1>2, <1>3, <2>1 DEF Streamed, Failed, ArticlesOf
  <2> QED
    BY <1>0, <2>2 DEF TypeOK
<1>4. CASE unreliable
  <2>1. ~resumed /\ nzb' = nzb
    BY <1>1, <1>4 DEF _closeNzb, NzbReady
  <2> QED
    BY <1>3, <2>1
<1>5. CASE ~unreliable /\ ok
  <2>1. post = "success" /\ nzb' = Posted /\ ~Gap
    BY <1>0, <1>1, <1>5 DEF _closeNzb, Final
  <2>2. Posted = ArticlesOf(Registered)
    BY <2>1 DEF Gap
  <2>3. ArticlesOf(PostFiles) = Articles
    BY DEF ArticlesOf, PostFiles
  <2> QED
    BY <2>1, <2>2, <2>3
<1>6. CASE ~unreliable /\ ~ok
  <2>1. ~resumed /\ nzb' = nzb
    BY <1>1, <1>6 DEF _closeNzb
  <2> QED
    BY <1>3, <2>1
<1> QED
  BY <1>4, <1>5, <1>6

LEMMA PublishedStep ==
    ASSUME WholeInv, [Next]_vars
    PROVE  PublishedIsWhole'
<1>0. /\ TypeOK /\ PublishedIsWhole /\ Fresh /\ FlightInv /\ ResendInv /\ PostFiles' = PostFiles
  BY DEF WholeInv, FlightInv, ResendInv, Next, vars, PostFiles
<1> SUFFICES ASSUME published'.status = "success"
             PROVE  published'.nzb = Articles \/ Registered' # PostFiles
  BY <1>0 DEF PublishedIsWhole
<1>1. CASE published' = published
  <2>1. published # Nothing
    BY <1>1 DEF Nothing
  <2>2. Registered' = Registered
    BY <1>0, <2>1, NewRow DEF Fresh
  <2> QED
    BY <1>0, <1>1, <2>2 DEF PublishedIsWhole
<1>2. CASE published' = Nothing
  BY <1>2 DEF Nothing
<1>3. ASSUME NEW ok \in BOOLEAN, _closeNzb(ok)
      PROVE  published'.nzb = Articles \/ Registered' # PostFiles
  <2>1. published' = [status |-> Status, nzb |-> nzb'] \/ published' = Nothing
    BY <1>3 DEF _closeNzb
  <2>2. published'.nzb = nzb'
    BY <2>1 DEF Nothing
  <2>3. Registered' = Registered
    BY <1>3 DEF _closeNzb, dbVars, Registered
  <2> QED
    BY <1>3, <2>2, <2>3, PublishedIsTrue
<1> QED
  BY <1>0, <1>1, <1>2, <1>3, NzbMoves

LEMMA WholeStep == WholeInv /\ [Next]_vars => WholeInv'
<1> SUFFICES ASSUME WholeInv, [Next]_vars PROVE WholeInv'
  OBVIOUS
<1>1. FlightInv' /\ OverDone'
  BY FlightStep, OverDoneStep DEF WholeInv, FlightInv, ResendInv
<1> QED
  BY <1>1, ArticlesFirstStep, KeptStep, ElsewhereStep, FreshStep, StreamedStep, FinalStep,
     SuccessStep, PublishedStep
  DEF WholeInv

\* A post recorded as a success, and a file recorded as posted, have all their
\* articles recorded as posted, although another statement writes those
\* (finalizePost(), enqueueUpdateFileStatus(), which wait for the queue).
THEOREM SuccessCorrect == Spec => []SuccessIsWhole
<1>1. WholeInv => SuccessIsWhole
  BY DEF WholeInv
<1> QED
  BY <1>1, WholeInit, WholeStep, PTL DEF Spec

\* The NZB announced with a success, be it streamed by the job or rebuilt from
\* the history, lists the whole post if all its files have a row (_closeNzb(),
\* regenerateNzbToFile()).
THEOREM PublishedCorrect == Spec => []PublishedIsWhole
<1>1. WholeInv => PublishedIsWhole
  BY DEF WholeInv
<1> QED
  BY <1>1, WholeInit, WholeStep, PTL DEF Spec
=============================================================================
