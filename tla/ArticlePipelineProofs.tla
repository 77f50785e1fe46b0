------------------------ MODULE ArticlePipelineProofs ------------------------
(***************************************************************************)
(* The safety of the article pipeline for any number of posters, files,    *)
(* slices and articles in advance, and any number of pauses.  The          *)
(* inductive invariant Inv relates the place of every thread to the locks  *)
(* it holds, the reader to the part it has numbered, and the answer a      *)
(* poster gave to what was left at that time.                              *)
(***************************************************************************)
EXTENDS ArticlePipeline, SequenceTheorems, TLAPS

\* The holder of a mutex is the thread whose place in the code says so, and
\* _articleBuildInProgress is up exactly while the builder is at work.
Locks ==
    /\ \A p \in Posters, r \in Roles :
          /\ <<p, r>> \in secureDisk <=> pc[p][r] \in {"read", "number"}
          /\ secureBuffer[p] = r <=> pc[p][r] \in BuildSteps \ {"buffer"}
    /\ \A t, u \in secureDisk : t = u
    /\ \A p \in Posters :
          /\ pc[p]["conn"] # "enqueue"
          /\ secureArticles[p] = "conn" <=> pc[p]["conn"] \in BuildSteps
          /\ building[p] <=> pc[p]["builder"] # "idle"

\* What the reader has numbered is what it has read, except between read()
\* and ++_part; when _noMoreFiles is up there is nothing left to read.
Reader ==
    /\ \A p \in Posters, r \in Roles :
          pc[p][r] = "number" =>
              /\ curFile # 0 /\ pos = part + 1
              /\ buffer[p] = <<curFile, pos>>
    /\ \/ curFile = 0
       \/ pos = part
       \/ \E p \in Posters, r \in Roles : pc[p][r] = "number"
    /\ noMoreFiles => curFile = 0 /\ nextFile = NbFiles + 1
    /\ reported = {f \in Unreadable : f < nextFile}

\* An article on its way carries the slice it announces; only a thread that
\* has numbered a part holds one, and a build that ends without an article
\* ends because no file is left.
Bodies ==
    \A p \in Posters, r \in Roles :
          /\ pc[p][r] \notin {"encode", "built", "enqueue"} => hold[p][r] = {}
          /\ pc[p][r] = "encode" =>
                hold[p][r] # {} /\ \A a \in hold[p][r] : a.slice = buffer[p]
          /\ pc[p][r] \in {"built", "enqueue"} =>
                \A a \in hold[p][r] : a.body = a.slice
          /\ pc[p][r] = "built" /\ hold[p][r] = {} => noMoreFiles

\* While a connection builds, its queue is empty and its builder idle; once
\* it was told "no more articles", nothing reaches its poster any more.
Ends ==
    \A p \in Posters :
        /\ secureArticles[p] = "conn" =>
              articles[p] = <<>> /\ pc[p]["builder"] = "idle"
        /\ answer[p] = "end" =>
              /\ pc[p]["conn"] = "check"
              /\ noMoreFiles /\ articles[p] = <<>>
              /\ hold[p]["conn"] = {} /\ hold[p]["builder"] = {}

Inv == TypeOK /\ Locks /\ Reader /\ Bodies /\ BodyMatchesPart /\ Ends
-----------------------------------------------------------------------------
\* Two threads between the lock and the release of _secureDiskAccess are one.
LEMMA OneReader ==
    ASSUME Locks, NEW p \in Posters, NEW r \in Roles, NEW q \in Posters, NEW s \in Roles,
           pc[p][r] \in {"read", "number"}, pc[q][s] \in {"read", "number"}
    PROVE  q = p /\ s = r
<1>1. <<p, r>> \in secureDisk /\ <<q, s>> \in secureDisk
  BY DEF Locks
<1>2. <<q, s>> = <<p, r>>
  BY <1>1 DEF Locks
<1> QED  BY <1>2

\* A poster's buffer is used by one thread at a time.
LEMMA OneBuilder ==
    ASSUME Locks, NEW p \in Posters, NEW r \in Roles, NEW s \in Roles,
           pc[p][r] \in BuildSteps \ {"buffer"}, pc[p][s] \in BuildSteps \ {"buffer"}
    PROVE  s = r
<1>1. secureBuffer[p] = r
  BY DEF Locks, BuildSteps
<1>2. secureBuffer[p] = s
  BY DEF Locks, BuildSteps
<1> QED  BY <1>1, <1>2

\* A thread that moves moves alone.
LEMMA GotoMoves ==
    ASSUME TypeOK, NEW p \in Posters, NEW r \in Roles, NEW where \in Locations,
           Goto(p, r, where)
    PROVE  /\ pc' \in [Posters -> [Roles -> Locations]]
           /\ pc'[p][r] = where
           /\ \A q \in Posters, s \in Roles : (q # p \/ s # r) => pc'[q][s] = pc[q][s]
BY DEF TypeOK, Goto

\* _postFiles() opening a queue keeps the invariant.
LEMMA UnlockQueueInv ==
    ASSUME Inv, NEW p \in Posters, UnlockQueue(p)
    PROVE  Inv'
<1> USE PipelineAssumption DEF Inv, UnlockQueue, readerVars, lockVars, posterVars, callVars, flagVars
<1>1. TypeOK'
  BY DEF TypeOK, Roles, Locations, BuildSteps
<1>2. Locks'
  BY DEF Locks, TypeOK, Threads, Roles, BuildSteps
<1>3. Reader'
  BY DEF Reader, Locks, TypeOK, Threads, Roles, BuildSteps, Files
<1>4. Bodies'
  BY DEF Bodies, Reader, Locks, TypeOK, Roles
<1>5. BodyMatchesPart'
  BY DEF BodyMatchesPart, Queued
<1>6. Ends'
  BY DEF Ends, Reader, Bodies, Locks, TypeOK, Roles, BuildSteps
<1> QED  BY <1>1, <1>2, <1>3, <1>4, <1>5, <1>6

\* Taking _secureBuffer makes its thread the poster's only builder.
LEMMA LockBufferInv ==
    ASSUME Inv, NEW p \in Posters, NEW r \in Roles, LockBuffer(p, r)
    PROVE  Inv'
<1> USE PipelineAssumption DEF Inv, LockBuffer, Goto, readerVars, lockVars, posterVars, callVars, flagVars
<1>1. TypeOK'
  BY DEF TypeOK, Roles, Locations, BuildSteps
<1>2. Locks'
  BY DEF Locks, TypeOK, Threads, Roles, BuildSteps
<1>3. Reader'
  BY DEF Reader, Locks, TypeOK, Threads, Roles, BuildSteps, Files
<1>4. Bodies'
  BY DEF Bodies, Reader, Locks, TypeOK, Roles
<1>5. BodyMatchesPart'
  BY DEF BodyMatchesPart, Queued
<1>6. Ends'
  BY DEF Ends, Reader, Bodies, Locks, TypeOK, Roles, BuildSteps
<1> QED  BY <1>1, <1>2, <1>3, <1>4, <1>5, <1>6

\* Taking _secureDiskAccess makes its thread the only reader.
LEMMA LockDiskInv ==
    ASSUME Inv, NEW p \in Posters, NEW r \in Roles, LockDisk(p, r)
    PROVE  Inv'
<1> USE PipelineAssumption DEF Inv, LockDisk, Goto, readerVars, lockVars, posterVars, callVars, flagVars
<1>1. TypeOK'
  BY DEF TypeOK, Roles, Locations, BuildSteps, Threads
<1>2. Locks'
  BY DEF Locks, TypeOK, Threads, Roles, BuildSteps
<1>3. Reader'
  BY DEF Reader, Locks, TypeOK, Threads, Roles, BuildSteps, Files
<1>4. Bodies'
  BY DEF Bodies, Reader, Locks, TypeOK, Roles
<1>5. BodyMatchesPart'
  BY DEF BodyMatchesPart, Queued
<1>6. Ends'
  BY DEF Ends, Reader, Bodies, Locks, TypeOK, Roles, BuildSteps
<1> QED  BY <1>1, <1>2, <1>3, <1>4, <1>5, <1>6

\* Opening, or reporting, the next file keeps reader and report in step.
LEMMA OpenNextFileInv ==
    ASSUME Inv, NEW p \in Posters, NEW r \in Roles, OpenNextFile(p, r)
    PROVE  Inv'
<1> USE PipelineAssumption DEF Inv, OpenNextFile, readerVars, lockVars, posterVars, callVars, flagVars
<1>1. TypeOK'
  <2>1. nextFile' \in 1..(NbFiles + 1) /\ curFile' \in 0..NbFiles
    BY DEF TypeOK
  <2>2. reported' \subseteq Unreadable /\ pos' \in Nat /\ part' \in Nat
    BY DEF TypeOK
  <2> QED  BY <2>1, <2>2 DEF TypeOK
<1>2. Locks'
  BY DEF Locks, TypeOK, Threads, Roles, BuildSteps
<1>3. Reader'
  <2>1. \A q \in Posters, s \in Roles : pc[q][s] # "number"
    BY DEF Reader
  <2>2. curFile' = 0 \/ pos' = part'
    OBVIOUS
  <2>3. noMoreFiles' => FALSE
    BY DEF Reader, TypeOK
  <2>4. reported' = {f \in Unreadable : f < nextFile'}
    <3>1. \A f \in Unreadable : f < nextFile' <=> f < nextFile \/ f = nextFile
      BY DEF TypeOK, Files
    <3> QED  BY <3>1 DEF Reader
  <2> QED  BY <2>1, <2>2, <2>3, <2>4 DEF Reader
<1>4. Bodies'
  BY DEF Bodies, Reader, Locks, TypeOK, Roles
<1>5. BodyMatchesPart'
  BY DEF BodyMatchesPart, Queued
<1>6. Ends'
  BY DEF Ends, Reader, Bodies, Locks, TypeOK, Roles, BuildSteps
<1> QED  BY <1>1, <1>2, <1>3, <1>4, <1>5, <1>6

\* Raising _noMoreFiles happens only when there is nothing left to read.
LEMMA NoFileLeftInv ==
    ASSUME Inv, NEW p \in Posters, NEW r \in Roles, NoFileLeft(p, r)
    PROVE  Inv'
<1> USE PipelineAssumption DEF Inv, NoFileLeft, Goto, readerVars, lockVars, posterVars, callVars, flagVars
<1>1. TypeOK'
  BY DEF TypeOK, Roles, Locations, BuildSteps
<1>2. Locks'
  BY DEF Locks, TypeOK, Threads, Roles, BuildSteps
<1>3. Reader'
  BY DEF Reader, Locks, TypeOK, Threads, Roles, BuildSteps, Files
<1>4. Bodies'
  BY DEF Bodies, Reader, Locks, TypeOK, Roles
<1>5. BodyMatchesPart'
  BY DEF BodyMatchesPart, Queued
<1>6. Ends'
  BY DEF Ends, Reader, Bodies, Locks, TypeOK, Roles, BuildSteps
<1> QED  BY <1>1, <1>2, <1>3, <1>4, <1>5, <1>6

\* read() puts the next slice, and only it, in the poster's buffer.
LEMMA ReadSliceInv ==
    ASSUME Inv, NEW p \in Posters, NEW r \in Roles, ReadSlice(p, r)
    PROVE  Inv'
<1> USE PipelineAssumption DEF Inv, ReadSlice, Goto, readerVars, lockVars, posterVars, callVars, flagVars
<1>1. TypeOK'
  BY DEF TypeOK, Roles, Locations, BuildSteps, Files
<1>2. Locks'
  BY DEF Locks, TypeOK, Threads, Roles, BuildSteps
<1>3. Reader'
  <2>1. pos = part
    BY OneReader DEF Reader
  <2>2. pc' = [pc EXCEPT ![p][r] = "number"] /\ pc'[p][r] = "number"
    BY DEF TypeOK
  <2>3. ASSUME NEW q \in Posters, NEW s \in Roles, pc'[q][s] = "number"
        PROVE  q = p
    BY <2>3, OneReader DEF TypeOK
  <2>4. curFile' # 0 /\ pos' = part' + 1 /\ buffer'[p] = <<curFile', pos'>>
    BY <2>1 DEF TypeOK
  <2>5. \E q \in Posters, s \in Roles : pc'[q][s] = "number"
    BY <2>2
  <2>6. ~noMoreFiles' /\ UNCHANGED <<reported, nextFile>>
    BY DEF Reader
  <2> QED  BY <2>3, <2>4, <2>5, <2>6 DEF Reader
<1>4. Bodies'
  <2>1. \A s \in Roles : pc[p][s] # "encode"
    BY OneBuilder DEF BuildSteps
  <2>2. \A q \in Posters : q # p => buffer'[q] = buffer[q]
    BY DEF TypeOK
  <2>3. pc'[p][r] = "number" /\ hold[p][r] = {}
    BY DEF TypeOK, Bodies
  <2>4. \A q \in Posters, s \in Roles : (q # p \/ s # r) => pc'[q][s] = pc[q][s]
    BY DEF TypeOK
  <2> QED  BY <2>1, <2>2, <2>3, <2>4 DEF Bodies
<1>5. BodyMatchesPart'
  BY DEF BodyMatchesPart, Queued
<1>6. Ends'
  BY DEF Ends, Reader, Bodies, Locks, TypeOK, Roles, BuildSteps
<1> QED  BY <1>1, <1>2, <1>3, <1>4, <1>5, <1>6

\* ++_part catches up with what was read, and the article announces it.
LEMMA NumberPartInv ==
    ASSUME Inv, NEW p \in Posters, NEW r \in Roles, NumberPart(p, r)
    PROVE  Inv'
<1> USE PipelineAssumption DEF Inv, NumberPart, Goto, readerVars, lockVars, posterVars, callVars, flagVars
<1>a. /\ curFile \in Files /\ pos = part + 1 /\ buffer[p] = <<curFile, pos>>
      /\ <<curFile, part + 1>> \in Files \X Nat
  BY DEF Reader, TypeOK, Files
<1>e. pc[p][r] = "number"
  OBVIOUS
<1>b. \A q \in Posters, s \in Roles : pc[q][s] = "number" => q = p /\ s = r
  BY OneReader
<1> DEFINE skip == <<curFile, part + 1>> \in AlreadyPosted
           a == [slice |-> <<curFile, part + 1>>, body |-> NotEncoded]

<1>c. /\ skip => pc'[p][r] = "read" /\ UNCHANGED <<hold, secureDisk>>
      /\ ~skip => /\ pc'[p][r] = "encode" /\ secureDisk' = secureDisk \ {<<p, r>>}
                  /\ hold' = [hold EXCEPT ![p][r] = {a}]
      /\ \A q \in Posters, s \in Roles : (q # p \/ s # r) => pc'[q][s] = pc[q][s]
      /\ pc' \in [Posters -> [Roles -> Locations]]
  BY GotoMoves DEF Locations, BuildSteps
<1>d. /\ part' = part + 1
      /\ UNCHANGED <<nextFile, curFile, pos, noMoreFiles, reported,
                     secureArticles, secureBuffer, posterVars, callVars, flagVars>>
  OBVIOUS
<1> HIDE DEF NumberPart, Goto, skip, a
<1>1. TypeOK'
  <2>1. a \in Article
    BY <1>a DEF Article, a
  <2>2. hold' \in [Posters -> [Roles -> SUBSET Article]] /\ secureDisk' \subseteq Threads
    <3>1. CASE skip
      BY <3>1, <1>c DEF TypeOK
    <3>2. CASE ~skip
      <4>1. {a} \in SUBSET Article /\ hold' = [hold EXCEPT ![p][r] = {a}]
        BY <3>2, <2>1, <1>c
      <4>2. secureDisk' \subseteq Threads
        BY <3>2, <1>c DEF TypeOK
      <4> QED  BY <4>1, <4>2 DEF TypeOK
    <3> QED  BY <3>1, <3>2
  <2> QED  BY <1>c, <1>d, <2>2 DEF TypeOK
<1>2. Locks'
  <2>1. ASSUME NEW q \in Posters, NEW s \in Roles
        PROVE  <<q, s>> \in secureDisk' <=> pc'[q][s] \in {"read", "number"}
    <3>1. <<q, s>> = <<p, r>> <=> q = p /\ s = r
      OBVIOUS
    <3>2. <<q, s>> \in secureDisk <=> pc[q][s] \in {"read", "number"}
      BY DEF Locks
    <3> QED  BY <3>1, <3>2, <1>c, <1>e
  <2>2. ASSUME NEW q \in Posters, NEW s \in Roles
        PROVE  secureBuffer'[q] = s <=> pc'[q][s] \in BuildSteps \ {"buffer"}
    <3>1. secureBuffer[q] = s <=> pc[q][s] \in BuildSteps \ {"buffer"}
      BY DEF Locks, BuildSteps
    <3>2. pc'[q][s] \in BuildSteps \ {"buffer"} <=> pc[q][s] \in BuildSteps \ {"buffer"}
      BY <1>c, <1>e DEF BuildSteps
    <3> QED  BY <3>1, <3>2, <1>d
  <2>3. \A t, u \in secureDisk' : t = u
    BY <1>c DEF Locks
  <2>4. ASSUME NEW q \in Posters
        PROVE  /\ pc'[q]["conn"] \in BuildSteps <=> pc[q]["conn"] \in BuildSteps
               /\ pc'[q]["conn"] = "enqueue" => pc[q]["conn"] = "enqueue"
               /\ pc'[q]["builder"] = "idle" <=> pc[q]["builder"] = "idle"
    BY <1>c, <1>e DEF BuildSteps, Roles
  <2> QED  BY <2>1, <2>2, <2>3, <2>4, <1>d DEF Locks
<1>3. Reader'
  <2>1. \A q \in Posters, s \in Roles : pc'[q][s] # "number"
    BY <1>b, <1>c
  <2>2. pos' = part'
    BY <1>a, <1>d
  <2> QED  BY <2>1, <2>2, <1>d DEF Reader
<1>4. Bodies'
  <2>1. hold[p][r] = {}
    BY <1>e DEF Bodies
  <2>2. skip => hold'[p][r] = {}
    BY <2>1, <1>c
  <2>3. ~skip => hold'[p][r] = {a} /\ a.slice = buffer[p]
    BY <1>a, <1>c DEF TypeOK, a
  <2>4. \A q \in Posters, s \in Roles : (q # p \/ s # r) => hold'[q][s] = hold[q][s]
    BY <1>c DEF TypeOK
  <2>5. UNCHANGED <<buffer, noMoreFiles>>
    BY <1>d
  <2>6. ASSUME NEW q \in Posters, NEW s \in Roles, q # p \/ s # r
        PROVE  pc'[q][s] = pc[q][s] /\ hold'[q][s] = hold[q][s]
    BY <2>4, <2>6, <1>c
  <2>7. \/ pc'[p][r] = "read" /\ hold'[p][r] = {}
        \/ pc'[p][r] = "encode" /\ hold'[p][r] = {a} /\ a.slice = buffer'[p]
    BY <2>2, <2>3, <2>5, <1>c
  <2> QED  BY <2>5, <2>6, <2>7 DEF Bodies
<1>5. BodyMatchesPart'
  BY <1>d DEF BodyMatchesPart, Queued
<1>6. Ends'
  <2>1. ~noMoreFiles
    BY <1>a DEF Reader, Files
  <2>2. \A q \in Posters : answer[q] # "end"
    BY <2>1 DEF Ends
  <2>3. \A q \in Posters : pc[q]["builder"] = "idle" => pc'[q]["builder"] = "idle"
    BY <1>c, <1>e DEF Roles
  <2> QED  BY <2>2, <2>3, <1>d DEF Ends
<1> QED  BY <1>1, <1>2, <1>3, <1>4, <1>5, <1>6

\* A file is closed only once all it holds has been numbered.
LEMMA EndOfFileInv ==
    ASSUME Inv, NEW p \in Posters, NEW r \in Roles, EndOfFile(p, r)
    PROVE  Inv'
<1> USE PipelineAssumption DEF Inv, EndOfFile, readerVars, lockVars, posterVars, callVars, flagVars
<1>1. TypeOK'
  BY DEF TypeOK, Roles, Locations, BuildSteps, Files
<1>2. Locks'
  BY DEF Locks, TypeOK, Threads, Roles, BuildSteps
<1>3. Reader'
  <2>1. \A q \in Posters, s \in Roles : pc[q][s] # "number"
    BY OneReader
  <2>2. ~noMoreFiles
    BY DEF Reader
  <2> QED  BY <2>1, <2>2 DEF Reader
<1>4. Bodies'
  BY DEF Bodies, Reader, Locks, TypeOK, Roles
<1>5. BodyMatchesPart'
  BY DEF BodyMatchesPart, Queued
<1>6. Ends'
  BY DEF Ends, Reader, Bodies, Locks, TypeOK, Roles, BuildSteps
<1> QED  BY <1>1, <1>2, <1>3, <1>4, <1>5, <1>6

\* yEncBody() gives the article the slice it announces.
LEMMA EncodeInv ==
    ASSUME Inv, NEW p \in Posters, NEW r \in Roles, Encode(p, r)
    PROVE  Inv'
<1> USE PipelineAssumption DEF Inv, Encode, Goto, readerVars, lockVars, posterVars, callVars, flagVars
<1>a. \A q \in Posters, s \in Roles : (q # p \/ s # r) =>
          pc'[q][s] = pc[q][s] /\ hold'[q][s] = hold[q][s]
  BY DEF TypeOK
<1>b. /\ pc'[p][r] = "built"
      /\ hold'[p][r] = {[slice |-> a.slice, body |-> buffer[p]] : a \in hold[p][r]}
  BY DEF TypeOK
<1>c. \A s \in Roles : pc[p][s] \in BuildSteps \ {"buffer"} => s = r
  BY OneBuilder DEF BuildSteps
<1>1. TypeOK'
  <2>1. {[slice |-> a.slice, body |-> buffer[p]] : a \in hold[p][r]} \subseteq Article
    BY DEF TypeOK, Article
  <2> QED  BY <2>1 DEF TypeOK, Locations, BuildSteps
<1>2. Locks'
  BY DEF Locks, TypeOK, Threads, Roles, BuildSteps
<1>3. Reader'
  <2>1. \A q \in Posters, s \in Roles : pc'[q][s] = "number" <=> pc[q][s] = "number"
    BY <1>a, <1>b
  <2>2. \A q \in Posters, s \in Roles : pc[q][s] = "number" => buffer'[q] = buffer[q]
    BY <1>c DEF TypeOK, BuildSteps
  <2>3. UNCHANGED readerVars
    OBVIOUS
  <2> QED  BY <2>1, <2>2, <2>3 DEF Reader
<1>4. Bodies'
  <2>1. \A a \in hold'[p][r] : a.body = a.slice
    BY <1>b DEF Bodies
  <2>2. hold'[p][r] = {} => hold[p][r] = {}
    BY <1>b
  <2>3. hold[p][r] # {}
    BY DEF Bodies
  <2>4. \A q \in Posters, s \in Roles : pc'[q][s] = "encode" =>
           pc[q][s] = "encode" /\ buffer'[q] = buffer[q] /\ (q # p \/ s # r)
    BY <1>a, <1>b, <1>c DEF TypeOK, BuildSteps
  <2> QED  BY <1>a, <1>b, <2>1, <2>2, <2>3, <2>4 DEF Bodies
<1>5. BodyMatchesPart'
  BY DEF BodyMatchesPart, Queued
<1>6. Ends'
  BY DEF Ends, Reader, Bodies, Locks, TypeOK, Roles, BuildSteps
<1> QED  BY <1>1, <1>2, <1>3, <1>4, <1>5, <1>6

\* A scheduled build is announced before it starts.
LEMMA PrepareNextArticleInv ==
    ASSUME Inv, NEW p \in Posters, PrepareNextArticle(p)
    PROVE  Inv'
<1> USE PipelineAssumption DEF Inv, PrepareNextArticle, Goto, readerVars, lockVars, posterVars, callVars, flagVars
<1>1. TypeOK'
  BY DEF TypeOK, Roles, Locations, BuildSteps
<1>2. Locks'
  BY DEF Locks, TypeOK, Threads, Roles, BuildSteps
<1>3. Reader'
  BY DEF Reader, Locks, TypeOK, Threads, Roles, BuildSteps, Files
<1>4. Bodies'
  BY DEF Bodies, Reader, Locks, TypeOK, Roles
<1>5. BodyMatchesPart'
  BY DEF BodyMatchesPart, Queued
<1>6. Ends'
  BY DEF Ends, Reader, Bodies, Locks, TypeOK, Roles, BuildSteps
<1> QED  BY <1>1, <1>2, <1>3, <1>4, <1>5, <1>6

\* Leaving ArticleBuilder::getNextArticle releases the buffer.
LEMMA LeaveBuilderInv ==
    ASSUME Inv, NEW p \in Posters, LeaveBuilder(p)
    PROVE  Inv'
<1> USE PipelineAssumption DEF Inv, LeaveBuilder, Goto, readerVars, lockVars, posterVars, callVars, flagVars
<1>1. TypeOK'
  BY DEF TypeOK, Roles, Locations, BuildSteps
<1>2. Locks'
  BY DEF Locks, TypeOK, Threads, Roles, BuildSteps
<1>3. Reader'
  BY DEF Reader, Locks, TypeOK, Threads, Roles, BuildSteps, Files
<1>4. Bodies'
  BY DEF Bodies, Reader, Locks, TypeOK, Roles
<1>5. BodyMatchesPart'
  BY DEF BodyMatchesPart, Queued
<1>6. Ends'
  BY DEF Ends, Reader, Bodies, Locks, TypeOK, Roles, BuildSteps
<1> QED  BY <1>1, <1>2, <1>3, <1>4, <1>5, <1>6

\* The hand-off puts a complete article in the queue.
LEMMA EnqueueInv ==
    ASSUME Inv, NEW p \in Posters, Enqueue(p)
    PROVE  Inv'
<1> USE PipelineAssumption DEF Inv, Enqueue, readerVars, lockVars, posterVars, callVars, flagVars
<1>a. /\ pc'[p]["builder"] = "idle"
      /\ pc'[p]["conn"] = IF pc[p]["conn"] = "waiting" THEN "lock" ELSE pc[p]["conn"]
      /\ \A q \in Posters : q # p => pc'[q] = pc[q]
      /\ pc' \in [Posters -> [Roles -> Locations]]
  BY DEF TypeOK, Roles, Locations
<1>b. hold' \in [Posters -> [Roles -> SUBSET Article]]
  BY DEF TypeOK, Roles
<1>c. \/ hold[p]["builder"] = {} /\ articles' = articles
      \/ \E a \in hold[p]["builder"] : articles' = [articles EXCEPT ![p] = Append(@, a)]
  OBVIOUS
<1>d. \A a \in hold[p]["builder"] : a \in Article /\ a.body = a.slice
  BY DEF TypeOK, Bodies, Roles
<1>1. TypeOK'
  <2>1. articles' \in [Posters -> Seq(Article)]
    <3>1. ASSUME NEW a \in hold[p]["builder"]
          PROVE  Append(articles[p], a) \in Seq(Article)
      BY <1>d DEF TypeOK
    <3> QED  BY <3>1, <1>c DEF TypeOK
  <2> QED  BY <1>a, <1>b, <2>1 DEF TypeOK
<1>2. Locks'
  <2>1. ASSUME NEW q \in Posters, NEW s \in Roles
        PROVE  /\ pc'[q][s] \in {"read", "number"} <=> pc[q][s] \in {"read", "number"}
               /\ pc'[q][s] \in BuildSteps \ {"buffer"} <=>
                     pc[q][s] \in BuildSteps \ {"buffer"}
    BY <1>a DEF BuildSteps, Roles
  <2>2. ASSUME NEW q \in Posters
        PROVE  /\ pc'[q]["conn"] # "enqueue"
               /\ secureArticles'[q] = "conn" <=> pc'[q]["conn"] \in BuildSteps
               /\ building'[q] <=> pc'[q]["builder"] # "idle"
    BY <1>a DEF Locks, BuildSteps, TypeOK
  <2>3. UNCHANGED <<secureDisk, secureBuffer>>
    OBVIOUS
  <2> HIDE DEF Enqueue
  <2> QED  BY <2>1, <2>2, <2>3 DEF Locks
<1>3. Reader'
  <2>1. \A q \in Posters, s \in Roles : pc'[q][s] = "number" <=> pc[q][s] = "number"
    BY <1>a DEF Roles
  <2> QED  BY <2>1 DEF Reader
<1>4. Bodies'
  BY DEF Bodies, Reader, Locks, TypeOK, Roles
<1>5. BodyMatchesPart'
  <2>1. ASSUME NEW q \in Posters, NEW i \in DOMAIN articles'[q]
        PROVE  articles'[q][i].body = articles'[q][i].slice
    <3>1. CASE articles'[q] = articles[q]
      BY <3>1, <2>1 DEF BodyMatchesPart, Queued
    <3>2. CASE articles'[q] # articles[q]
      <4>1. q = p /\ \E a \in hold[p]["builder"] : articles'[q] = Append(articles[q], a)
        BY <3>2, <1>c DEF TypeOK
      <4>2. PICK a \in hold[p]["builder"] : articles'[q] = Append(articles[q], a)
        BY <4>1
      <4>3. articles[q] \in Seq(Article)
        BY DEF TypeOK
      <4>4. CASE i \in DOMAIN articles[q]
        <5>1. articles'[q][i] = articles[q][i]
          BY <4>2, <4>3, <4>4
        <5> QED  BY <5>1, <4>4 DEF BodyMatchesPart, Queued
      <4>5. CASE i \notin DOMAIN articles[q]
        <5>1. articles'[q][i] = a
          BY <4>2, <4>3, <4>5, <2>1
        <5> QED  BY <5>1, <1>d
      <4> QED  BY <4>4, <4>5
    <3> QED  BY <3>1, <3>2
  <2> QED  BY <2>1 DEF BodyMatchesPart, Queued
<1>6. Ends'
  BY DEF Ends, Reader, Bodies, Locks, TypeOK, Roles, BuildSteps
<1> QED  BY <1>1, <1>2, <1>3, <1>4, <1>5, <1>6

\* Calling getNextArticle() changes nothing the invariant relates.
LEMMA SendNextArticleInv ==
    ASSUME Inv, NEW p \in Posters, SendNextArticle(p)
    PROVE  Inv'
<1> USE PipelineAssumption DEF Inv, SendNextArticle, Goto, readerVars, lockVars, posterVars, callVars, flagVars
<1>1. TypeOK'
  BY DEF TypeOK, Roles, Locations, BuildSteps
<1>2. Locks'
  BY DEF Locks, TypeOK, Threads, Roles, BuildSteps
<1>3. Reader'
  BY DEF Reader, Locks, TypeOK, Threads, Roles, BuildSteps, Files
<1>4. Bodies'
  BY DEF Bodies, Reader, Locks, TypeOK, Roles
<1>5. BodyMatchesPart'
  BY DEF BodyMatchesPart, Queued
<1>6. Ends'
  BY DEF Ends, Reader, Bodies, Locks, TypeOK, Roles, BuildSteps
<1> QED  BY <1>1, <1>2, <1>3, <1>4, <1>5, <1>6

\* Refusing an article during a pause does not claim the end of input.
LEMMA RefuseArticleInv ==
    ASSUME Inv, NEW p \in Posters, RefuseArticle(p)
    PROVE  Inv'
<1> USE PipelineAssumption DEF Inv, RefuseArticle, Answer, AtQueue, Goto, readerVars, lockVars, posterVars, callVars, flagVars
<1>1. TypeOK'
  BY DEF TypeOK, Roles, Locations, BuildSteps
<1>2. Locks'
  BY DEF Locks, TypeOK, Threads, Roles, BuildSteps
<1>3. Reader'
  BY DEF Reader, Locks, TypeOK, Threads, Roles, BuildSteps, Files
<1>4. Bodies'
  BY DEF Bodies, Reader, Locks, TypeOK, Roles
<1>5. BodyMatchesPart'
  BY DEF BodyMatchesPart, Queued
<1>6. Ends'
  BY DEF Ends, Reader, Bodies, Locks, TypeOK, Roles, BuildSteps
<1> QED  BY <1>1, <1>2, <1>3, <1>4, <1>5, <1>6

\* Waiting for the builder changes nothing the invariant relates.
LEMMA WaitForBuilderInv ==
    ASSUME Inv, NEW p \in Posters, WaitForBuilder(p)
    PROVE  Inv'
<1> USE PipelineAssumption DEF Inv, WaitForBuilder, AtQueue, Goto, readerVars, lockVars, posterVars, callVars, flagVars
<1>1. TypeOK'
  BY DEF TypeOK, Roles, Locations, BuildSteps
<1>2. Locks'
  BY DEF Locks, TypeOK, Threads, Roles, BuildSteps
<1>3. Reader'
  BY DEF Reader, Locks, TypeOK, Threads, Roles, BuildSteps, Files
<1>4. Bodies'
  BY DEF Bodies, Reader, Locks, TypeOK, Roles
<1>5. BodyMatchesPart'
  BY DEF BodyMatchesPart, Queued
<1>6. Ends'
  BY DEF Ends, Reader, Bodies, Locks, TypeOK, Roles, BuildSteps
<1> QED  BY <1>1, <1>2, <1>3, <1>4, <1>5, <1>6

\* The head of the queue is a complete article.
LEMMA DequeueInv ==
    ASSUME Inv, NEW p \in Posters, Dequeue(p)
    PROVE  Inv'
<1> USE PipelineAssumption DEF Inv, Dequeue, Answer, AtQueue, Goto, readerVars, lockVars, posterVars, callVars, flagVars
<1>1. TypeOK'
  BY DEF TypeOK, Roles, Locations, BuildSteps
<1>2. Locks'
  BY DEF Locks, TypeOK, Threads, Roles, BuildSteps
<1>3. Reader'
  BY DEF Reader, Locks, TypeOK, Threads, Roles, BuildSteps, Files
<1>4. Bodies'
  BY DEF Bodies, Reader, Locks, TypeOK, Roles
<1>5. BodyMatchesPart'
  <2>1. articles[p] \in Seq(Article) /\ articles[p] # <<>>
    BY DEF TypeOK
  <2>2. Head(articles[p]) \in Queued(p)
    BY <2>1 DEF Queued
  <2>3. /\ Len(Tail(articles[p])) = Len(articles[p]) - 1
        /\ \A i \in 1..Len(Tail(articles[p])) : Tail(articles[p])[i] = articles[p][i + 1]
    BY <2>1, HeadTailProperties
  <2>4. Tail(articles[p]) \in Seq(Article) /\ articles'[p] = Tail(articles[p])
    BY <2>1, HeadTailProperties DEF TypeOK
  <2>5. \A i \in DOMAIN articles'[p] : articles'[p][i] \in Queued(p)
    BY <2>1, <2>3, <2>4 DEF Queued
  <2>6. \A q \in Posters : q # p => articles'[q] = articles[q]
    BY DEF TypeOK
  <2>7. \A q \in Posters : \A a \in Queued(q)' : a \in Queued(q)
    BY <2>5, <2>6 DEF Queued
  <2> QED  BY <2>2, <2>7 DEF BodyMatchesPart
<1>6. Ends'
  BY DEF Ends, Reader, Bodies, Locks, TypeOK, Roles, BuildSteps
<1> QED  BY <1>1, <1>2, <1>3, <1>4, <1>5, <1>6

\* A connection starts a build only with an empty queue and an idle builder.
LEMMA BuildItselfInv ==
    ASSUME Inv, NEW p \in Posters, BuildItself(p)
    PROVE  Inv'
<1> USE PipelineAssumption DEF Inv, BuildItself, AtQueue, Goto, readerVars, lockVars, posterVars, callVars, flagVars
<1>1. TypeOK'
  BY DEF TypeOK, Roles, Locations, BuildSteps
<1>2. Locks'
  BY DEF Locks, TypeOK, Threads, Roles, BuildSteps
<1>3. Reader'
  BY SMTT(90) DEF Reader, Locks, TypeOK, Threads, Roles, BuildSteps, Files
<1>4. Bodies'
  BY DEF Bodies, Reader, Locks, TypeOK, Roles
<1>5. BodyMatchesPart'
  BY DEF BodyMatchesPart, Queued
<1>6. Ends'
  BY DEF Ends, Reader, Bodies, Locks, TypeOK, Roles, BuildSteps
<1> QED  BY <1>1, <1>2, <1>3, <1>4, <1>5, <1>6

\* The end of input is claimed only when nothing is left.
LEMMA SayNoMoreInv ==
    ASSUME Inv, NEW p \in Posters, SayNoMore(p)
    PROVE  Inv'
<1> USE PipelineAssumption DEF Inv, SayNoMore, Answer, AtQueue, Goto, readerVars, lockVars, posterVars, callVars, flagVars
<1>1. TypeOK'
  BY DEF TypeOK, Roles, Locations, BuildSteps
<1>2. Locks'
  BY DEF Locks, TypeOK, Threads, Roles, BuildSteps
<1>3. Reader'
  BY DEF Reader, Locks, TypeOK, Threads, Roles, BuildSteps, Files
<1>4. Bodies'
  BY DEF Bodies, Reader, Locks, TypeOK, Roles
<1>5. BodyMatchesPart'
  BY DEF BodyMatchesPart, Queued
<1>6. Ends'
  <2>1. hold[p]["conn"] = {} /\ hold[p]["builder"] = {}
    BY DEF Bodies, Locks, Roles
  <2>2. pc'[p]["conn"] = "check" /\ \A q \in Posters : pc'[q]["builder"] = pc[q]["builder"]
    BY DEF TypeOK, Roles
  <2>3. \A q \in Posters : q # p => pc'[q] = pc[q] /\ answer'[q] = answer[q]
    BY DEF TypeOK
  <2> QED  BY <2>1, <2>2, <2>3 DEF Ends
<1> QED  BY <1>1, <1>2, <1>3, <1>4, <1>5, <1>6

\* A build of the connection's own hands over a complete article or the end.
LEMMA ReturnBuiltInv ==
    ASSUME Inv, NEW p \in Posters, ReturnBuilt(p)
    PROVE  Inv'
<1> USE PipelineAssumption DEF Inv, ReturnBuilt, Answer, Goto, readerVars, lockVars, posterVars, callVars, flagVars
<1>a. /\ pc'[p]["conn"] = "check"
      /\ \A q \in Posters : pc'[q]["builder"] = pc[q]["builder"]
      /\ \A q \in Posters : q # p => pc'[q] = pc[q]
      /\ pc' \in [Posters -> [Roles -> Locations]]
  <2>1. Goto(p, "conn", "check")
    OBVIOUS
  <2> QED  BY <2>1, GotoMoves DEF Roles, Locations, TypeOK
<1>b. /\ hold' \in [Posters -> [Roles -> SUBSET Article]]
      /\ hold'[p]["conn"] = {}
      /\ \A q \in Posters : hold'[q]["builder"] = hold[q]["builder"]
      /\ \A q \in Posters : q # p => hold'[q] = hold[q]
  BY DEF TypeOK, Roles
<1>c. /\ secureArticles[p] = "conn"
      /\ articles[p] = <<>> /\ pc[p]["builder"] = "idle"
  BY DEF Locks, Ends, BuildSteps
<1>1. TypeOK'
  <2>1. answer' \in [Posters -> {"none", "article", "barrier", "end"}]
    BY DEF TypeOK
  <2>2. scheduled' \in [Posters -> Nat]
    <3>1. CASE hold[p]["conn"] = {}
      BY <3>1 DEF TypeOK
    <3>2. CASE hold[p]["conn"] # {}
      BY <3>2 DEF TypeOK
    <3> QED  BY <3>1, <3>2
  <2>3. /\ secureArticles' \in [Posters -> {"free", "main"} \cup Roles]
        /\ secureBuffer' \in [Posters -> {"free"} \cup Roles]
        /\ handed' \subseteq Article
    BY DEF TypeOK, Roles
  <2> QED  BY <1>a, <1>b, <2>1, <2>2, <2>3 DEF TypeOK
<1>2. Locks'
  BY DEF Locks, TypeOK, Threads, Roles, BuildSteps
<1>3. Reader'
  <2>1. \A q \in Posters, s \in Roles : pc'[q][s] = "number" <=> pc[q][s] = "number"
    BY <1>a DEF Roles
  <2> QED  BY <2>1 DEF Reader
<1>4. Bodies'
  BY DEF Bodies, Reader, Locks, TypeOK, Roles
<1>5. BodyMatchesPart'
  <2>1. \A a \in hold[p]["conn"] : a.body = a.slice
    BY DEF Bodies, Roles
  <2>2. UNCHANGED articles /\ handed' = handed \cup hold[p]["conn"]
    OBVIOUS
  <2> QED  BY <2>1, <2>2 DEF BodyMatchesPart, Queued
<1>6. Ends'
  <2>1. \A q \in Posters : q # p =>
            answer'[q] = answer[q] /\ secureArticles'[q] = secureArticles[q]
    BY DEF TypeOK
  <2>2. secureArticles'[p] # "conn" /\ UNCHANGED <<noMoreFiles, articles>>
    BY DEF TypeOK
  <2>3. answer'[p] = "end" => noMoreFiles
    BY DEF Bodies, Roles, TypeOK
  <2>4. hold[p]["builder"] = {}
    BY <1>c DEF Bodies, Roles
  <2> QED  BY <1>a, <1>b, <1>c, <2>1, <2>2, <2>3, <2>4 DEF Ends
<1> QED  BY <1>1, <1>2, <1>3, <1>4, <1>5, <1>6

\* Drawing the conclusion from an answer takes the answer away.
LEMMA UseAnswerInv ==
    ASSUME Inv, NEW p \in Posters, UseAnswer(p)
    PROVE  Inv'
<1> USE PipelineAssumption DEF Inv, UseAnswer, Goto, readerVars, lockVars, posterVars, callVars, flagVars
<1>1. TypeOK'
  BY DEF TypeOK, Roles, Locations, BuildSteps
<1>2. Locks'
  BY DEF Locks, TypeOK, Threads, Roles, BuildSteps
<1>3. Reader'
  BY DEF Reader, Locks, TypeOK, Threads, Roles, BuildSteps, Files
<1>4. Bodies'
  BY DEF Bodies, Reader, Locks, TypeOK, Roles
<1>5. BodyMatchesPart'
  BY DEF BodyMatchesPart, Queued
<1>6. Ends'
  BY DEF Ends, Reader, Bodies, Locks, TypeOK, Roles, BuildSteps
<1> QED  BY <1>1, <1>2, <1>3, <1>4, <1>5, <1>6

\* A pause, a resume or a stop changes only the job's flags.
LEMMA FlagsInv ==
    ASSUME Inv, Pause \/ Resume \/ Stop
    PROVE  Inv'
<1>1. UNCHANGED <<readerVars, lockVars, posterVars, pc, hold, callVars>>
  BY DEF Pause, Resume, Stop
<1>2. nbPauses' \in Nat
  BY DEF Inv, TypeOK, Pause, Resume, Stop
<1>3. paused' \in BOOLEAN /\ stopPosting' \in BOOLEAN
  BY Zenon DEF Inv, TypeOK, Pause, Resume, Stop
<1> QED  BY <1>1, <1>2, <1>3 DEF Inv, TypeOK, Locks, Reader, Bodies, BodyMatchesPart,
                                 Queued, Ends, readerVars, lockVars, posterVars, callVars

-----------------------------------------------------------------------------
\* _startPosterThreads() establishes the invariant.
LEMMA InitInv == Init => Inv
<1> SUFFICES ASSUME Init PROVE Inv
  OBVIOUS
<1> USE PipelineAssumption DEF Init
<1>1. TypeOK
  <2>1. /\ nextFile \in 1..(NbFiles + 1) /\ curFile \in 0..NbFiles
        /\ scheduled \in [Posters -> Nat] /\ articles \in [Posters -> Seq(Article)]
    OBVIOUS
  <2> QED  BY <2>1 DEF TypeOK, Locations
<1>2. Locks
  BY DEF Locks, Roles, BuildSteps
<1>3. Reader
  <2>1. \A f \in Unreadable : ~(f < 1)
    BY DEF Files
  <2> QED  BY <2>1 DEF Reader
<1>4. Bodies /\ BodyMatchesPart /\ Ends
  BY DEF Bodies, BodyMatchesPart, Queued, Ends
<1> QED  BY <1>1, <1>2, <1>3, <1>4 DEF Inv

\* Every step of a build keeps the invariant, whichever thread runs it.
LEMMA BuildArticleInv ==
    ASSUME Inv, NEW p \in Posters, NEW r \in Roles, BuildArticle(p, r)
    PROVE  Inv'
BY LockBufferInv, LockDiskInv, OpenNextFileInv, NoFileLeftInv, ReadSliceInv,
   NumberPartInv, EndOfFileInv, EncodeInv DEF BuildArticle

\* Every step of a builder thread keeps the invariant.
LEMMA BuilderThreadInv ==
    ASSUME Inv, NEW p \in Posters, BuilderThread(p)
    PROVE  Inv'
BY PrepareNextArticleInv, BuildArticleInv, LeaveBuilderInv, EnqueueInv
   DEF BuilderThread, Roles

\* Every step of a connections thread keeps the invariant.
LEMMA ConnectionsThreadInv ==
    ASSUME Inv, NEW p \in Posters, ConnectionsThread(p)
    PROVE  Inv'
BY SendNextArticleInv, RefuseArticleInv, WaitForBuilderInv, DequeueInv, BuildItselfInv,
   SayNoMoreInv, BuildArticleInv, ReturnBuiltInv, UseAnswerInv
   DEF ConnectionsThread, Roles

\* A step in which no variable changes keeps the invariant.
LEMMA StutterInv ==
    ASSUME Inv, UNCHANGED vars
    PROVE  Inv'
BY DEF Inv, TypeOK, Locks, Reader, Bodies, BodyMatchesPart, Queued, Ends,
       vars, readerVars, lockVars, posterVars, callVars, flagVars

\* Every step of the pipeline keeps the invariant.
LEMMA NextInv == Inv /\ [Next]_vars => Inv'
BY UnlockQueueInv, BuilderThreadInv, ConnectionsThreadInv, FlagsInv, StutterInv
   DEF Next

\* Inv holds in every state the threads of a job can reach.
THEOREM Invariance == Spec => []Inv
BY InitInv, NextInv, PTL DEF Spec

-----------------------------------------------------------------------------
\* Every variable of the pipeline keeps its type: in particular a part is
\* numbered only while a file is open, so no article names file 0.
THEOREM TypeCorrect == Spec => []TypeOK
<1>1. Inv => TypeOK
  BY DEF Inv
<1> QED  BY <1>1, Invariance, PTL

\* Poster::getNextArticle and ArticleBuilder::getNextArticle never mix two
\* builds: the body of an article is the slice its part number announces.
THEOREM BodiesCorrect == Spec => []BodyMatchesPart
<1>1. Inv => BodyMatchesPart
  BY DEF Inv
<1> QED  BY <1>1, Invariance, PTL

\* Poster::getNextArticle says "no more articles" only when nothing is left for
\* that poster, whatever the other builders do at the end of the input.
THEOREM EndCorrect == Spec => []NothingLeftAtEnd
<1>1. ASSUME Inv, NEW p \in Posters, answer[p] = "end"
      PROVE  Exhausted(p)
  <2> USE PipelineAssumption
  <2>1. /\ curFile = 0 /\ nextFile = NbFiles + 1
        /\ articles[p] = <<>> /\ hold[p]["conn"] = {} /\ hold[p]["builder"] = {}
    BY <1>1 DEF Inv, Ends, Reader
  <2>2. Unread = {}
    <3>1. \A s \in Slice : s[1] \in 1..NbFiles
      BY DEF Slice, Files
    <3> QED  BY <3>1, <2>1 DEF Unread, ToPost
  <2>3. Staged(p) = {}
    BY <2>1 DEF Staged, Queued
  <2>4. reported = Unreadable
    <3>1. \A f \in Unreadable : f < NbFiles + 1
      BY DEF Files
    <3> QED  BY <1>1, <2>1, <3>1 DEF Inv, Reader
  <2> QED  BY <2>2, <2>3, <2>4 DEF Exhausted
<1>2. Inv => NothingLeftAtEnd
  BY <1>1 DEF NothingLeftAtEnd
<1> QED  BY <1>2, Invariance, PTL

==============================================================================
