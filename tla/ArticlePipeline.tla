--------------------------- MODULE ArticlePipeline ---------------------------
(***************************************************************************)
(* The article pipeline of one posting job: each Poster owns a connections *)
(* thread, a builder thread and a queue of articles prepared in advance;   *)
(* all of them share one reader over the files to upload.                  *)
(*   - Poster::getNextArticle     the connections thread takes an article, *)
(*                                waits for its builder, or builds one     *)
(*                                itself;                                  *)
(*   - ArticleBuilder::onPrepareNextArticle   the builder thread prepares  *)
(*                                one article for the queue;               *)
(*   - ArticleBuilder::getNextArticle and                                  *)
(*     PostingJob::_readNextArticleIntoBufferPtr   the steps both threads  *)
(*                                go through to build an article.          *)
(* Three mutexes are taken in the order _secureArticles, _secureBuffer,    *)
(* _secureDiskAccess; a step of a thread below is what it does between two *)
(* points where another thread can interfere.                              *)
(***************************************************************************)
EXTENDS Naturals, Sequences

CONSTANTS Posters,        \* PostingJob::_posters
          NbFiles,        \* size of _filesToUpload when the transfer starts
          NbSlices,       \* file -> article-sized slices its read() returns
          Unreadable,     \* files whose open() fails
          AlreadyPosted,  \* slices a resumed job must not send again
          Advance,        \* articles scheduled in advance for each poster
          MaxPauses       \* bound on the pauses of a run

Files == 1..NbFiles

ASSUME PipelineAssumption ==
    /\ NbFiles \in Nat
    /\ NbSlices \in [Files -> Nat]
    /\ Unreadable \subseteq Files
    /\ Advance \in Nat
    /\ MaxPauses \in Nat

\* The connections thread and the builder thread of a poster.
Roles == {"conn", "builder"}
Threads == Posters \X Roles

\* A slice is named by its file and its position; an article carries the
\* part number it announces and, once encoded, the slice its body holds.
Slice == UNION {{<<f, i>> : i \in 1..NbSlices[f]} : f \in Files}
NotEncoded == <<0, 0>>
Article == [slice : Files \X Nat, body : (Files \X Nat) \cup {NotEncoded}]

\* The slices a job has to hand over: those of readable files, less the parts
\* a resumed post has confirmed already.
ToPost == {s \in Slice : s[1] \notin Unreadable /\ s \notin AlreadyPosted}

VARIABLES
    \* the reader, guarded by _secureDiskAccess
    nextFile,    \* head of _filesToUpload
    curFile,     \* _nntpFile and its open _file, 0 when they are null
    pos,         \* slices read from _file
    part,        \* _part
    noMoreFiles, \* _noMoreFiles
    reported,    \* files whose errorReadingFile() was emitted
    \* the mutexes
    secureArticles, \* poster -> who holds _secureArticles
    secureBuffer,   \* poster -> who holds _secureBuffer
    secureDisk,     \* the threads holding _secureDiskAccess
    \* the posters
    articles,    \* poster -> _articles, the queue of prepared articles
    building,    \* poster -> _articleBuildInProgress
    scheduled,   \* poster -> scheduleNextArticle() events not yet handled
    buffer,      \* poster -> the slice in ArticleBuilder::_buffer
    \* the threads
    pc,          \* thread -> where it is
    hold,        \* thread -> the article it has built, at most one
    answer,      \* poster -> what getNextArticle() answered, until it is used
    handed,      \* the articles connections have received
    noMoreArticles, \* poster -> a connection concluded NO_MORE_FILES
    \* the job's flags
    paused, stopPosting, nbPauses

readerVars == <<nextFile, curFile, pos, part, noMoreFiles, reported>>
lockVars   == <<secureArticles, secureBuffer, secureDisk>>
posterVars == <<articles, building, scheduled, buffer>>
callVars   == <<answer, handed, noMoreArticles>>
flagVars   == <<paused, stopPosting, nbPauses>>
vars == <<readerVars, lockVars, posterVars, pc, hold, callVars, flagVars>>

BuildSteps == {"buffer", "disk", "read", "number", "encode", "built"}
Locations == BuildSteps \cup {"idle", "lock", "waiting", "check", "enqueue"}

TypeOK ==
    /\ nextFile \in 1..(NbFiles + 1) /\ curFile \in 0..NbFiles
    /\ pos \in Nat /\ part \in Nat
    /\ noMoreFiles \in BOOLEAN /\ reported \subseteq Unreadable
    /\ secureArticles \in [Posters -> {"free", "main"} \cup Roles]
    /\ secureBuffer \in [Posters -> {"free"} \cup Roles]
    /\ secureDisk \subseteq Threads
    /\ articles \in [Posters -> Seq(Article)]
    /\ building \in [Posters -> BOOLEAN]
    /\ scheduled \in [Posters -> Nat]
    /\ buffer \in [Posters -> (Files \X Nat) \cup {NotEncoded}]
    /\ pc \in [Posters -> [Roles -> Locations]]
    /\ hold \in [Posters -> [Roles -> SUBSET Article]]
    /\ answer \in [Posters -> {"none", "article", "barrier", "end"}]
    /\ handed \subseteq Article
    /\ noMoreArticles \in [Posters -> BOOLEAN]
    /\ paused \in BOOLEAN /\ stopPosting \in BOOLEAN /\ nbPauses \in Nat

-----------------------------------------------------------------------------
\* _startPosterThreads() locks every queue before the threads run and
\* _preparePostersArticles() schedules the first articles.
Init ==
    /\ nextFile = 1 /\ curFile = 0 /\ pos = 0 /\ part = 0
    /\ noMoreFiles = FALSE /\ reported = {}
    /\ secureArticles = [p \in Posters |-> "main"]
    /\ secureBuffer = [p \in Posters |-> "free"]
    /\ secureDisk = {}
    /\ articles = [p \in Posters |-> <<>>]
    /\ building = [p \in Posters |-> FALSE]
    /\ scheduled = [p \in Posters |-> Advance]
    /\ buffer = [p \in Posters |-> NotEncoded]
    /\ pc = [p \in Posters |-> [r \in Roles |-> "idle"]]
    /\ hold = [p \in Posters |-> [r \in Roles |-> {}]]
    /\ answer = [p \in Posters |-> "none"]
    /\ handed = {}
    /\ noMoreArticles = [p \in Posters |-> FALSE]
    /\ paused = FALSE /\ stopPosting = FALSE /\ nbPauses = 0

\* The end of _postFiles(): the main thread opens the queue of poster p.
UnlockQueue(p) ==
    /\ secureArticles[p] = "main"
    /\ secureArticles' = [secureArticles EXCEPT ![p] = "free"]
    /\ UNCHANGED <<readerVars, secureBuffer, secureDisk, posterVars, pc, hold,
                   callVars, flagVars>>

-----------------------------------------------------------------------------
(* Building one article: ArticleBuilder::getNextArticle, run by either     *)
(* thread of a poster.                                                     *)

Goto(p, r, where) == pc' = [pc EXCEPT ![p][r] = where]

LockBuffer(p, r) ==
    /\ pc[p][r] = "buffer"
    /\ secureBuffer[p] = "free"
    /\ secureBuffer' = [secureBuffer EXCEPT ![p] = r]
    /\ Goto(p, r, "disk")
    /\ UNCHANGED <<readerVars, secureArticles, secureDisk, posterVars, hold,
                   callVars, flagVars>>

\* Mutant of LockDisk: the reader is used without its mutex.
LockDiskUnguarded(p, r) ==
    /\ pc[p][r] = "disk"
    /\ secureDisk' = {<<p, r>>}
    /\ Goto(p, r, "read")
    /\ UNCHANGED <<readerVars, secureArticles, secureBuffer, posterVars, hold,
                   callVars, flagVars>>

LockDisk(p, r) ==
    /\ pc[p][r] = "disk"
    /\ secureDisk = {}
    /\ secureDisk' = {<<p, r>>}
    /\ Goto(p, r, "read")
    /\ UNCHANGED <<readerVars, secureArticles, secureBuffer, posterVars, hold,
                   callVars, flagVars>>

\* Mutant of OpenNextFile: one file too many is taken.
OpenNextFileOffByOne(p, r) ==
    /\ pc[p][r] = "read" /\ curFile = 0 /\ nextFile <= NbFiles + 1
    /\ nextFile' = nextFile + 1
    /\ curFile' = nextFile /\ pos' = 0 /\ part' = 0
    /\ UNCHANGED <<noMoreFiles, reported, lockVars, posterVars, pc, hold, callVars,
                   flagVars>>

\* _getNextFile() and open(): the next file to upload becomes the current one,
\* or is reported and passed over when it cannot be opened.
OpenNextFile(p, r) ==
    /\ pc[p][r] = "read" /\ curFile = 0 /\ nextFile <= NbFiles
    /\ nextFile' = nextFile + 1
    /\ IF nextFile \in Unreadable
         THEN /\ reported' = reported \cup {nextFile}
              /\ UNCHANGED <<curFile, pos, part>>
         ELSE /\ curFile' = nextFile /\ pos' = 0 /\ part' = 0
              /\ UNCHANGED reported
    /\ UNCHANGED <<noMoreFiles, lockVars, posterVars, pc, hold, callVars, flagVars>>

\* No file is left: _noMoreFiles is set and no article is returned.
NoFileLeft(p, r) ==
    /\ pc[p][r] = "read" /\ curFile = 0 /\ nextFile > NbFiles
    /\ noMoreFiles' = TRUE
    /\ secureDisk' = secureDisk \ {<<p, r>>}
    /\ Goto(p, r, "built")
    /\ UNCHANGED <<nextFile, curFile, pos, part, reported, secureArticles,
                   secureBuffer, posterVars, hold, callVars, flagVars>>

\* read() fills the poster's buffer and advances the file.
ReadSlice(p, r) ==
    /\ pc[p][r] = "read" /\ curFile # 0 /\ pos < NbSlices[curFile]
    /\ pos' = pos + 1
    /\ buffer' = [buffer EXCEPT ![p] = <<curFile, pos + 1>>]
    /\ Goto(p, r, "number")
    /\ UNCHANGED <<nextFile, curFile, part, noMoreFiles, reported, lockVars,
                   articles, building, scheduled, hold, callVars, flagVars>>

\* Mutant of NumberPart: a resumed post sends its confirmed parts again.
NumberPartAgain(p, r) ==
    /\ pc[p][r] = "number"
    /\ part' = part + 1
    /\ hold' = [hold EXCEPT ![p][r] =
                  {[slice |-> <<curFile, part + 1>>, body |-> NotEncoded]}]
    /\ secureDisk' = secureDisk \ {<<p, r>>}
    /\ Goto(p, r, "encode")
    /\ UNCHANGED <<nextFile, curFile, pos, noMoreFiles, reported, secureArticles,
                   secureBuffer, posterVars, callVars, flagVars>>

\* ++_part, then either the part is skipped because a resumed post has it
\* already, or an article is created and the disk released.
NumberPart(p, r) ==
    /\ pc[p][r] = "number"
    /\ part' = part + 1
    /\ IF <<curFile, part + 1>> \in AlreadyPosted
         THEN /\ Goto(p, r, "read")
              /\ UNCHANGED <<hold, secureDisk>>
         ELSE /\ hold' = [hold EXCEPT ![p][r] =
                            {[slice |-> <<curFile, part + 1>>, body |-> NotEncoded]}]
              /\ secureDisk' = secureDisk \ {<<p, r>>}
              /\ Goto(p, r, "encode")
    /\ UNCHANGED <<nextFile, curFile, pos, noMoreFiles, reported,
                   secureArticles, secureBuffer, posterVars, callVars, flagVars>>

\* read() returns nothing more: the file is closed and the loop goes on.
EndOfFile(p, r) ==
    /\ pc[p][r] = "read" /\ curFile # 0 /\ pos >= NbSlices[curFile]
    /\ curFile' = 0
    /\ UNCHANGED <<nextFile, pos, part, noMoreFiles, reported, lockVars, posterVars,
                   pc, hold, callVars, flagVars>>

\* yEncBody(_buffer); what the buffer holds is of no use any more.
Encode(p, r) ==
    /\ pc[p][r] = "encode"
    /\ hold' = [hold EXCEPT ![p][r] =
                  {[slice |-> a.slice, body |-> buffer[p]] : a \in hold[p][r]}]
    /\ buffer' = [buffer EXCEPT ![p] = NotEncoded]
    /\ Goto(p, r, "built")
    /\ UNCHANGED <<readerVars, lockVars, articles, building, scheduled, callVars,
                   flagVars>>

BuildArticle(p, r) ==
    \/ LockBuffer(p, r) \/ LockDisk(p, r)
    \/ OpenNextFile(p, r) \/ NoFileLeft(p, r)
    \/ ReadSlice(p, r) \/ NumberPart(p, r) \/ EndOfFile(p, r)
    \/ Encode(p, r)

-----------------------------------------------------------------------------
(* The builder thread: ArticleBuilder::onPrepareNextArticle.               *)

\* Mutant of PrepareNextArticle: the hand-off to come is not announced.
PrepareUnannounced(p) ==
    /\ pc[p]["builder"] = "idle" /\ scheduled[p] > 0
    /\ secureArticles[p] = "free"
    /\ scheduled' = [scheduled EXCEPT ![p] = @ - 1]
    /\ Goto(p, "builder", "buffer")
    /\ UNCHANGED <<readerVars, lockVars, articles, building, buffer, hold, callVars,
                   flagVars>>

\* One scheduled event is taken and the hand-off to come is announced under
\* _secureArticles.
PrepareNextArticle(p) ==
    /\ pc[p]["builder"] = "idle" /\ scheduled[p] > 0
    /\ secureArticles[p] = "free"
    /\ scheduled' = [scheduled EXCEPT ![p] = @ - 1]
    /\ building' = [building EXCEPT ![p] = TRUE]
    /\ Goto(p, "builder", "buffer")
    /\ UNCHANGED <<readerVars, lockVars, articles, buffer, hold, callVars, flagVars>>

\* getNextArticle() returns to onPrepareNextArticle() and releases _buffer.
LeaveBuilder(p) ==
    /\ pc[p]["builder"] = "built"
    /\ secureBuffer' = [secureBuffer EXCEPT ![p] = "free"]
    /\ Goto(p, "builder", "enqueue")
    /\ UNCHANGED <<readerVars, secureArticles, secureDisk, posterVars, hold, callVars,
                   flagVars>>

\* Mutant of Enqueue: the waiting connection is not woken up.
EnqueueWithoutWake(p) ==
    /\ pc[p]["builder"] = "enqueue"
    /\ secureArticles[p] = "free"
    /\ \/ /\ hold[p]["builder"] = {} /\ UNCHANGED articles
       \/ \E a \in hold[p]["builder"] :
              articles' = [articles EXCEPT ![p] = Append(@, a)]
    /\ building' = [building EXCEPT ![p] = FALSE]
    /\ hold' = [hold EXCEPT ![p]["builder"] = {}]
    /\ Goto(p, "builder", "idle")
    /\ UNCHANGED <<readerVars, lockVars, scheduled, buffer, callVars, flagVars>>

\* The article, if any, is queued and the waiting connection woken up.
Enqueue(p) ==
    /\ pc[p]["builder"] = "enqueue"
    /\ secureArticles[p] = "free"
    /\ \/ /\ hold[p]["builder"] = {} /\ UNCHANGED articles
       \/ \E a \in hold[p]["builder"] :
              articles' = [articles EXCEPT ![p] = Append(@, a)]
    /\ building' = [building EXCEPT ![p] = FALSE]
    /\ hold' = [hold EXCEPT ![p]["builder"] = {}]
    /\ pc' = [pc EXCEPT ![p]["builder"] = "idle",
                        ![p]["conn"] = IF @ = "waiting" THEN "lock" ELSE @]
    /\ UNCHANGED <<readerVars, lockVars, scheduled, buffer, callVars, flagVars>>

-----------------------------------------------------------------------------
(* The connections thread: NntpConnection::_sendNextArticle calling        *)
(* Poster::getNextArticle.                                                 *)

\* A connection with nothing to send passes the first pause test.
SendNextArticle(p) ==
    /\ pc[p]["conn"] = "idle"
    /\ ~paused
    /\ Goto(p, "conn", "lock")
    /\ UNCHANGED <<readerVars, lockVars, posterVars, hold, callVars, flagVars>>

\* The answers getNextArticle() can give, all with _secureArticles released.
Answer(p, what) ==
    /\ answer' = [answer EXCEPT ![p] = what]
    /\ Goto(p, "conn", "check")

AtQueue(p) == pc[p]["conn"] = "lock" /\ secureArticles[p] = "free"
Barrier == paused \/ stopPosting

\* The job is paused or stopping: no article, and no end of input either.
RefuseArticle(p) ==
    /\ AtQueue(p) /\ Barrier
    /\ Answer(p, "barrier")
    /\ UNCHANGED <<readerVars, lockVars, posterVars, hold, handed, noMoreArticles,
                   flagVars>>

\* The queue is empty while the builder is at work: wait for its hand-off.
WaitForBuilder(p) ==
    /\ AtQueue(p) /\ ~Barrier
    /\ articles[p] = <<>> /\ building[p]
    /\ Goto(p, "conn", "waiting")
    /\ UNCHANGED <<readerVars, lockVars, posterVars, hold, callVars, flagVars>>

\* The head of the queue is handed over and another article scheduled.
Dequeue(p) ==
    /\ AtQueue(p) /\ ~Barrier
    /\ articles[p] # <<>>
    /\ handed' = handed \cup {Head(articles[p])}
    /\ articles' = [articles EXCEPT ![p] = Tail(@)]
    /\ scheduled' = [scheduled EXCEPT ![p] = @ + 1]
    /\ Answer(p, "article")
    /\ UNCHANGED <<readerVars, lockVars, building, buffer, hold, noMoreArticles,
                   flagVars>>

\* Nothing is prepared: the connection builds an article itself and keeps
\* _secureArticles meanwhile.
BuildItself(p) ==
    /\ AtQueue(p) /\ ~Barrier
    /\ articles[p] = <<>> /\ ~building[p] /\ ~noMoreFiles
    /\ secureArticles' = [secureArticles EXCEPT ![p] = "conn"]
    /\ Goto(p, "conn", "buffer")
    /\ UNCHANGED <<readerVars, secureBuffer, secureDisk, posterVars, hold, callVars,
                   flagVars>>

\* The queue is empty, nothing is being built and every file has been read.
SayNoMore(p) ==
    /\ AtQueue(p) /\ ~Barrier
    /\ articles[p] = <<>> /\ ~building[p] /\ noMoreFiles
    /\ Answer(p, "end")
    /\ UNCHANGED <<readerVars, lockVars, posterVars, hold, handed, noMoreArticles,
                   flagVars>>

\* The connection's own build is over: both mutexes are released; an article
\* is handed over and another one scheduled, none is the end of input.
ReturnBuilt(p) ==
    /\ pc[p]["conn"] = "built"
    /\ secureBuffer' = [secureBuffer EXCEPT ![p] = "free"]
    /\ secureArticles' = [secureArticles EXCEPT ![p] = "free"]
    /\ handed' = handed \cup hold[p]["conn"]
    /\ hold' = [hold EXCEPT ![p]["conn"] = {}]
    /\ \/ /\ hold[p]["conn"] = {}
          /\ Answer(p, "end") /\ UNCHANGED scheduled
       \/ /\ hold[p]["conn"] # {}
          /\ Answer(p, "article")
          /\ scheduled' = [scheduled EXCEPT ![p] = @ + 1]
    /\ UNCHANGED <<readerVars, secureDisk, articles, building, buffer, noMoreArticles,
                   flagVars>>

\* The second pause test of _sendNextArticle(): outside a pause a connection
\* without an article concludes NO_MORE_FILES.
UseAnswer(p) ==
    /\ pc[p]["conn"] = "check"
    /\ noMoreArticles' = [noMoreArticles EXCEPT
                            ![p] = @ \/ (~paused /\ answer[p] \in {"barrier", "end"})]
    /\ answer' = [answer EXCEPT ![p] = "none"]
    /\ Goto(p, "conn", "idle")
    /\ UNCHANGED <<readerVars, lockVars, posterVars, hold, handed, flagVars>>

-----------------------------------------------------------------------------
\* PostingJob::pause and resume, and _finishPosting() raising _stopPosting, as
\* the pipeline sees them: flags another thread changes at any time.
Pause ==
    /\ ~paused /\ nbPauses < MaxPauses
    /\ paused' = TRUE /\ nbPauses' = nbPauses + 1
    /\ UNCHANGED <<readerVars, lockVars, posterVars, pc, hold, callVars, stopPosting>>

Resume ==
    /\ paused
    /\ paused' = FALSE
    /\ UNCHANGED <<readerVars, lockVars, posterVars, pc, hold, callVars, stopPosting,
                   nbPauses>>

Stop ==
    /\ ~stopPosting
    /\ stopPosting' = TRUE
    /\ UNCHANGED <<readerVars, lockVars, posterVars, pc, hold, callVars, paused,
                   nbPauses>>

BuilderThread(p) ==
    \/ PrepareNextArticle(p) \/ BuildArticle(p, "builder")
    \/ LeaveBuilder(p) \/ Enqueue(p)

ConnectionsThread(p) ==
    \/ SendNextArticle(p) \/ RefuseArticle(p) \/ WaitForBuilder(p) \/ Dequeue(p)
    \/ BuildItself(p) \/ SayNoMore(p) \/ BuildArticle(p, "conn")
    \/ ReturnBuilt(p) \/ UseAnswer(p)

Next ==
    \/ \E p \in Posters : UnlockQueue(p) \/ BuilderThread(p) \/ ConnectionsThread(p)
    \/ Pause \/ Resume \/ Stop

Spec == Init /\ [][Next]_vars

\* The operating system runs every runnable thread; nothing is assumed of the
\* pauses, which the user decides, nor of a stop.
Fairness ==
    \A p \in Posters : /\ WF_vars(UnlockQueue(p))
                       /\ WF_vars(BuilderThread(p))
                       /\ WF_vars(ConnectionsThread(p))

FairSpec == Spec /\ Fairness

-----------------------------------------------------------------------------
(* Properties.                                                             *)

\* The slices no thread has turned into an article yet.
Unread == {s \in ToPost : \/ s[1] >= nextFile
                          \/ s[1] = curFile /\ s[2] > part}

Queued(p) == {articles[p][i] : i \in DOMAIN articles[p]}
Staged(p) ==
    {a.slice : a \in Queued(p) \cup hold[p]["conn"] \cup hold[p]["builder"]}
Exhausted(p) == Unread = {} /\ Staged(p) = {} /\ reported = Unreadable

\* A poster answers "no more articles" only when every file has been read and
\* neither its queue nor its builder holds an article, even though another
\* builder may have reached the end of the input first.
NothingLeftAtEnd == \A p \in Posters : answer[p] = "end" => Exhausted(p)

\* The body of every article in a queue or in the hands of a connection is the
\* slice its part number announces: no two builds share a buffer or the reader.
BodyMatchesPart ==
    /\ \A a \in handed : a.body = a.slice
    /\ \A p \in Posters : \A a \in Queued(p) : a.body = a.slice

\* The pipeline hands over each slice once and in full, as ArticleSource says.
Source == INSTANCE ArticleSource WITH
            Slices <- ToPost,
            unread <- Unread,
            staged <- [p \in Posters |-> Staged(p)],
            handed <- {a.slice : a \in handed},
            exhausted <- [p \in Posters |-> answer[p] = "end"]
ImplementsArticleSource == Source!Spec

\* No lock order and no lost wake-up blocks a connection for ever: a call of
\* getNextArticle() returns.
CallReturns ==
    \A p \in Posters : (pc[p]["conn"] = "lock") ~> (pc[p]["conn"] = "idle")

\* If the job is not stopped and is not left paused, every slice to post
\* reaches a connection.
EverySliceHanded ==
    ([]~stopPosting /\ <>[]~paused) => <>(ToPost \subseteq {a.slice : a \in handed})

\* "treat a null result as an admission barrier rather than end-of-input"
\* (NntpConnection::_sendNextArticle): a connection gives up with
\* NO_MORE_FILES only when the job stops or its poster has nothing left.
PauseIsNotEnd == \A p \in Posters : noMoreArticles[p] => stopPosting \/ Exhausted(p)

==============================================================================
