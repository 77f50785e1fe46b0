---------------------------- MODULE PostHistory ----------------------------
(***************************************************************************)
(* The record one post leaves in the history database, and what a resume   *)
(* makes of it: PostHistoryService and its worker thread, the store, the   *)
(* calls of PostingJob and NntpFile, ResumePlanner and the NZB.            *)
(*                                                                         *)
(* Connection threads and the main thread put events in the queue of the   *)
(* worker, which writes them in batches.  A blocking call is one action,   *)
(* taken when the worker comes to it: the calls that flush first succeed   *)
(* when nothing is left to write, and fail while something is.  The        *)
(* program may end at any step: what it holds in memory is lost.           *)
(***************************************************************************)
EXTENDS Naturals, Sequences, FiniteSets

CONSTANTS
    Files, Articles, None,
    NbMaxTrySending,    \* NntpArticle::sNbMaxTrySending
    MaxQueued,          \* bound on what the worker has not dealt with
    MaxFaults,          \* bound on the calls and flushes that fail
    MaxMishaps,         \* bound on the refusals and the losses of a transport
    MaxEnds,            \* bound on the ends of the program
    MaxResumes          \* bound on the resumes the user asks for

ASSUME HistoryAssumption ==
    /\ None \notin Articles \cup Files /\ Files \cap Articles = {} /\ IsFiniteSet(Files)
    /\ {NbMaxTrySending, MaxQueued, MaxFaults, MaxMishaps, MaxEnds, MaxResumes} \subseteq Nat

VARIABLES
    fileOf,             \* article -> file of the post, once and for all
    \* the database: post_articles, post_files, posts
    row, fileRow, post,
    \* the calls and events the worker has still to deal with
    journal,
    \* NgPost: _historyCrashedArticlesChecked, the queued signal prepared() and
    \* the resume that waits in the queue of the jobs
    checked, prepared, plan,
    \* the job: how far it is, _resumeFromHistory, _historyDataUnreliable,
    \* _postFinished, its files, those that are over and those in _filesFailed,
    \* NntpFile::_historyFileId (the files that have one)
    phase, resumed, unreliable, finished, files, over, filesFailed, ids,
    \* its articles: where they are, and how often they were written
    art, tries,
    \* the file at _nzbFilePath, and whether the job has it open
    nzb, nzbOpen,
    \* history, for the properties only
    answered,       \* articles the server confirmed
    lost,           \* those whose confirmation went with the program
    abandoned,      \* those in flight on a connection that the end of a job left alone
    stale,          \* the job follows a plan made while another one was posting
    published,      \* what the last end of a job announced, and its NZB
    nbFaults, nbMishaps, nbEnds, nbResumes

dbVars == <<row, fileRow, post>>
appVars == <<checked, prepared, plan>>
jobVars == <<phase, resumed, unreliable, finished, files, over, filesFailed, ids, stale>>
artVars == <<art, tries, answered, nbMishaps>>
nzbVars == <<nzb, nzbOpen, published>>
boundVars == <<lost, abandoned, nbFaults, nbEnds, nbResumes>>
vars == <<fileOf, dbVars, journal, appVars, jobVars, artVars, nzbVars, boundVars>>

\* "absent": no row.
RowStatuses == {"absent", "posting", "posted", "failed", "unknown"}
FileStatuses == {"absent", "pending", "posted", "partial", "failed"}
PostStatuses == {"absent", "posting", "success", "partial", "failed", "resumable", "cancelled"}

\* "out": not to be sent by this job; "ambiguous": its connection waits until
\* its loss is written; "won", "lost": the answer is on its way to the main
\* thread; "left": its connection ended in flight, and says nothing of it.
ArtStatuses == {"out", "todo", "sent", "ambiguous", "unknown", "won", "lost", "posted", "failed",
                "left"}
Phases == {"none", "preparing", "sending", "closing", "finalized", "over"}

NoPlan == [files |-> {}, posted |-> {}, live |-> FALSE]
Nothing == [status |-> "nothing", nzb |-> {}]
Entry(kind, of) == [kind |-> kind, of |-> of]
Prepare == Entry("prepare", None)
Entries == [kind : RowStatuses, of : Articles] \cup [kind : FileStatuses, of : Files]
           \cup {Prepare}

PostFiles == {fileOf[a] : a \in Articles}
ArticlesOf(S) == {a \in Articles : fileOf[a] \in S}
Posted == {a \in Articles : row[a] = "posted"}
Registered == {f \in Files : fileRow[f] # "absent"}
IsEvent(e) == e.of \in Articles
OnlyEvents(s) == \A i \in 1..Len(s) : IsEvent(s[i])
Queued(a, kind) == \E i \in 1..Len(journal) : journal[i] = Entry(kind, a)

TypeOK ==
    /\ fileOf \in [Articles -> Files]
    /\ row \in [Articles -> RowStatuses] /\ fileRow \in [Files -> FileStatuses]
    /\ post \in PostStatuses
    /\ journal \in Seq(Entries)
    /\ checked \in BOOLEAN /\ prepared \in {"none", "ok", "failed"}
    /\ plan \in [files : SUBSET Files, posted : SUBSET Articles, live : BOOLEAN]
    /\ phase \in Phases /\ {resumed, unreliable, finished, nzbOpen, stale} \subseteq BOOLEAN
    /\ {files, over, filesFailed, ids} \subseteq SUBSET Files
    /\ art \in [Articles -> ArtStatuses] /\ tries \in [Articles -> Nat]
    /\ {nzb, answered, lost, abandoned} \subseteq SUBSET Articles
    /\ {nbFaults, nbMishaps, nbEnds, nbResumes} \subseteq Nat

\* A graphical start: the cleanup is queued before the event loop runs.
Init ==
    /\ fileOf \in [Articles -> Files]
    /\ row = [a \in Articles |-> "absent"] /\ fileRow = [f \in Files |-> "absent"]
    /\ post = "absent" /\ journal = <<Prepare>>
    /\ checked = FALSE /\ prepared = "none" /\ plan = NoPlan
    /\ phase = "none" /\ resumed = FALSE /\ unreliable = FALSE /\ finished = FALSE
    /\ files = {} /\ over = {} /\ filesFailed = {} /\ ids = {} /\ stale = FALSE
    /\ art = [a \in Articles |-> "out"] /\ tries = [a \in Articles |-> 0]
    /\ nzb = {} /\ nzbOpen = FALSE /\ published = Nothing
    /\ answered = {} /\ lost = {} /\ abandoned = {}
    /\ nbFaults = 0 /\ nbMishaps = 0 /\ nbEnds = 0 /\ nbResumes = 0

Fault ==
    /\ nbFaults < MaxFaults /\ nbFaults' = nbFaults + 1
    /\ UNCHANGED <<lost, abandoned, nbEnds, nbResumes>>
NoFault == UNCHANGED boundVars

\* The worker has come to a blocking call, and what it flushes first is written.
Reached == OnlyEvents(journal)
Flushed == journal = <<>>

-----------------------------------------------------------------------------
(* The worker and the store. *)

\* What a batch says of an article, and the last thing it says.
Said(batch, a) == {batch[i].kind : i \in {j \in 1..Len(batch) : batch[j].of = a}}
LastSaid(batch, a) ==
    {batch[i].kind : i \in {j \in 1..Len(batch) :
        batch[j].of = a /\ \A k \in j+1..Len(batch) : batch[k].of # a}}

\* As it would be if a later event always replaced the status of the article.
LastEventWins(batch) ==
    [a \in Articles |-> IF LastSaid(batch, a) = {} THEN row[a]
                        ELSE CHOOSE s \in LastSaid(batch, a) : TRUE]

\* applyArticleEvents(): in order, but a posted article stays posted.
Applied(batch) ==
    [a \in Articles |-> IF row[a] = "posted" \/ "posted" \in Said(batch, a) THEN "posted"
                        ELSE IF LastSaid(batch, a) = {} THEN row[a]
                        ELSE CHOOSE s \in LastSaid(batch, a) : TRUE]

\* The batch is what has reached the worker; one that fails is put back as it was.
FlushArticleEvents(n) ==
    /\ OnlyEvents(SubSeq(journal, 1, n))
    /\ row' = Applied(SubSeq(journal, 1, n))
    /\ journal' = SubSeq(journal, n + 1, Len(journal))
    /\ UNCHANGED <<fileRow, post, appVars, jobVars, artVars, nzbVars, boundVars>>

\* As it would be if the status did not wait for the events queued before it.
UpdateFileStatusAtOnce(i) ==
    /\ journal[i].of \in Files
    /\ fileRow' = [fileRow EXCEPT ![journal[i].of] = journal[i].kind]
    /\ journal' = SubSeq(journal, 1, i - 1) \o SubSeq(journal, i + 1, Len(journal))
    /\ NoFault /\ UNCHANGED <<row, post, appVars, jobVars, artVars, nzbVars>>

\* enqueueUpdateFileStatus(), in the worker: dropped when the flush or the
\* statement fails.
UpdateFileStatus(i) ==
    /\ journal[i].of \in Files /\ OnlyEvents(SubSeq(journal, 1, i - 1))
    /\ \/ /\ i = 1 /\ fileRow' = [fileRow EXCEPT ![journal[i].of] = journal[i].kind]
          /\ NoFault
       \/ Fault /\ UNCHANGED fileRow
    /\ journal' = SubSeq(journal, 1, i - 1) \o SubSeq(journal, i + 1, Len(journal))
    /\ UNCHANGED <<row, post, appVars, jobVars, artVars, nzbVars>>

\* As it would be if the articles were given the status of their post.
CleanedAsPost(r) == [a \in Articles |-> IF r[a] = "posting" THEN "resumable" ELSE r[a]]

\* markPostCrashedArticlesUnknown() and cleanupInvalidResumePosts().
Cleaned(r) == [a \in Articles |-> IF r[a] = "posting" THEN "unknown" ELSE r[a]]
CleanedPost == IF post # "posting" THEN post
               ELSE IF Registered = {} THEN "cancelled" ELSE "resumable"

\* Its statements are not one transaction.
Cleanup(ok) ==
    /\ UNCHANGED fileRow
    /\ \/ ok /\ row' = Cleaned(row) /\ post' = CleanedPost /\ NoFault
       \/ ~ok /\ Fault /\ row' \in {row, Cleaned(row)} /\ UNCHANGED post

PrepareForUse(ok) ==
    /\ journal # <<>> /\ Head(journal) = Prepare /\ journal' = Tail(journal)
    /\ Cleanup(ok) /\ prepared' = (IF ok THEN "ok" ELSE "failed")
    /\ UNCHANGED <<checked, plan, jobVars, artVars, nzbVars>>

Worker ==
    \/ \E n \in 1..Len(journal) : FlushArticleEvents(n)
    \/ \E i \in 1..Len(journal) : UpdateFileStatus(i)
    \/ \E ok \in BOOLEAN : PrepareForUse(ok)

-----------------------------------------------------------------------------
(* NgPost: the preparation of the history, and the jobs. *)

\* The signal prepared(), in the main thread.
OnPrepared ==
    /\ prepared # "none" /\ phase \in {"none", "sending", "over"}
    /\ checked' = (prepared = "ok") /\ prepared' = "none"
    /\ UNCHANGED <<dbVars, journal, plan, jobVars, artVars, nzbVars, boundVars>>

\* _ensureHistoryStore(): before any post and any command on the history.
_ensureHistoryStore(ok) ==
    /\ ~checked /\ phase \in {"none", "sending"} /\ Reached /\ (ok => Flushed)
    /\ Cleanup(ok) /\ checked' = ok
    /\ UNCHANGED <<journal, prepared, plan, jobVars, artVars, nzbVars>>

\* A PostingJob to come, with these files, of which these parts are posted.
NewJob(S, done, isResume) ==
    /\ phase' = "preparing" /\ resumed' = isResume /\ files' = S
    /\ unreliable' = FALSE /\ finished' = FALSE /\ over' = {} /\ filesFailed' = {}
    /\ art' = [a \in Articles |-> IF fileOf[a] \in S /\ a \notin done THEN "todo" ELSE "out"]
    /\ tries' = [a \in Articles |-> 0] /\ UNCHANGED <<answered, nbMishaps>>

\* createPost(), when the job is made.
CreatePost ==
    /\ phase = "none" /\ checked /\ post = "absent" /\ Flushed
    /\ post' = "posting" /\ NewJob(PostFiles, {}, FALSE) /\ ids' = {} /\ stale' = FALSE
    /\ UNCHANGED <<row, fileRow, journal, appVars, nzbVars, boundVars>>

\* registerHistoryFile(), one file after the other.
RegisterHistoryFile(f) ==
    /\ phase = "preparing" /\ f \in files \ ids /\ Flushed
    /\ ids' = ids \cup {f} /\ fileRow' = [fileRow EXCEPT ![f] = "pending"]
    /\ UNCHANGED <<row, post, journal, appVars, phase, resumed, unreliable, finished, files,
                   over, filesFailed, stale, artVars, nzbVars, boundVars>>

\* _postFiles(), from the opening of the NZB: the files without a row are those
\* the registration failed for, and they are posted all the same.  The NZB of a
\* fresh job is emptied, that of a resume left alone (its own is a scratch file).
StartTransfer(ok) ==
    /\ phase = "preparing" /\ Reached /\ (resumed /\ ok => Flushed)
    /\ LET failed == Cardinality(files \ ids) + (IF ok THEN 0 ELSE 1) IN
       /\ nbFaults + failed <= MaxFaults /\ nbFaults' = nbFaults + failed
       /\ unreliable' = (failed > 0)
    /\ post' = (IF resumed /\ ok THEN "posting" ELSE post)
    /\ phase' = "sending" /\ nzbOpen' = TRUE /\ nzb' = (IF resumed THEN nzb ELSE {})
    /\ UNCHANGED <<row, fileRow, journal, appVars, resumed, finished, files, over,
                   filesFailed, ids, stale, artVars, published, lost, abandoned, nbEnds, nbResumes>>

\* _abortBeforeTransfer(): a source that changed, no connection, no NZB, a stop.
_abortBeforeTransfer ==
    /\ phase = "preparing" /\ phase' = (IF resumed THEN "over" ELSE "closing")
    /\ UNCHANGED <<dbVars, journal, appVars, resumed, unreliable, finished, files, over,
                   filesFailed, ids, stale, artVars, nzbVars, boundVars>>

\* As it would be if what the worker holds was not written before it is read.
checkResumeUnflushed == Reached

checkResume == Flushed

\* resumePostGui() and --resume-post, whether the post is being posted or not:
\* the plan has the files that miss an article, and the articles they have.
Resume ==
    /\ nbResumes < MaxResumes /\ checked /\ phase \in {"none", "sending"}
    /\ plan = NoPlan /\ checkResume
    /\ LET missing == {f \in Registered : ~ ArticlesOf({f}) \subseteq Posted} IN
       /\ missing # {}
       /\ plan' = [files |-> missing, posted |-> Posted, live |-> phase # "none"]
    /\ nbResumes' = nbResumes + 1
    /\ UNCHANGED <<dbVars, journal, checked, prepared, jobVars, artVars, nzbVars, lost,
                   abandoned, nbFaults, nbEnds>>

\* The resume leaves the queue: its files keep their rows.
StartResume ==
    /\ phase = "none" /\ plan # NoPlan
    /\ NewJob(plan.files, plan.posted, TRUE) /\ ids' = plan.files
    /\ stale' = plan.live /\ plan' = NoPlan
    /\ UNCHANGED <<dbVars, journal, checked, prepared, nzbVars, boundVars>>

NoJob ==
    /\ phase' = "none" /\ resumed' = FALSE /\ unreliable' = FALSE /\ finished' = FALSE
    /\ files' = {} /\ over' = {} /\ filesFailed' = {} /\ ids' = {} /\ stale' = FALSE
    /\ art' = [a \in Articles |-> "out"] /\ tries' = [a \in Articles |-> 0]
    /\ UNCHANGED <<answered, nbMishaps>>

\* onPostingJobFinished() and deleteLater(): behind the answers queued before.
JobDeleted ==
    /\ phase = "over" /\ \A a \in Articles : art[a] \notin {"won", "lost"}
    /\ NoJob /\ UNCHANGED <<dbVars, journal, appVars, nzbVars, boundVars>>

\* The program ends, however it does, and starts again, on the command line
\* (which queues no cleanup) or not.
Restart ==
    /\ nbEnds < MaxEnds /\ nbEnds' = nbEnds + 1 /\ NoJob
    /\ lost' = {a \in answered : row[a] # "posted"} /\ abandoned' = {}
    /\ journal' \in {<<>>, <<Prepare>>}
    /\ checked' = FALSE /\ prepared' = "none" /\ plan' = NoPlan
    /\ nzbOpen' = FALSE /\ published' = Nothing
    /\ UNCHANGED <<dbVars, nzb, nbFaults, nbResumes>>

Application ==
    \/ OnPrepared
    \/ \E ok \in BOOLEAN : _ensureHistoryStore(ok) \/ StartTransfer(ok)
    \/ CreatePost
    \/ \E f \in Files : RegisterHistoryFile(f)
    \/ _abortBeforeTransfer \/ Resume \/ StartResume \/ JobDeleted \/ Restart

-----------------------------------------------------------------------------
(* The connections and the end of the job. *)

\* What concerns a file without a row is not queued.
Enqueue(f, e) ==
    IF f \in ids THEN Len(journal) < MaxQueued /\ journal' = Append(journal, e)
                 ELSE journal' = journal

Record(a, kind) == Enqueue(fileOf[a], Entry(kind, a))

\* NntpArticle::write(), from a connection.
Write(a) ==
    /\ tries' = [tries EXCEPT ![a] = @ + 1]
    /\ Record(a, "posting")

Send(a) ==
    /\ phase = "sending" /\ art[a] \in {"todo", "unknown"} /\ Write(a)
    /\ art' = [art EXCEPT ![a] = "sent"] /\ abandoned' = abandoned \ {a}
    /\ UNCHANGED <<dbVars, appVars, jobVars, answered, nbMishaps, nzbVars, lost, nbFaults, nbEnds,
                   nbResumes>>

Mishap == nbMishaps < MaxMishaps /\ nbMishaps' = nbMishaps + 1

\* As it would be if the last refusal was not told from a confirmation.
ReplyUnread(a, confirmed) ==
    /\ phase \in {"sending", "closing"} /\ art[a] = "sent"
    /\ IF confirmed THEN answered' = answered \cup {a} ELSE Mishap /\ UNCHANGED answered
    /\ IF confirmed \/ tries[a] >= NbMaxTrySending
       THEN art' = [art EXCEPT ![a] = "won"] /\ UNCHANGED <<tries, journal>>
       ELSE Write(a) /\ UNCHANGED art
    /\ confirmed => UNCHANGED nbMishaps
    /\ UNCHANGED <<dbVars, appVars, jobVars, nzbVars, boundVars>>

\* A complete reply; a refused article is written again at once.
Reply(a, confirmed) ==
    /\ phase \in {"sending", "closing"} /\ art[a] = "sent"
    /\ \/ /\ confirmed /\ answered' = answered \cup {a}
          /\ art' = [art EXCEPT ![a] = "won"] /\ UNCHANGED <<tries, nbMishaps, journal>>
       \/ ~confirmed /\ Mishap /\ tries[a] < NbMaxTrySending /\ Write(a) /\ UNCHANGED <<art, answered>>
       \/ /\ ~confirmed /\ Mishap /\ tries[a] >= NbMaxTrySending
          /\ art' = [art EXCEPT ![a] = "lost"] /\ UNCHANGED <<tries, journal, answered>>
    /\ UNCHANGED <<dbVars, appVars, jobVars, nzbVars, boundVars>>

\* As it would be if the connection was killed without a word on its article.
MarkUnknownUntold(a) ==
    /\ phase \in {"sending", "closing"} /\ art[a] = "sent"
    /\ IF phase = "sending" THEN Mishap ELSE UNCHANGED nbMishaps
    /\ art' = [art EXCEPT ![a] = "ambiguous"]
    /\ UNCHANGED <<dbVars, journal, appVars, jobVars, tries, answered, nzbVars, boundVars>>

\* _preserveCurrentArticleAfterTransportLoss(): a transport loss, or the kill of
\* _finishPosting(); the connection then waits for the flush.
MarkUnknown(a) ==
    /\ phase \in {"sending", "closing"} /\ art[a] = "sent" /\ Record(a, "unknown")
    /\ IF phase = "sending" THEN Mishap ELSE UNCHANGED nbMishaps
    /\ art' = [art EXCEPT ![a] = "ambiguous"]
    /\ UNCHANGED <<dbVars, appVars, jobVars, tries, answered, nzbVars, boundVars>>

\* _finishPosting() kills the connections of _nntpConnections only.  A live one
\* that a late disconnected() moved to _closedConnections goes with its thread,
\* and ~NntpConnection() writes nothing of its article.
LeftInFlight(a) ==
    /\ phase = "closing" /\ art[a] = "sent" /\ Mishap
    /\ art' = [art EXCEPT ![a] = "left"] /\ abandoned' = abandoned \cup {a}
    /\ UNCHANGED <<dbVars, journal, appVars, jobVars, tries, answered, nzbVars, lost, nbFaults,
                   nbEnds, nbResumes>>

\* As it would be if the connection did not wait.
FlushReturnsAtOnce(a, ok) ==
    /\ art[a] = "ambiguous" /\ ok /\ NoFault
    /\ art' = [art EXCEPT ![a] = "unknown"]
    /\ UNCHANGED <<dbVars, journal, appVars, jobVars, tries, answered, nbMishaps, nzbVars>>

\* The flush of recordHistoryArticleUnknown() returns.
FlushReturns(a, ok) ==
    /\ art[a] = "ambiguous" /\ Reached
    /\ IF ok THEN ~ Queued(a, "unknown") /\ NoFault ELSE Fault
    /\ art' = [art EXCEPT ![a] = "unknown"]
    /\ UNCHANGED <<dbVars, journal, appVars, jobVars, tries, answered, nbMishaps, nzbVars>>

\* NntpFile::onArticlePosted() and onArticleFailed(), in the main thread.
OnArticle(a) ==
    /\ phase \in {"sending", "over"}
    /\ \/ art[a] = "won" /\ Record(a, "posted") /\ art' = [art EXCEPT ![a] = "posted"]
       \/ art[a] = "lost" /\ Record(a, "failed") /\ art' = [art EXCEPT ![a] = "failed"]
    /\ UNCHANGED <<dbVars, appVars, jobVars, tries, answered, nbMishaps,
                   nzbVars, boundVars>>

Failed(f) == \E a \in ArticlesOf({f}) : art[a] = "failed"

\* _finishPosting() begins when it is the last file.
FileOver(f, status) ==
    /\ over' = over \cup {f}
    /\ Enqueue(f, Entry(status, f))
    /\ finished' = (over' = files)
    /\ phase' = (IF over' = files THEN "closing" ELSE phase)

onNntpFilePosted(f) ==
    /\ phase = "sending" /\ f \in files \ over
    /\ \A a \in ArticlesOf({f}) : art[a] \in {"out", "posted", "failed"}
    /\ FileOver(f, IF Failed(f) THEN "partial" ELSE "posted")
    /\ nzb' = (IF resumed \/ Failed(f) THEN nzb ELSE nzb \cup ArticlesOf({f}))
    /\ UNCHANGED <<dbVars, appVars, resumed, unreliable, files, filesFailed, ids, stale,
                   artVars, nzbOpen, published, boundVars>>

\* The file cannot be read: what is not built of it never will be.
onNntpErrorReading(f) ==
    /\ phase = "sending" /\ f \in files \ over
    /\ \E a \in ArticlesOf({f}) : art[a] = "todo"
    /\ FileOver(f, "failed") /\ filesFailed' = filesFailed \cup {f}
    /\ art' = [a \in Articles |->
                 IF fileOf[a] = f /\ art[a] = "todo" THEN "out" ELSE art[a]]
    /\ UNCHANGED <<dbVars, appVars, resumed, unreliable, files, ids, stale, tries, answered,
                   nbMishaps, nzbVars, boundVars>>

\* onStopPosting(), or no connection is left.
Stop ==
    /\ phase = "sending" /\ phase' = "closing"
    /\ UNCHANGED <<dbVars, journal, appVars, resumed, unreliable, finished, files, over,
                   filesFailed, ids, stale, artVars, nzbVars, boundVars>>

\* hasPostFinishedSuccessfully().
Status == IF ~finished THEN "failed"
          ELSE IF filesFailed = {} /\ \A a \in Articles : art[a] # "failed" THEN "success"
          ELSE "partial"

\* The blocking kills and stopThreads() are over: no connection runs any more.
AllKilled == \A a \in Articles : art[a] \notin {"sent", "ambiguous"}

\* As it would be if finalizePost() did not write the events first.
FinalizeUnflushed(ok) == Reached

FinalizeFlushed(ok) == Reached /\ (ok => Flushed)

\* The end of _finishPosting(), the transports being closed: finalizePost().
FinalizePost(ok) ==
    /\ phase = "closing" /\ AllKilled /\ FinalizeFlushed(ok)
    /\ IF ok THEN NoFault ELSE Fault
    /\ post' = (IF ok THEN Status ELSE post) /\ unreliable' = (unreliable \/ ~ok)
    /\ phase' = "finalized"
    /\ UNCHANGED <<row, fileRow, journal, appVars, resumed, finished, files, over,
                   filesFailed, ids, stale, artVars, nzbVars>>

\* As it would be if a resume announced its post whatever its history is worth.
NzbReadyAlways == TRUE

\* The NZB of a resume stands only if it can be rebuilt.
NzbReady == ~ (resumed /\ unreliable)

\* regenerateNzbToFile(): the posted parts; refused for a success with a gap.
Gap == post = "success" /\ Posted # ArticlesOf(Registered)

\* _closeNzb(), and what the post commands and the sheet of the post are given.
_closeNzb(ok) ==
    /\ phase = "finalized" /\ phase' = "over" /\ nzbOpen' = FALSE
    /\ IF ~nzbOpen \/ unreliable
       THEN ok /\ nzb' = nzb /\ NoFault
       ELSE /\ Reached /\ (ok => Flushed /\ ~Gap)
            /\ IF ok \/ Gap THEN NoFault ELSE Fault
            /\ nzb' = (IF ok THEN Posted ELSE nzb)
    /\ published' = (IF nzbOpen /\ NzbReady /\ (resumed => ok)
                     THEN [status |-> Status, nzb |-> nzb'] ELSE Nothing)
    /\ UNCHANGED <<dbVars, journal, appVars, resumed, unreliable, finished, files, over,
                   filesFailed, ids, stale, artVars>>

Job ==
    \/ \E a \in Articles :
         \/ Send(a) \/ MarkUnknown(a) \/ LeftInFlight(a) \/ OnArticle(a)
         \/ \E ok \in BOOLEAN : Reply(a, ok) \/ FlushReturns(a, ok)
    \/ \E f \in Files : onNntpFilePosted(f) \/ onNntpErrorReading(f)
    \/ Stop \/ \E ok \in BOOLEAN : FinalizePost(ok) \/ _closeNzb(ok)

Next == (Worker \/ Application \/ Job) /\ UNCHANGED fileOf

Spec == Init /\ [][Next]_vars

-----------------------------------------------------------------------------
(* Properties. *)

\* README: articles are marked posted only after a 240 response; nor does the
\* NZB list any other, whether it was streamed or rebuilt from the history.
PostedIsAnswered == Posted \subseteq answered /\ nzb \subseteq answered

\* Whatever is written late, or by a second attempt, a row that says posted
\* keeps saying so.
PostedIsForGood == [][\A a \in Articles : row[a] = "posted" => row'[a] = "posted"]_vars

\* An article the server confirmed is sent again only if its confirmation was
\* lost with the program, or if the resume was asked for while the post was
\* being posted (README, Disagreements).
ConfirmedIsNotResent ==
    [][\A a \in Articles :
         art[a] # "sent" /\ art'[a] = "sent" /\ a \in answered => a \in lost \/ stale]_vars

\* A post recorded as a success has all the articles of its recorded files, and
\* a file recorded as posted all of its own, although neither is written with
\* its articles.
SuccessIsWhole ==
    /\ post = "success" => ArticlesOf(Registered) \subseteq Posted
    /\ \A f \in Files : fileRow[f] = "posted" => ArticlesOf({f}) \subseteq Posted

\* The NZB announced with a success is that of the whole post, unless a file of
\* it was never recorded (README, Disagreements).
PublishedIsWhole ==
    published.status = "success" => published.nzb = Articles \/ Registered # PostFiles

\* Once the articles of a crash are dealt with, an article in flight in the
\* history is one of a job, or its end is about to be written; but one that was
\* in flight on a live connection that the kills of _finishPosting() left out
\* stays in flight until the program starts again (README, Disagreements).
InFlightIsLive ==
    checked /\ phase = "none" =>
        \A a \in Articles : row[a] = "posting" =>
            a \in abandoned \/ \E k \in RowStatuses \ {"posting"} : Queued(a, k)

\* Comment of recordHistoryArticleUnknown(): the loss of an article is written
\* when the connection goes on, so that no end of the program can hide it.
AmbiguityIsDurable ==
    \A a \in Articles :
        art[a] = "unknown" /\ fileOf[a] \in ids => row[a] \in {"unknown", "posted"} \/ nbFaults > 0
=============================================================================
