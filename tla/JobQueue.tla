------------------------------ MODULE JobQueue ------------------------------
(***************************************************************************)
(* The queue of posting jobs of NgPost in the graphical interface: the job *)
(* that posts, the jobs that wait, the one being packed ahead of its turn, *)
(* pause and resume, stop and stop all, the end of the monitoring, the     *)
(* wait for the tunnel, and the shutdown "when done".                      *)
(*                                                                         *)
(* All of it runs in the main thread.  `events` holds what is posted to    *)
(* its event loop: queued signals of the jobs, the end of their external   *)
(* tools and the re-check of the shutdown.  Qt delivers everything that is *)
(* posted, including what the handlers post meanwhile, before it returns   *)
(* to the clicks of the user: `draining` is TRUE in between.  Ends of      *)
(* tools, transfers and post commands, and files found by the monitoring,  *)
(* come at any time.                                                       *)
(*                                                                         *)
(* The handlers call one another, so what they do is written as operators  *)
(* from a state of the queue (a record, see Now) to the next one, and each *)
(* action applies one of them (Become).  Transfer models what happens      *)
(* while a job posts; here a transfer only ends.                           *)
(***************************************************************************)
EXTENDS Naturals, Sequences, FiniteSets

CONSTANTS
    Jobs, NoJob,
    HasPacking,     \* jobs that compress or generate par2
    Monitored,      \* jobs made by the folder monitoring: they have no widget
    VpnRequired,    \* jobs whose servers must be reached through the tunnel
    HasCommand,     \* jobs followed by a post command or an NZB upload
    MayFail,        \* jobs whose tools, files or transfer may fail
    MaxActs         \* bound on the acts that disturb the queue: the clicks on
                    \* pause, stop, stop all, shutdown when done and on the end
                    \* of the monitoring, and the losses of the tunnel

ASSUME JobQueueAssumption ==
    /\ NoJob \notin Jobs /\ IsFiniteSet(Jobs)
    /\ HasPacking \subseteq Jobs /\ Monitored \subseteq Jobs
    /\ VpnRequired \subseteq Jobs /\ HasCommand \subseteq Jobs /\ MayFail \subseteq Jobs
    /\ MaxActs \in Nat

VARIABLES
    \* the queue
    preparePacking, \* NgPost::_preparePacking, from the configuration
    activeJob, pendingJobs, packingJob, queuePaused, cancelingAll,
    generation,     \* _postingCancelGeneration
    \* the jobs
    stage,          \* how far a job is
    packed,         \* PostingJob::_packed
    cancelRequested,
    toolRunning,    \* jobs whose external process has not ended
    question,       \* the end of the monitoring is being asked for
    askedAt,        \* the generation when the admission dialog of a job opened
    \* the shutdown
    armed,          \* _doShutdownWhenDone
    transferEnded,  \* _transferEndedSinceShutdownArmed
    recheckQueued,  \* _shutdownRecheckQueued
    shuttingDown,   \* _shutdownProc exists
    postCmds,       \* jobs whose post command has not ended
    unsubmitted,    \* a tab holds files that were not submitted
    \* the environment
    tunnelUp, events, draining,
    \* history, for the properties only
    doomed,         \* jobs a "stop all" found submitted
    lastWord,       \* what last decided on the shutdown since it was armed
    upsets,         \* what happened that some properties exclude: "monitoring",
                    \* its end stopped jobs; "parked", a waiting job ended while
                    \* none was active; "overtaken", a new job became active
                    \* before one packed ahead
    \* the bound
    nbActs

queueVars == <<activeJob, pendingJobs, packingJob, queuePaused, cancelingAll>>
jobVars == <<stage, packed, cancelRequested, toolRunning>>
shutdownVars == <<armed, transferEnded, recheckQueued, shuttingDown, postCmds>>
vars == <<queueVars, preparePacking, generation, jobVars, askedAt, shutdownVars, unsubmitted,
          tunnelUp, events, draining, question, doomed, upsets, lastWord, nbActs>>

Stages == {"new", "asking", "waiting", "packing", "packed", "posting", "ended", "deleted"}
Event == [type : {"start", "stop", "packingDone", "finished"}, job : Jobs]
         \cup [type : {"toolEnded", "transferEnded"}, job : Jobs, ok : BOOLEAN]
         \cup [type : {"recheck", "idle"}]

TypeOK ==
    /\ preparePacking \in BOOLEAN
    /\ activeJob \in Jobs \cup {NoJob} /\ packingJob \in Jobs \cup {NoJob}
    /\ pendingJobs \in Seq(Jobs)
    /\ queuePaused \in BOOLEAN /\ cancelingAll \in BOOLEAN /\ generation \in Nat
    /\ stage \in [Jobs -> Stages]
    /\ packed \subseteq Jobs /\ cancelRequested \subseteq Jobs /\ toolRunning \subseteq Jobs
    /\ askedAt \in [Jobs -> Nat]
    /\ {armed, transferEnded, recheckQueued, shuttingDown} \subseteq BOOLEAN
    /\ postCmds \subseteq Jobs /\ unsubmitted \in BOOLEAN
    /\ {tunnelUp, draining, question} \subseteq BOOLEAN
    /\ events \in Seq(Event)
    /\ doomed \subseteq Jobs /\ lastWord \in {"none", "good", "stop"}
    /\ upsets \subseteq {"monitoring", "parked", "overtaken"} /\ nbActs \in Nat

Init ==
    /\ preparePacking \in BOOLEAN
    /\ activeJob = NoJob /\ pendingJobs = <<>> /\ packingJob = NoJob
    /\ queuePaused = FALSE /\ cancelingAll = FALSE /\ generation = 0
    /\ stage = [j \in Jobs |-> "new"]
    /\ packed = {} /\ cancelRequested = {} /\ toolRunning = {}
    /\ askedAt = [j \in Jobs |-> 0]
    /\ armed = FALSE /\ transferEnded = FALSE /\ recheckQueued = FALSE
    /\ shuttingDown = FALSE /\ postCmds = {}
    /\ unsubmitted = TRUE /\ tunnelUp = FALSE
    /\ events = <<>> /\ draining = FALSE /\ question = FALSE
    /\ doomed = {} /\ lastWord = "none" /\ upsets = {} /\ nbActs = 0

-----------------------------------------------------------------------------
(* The state the handlers work on. *)

Now == [active |-> activeJob, pending |-> pendingJobs, packing |-> packingJob,
        paused |-> queuePaused, canceling |-> cancelingAll,
        stage |-> stage, packed |-> packed, canceled |-> cancelRequested,
        tools |-> toolRunning, armed |-> armed, ended |-> transferEnded,
        recheck |-> recheckQueued, proc |-> shuttingDown, cmds |-> postCmds,
        tunnel |-> tunnelUp, events |-> events, word |-> lastWord,
        upsets |-> upsets]

Become(s) ==
    /\ UNCHANGED preparePacking
    /\ activeJob' = s.active /\ pendingJobs' = s.pending /\ packingJob' = s.packing
    /\ queuePaused' = s.paused /\ cancelingAll' = s.canceling
    /\ stage' = s.stage /\ packed' = s.packed /\ cancelRequested' = s.canceled
    /\ toolRunning' = s.tools /\ armed' = s.armed /\ transferEnded' = s.ended
    /\ recheckQueued' = s.recheck /\ shuttingDown' = s.proc /\ postCmds' = s.cmds
    /\ tunnelUp' = s.tunnel /\ events' = s.events /\ lastWord' = s.word
    /\ upsets' = s.upsets

Emit(s, e) == [s EXCEPT !.events = Append(@, e)]
Signal(t, j) == [type |-> t, job |-> j]

\* What is left of a sequence when the members of S are taken out.
Without(q, S) ==
    LET kept[i \in 0..Len(q)] ==
            IF i = 0 THEN <<>>
            ELSE IF q[i] \in S THEN kept[i - 1] ELSE Append(kept[i - 1], q[i])
    IN kept[Len(q)]

IsPending(j) == \E i \in 1..Len(pendingJobs) : pendingJobs[i] = j
Overtaken(s) == IF s.packing # NoJob THEN s.upsets \cup {"overtaken"} ELSE s.upsets
hasPostingJobs(s) == s.active # NoJob \/ s.pending # <<>>
_resetShutdownCompletion(s) == [s EXCEPT !.ended = FALSE]

\* VpnManager::admitJob() says Proceed; otherwise the job stays in the queue.
Proceeds(s, j) == j \notin VpnRequired \/ s.tunnel

-----------------------------------------------------------------------------
(* The end of a run: the shutdown "when done". *)

requestShutdownRecheck(s) ==
    IF s.armed /\ ~s.recheck
    THEN Emit([s EXCEPT !.recheck = TRUE], [type |-> "recheck"])
    ELSE s

\* As it would be if an open dialog did not count.
shutdownHoldsNothing(s) == {}

\* A dialog of the admission holds the shutdown for as long as it is open.
shutdownHolds(s) == {j \in Jobs : s.stage[j] = "asking"}

\* _startShutdown() disarms the one-shot shutdown and starts its command.
maybeFinishApplication(s) ==
    IF /\ shutdownHolds(s) = {} /\ ~hasPostingJobs(s) /\ s.cmds = {}
       /\ s.armed /\ s.ended /\ ~unsubmitted /\ ~s.proc
    THEN [_resetShutdownCompletion(s) EXCEPT !.armed = FALSE, !.proc = TRUE]
    ELSE s

\* As it would be if a stopped job that completes counted.
_onPostingJobEndedAnyhow(s, j, good) == IF s.armed /\ good THEN [s EXCEPT !.ended = TRUE] ELSE s

_onPostingJobEnded(s, j, good) ==
    IF j \in s.canceled THEN _resetShutdownCompletion(s)
    ELSE IF s.armed /\ good THEN [s EXCEPT !.ended = TRUE]
    ELSE s

-----------------------------------------------------------------------------
(* The jobs. *)

\* postingFinished() or noMoreConnection(), after _finishPosting(), which
\* enqueues the post commands of a job whose NZB was opened.
Finish(s, j, good) ==
    LET t == [s EXCEPT !.stage[j] = "ended",
                       !.cmds = IF s.stage[j] = "posting" THEN @ \cup ({j} \cap HasCommand)
                                ELSE @]
    IN Emit(_onPostingJobEnded(t, j, good), Signal("finished", j))

\* _finishedAtWall is valid.
HasEnded(s, j) == s.stage[j] \in {"ended", "deleted"}

\* As it would be without the test of _finishedAtWall.
_finishIfCanceledAgain(s, j) == Finish(s, j, FALSE)

\* A job ends once: one that has ended already says nothing.
_finishIfCanceled(s, j) == IF HasEnded(s, j) THEN s ELSE Finish(s, j, FALSE)

\* fails: the files, the servers or the NZB file cannot be opened.
_postFiles(s, j, fails) ==
    IF j \in s.canceled THEN _finishIfCanceled(s, j)
    ELSE IF fails /\ j \in MayFail THEN Finish(s, j, FALSE)
    ELSE [s EXCEPT !.stage[j] = "posting"]

\* fails: a tool is missing or does not start, or _postFiles() fails.
onStartPosting(s, j, fails) ==
    IF j \in s.canceled THEN _finishIfCanceled(s, j)
    ELSE IF j \notin HasPacking
         THEN _postFiles([s EXCEPT !.packed = @ \cup {j}], j, fails)
    ELSE IF fails /\ j \in MayFail THEN Finish(s, j, FALSE)
    ELSE [s EXCEPT !.stage[j] = "packing", !.tools = @ \cup {j}]

\* onCompressionFinished(), onGenPar2Finished() and onExtProcError().
onToolEnded(s, j, ok, fails) ==
    IF j \in s.canceled THEN _finishIfCanceled(s, j)
    ELSE IF ~ok THEN Finish(s, j, FALSE)
    ELSE LET t == [s EXCEPT !.packed = @ \cup {j}, !.stage[j] = "packed"]
         IN Emit(IF j = s.active THEN _postFiles(t, j, fails) ELSE t,
                 Signal("packingDone", j))

\* A tool that runs is terminated: its end will finish the job.
onStopPosting(s, j) ==
    IF HasEnded(s, j) \/ j \in s.tools THEN s ELSE _finishIfCanceled(s, j)

\* onNntpFilePosted() for the last file, or onDisconnectedConnection() for the
\* last connection; good: more articles were sent than failed.
onTransferEnded(s, j, good) ==
    IF HasEnded(s, j) THEN s
    ELSE [Finish(s, j, good) EXCEPT
             !.word = IF s.armed /\ good /\ j \notin s.canceled THEN "good" ELSE @]

\* The signal stopPosting(): the flag at once, the slot from the event loop.
stopPosting(s, j) == Emit([s EXCEPT !.canceled = @ \cup {j}], Signal("stop", j))

-----------------------------------------------------------------------------
(* The queue. *)

_prepareNextPacking(s) ==
    IF s.paused \/ s.canceling \/ s.pending = <<>> THEN s
    ELSE LET j == Head(s.pending)
             t == [s EXCEPT !.packing = j]
         IN IF j \in HasPacking THEN Emit(t, Signal("start", j)) ELSE t

\* As it would be if it packed the next job at once.
StartUnpreparedEagerly(s, j) == _prepareNextPacking(Emit(s, Signal("start", j)))

\* A job that packs lets onPackingDone() pack the next one ahead.
StartUnprepared(s, j) ==
    LET t == Emit(s, Signal("start", j))
    IN IF j \in HasPacking THEN t ELSE _prepareNextPacking(t)

\* The last case is the error "next active job different to the packing one":
\* nothing starts the job.
_startNextPostingJob(s, fails) ==
    IF s.active # NoJob \/ s.paused \/ s.canceling \/ s.pending = <<>> THEN s
    ELSE IF ~Proceeds(s, Head(s.pending)) THEN s
    ELSE LET j == Head(s.pending)
             t == [s EXCEPT !.active = j, !.pending = Tail(@)]
             u == [t EXCEPT !.packing = NoJob]
         IN CASE ~preparePacking -> Emit(t, Signal("start", j))
              [] preparePacking /\ s.packing = j /\ j \in s.packed ->
                    _prepareNextPacking(_postFiles(u, j, fails))
              [] preparePacking /\ s.packing = j /\ j \notin s.packed /\ j \notin HasPacking ->
                    _prepareNextPacking(Emit(u, Signal("start", j)))
              [] preparePacking /\ s.packing = j /\ j \notin s.packed /\ j \in HasPacking -> u
              [] preparePacking /\ s.packing = NoJob -> StartUnprepared(t, j)
              [] OTHER -> t

\* As it would be without the test that no job is packed ahead yet.
onPackingDoneAgain(s, j, fails) ==
    IF preparePacking /\ j = s.active
    THEN _prepareNextPacking(IF s.stage[j] = "packed" THEN _postFiles(s, j, fails) ELSE s)
    ELSE s

onPackingDone(s, j, fails) ==
    IF preparePacking /\ j = s.active /\ s.packing = NoJob
    THEN _prepareNextPacking(IF s.stage[j] = "packed" THEN _postFiles(s, j, fails) ELSE s)
    ELSE s

\* deleteLater(): only what is already posted still finds the job.
Delete(s, j) == [s EXCEPT !.stage[j] = "deleted", !.packed = @ \ {j}]

ActiveFinished(s, j, fails) ==
    LET t == [Delete(s, j) EXCEPT !.active = NoJob]
    IN IF s.pending # <<>> THEN _startNextPostingJob(t, fails) ELSE maybeFinishApplication(t)

\* As it would be if _packingJob was not reset.
PackedAheadKept(s, j) == _prepareNextPacking([Delete(s, j) EXCEPT !.pending = Tail(@)])

\* dequeue() takes the head for the job that was packed ahead.
PackedAheadFinished(s, j) ==
    _prepareNextPacking([Delete(s, j) EXCEPT !.packing = NoJob, !.pending = Tail(@)])

\* As it would be if it took the head, as PackedAheadFinished does.
WaitingFinishedHead(s, j) ==
    [Delete(s, j) EXCEPT !.pending = IF @ = <<>> THEN @ ELSE Tail(@)]

WaitingFinished(s, j) == [Delete(s, j) EXCEPT !.pending = Without(@, {j})]

\* As it would be if only the pause was lifted.
AtRestCanceling(s) == IF hasPostingJobs(s) THEN s ELSE [s EXCEPT !.paused = FALSE]

AtRest(s) ==
    IF hasPostingJobs(s) THEN s ELSE [s EXCEPT !.paused = FALSE, !.canceling = FALSE]

onPostingJobFinished(s, j, fails) ==
    LET t == [s EXCEPT !.upsets =
                  IF s.active = NoJob /\ IsPending(j) THEN @ \cup {"parked"} ELSE @]
    IN AtRest(IF j = s.active THEN ActiveFinished(s, j, fails)
              ELSE IF preparePacking /\ j = s.packing THEN PackedAheadFinished(t, j)
              ELSE WaitingFinished(t, j))

\* startPostingJob() once _confirmPostingAdmission() has answered yes, then
\* the release of its hold on the shutdown.
Admit(s, j) ==
    LET t == [s EXCEPT !.stage[j] = "waiting"]
        queued == [t EXCEPT !.pending = Append(@, j)]
        next == CASE ~Proceeds(s, j) -> queued
                  [] Proceeds(s, j) /\ (s.active # NoJob \/ s.paused) ->
                        IF preparePacking /\ s.active # NoJob /\ s.active \in s.packed
                              /\ s.packing = NoJob
                        THEN _prepareNextPacking(queued) ELSE queued
                  [] OTHER -> Emit([t EXCEPT !.active = j, !.upsets = Overtaken(s)],
                                   Signal("start", j))
    IN requestShutdownRecheck(next)

\* As it would be if the end of a hold did not re-check the shutdown.
_discardUnstartedJobSilently(s, j) == Delete(s, j)

_discardUnstartedJob(s, j) == requestShutdownRecheck(Delete(s, j))

-----------------------------------------------------------------------------
(* The clicks of the user, between two turns of the event loop. *)

Click == ~draining /\ ~question /\ UNCHANGED draining
Act == nbActs < MaxActs /\ nbActs' = nbActs + 1

\* startPostingJob() asks before a post that the tunnel would not protect;
\* the dialog runs a nested event loop.  After a "stop all" it is refused.
AskAdmission(j) ==
    /\ stage[j] = "new" /\ \A k \in Jobs : stage[k] # "asking"
    /\ draining \/ question => j \in Monitored
    /\ IF cancelingAll
       THEN Become(_discardUnstartedJob(Now, j)) /\ UNCHANGED askedAt
       ELSE Become([Now EXCEPT !.stage[j] = "asking"])
            /\ askedAt' = [askedAt EXCEPT ![j] = generation]
    /\ UNCHANGED <<generation, unsubmitted, draining, question, doomed, nbActs>>

\* As it would be if the flag were tested again instead of the generation.
AnswerDialogByFlag(j, accepted) ==
    /\ stage[j] = "asking" /\ ~draining /\ ~question
    /\ Become(IF accepted /\ ~cancelingAll THEN Admit(Now, j) ELSE _discardUnstartedJob(Now, j))
    /\ askedAt' = [askedAt EXCEPT ![j] = 0]
    /\ UNCHANGED <<generation, unsubmitted, draining, question, doomed, nbActs>>

AnswerDialog(j, accepted) ==
    /\ stage[j] = "asking" /\ ~draining /\ ~question
    /\ Become(IF accepted /\ askedAt[j] = generation
              THEN Admit(Now, j) ELSE _discardUnstartedJob(Now, j))
    /\ askedAt' = [askedAt EXCEPT ![j] = 0]
    /\ UNCHANGED <<generation, unsubmitted, draining, question, doomed, nbActs>>

\* Without anything to ask, at once.
startPostingJob(j) ==
    /\ stage[j] = "new" /\ ~cancelingAll
    /\ draining \/ question => j \in Monitored
    /\ Become(Admit(Now, j))
    /\ UNCHANGED <<generation, askedAt, unsubmitted, draining, question, doomed, nbActs>>

pause ==
    /\ Click /\ Act /\ ~queuePaused /\ hasPostingJobs(Now) /\ ~cancelingAll
    /\ Become([Now EXCEPT !.paused = TRUE])
    /\ UNCHANGED <<generation, askedAt, unsubmitted, question, doomed>>

\* An active job that needs a tunnel which is down waits for it instead
\* (_resumeActiveJob() is FALSE): the pause of the queue is lifted when the
\* tunnel is being started, and kept when it cannot be.
resume(fails) ==
    /\ Click /\ queuePaused /\ ~cancelingAll
    /\ IF activeJob # NoJob /\ ~Proceeds(Now, activeJob)
       THEN \E lifted \in BOOLEAN : Become([Now EXCEPT !.paused = ~lifted])
       ELSE LET s == _startNextPostingJob([Now EXCEPT !.paused = FALSE], fails)
            IN Become(IF /\ preparePacking /\ s.packing = NoJob
                         /\ s.active # NoJob /\ s.active \in s.packed
                      THEN _prepareNextPacking(s) ELSE s)
    /\ UNCHANGED <<generation, askedAt, unsubmitted, question, doomed, nbActs>>

\* The button of a posting tab.
StopJob(j) ==
    /\ Click /\ Act /\ stage[j] \in {"waiting", "packing", "packed", "posting"}
    /\ j \notin cancelRequested /\ j \notin Monitored
    /\ Become([stopPosting(Now, j) EXCEPT !.word = "stop"])
    /\ UNCHANGED <<generation, askedAt, unsubmitted, question, doomed>>

\* As it would be without the test that there is an active job.
AllJobsUnchecked == pendingJobs \o <<activeJob>>

AllJobs == pendingJobs \o (IF activeJob = NoJob THEN <<>> ELSE <<activeJob>>)

\* Every job that was not asked to stop yet.
StopEach(s, jobs) ==
    LET asked == Without(jobs, s.canceled)
    IN [s EXCEPT !.canceled = @ \cup {jobs[i] : i \in 1..Len(jobs)},
                 !.events = @ \o [i \in 1..Len(asked) |-> Signal("stop", asked[i])]]

cancelAllPostingJobs ==
    /\ Click /\ Act /\ hasPostingJobs(Now) /\ ~cancelingAll
    /\ generation' = generation + 1
    /\ LET s == StopEach(_resetShutdownCompletion(Now), AllJobs)
       IN Become([s EXCEPT !.canceling = TRUE, !.paused = FALSE, !.word = "stop"])
    /\ doomed' = doomed \cup {j \in Jobs : stage[j] \notin {"new", "deleted"}}
    /\ UNCHANGED <<askedAt, unsubmitted, question>>

hasMonitoringPostingJobs ==
    IF activeJob # NoJob THEN activeJob \in Monitored ELSE \E j \in Monitored : IsPending(j)

\* The monitoring button asks before it stops jobs; the queue moves on
\* behind the question.
StopMonitoring ==
    /\ Click /\ Act /\ hasMonitoringPostingJobs
    /\ question' = TRUE
    /\ Become(Now)
    /\ UNCHANGED <<generation, askedAt, unsubmitted, doomed>>

\* The answer is yes, from the event loop of the question: nothing is posted
\* any more.  The tool of a deleted job is killed with it.
closeAllMonitoringJobs ==
    /\ question /\ question' = FALSE /\ events = <<>> /\ UNCHANGED draining
    /\ LET gone == {j \in Monitored : IsPending(j)}
           s == [Now EXCEPT !.pending = Without(@, gone),
                            !.stage = [j \in Jobs |-> IF j \in gone THEN "deleted" ELSE @[j]],
                            !.tools = @ \ gone,
                            !.upsets = @ \cup {"monitoring"}]
           t == IF gone = {} THEN s ELSE [_resetShutdownCompletion(s) EXCEPT !.word = "stop"]
       IN Become(IF activeJob \in Monitored
                 THEN [stopPosting(t, activeJob) EXCEPT !.word = "stop"] ELSE t)
    /\ UNCHANGED <<generation, askedAt, unsubmitted, doomed, nbActs>>

setShutdownWhenDone ==
    /\ Click /\ Act
    /\ Become([_resetShutdownCompletion(Now) EXCEPT !.armed = ~@, !.word = "none"])
    /\ UNCHANGED <<generation, askedAt, unsubmitted, question, doomed>>

\* The tabs with files to submit are submitted, cleared or closed.
TabsCleared ==
    /\ Click /\ unsubmitted /\ unsubmitted' = FALSE
    /\ Become(requestShutdownRecheck(Now))
    /\ UNCHANGED <<generation, askedAt, question, doomed, nbActs>>

-----------------------------------------------------------------------------
(* What comes by itself. *)

\* The process of a packing tool ends, by itself or terminated.
ToolEnds(j, ok) ==
    /\ j \in toolRunning
    /\ ok \/ j \in MayFail \/ j \in cancelRequested
    /\ Become(Emit([Now EXCEPT !.tools = @ \ {j}],
                   [type |-> "toolEnded", job |-> j, ok |-> ok]))
    /\ UNCHANGED <<generation, askedAt, unsubmitted, draining, question, doomed, nbActs>>

\* The last file is posted, or the last connection is lost, which the threads
\* of the posters tell by a queued signal.
TransferEnds(j, good) ==
    /\ stage[j] = "posting" /\ (good \/ j \in MayFail)
    /\ \A i \in 1..Len(events) : events[i].type = "transferEnded" => events[i].job # j
    /\ Become(Emit(Now, [type |-> "transferEnded", job |-> j, ok |-> good]))
    /\ UNCHANGED <<generation, askedAt, unsubmitted, draining, question, doomed, nbActs>>

\* PostCmdRunner: idle(), queued, once the last command or upload has ended.
PostCmdEnds(j) ==
    /\ j \in postCmds
    /\ LET s == [Now EXCEPT !.cmds = @ \ {j}]
       IN Become(IF s.cmds = {} THEN Emit(s, [type |-> "idle"]) ELSE s)
    /\ UNCHANGED <<generation, askedAt, unsubmitted, draining, question, doomed, nbActs>>

onShutdownProcFinished ==
    /\ shuttingDown
    /\ Become(maybeFinishApplication([Now EXCEPT !.proc = FALSE]))
    /\ UNCHANGED <<generation, askedAt, unsubmitted, draining, question, doomed, nbActs>>

TunnelLost ==
    /\ tunnelUp /\ Act
    /\ Become([Now EXCEPT !.tunnel = FALSE])
    /\ UNCHANGED <<generation, askedAt, unsubmitted, draining, question, doomed>>

\* As it would be if the connection only resumed the active job.
TunnelConnectedOnly(fails) ==
    /\ ~tunnelUp
    /\ Become([Now EXCEPT !.tunnel = TRUE])
    /\ UNCHANGED <<generation, askedAt, unsubmitted, draining, question, doomed, nbActs>>

\* stateChanged(Connected): the head of the queue, admitted now, may start.
TunnelConnected(fails) ==
    /\ ~tunnelUp
    /\ Become(_startNextPostingJob([Now EXCEPT !.tunnel = TRUE], fails))
    /\ UNCHANGED <<generation, askedAt, unsubmitted, draining, question, doomed, nbActs>>

-----------------------------------------------------------------------------
(* The event loop. *)

\* One disjunct per kind of event; the result is what Become applies.
Handle(s, e, fails) ==
    CASE e.type = "start" -> onStartPosting(s, e.job, fails)
      [] e.type = "stop" -> onStopPosting(s, e.job)
      [] e.type = "toolEnded" -> onToolEnded(s, e.job, e.ok, fails)
      [] e.type = "transferEnded" -> onTransferEnded(s, e.job, e.ok)
      [] e.type = "packingDone" -> onPackingDone(s, e.job, fails)
      [] e.type = "finished" -> onPostingJobFinished(s, e.job, fails)
      [] e.type = "idle" -> maybeFinishApplication(s)
      [] e.type = "recheck" -> maybeFinishApplication([s EXCEPT !.recheck = FALSE])

Deliver(fails) ==
    /\ events # <<>>
    /\ Become(Handle([Now EXCEPT !.events = Tail(@)], Head(events), fails))
    /\ draining' = (events' # <<>>)
    /\ UNCHANGED <<generation, askedAt, unsubmitted, question, doomed, nbActs>>

-----------------------------------------------------------------------------
User ==
    \/ \E j \in Jobs : AskAdmission(j) \/ startPostingJob(j) \/ StopJob(j)
    \/ \E j \in Jobs, accepted \in BOOLEAN : AnswerDialog(j, accepted)
    \/ pause \/ (\E fails \in BOOLEAN : resume(fails))
    \/ cancelAllPostingJobs \/ StopMonitoring \/ closeAllMonitoringJobs
    \/ setShutdownWhenDone \/ TabsCleared

Environment ==
    \/ \E j \in Jobs, ok \in BOOLEAN : ToolEnds(j, ok) \/ TransferEnds(j, ok)
    \/ \E j \in Jobs : PostCmdEnds(j)
    \/ onShutdownProcFinished
    \/ TunnelLost \/ (\E fails \in BOOLEAN : TunnelConnected(fails))

Next == User \/ Environment \/ \E fails \in BOOLEAN : Deliver(fails)

Spec == Init /\ [][Next]_vars

-----------------------------------------------------------------------------
(* Properties. *)

\* A job that was submitted and is not deleted is the active one or waits, in
\* one place only; a deleted one is in neither.  And only the active job posts,
\* however its packing, its turn and its end interleave with those of the next
\* one.  Every path out of startPostingJob(), onPostingJobFinished() and the
\* cancellations.
NoJobLost ==
    /\ \A j \in Jobs :
         stage[j] \in {"waiting", "packing", "packed", "posting", "ended"}
         <=> (activeJob = j \/ IsPending(j))
    /\ \A i, k \in 1..Len(pendingJobs) : pendingJobs[i] = pendingJobs[k] => i = k
    /\ ~IsPending(activeJob)
    /\ \A j \in Jobs : stage[j] = "posting" => activeJob = j

\* A job is never started a second time: neither twice queued nor again after
\* its tool was launched, although five places emit startPosting(); one that was
\* stopped and has ended may still get a start, which does nothing.  Nor does a
\* job end twice, although its stop, a start that comes late, its tool and its
\* transfer can each end it: there is one postingFinished(), before its deletion.
StartsAndEndsOnce ==
    \A i \in 1..Len(events) :
        /\ events[i].type = "start" =>
             \/ stage[events[i].job] = "waiting"
             \/ HasEnded(Now, events[i].job) /\ events[i].job \in cancelRequested
        /\ events[i].type = "finished" => stage[events[i].job] = "ended"
        /\ events[i].type \in {"start", "finished"} =>
             \A k \in 1..Len(events) : events[k] = events[i] => k = i

\* The job packed ahead is the head of the queue: this is what lets
\* onPostingJobFinished() remove it with dequeue() and
\* _startNextPostingJob() find it.  The end of the monitoring breaks it.
PackingIsHead ==
    "monitoring" \notin upsets /\ packingJob # NoJob => pendingJobs # <<>> /\ Head(pendingJobs) = packingJob

\* "Two packings must never run at once" (_startNextPostingJob()).  They do
\* when a job that waits for the tunnel is packed ahead and a new one, which
\* does not need the tunnel, starts at once.
OnePacking ==
    "overtaken" \notin upsets =>
        \A j, k \in Jobs : stage[j] = "packing" /\ stage[k] = "packing" => j = k

\* While all the jobs are being stopped there is one left whose end lifts
\* _cancelingAll; otherwise no job would be admitted any more.  The end of
\* the monitoring breaks it.
CancelEnds == "monitoring" \notin upsets /\ cancelingAll => hasPostingJobs(Now)

\* A job found by "stop all", be it in the queue, at work or still in its
\* admission dialog, never starts to pack or to post afterwards.
StopAllBinds ==
    [][\A j \in doomed : stage'[j] \in {"packing", "posting"} => stage'[j] = stage[j]]_vars

\* The computer is shut down only when no job is left, not even one whose
\* admission dialog is open, no post command is running or to come, and no
\* tab waits to be submitted.
ShutdownLeavesNothing ==
    [][~shuttingDown /\ shuttingDown' =>
          /\ \A j \in Jobs : stage'[j] \in {"new", "deleted"}
          /\ postCmds' = {} /\ ~unsubmitted]_vars

\* Arming, and then every stop, from the click on: only a transfer that ends
\* later makes the shutdown due again.
StopWithdrawsShutdown ==
    [][~shuttingDown /\ shuttingDown' => lastWord' = "good"]_vars

ReadyToShutdown ==
    /\ armed /\ transferEnded /\ ~unsubmitted /\ ~shuttingDown
    /\ ~hasPostingJobs(Now) /\ shutdownHolds(Now) = {} /\ postCmds = {}

\* Whatever the order in which the conditions of the shutdown come true, the
\* event that starts it is on its way: no wake-up is missed.  It is when a job
\* fails its packing while none is active: onPostingJobFinished() re-checks
\* the end of the run only after the active job.
ShutdownIsComing == ReadyToShutdown /\ "parked" \notin upsets => events # <<>>

\* The active job is at work, or has been told to be: it is packing, posting
\* or ended, or its start is queued.
ActiveJobRuns ==
    activeJob # NoJob =>
        \/ stage[activeJob] \in {"packing", "posting", "ended"}
        \/ \E i \in 1..Len(events) : events[i].type \in {"start", "stop", "toolEnded", "packingDone"}
                                      /\ events[i].job = activeJob

\* The queue does not rest while its head could start, nor behind an active
\* job that does nothing: a job that ends, a resume and the tunnel coming up
\* all move it on.  The removal of a head that waits for the tunnel does not,
\* and the end of the monitoring can leave it stuck.
QueueMovesOn ==
    upsets \cap {"monitoring", "parked"} = {} =>
        /\ ActiveJobRuns
        /\ pendingJobs # <<>> /\ Proceeds(Now, Head(pendingJobs)) /\ ~queuePaused /\ ~cancelingAll
           => activeJob # NoJob

=============================================================================
