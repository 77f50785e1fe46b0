# A verification development of ngPost

ngPost posts files to Usenet: it packs them if asked to, cuts them into
articles, encodes the articles and posts them over parallel NNTP connections,
possibly through a VPN tunnel, and records what it did in an NZB file and a
history database. This directory holds TLA+ models of its core, the TLC
configurations that check them, and proofs checked by TLAPS.

## 1. The system

| Component | Source | State it keeps | Operations | What makes it correct |
|---|---|---|---|---|
| Article pipeline | `Poster`, `ArticleBuilder`, the reader in `PostingJob` | per poster: queue of prepared articles, build-in-progress flag, scheduled requests, one encoding buffer; shared: current file, position, part number, `_noMoreFiles`; three mutexes and a wait condition | `getNextArticle`, `onPrepareNextArticle`, `_readNextArticleIntoBufferPtr`, unlocking of the queues | each slice leaves once, with its own bytes; "no more" is said only when nothing is left; nobody waits for ever |
| NNTP connections | `NntpConnection` | socket, posting state, current article, reconnect and refusal counters | slots for start, kill, connected, disconnected, errors, timeout, replies | an article is never lost by a connection, nor sent by two; reconnections are bounded |
| Posting job, transfer | `PostingJob`, `NntpFile`, `NntpArticle` | pool of live and closed connections, pause and its reason, counters, NZB, outcome | slots for file posted, read error, disconnection, stop; `pause`, `resume`, `_finishPosting` | a partial post does not look complete; a user pause is lifted by the user only; a job ends |
| Posting job, packing | `PostingJob` | external process, temporary folder, renamed files | compression, par2, obfuscation, abort | names are restored, sources kept; a job that ends or is cancelled packs no more |
| Job queue and life cycle | `NgPost`, buttons of `hmi/` | active, pending and packing job, pause of the queue, cancel all, shutdown | `startPostingJob`, `onPostingJobFinished`, `onPackingDone`, `cancelAllPostingJobs`, `maybeFinishApplication` | one transfer and one packing at a time; nothing left behind; the computer is shut down when nothing is left, and only then |
| History | `PostHistoryService`, `PostHistoryStore`, `ResumePlanner`, `NzbHistoryRegenerator` | events not yet written; status of articles, files, posts | enqueue, flush, crash cleanup, resume planning, regeneration | confirmed parts are never sent again, unconfirmed parts never taken for confirmed |
| VPN manager | `VpnManager`, hooks in `NgPost` | state, health, retained jobs, recovery attempts, timers | start, stop, recover, admit, retain, release | no job posts without the tunnel; recovery always has a next step; the user's stop stands |
| VPN backends and helper | `OpenVpnBackend`, `WireGuardBackend`, `ngpost-vpn-helper.sh` | the process, its pipes, the tunnel | READY, health, RESTART, end of input | what is said of the tunnel is true |
| Others | folder monitor, NZB check, post commands, updates, command line, interface, encoding, paths | | | see `PROJECT.json` |

How they interact: the main thread owns the job, its files, the queue and the
VPN manager. Each poster has a *connections* thread, in which its connections
live, and a *builder* thread. Between threads there are queued Qt signals (start
and kill from the job to a connection; disconnected, posted, failed, read error
to the main thread), mutexes around the article queues, the buffers and the
reader, and the flags `_isPaused`, `_stopPosting`, `_noMoreFiles`, read without a
lock. `_finishPosting()` runs in the main thread and waits for each connection
thread to run its kill slot. The history has a thread of its own, to which
events are queued and other calls are blocking. The VPN helper is a privileged
process, driven and heard through pipes. The queue, the VPN manager and the jobs
call one another by direct signals in the main thread, and post queued ones to it.

What is hard: threads interleave inside an article's preparation; signals sent
before a pause, a resume or an end are handled after it; transports fail at any
time and are retried; three kinds of pause overlap; and an end may come from the
last file, a read error, a lost connection or the user. In the main thread, a
handler posts events that are handled after others, and a dialog runs an event
loop inside a handler. The program may end between an article, its event and its
row. Answers of a tunnel come after the tunnel they speak of. `PROJECT.json` lists
each hazard with its line and the properties that cover it.

## 2. Plan

1. `ArticleSource`, `ArticlePipeline`, its invariants and its refinement, checked
   and proved (done).
2. `Transfer`: connections and job over `ArticleSource` (done: model, runs and
   the proofs of `TransferProofs`).
3. `JobQueue`: the queue, packing ahead, cancel all, the wait for the tunnel,
   shutdown (done: model, runs and the proofs of `JobQueueProofs`).
4. `PostHistory`: batches, retries, crash and restart, resume (done: model, run,
   and the proofs of `PostHistoryProofs`, `PostHistoryResumeProofs` and
   `PostHistoryWholeProofs`).
5. `VpnManager`: states, recovery budget, late answers, idle timer (done: model,
   runs and the proofs of `VpnManagerProofs`).
6. To do: folder monitoring, the runner of post commands, the NZB check.
7. Proofs, in this order: custody, NZB and success of `Transfer` (done); the other
   invariants of the history (done); the queue (done); the tunnel (done). What is
   left is liveness, out of the prover's reach.

## 3. Modules

### ArticleSource

What a connection may rely on, for any pipeline: slices go from unread to staged
for a poster to handed; a poster may answer "exhausted" only when nothing is
unread or staged for it and every unreadable file was reported.

### ArticlePipeline

State: the reader (`nextFile`, `curFile`, `pos`, `part`, `noMoreFiles`), the
holders of the three mutexes, per poster the queue, the build flag, the scheduled
requests and the slice in the buffer, and the position of each thread. One
action for each stretch of code between two points where another thread can
interfere: taking `_secureBuffer`, taking `_secureDiskAccess`, opening a file,
reading, numbering (and skipping a part that a resumed post has), end of file,
encoding, the two critical sections of `onPrepareNextArticle`, and each outcome
of `getNextArticle`. A critical section that touches only what its mutex guards
is one step; the connection's own build keeps `_secureArticles` throughout, as
the code does. An article is the part number it announces together with the
slice that its body was encoded from, so that a race on the buffer or on the
reader shows as a mismatch. A poster's connections run in one thread, one call
at a time, hence one caller for each poster. Sizes are counted in slices.

`_secureBuffer` turns out not to be what keeps two builds of a poster apart: the
announcement flag and `_secureArticles` already do. It is modelled all the same.

### Transfer

State: for each connection its `_postingState`, what became of its socket, its
article, its counters, the start and kill signals queued for it, and where its
thread is inside a handler that blocks (`fetch`: inside `getNextArticle`; `check`:
before the second pause test; `lost`: between the decision to reconnect and the
queued start, where the article is recorded). For the job: the queue of signals
of the main thread, the pools, the pause, counters, NZB, outcome. Each slot is one
action; `_finishPosting` is cut where other threads interfere: the pause is
lifted (`FinishPosting`), `_stopPosting` raised (`StopConnections`), each
connection killed by a blocking call (`KillForStop`), outcome and deletion
(`Finalize`). Clicks, timeouts and news of the tunnel take their turn in the same
queue as the signals of the threads, as in Qt's event loop. The articles come
from `ArticleSource`, instantiated on the same variables: what the pipeline run
checks is what this module assumes.

Abstractions: `AUTH_USER` and `AUTH_PASS` are one state; what goes over the wire
is not modelled; `_nbArticlesUploaded` and the other counters of `PostingJob` are
read off `posted` and `failed`; a socket that `onStartConnection` replaces without
releasing is remembered (`leaked`), and its disconnection runs `onDisconnected`
like that of the socket in use; the test of `nbArticlesUnknown()` before the
sources are deleted is left out because it is reached only when no file is
pending.

### JobQueue

The handlers of the queue call one another (a stop may end a job, whose end
starts the next one, which may fail at once), so they are operators from a state
of the queue, a record, to the next, and an action applies one (`Become`). State:
the active job, the pending ones in order, the one being packed ahead, pause,
`_cancelingAll` and its generation; for each job its stage, whether its tool is
still running, whether a stop was asked for; the variables of the shutdown; and
`events`, what is posted to the main event loop. While `draining`, events are
delivered in order and the user does nothing, as Qt empties its queue before it
returns to the window system; ends of tools and of transfers come at any time.
`_preparePacking` is either value from the start. A job is admitted through its
dialog (`AskAdmission`, `AnswerDialog`), whose nested loop lets every other action
happen in between.

History variables, for the properties only: `doomed` (the jobs that a "stop all"
found), `lastWord` (what last decided about the shutdown) and `upsets`, which
records that one of three situations of the section on disagreements has arisen:
the end of the monitoring stopped jobs (`monitoring`), a waiting job ended while
none was active (`parked`), or a new job became active before one packed ahead
(`overtaken`). Properties that these situations break say so.

Abstractions: compression and par2 are one tool; a transfer only ends (it is
`Transfer`); the tunnel is up or down (it is `VpnManager`); one dialog at a time.
`QueueMovesOn`, `ShutdownIsComing` and `CancelEnds` are safety properties that stand
for liveness: they say that what will wake the queue is already on its way or at
work, and every event, tool and transfer of the model ends.

### VpnManager

Also written as operators from state to state, since the manager, its backend
and NgPost call one another by direct signals. State: that of the manager
(`state`, `health`, the recovery and its count, the attempt under way, the count of
jobs, the timers that run, the address); the backend, with the process, and the
pipes: `cmds` to the helper (an attempt for RESTART, 0 for the end of its
input) and `out` from it; the helper itself and its tunnel; and in NgPost, for each
job, parked, active, on which pause, and whether it holds the tunnel. The
manager handles a message at any time after it was printed; the helper reads a
command at any time after it was written. A timer that runs may fire at any time.
The tunnel is lost, heals, comes back under another address or not at all, the
helper crashes, its launch is refused for one of the reasons of `VpnFailureKind`.
The start button is enabled in Disabled, Failed and LeaseBusy, the stop button in
Starting, Connected and Reconnecting. Every job of this module needs the tunnel.

History: `stoppedByUser` and `upsets`, the four situations described below.

### PostHistory

One post, its rows (`row`, `fileRow`, `post`), and what the program holds of it in
memory. `journal` is what the worker has been sent and has not written: events of
articles, statuses of files, and the cleanup queued at a graphical start. The
events that have reached its batch and those still queued to its thread are not
told apart: both are lost with the program and written in order. A batch is any
prefix of events (`FlushArticleEvents`). A blocking call of another thread is one
action, at the point where the worker comes to it (`Reached`: only events are
left) and, as most calls flush first, succeeds when nothing is left (`Flushed`); a
call that fails, or whose flush fails, leaves the events where they are.

`fileOf`, which article is in which file, never changes; it is chosen at the start,
so that one run has both a post of one file and of two. The job goes through
`phase`: `preparing` (registration, opening of the NZB), `sending`, `closing` (the
connections are being killed by `_finishPosting`), `finalized`, `over`. An article
is `sent` from its bytes to its reply; `ambiguous` while its connection waits until
its loss is written; `won` or `lost` while the verdict is queued to the main thread;
`left` when its connection is not in the pool that `_finishPosting` kills and goes with
its thread instead (`LeftInFlight`).
`nzb` is the file at `_nzbFilePath`; the scratch file of a resume is not that one.
`Restart` is the end of the program, by any means, and its next start, with or
without a window. History: `answered`, `lost` (confirmed, but unwritten when the
program ended), `abandoned` (left in flight, and not sent again since), `stale` and
`published`.

Abstractions: attempts, Message-IDs, sizes, dates and the reasons of a refusal; the
pool of connections (every article may be sent by some connection); sources that
change, which only abort a resume (`_abortBeforeTransfer`); `resume_state`, a
function of what is kept, and the list of candidates, replaced by the rule that
decides (an article of a registered file is not posted).

## 4. Runs

| Run | Instance | Shows |
|---|---|---|
| `pipeline` | 2 posters, a resumed file, an unreadable file, a pause, a stop, with fairness | `TypeOK`, `NothingLeftAtEnd`, `BodyMatchesPart`, the refinement `ImplementsArticleSource`; `CallReturns`: no lock order and no lost wake-up blocks a call; `EverySliceHanded` |
| `pipeline_pause` | 1 pause | violation of `PauseIsNotEnd`, see below |
| `transfer` | 2 connections in 2 posters, a file of 2 slices and an unreadable one, 2 faults, rejections, a stop | `OneCustodian`, `NzbIsComplete` |
| `transfer_pause` | 1 connection with TLS, login and tunnel, 1 slice, 1 fault, 2 clicks, 1 loss of the tunnel, a stop | `OneCustodian`, `SuccessIsComplete`, `UserPauseHolds` |
| `transfer_live` | 2 connections, 1 slice, an unreadable file, 1 fault, a stop, fairness | `JobEnds`, `FinishEnds` |
| `last_slot` | as `transfer`, without stop | violation of `LastSlotIsComing`, see below |
| `in_flight` | 1 connection, 2 clicks | violation of `InFlightIsUnknown`, see below |
| `job_queue` | 3 jobs: one that packs and has a post command, a monitored one that packs, may fail and needs the tunnel, a plain one; 3 disturbances | seven invariants and three action properties, from `NoJobLost` to `StopWithdrawsShutdown` (3.7 million states) |
| `job_queue_stuck` | 3 jobs, two of them monitored and packing | violation of `ActiveJobRuns`, see below |
| `vpn` | 2 jobs, both protocols, budget of 2 recoveries, 2 incidents, 3 clicks | `UserStopWins`, `JobPausedWithoutTunnel`, `ConnectedIsTrue`, `ChangeIsComing`, `OnlyUserStopsUnderJob`, `UserPauseIsKept` (4.3 million states) |
| `vpn_resume` | as `vpn`, without incidents | violation of `RunningIsRetained`, see below |
| `history` | 2 articles in 1 or 2 files, 2 tries, 2 mishaps on the wire, 1 failing call, 1 end of the program, 1 resume | `PostedIsAnswered`, `SuccessIsWhole`, `PublishedIsWhole`, `InFlightIsLive`, `AmbiguityIsDurable`, `PostedIsForGood`, `ConfirmedIsNotResent` (4.4 million states) |

What the properties of the last runs are about. `job_queue`: no job is lost or in
two places; a stop binds the jobs it found, those in their dialog included; the
queue does not stay asleep, nor the shutdown, and the shutdown leaves nothing
behind. `vpn`: between the tunnel, the helper, the manager and the jobs, what one
believes of the other is true or is about to be corrected. `history`: a row, the
NZB and the status of a file or post, written at different moments by different
threads, agree with what the server confirmed, across ends of the program.

Deadlock is not checked in the `Transfer` runs: a job that is over stops, and a
job may be stuck (`last_slot`). It is not checked for the pipeline either, whose
threads rest when everything is handed over; `CallReturns` says that no call
blocks. The queue, the tunnel and the history rest when their work is done or
their bounds are reached.

Bounds. Two posters are enough for every race on the reader, which is between two
threads of one poster or of two posters. Two connections make "the last
connection" different from "a connection". `NbMaxTrySending` and
`KMaxAuthRejectedCycles` are 1, so that the counters reach their limits. `Prefetch`
(1 article staged for a poster) leaves one slice stranded behind a lost
connection. `MaxFaults`, `MaxClicks`, `MaxVpnLosses` and `MaxPauses` bound the
environment; every fault can hit every handler. The symmetry used exchanges the
connections with their posters, and the slices of one file; in `history`, the
articles and the files, of which no constant tells one from another.

Three jobs are the least for an active job, one packed ahead and one behind it;
each has a different combination of the properties that matter, so that every
branch is met. Two jobs and two incidents let a recovery be interrupted by
another loss and a release meet an admission; three clicks disconnect the tunnel,
start it again and resume the job. Two articles make a batch with two events and a file
or a post complete only in part; the queue of the worker is bounded to 2 entries
(`MaxQueued`; with 3, 7.2 million states, the same properties hold), enough for an
event behind another one and for a status behind an event. Two mishaps with
`NbMaxTrySending` = 2 make an article fail for good, or be sent again after a loss.

Fairness. `Fairness` of the pipeline is weak fairness of each thread: the system
schedules runnable threads, and the wait condition is woken by the builder.
`Transfer` adds that a server with which the transport is up answers; this is
the server's part, and the bounded faults are the exceptions. Nothing is assumed
of the user, of the tunnel or of a backoff. `JobEnds` is conditional on no fault
and no pause, because after a fault a job need not end (`last_slot`).

### Disagreements

Between what comments, documents or messages say and what the code does. The first
five are runs; the others were met while the models were built, as violations that
the properties now exclude by name.

* `pipeline_pause`: the null answer that a pause causes is meant as "an admission
  barrier rather than end-of-input" (`NntpConnection.cpp:686-688`), but if the pause
  ends before the second test the connection concludes `NO_MORE_FILES`.
* `last_slot`: "let that slot finish the job" (`PostingJob.cpp:1172-1174`) supposes
  that a slot is still to come. With an article stranded by another connection
  none is, and nothing restarts the transfer.
* `in_flight`: closing the transports is said to classify every article in flight
  (`PostingJob.cpp:1863-1864`), but a connection that a late `disconnected` moved to
  the closed pool is not closed. In the history its article then stays "posting" after
  the job, until the cleanup of the next start: `history` has that step too
  (`LeftInFlight`), and `InFlightIsLive` excludes it by name (`abandoned`).
* `job_queue_stuck`: `closeAllMonitoringJobs()` deletes the monitored job that is
  being packed ahead and leaves `_packingJob` as it is; the next job becomes active
  in the branch marked "should never happen" (`NgPost.cpp:2418`) and is never started.
* `vpn_resume`: `_vpnRetained` is reset with the count of the manager "so a later user
  retry retains it once" (`NgPost.cpp:572-575`), but a resume retains the job only if the
  tunnel is not up. When the user disconnects the tunnel, starts it from its dialog and
  then resumes the job, the job posts while the manager counts nobody: the next crash of
  the helper is not recovered from and does not pause the job, nor does the next
  disconnection. The proof of `JobPausedWithoutTunnel` found it; the property now excludes
  it (`unretained`).

The queue:

* Stop all, then the end of the monitoring while the tool of a monitored job is
  still being terminated: its end, which would have lifted `_cancelingAll`, never
  comes, and no job is admitted any more (`CancelEnds`, `monitoring`).
* A job that waits for the tunnel at the head is packed ahead; a new one that does
  not need the tunnel starts at once, and two packings run, which the comment at
  `NgPost.cpp:2410-2412` excludes (`OnePacking`, `overtaken`).
* A job that fails its packing, or is removed, while none is active: nothing
  re-checks the shutdown, which does not happen although it is due
  (`ShutdownIsComing`, `parked`), and the job behind a removed head that waited for
  the tunnel is not started (`QueueMovesOn`, `parked`).

The tunnel:

* `_completeReady()` stops `_recoveryTimer` only: when HEALTHY comes with an address
  before the poll has found it, the poll goes on after Connected, and may complete a
  second time, or time out and restart the tunnel (`VpnManager.cpp:1013-1068` and
  `977-1006`).
* `stop()` "cancels any pending restart/start-failure continuation" but lets
  `_tunPollTimer` run: the poll completes and says Connected while the tunnel is
  being stopped, or times out and restarts it (`VpnManager.cpp:897-920` and
  `945-1011`; `late`).
* A helper that crashes while it is being stopped is recovered from:
  `_recoverFromTermination` destroys the backend before it asks for the recovery, and
  the tunnel comes back after the user's stop (`crash`).
* `_finishFailedTermination` sets Failed before it resets the count of jobs when the
  tunnel was never ready, so that a job believes it holds a tunnel that nobody
  counts, against the comment at `NgPost.cpp:572-575`: the next loss neither recovers
  the tunnel nor pauses the job (`desync`).
* `admitJob()` lets a job wait while the manager is Stopping (the comment speaks of
  Starting): once Disabled, nothing starts the job. Nor does anything when the
  health goes from suspect to healthy without a change of state.
* `retryVpn()` says TRUE and does nothing when the last failure was a busy lease or
  a missing helper.
* READY and HEALTHY printed before a RESTART is read are believed although the
  restart then fails: `ConnectedIsTrue` allows for it (`helper.gone`), and the helper
  says so at its next look.

The history:

* A post that is being transferred is offered for resume, its plan is not made
  again when the resume leaves the queue, and what was posted meanwhile is sent
  again, while the dialog promises "Only missing or failed articles will be re-sent"
  (`MainWindow.cpp:2385`). Only the sources are checked again, for the very reason
  that "a resumed job can wait a long time in the queue" (`PostingJob.cpp:1678`).
  `ConfirmedIsNotResent` excludes it (`stale`).
* A file whose registration failed, or that the program did not reach before it
  ended, has no row. A later resume knows nothing of it, records a success, and the
  NZB it rebuilds replaces the previous one without that file: `_historyDataUnreliable`
  belongs to one job (`PublishedIsWhole` excludes it: `Registered # PostFiles`). The
  comment at `PostingJob.cpp:1685-1687` gives "a post missing a file would then be
  recorded as a success" as what must not happen.
* When the cleanup queued at the start fails and a later one succeeds, `prepared(FALSE)`
  may be handled last: the next command on the history cleans up under a post that
  is being transferred. A second ngPost on the same database does so too (not
  modelled).
* Between the last verdict and `finalizePost()` an end of the program leaves a
  complete post that says `resumable`, with nothing to resume and an NZB without its
  end. The status of a file is dropped when the flush before it fails.
* "Posting" waits for the batch like any event: an article sent just before a
  crash may have no row at all, and looks as if it had never been sent. `InFlightIsLive`
  is therefore about rows that say so.

## 5. Proofs

`ArticlePipelineProofs` proves, for any set of posters, any number of files and
slices, any set of unreadable files and parts already posted:

* `TypeCorrect`: `Spec => []TypeOK`;
* `BodiesCorrect`: `Spec => []BodyMatchesPart`;
* `EndCorrect`: `Spec => []NothingLeftAtEnd`;
* `Invariance`: `Spec => []Inv`, on which they rest.

The only assumption is `PipelineAssumption`, on the constants. `BodyMatchesPart`
and `NothingLeftAtEnd` are not inductive. `Inv` adds `Locks` (a mutex is held by
the thread whose position says so, and the disk by one thread at most), `Reader`
(between reading and numbering, the buffer of the thread that holds the disk is
the slice that `part + 1` will announce; otherwise `pos = part`), `Bodies` (what a
thread holds or has in its buffer while it encodes) and `Ends` (`noMoreFiles`
means that every file was read; a builder at work is announced by `building`; an
empty answer means an exhausted poster). One lemma for each action shows that it
preserves `Inv`; a step of one thread disturbs the facts about another only
through the reader and the mutexes, which is what the first two parts are for.

`ArticlePipelineRefinement` proves `Refinement`, `Spec => ImplementsArticleSource`,
under the same assumption. It needs two more facts: `OpenFile` (the open file is
readable, precedes `nextFile` and is not read past its end) and `Distinct` (an
article in a queue or in a thread's hands is a slice to post that the reader has
passed, and a poster has each slice once). With them, numbering a part stages its
slice, taking the head of the queue or returning from the connection's own build
hands one over, the two ends of input exhaust the poster, and every other step
is a stutter: the builder's hand-off moves an article within what is staged, and
closing a file leaves nothing of it unread because `pos = part` then.

`TransferProofs` proves, for any number of posters, connections, files and articles
and any bound on tries, faults, clicks and losses of the tunnel, from
`TransferAssumption` (each article is of a readable file; the sets of files and of
articles are finite, which the count of files that ends a job needs):

* `TypeCorrect`: `Spec => []TypeOK`;
* `CustodyCorrect`: `Spec => []OneCustodian`;
* `NzbCorrect`: `Spec => []NzbIsComplete`;
* `SuccessCorrect`: `Spec => []SuccessIsComplete`;
* `UserPauseCorrect`: `Spec => UserPauseHolds`;
* `TransferInvariance`: `Spec => []TransferInv`, on which custody, NZB and success rest.

None of those three is inductive: they count an article or a file where it is, and a
handler may act on what is queued. `TransferInv` says where everything may be: a
connection has one article at most, which no other has (`OneHolder`); an article handed
over is held, or one signal with its verdict is queued, or it is judged, and never two
of these (`Lineage`); one not handed over yet is in one place (`SourceInv`); a verdict
"posted", queued or given, is of an article the server confirmed (`ConfirmedInv`); a
file is counted once, its queued signal included, after the last verdict of its
articles or for an error of the reader, so that `nbPosted` is the number of files
counted and reaches that of the files only with all of them (`FilesInv`). `AppendSignal`
and `TakeSignal` are the two facts about a queue, in terms of which each handler is
described (`Spares`: what it leaves alone). `UserPauseHolds` is an action property; it
needs that a job is paused when it has a reason, and what each step may do to the pause.

`PostHistoryProofs` proves, for any finite set of files, any articles spread over
them, and any bound on tries, faults, mishaps, ends of the program and resumes,
from `HistoryAssumption` alone:

* `TypeCorrect`: `Spec => []TypeOK`. The point is the queue of the worker: what it
  holds for an article is the status of an article, and the prefix, the removal of
  an entry and the new entries keep it so (`JournalStep`, for any set of entries);
* `PostedForGood`: `Spec => PostedIsForGood`, from `AppliedIsSound`, which says what a
  batch does to a row, and `WhoWritesRows`;
* `AnsweredCorrect`: `Spec => []PostedIsAnswered`. The inductive invariant `AnsweredInv`
  adds where a confirmation may be on its way: an article `won` or `posted` is one the
  server confirmed (`WordIsTrue`), the queue says "posted" of such articles only
  (`journal \in Seq(Told)`), and a fresh job leaves an article out only with its file,
  so that the files written to the NZB are confirmed in full (`OutIsOver`).

`PostHistoryResumeProofs` proves `ConfirmedStays`, `Spec => ConfirmedIsNotResent`, from
the same assumption. What a job may still write depends on a plan read earlier from
rows written earlier still, so the invariant `ResendInv` (which TLC also finds true of
the instance of `history`) follows a confirmation all the way: it is in its row, in
the queue, or with the article that is won, unless it was lost with the program or its
file has no row (`WordIsKept`); a plan made while nothing was posted has it
(`PlanIsTrue`: the reading flushes first, and nothing is answered until the plan is
used); so what a job has still to write is not confirmed (`AheadIsUnconfirmed`). The
rest says when a file has a row: `RowsOfJob`, `NothingBefore`, and the queue speaks of
such files only. Every step makes a job, ends one, or is a `GoesOn` step (`Steps`),
which leaves little to prove of each conjunct; `QueuedStep` is the fact about the queue,
that an entry stays in it until it is written.

`PostHistoryWholeProofs` proves, from the same assumption, what the history says of an
article in flight, of a file and of a post:

* `FlightCorrect`: `Spec => []InFlightIsLive`;
* `AmbiguityCorrect`: `Spec => []AmbiguityIsDurable`;
* `SuccessCorrect`: `Spec => []SuccessIsWhole`;
* `PublishedCorrect`: `Spec => []PublishedIsWhole`.

Each relates rows that different statements write, so what is inductive is the order of
the queue. `LastWord(a, k)` says that k is what the history will say of a when the queue
is written: the last event of a is k, or there is none and its row is k. `FlightInv`,
over `ResendInv`: once the history is in use, an article whose last word is "posting" is
one that a job has sent and waits for, or has left in flight (`Settled`); without a fault, the last word on an article whose
connection waits is "unknown", and it is in the row when the connection goes on
(`Durable`); a queued preparation is alone and before everything else (`PrepareAlone`),
which is what lets it turn every row in flight into "unknown". `QueueMoves` says what a
step does to the queue (it adds an entry, takes one out that is no event, or writes a
batch) and `WordAdded`, `WordDropped`, `WordWritten` what each of these does to the last
word. `WholeInv` adds that a file is queued as posted behind the confirmations of its
articles (`ArticlesFirst`); that an article a job counts as posted is in its row or in the
queue, and one it has nothing to do for was posted before (`Kept`); that the files a plan
or a resume leaves aside are whole (`Elsewhere`); that a fresh job has every file and
starts with nothing announced (`Fresh`); and that its NZB has what is over (`Streamed`).
A success is then whole because `finalizePost()` finds the queue empty. TLC finds both
invariants true of the instance of `history`.

`JobQueueProofs` proves, for any finite set of jobs, whichever of them pack, are
monitored, need the tunnel, have a command or may fail, and any bound on the acts, from
`JobQueueAssumption` alone:

* `TypeCorrect`, `NoJobIsLost`, `JobsStartAndEndOnce`, `PackedAheadIsHead`, `PackingIsAlone`,
  `CancelingEnds`, `ShutdownComes`, `QueueGoesOn`: `Spec => []P` for the invariants
  `TypeOK`, `NoJobLost`, `StartsAndEndsOnce`, `PackingIsHead`, `OnePacking`, `CancelEnds`,
  `ShutdownIsComing` and `QueueMovesOn`;
* `StopAllHolds`, `ShutdownIsLast`, `StopTakesShutdownBack`: `Spec => P` for the action
  properties `StopAllBinds`, `ShutdownLeavesNothing` and `StopWithdrawsShutdown`.

None of them is inductive: what a handler does depends on the event it is called for,
which was posted in an earlier state. `Safe`, on the records the handlers work on, says
what still holds when an event is handled (`EventOK`: the job of a start waits, or was
stopped and has ended; that of a "packing done" is packed or deleted; and so on), that a
start, the end of a tool and the end of a job are each posted once (`Single`), where each job is (`Placed`,
`Ahead`, `Tools`), that a job that waits behind the one packed ahead was not touched
(`Untouched`) and that the active one packs no more when the next one does (`OneAhead`).
For the shutdown and the stops: a job that ended has its `finished` posted (`EndedTold`),
what made the shutdown due came after the last stop, or the job stopped will take it back
(`Earned`), the flag of the re-check tells the truth (`Rechecked`), when the shutdown is
due the event that starts it is posted, or a tab still holds files (`Coming`), and a job
that "stop all" found is cancelled, deleted, or in a dialog opened before (`Bound`).

The handlers call one another, so the proofs follow the calls: `JobStep` says what a
handler of a job may do to that job and to the events, `JobStepSafe` that this keeps
`Safe`; `Goes` and `Lawful` what a handler of the queue may do on the way and from its
call to its return; one lemma for each handler, then one for each action (`...Inv`), give
`NextInv`: a step keeps the invariant and satisfies `Keeps`, the three action properties
in one. `ElemsWithout`, what is left of a sequence when some members are taken out, is
proved by a least counterexample over the recursive function of `Without`, which
`JobQueue` has because the prover knows nothing of `SelectSeq`.

That the queue moves on needs a second invariant, `Moves`, which holds as long as neither
the monitoring has ended over jobs in the queue nor a waiting job has ended while none was
active: `QueueMovesOn` says nothing of the job packed ahead, which is what the next turn
is given to. A job whose turn it is, to post or to be packed ahead, has its `start` posted
if it has not begun, a packed job is known to be packed, and the active one is never left
packed and not posting (`Launched`, which names the jobs that the handler under way has
still to start); and the queue is not `Idle`: without an active job, its head waits for
the tunnel, or for the end of a pause or of a "stop all". `Stays` says which handlers
leave all this alone, `StartNextMoves` and the lemmas of the other handlers that give a
job its turn that they start it, and one lemma for each action (`...Moves`) leads to
`NextMoves`. The two conditions are those of the program: each is a way in which it leaves
the queue at rest (section 4). A job packed ahead that is overtaken is none: the theorem
holds of it too.

`VpnManagerProofs` proves, for any finite set of jobs, any protocols, any limit of
recoveries (none included) and any bound on incidents and clicks, from `VpnAssumption`
alone:

* `TypeCorrect`, `UserStopHolds`, `NoTunnelNoPosting`: `Spec => []P` for the invariants
  `TypeOK`, `UserStopWins` and `JobPausedWithoutTunnel`; `ConnectedHolds`,
  `ChangeHolds`: the same for `ConnectedIsTrue` and `ChangeIsComing`;
* `StopsOnlyForUser`, `PauseIsTheUsers`: `Spec => P` for the action properties
  `OnlyUserStopsUnderJob` and `UserPauseIsKept`;
* `VpnInvariant`: `Spec => []VpnInv`, on which they all rest, and `ToldInvariant`:
  `Spec => [](VpnInv /\ VpnTold)`, on which the last two invariants do.

What a handler does depends on lines that the helper printed several states ago and on
timers started before those, so `VpnInv`, which is `Inv(s, U)` of the record the handlers
work on and of the upsets so far, says what every line and every timer may still find. The
tunnel is held for the active job alone, and nothing times its idleness while there is one
(`Held`); the active job does not wait in the queue, where each job is once (`Queue`); what
goes with each state of the manager: a recovery, a backend, a stop that was asked for, an
address (`Machine`); a helper that has not made the tunnel says only that it ends, and one
that is alive has not said so (`Printed`), which is what keeps a line from being taken for
one of another time; a backend told to stop is heard in another state only after a late
answer (`Late`); what the user has stopped is neither recovering nor offered for a retry
(`Still`: `UserStopWins` alone is not inductive, a recovery under way would bring it back;
only the user's start, a retry and an admission end a stop, so that a timer that started
the tunnel would violate it); and, without an upset, the manager counts exactly the job
that holds the tunnel, a job not put on pause by the user holds it, and one that posts
finds it connected (`Runs`). The last part is where the count may be wrong (`Upset`): a proof of it without the upset
`unretained` fails on `_resumeActiveJob()`, and that is how the disagreement of
`vpn_resume` was found.

The handlers call one another, so the proofs follow the calls twice: the lemmas `...Is` say
exactly which fields a handler may change and to what (`Only`), the lemmas `...Keeps` that it
keeps `Inv` and does neither of the two things that the action properties forbid
(`Allowed`; `disconnectByUser()`, which may stop the tunnel under a job, keeps the other,
`PauseKept`); then one lemma for each action, and `NextKeeps`. `BecomeKeeps` carries what is
proved of the records over to the variables.

What the manager believes may be wrong as long as the line that puts it right is on its
way, so `ConnectedIsTrue` and `ChangeIsComing` need a second invariant, about the two
pipes: `VpnTold`, which is `Told(s)` of the same record. What somebody waits for is there,
on its way to the helper or on its way back, six times over (`Heard`): the end of a helper
(`EndTold`), the READY of a start (`StartAnswered`), the answer to the last RESTART
(`RestartAnswered`), the address (`AddressTold`: the manager has the one of the tunnel, or
none, or the last READY it will heed brings it, or a command is unread) and a tunnel that
is down (`DownTold`: nothing better than the last "Down" is left to hear); and the commands
are the last restarts in order, none left out, until the end of the input (`InOrder`), so
that the answer to the last of them is the one that `onBackendRestartReady()` heeds.
`Goes(s, t, q)` is what a handler may do to the two ends while the lines `q` are to be
heard, and `GoesHeard` says that it loses nothing; `HeardNext` takes a line from the queue,
`HelperTold` adds the lines the helper prints, and the lemmas `...Told` follow the handlers
and the actions as the `...Keeps` do, up to `NextTold`.

Only model-checked: liveness, that of `ArticlePipeline` (`CallReturns`,
`EverySliceHanded`) and of `Transfer` (`JobEnds`, `FinishEnds`), because fairness and
ENABLED are out of the prover's reach. Every invariant of a run that passes is also a
theorem. No module uses a recursive operator.

## 6. Not modelled

* Job queue: the exit of the command line, the closing of the window
  (`closeAllPostingJobs`), jobs resumed from the history, whose abort before the
  transfer keeps their rows (that part is in `PostHistory`), more than one admission
  dialog at a time, messages.
* Packing: the renames of the obfuscation and their restoration, the temporary
  folder, compression and par2 as two stages.
* VPN: Windows, its services and the confirmed stop; leases; the delays of the
  backoff; the nested loops of warnings; credentials, profiles, routing and name
  resolution; jobs that do not need the tunnel (they are in `JobQueue`).
* History: abandoning, purging and deleting posts, attempts and Message-IDs, sizes,
  the schema and its migrations, a change of database, CSV, searches, statistics,
  metadata and passwords, the size of the batches and their delays.
* Folder monitoring, the NZB check and the runner of post commands are still to be
  modelled (see the plan).
* Encoding, command line, configuration, paths, templates, updates and the interface
  are sequential, or input and output, and covered by the repository's unit tests.
  `src/src/lang/*.ts` are catalogues of translated messages: they hold no behaviour.
* Files without bytes, or cut short while they are posted, yield fewer articles than
  expected; the models suppose that they do not occur.
