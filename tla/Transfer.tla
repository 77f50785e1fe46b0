------------------------------ MODULE Transfer ------------------------------
(***************************************************************************)
(* The transfer phase of a posting job: its NNTP connections, each living  *)
(* in the connections thread of a poster, and the job itself, living in    *)
(* the main thread.  They talk through queued Qt signals: the main thread  *)
(* sends startConnection and killConnection to the queue of a connection,  *)
(* the connections send disconnected, posted, failed and the readers       *)
(* errorReadingFile to the event queue of the main thread.  They share     *)
(* the flags isPaused and stopPosting.  What the posters' article          *)
(* pipelines do is taken from ArticleSource, which ArticlePipeline         *)
(* implements.  The network and the server are the environment: they may   *)
(* refuse, reject, drop or time out anything, within named bounds.         *)
(***************************************************************************)
EXTENDS Naturals, Sequences, FiniteSets

CONSTANTS
    Connections,    \* PostingJob::_createNntpConnections
    PosterOf,       \* connection -> the poster whose thread it lives in
    Ssl,            \* connections to a server with useSSL
    NeedsAuth,      \* connections to a server with a user name
    UsesVpn,        \* connections that must go through the tunnel
    Files, Slices, FileOf, Unreadable,
    NbMaxTrySending,     \* NntpArticle::sNbMaxTrySending
    KMaxAuthRejectedCycles,
    TryResume,      \* NgPost::_tryResumePostWhenConnectionLost
    DelFiles,       \* PostingJob::_delFilesAfterPost
    MayStop,        \* the user may stop the job
    Prefetch,       \* bound on the articles staged for a poster
    MaxFaults,      \* bound on transport faults and refusals by the server
    MaxClicks,      \* bound on the clicks on the pause button
    MaxVpnLosses    \* bound on the interruptions of the tunnel

Posters == {PosterOf[c] : c \in Connections}

ASSUME TransferAssumption ==
    /\ FileOf \in [Slices -> Files \ Unreadable]
    /\ Unreadable \subseteq Files
    /\ IsFiniteSet(Files) /\ IsFiniteSet(Slices)
    /\ NbMaxTrySending \in Nat /\ KMaxAuthRejectedCycles \in Nat
    /\ {Prefetch, MaxFaults, MaxClicks, MaxVpnLosses} \subseteq Nat
    /\ {TryResume, DelFiles, MayStop} \subseteq BOOLEAN

VARIABLES
    \* the article pipelines, as ArticleSource describes them
    unread, staged, handed, reported, exhausted,
    \* the connections
    postingState,   \* NntpConnection::_postingState
    socket,         \* what became of _socket
    currentArticle, \* _currentArticle, at most one
    preserved,      \* _currentArticlePreserved
    nbDisconnected, authRejected, becameReady,
    inbox,          \* queued startConnection() and killConnection()
    step,           \* where its thread is inside a handler of the connection
    leaked,         \* a socket was replaced without having been released:
                    \* its signals still reach the connection
    \* what the files know of their articles
    nbTrySending,   \* article -> NntpArticle::_nbTrySending
    posted, failed, \* NntpFile::_posted and _failed
    unknown,        \* NntpFile::_unknown
    confirmed,      \* articles for which a 240 was read
    \* the job
    events,         \* the queued signals of the main thread
    nntpConnections, closedConnections,
    isPaused, pauseReason, resumeTimer,
    vpnConnected,
    authRejectedCycles,
    nbPosted, filesPosted, filesFailed, nzb, postFinished,
    phase,          \* where the main thread is in _finishPosting()
    toKill,         \* connections _finishPosting() has still to kill
    outcome, deleted,
    \* the bounds
    nbFaults, nbClicks, nbVpnLosses

sourceVars == <<unread, staged, handed, reported, exhausted>>
sessionVars == <<postingState, socket, nbDisconnected, authRejected, becameReady,
                 inbox, step, leaked>>
articleVars == <<currentArticle, preserved, nbTrySending, unknown, confirmed>>
resultVars == <<posted, failed, nbPosted, filesPosted, filesFailed, nzb, postFinished>>
pauseVars == <<isPaused, pauseReason, resumeTimer, vpnConnected>>
poolVars == <<nntpConnections, closedConnections, authRejectedCycles>>
endVars == <<phase, toKill, outcome, deleted>>
boundVars == <<nbFaults, nbClicks, nbVpnLosses>>
vars == <<sourceVars, sessionVars, articleVars, resultVars, events, pauseVars,
          poolVars, endVars, boundVars>>

PostingStates == {"NOT_CONNECTED", "CONNECTED", "AUTH", "IDLE", "SENDING_ARTICLE",
                  "WAITING_ANSWER", "NO_MORE_FILES"}
Event == [type : {"disconnected"}, con : Connections]
         \cup [type : {"posted", "failed"}, slice : Slices]
         \cup [type : {"filePosted", "errorReading"}, file : Files]
         \cup [type : {"vpnDown"}, reason : {"Vpn", "User"}]
         \cup [type : {"pauseClicked", "stop", "vpnUp", "timeout"}]

Source == INSTANCE ArticleSource

TypeOK ==
    /\ Source!TypeOK
    /\ postingState \in [Connections -> PostingStates]
    /\ socket \in [Connections -> {"none", "connecting", "encrypting", "up", "closing"}]
    /\ currentArticle \in [Connections -> SUBSET Slices]
    /\ preserved \in [Connections -> BOOLEAN]
    /\ nbDisconnected \in [Connections -> Nat]
    /\ authRejected \in [Connections -> BOOLEAN]
    /\ becameReady \in [Connections -> BOOLEAN]
    /\ inbox \in [Connections -> Seq({"start", "kill"})]
    /\ step \in [Connections -> {"ready", "fetch", "check", "lost"}]
    /\ leaked \in [Connections -> BOOLEAN]
    /\ nbTrySending \in [Slices -> Nat]
    /\ posted \subseteq Slices /\ failed \subseteq Slices
    /\ unknown \subseteq Slices /\ confirmed \subseteq Slices
    /\ events \in Seq(Event)
    /\ nntpConnections \subseteq Connections /\ closedConnections \subseteq Connections
    /\ isPaused \in BOOLEAN /\ pauseReason \in {"None", "User", "Vpn", "Backoff"}
    /\ resumeTimer \in BOOLEAN /\ vpnConnected \in BOOLEAN
    /\ authRejectedCycles \in Nat
    /\ filesPosted \subseteq Files /\ filesFailed \subseteq Files /\ nzb \subseteq Files
    /\ nbPosted \in Nat /\ postFinished \in BOOLEAN
    /\ phase \in {"posting", "unpausing", "killing", "done"}
    /\ toKill \subseteq Connections
    /\ outcome \in {"none", "success", "partial", "failed"} /\ deleted \in BOOLEAN
    /\ nbFaults \in Nat /\ nbClicks \in Nat /\ nbVpnLosses \in Nat

\* _postFiles() has started the threads, whose start signal starts every
\* connection, and the queues are open.
Init ==
    /\ Source!Init
    /\ postingState = [c \in Connections |-> "NOT_CONNECTED"]
    /\ socket = [c \in Connections |-> "none"]
    /\ currentArticle = [c \in Connections |-> {}]
    /\ preserved = [c \in Connections |-> FALSE]
    /\ nbDisconnected = [c \in Connections |-> 0]
    /\ authRejected = [c \in Connections |-> FALSE]
    /\ becameReady = [c \in Connections |-> FALSE]
    /\ inbox = [c \in Connections |-> <<"start">>]
    /\ step = [c \in Connections |-> "ready"]
    /\ leaked = [c \in Connections |-> FALSE]
    /\ nbTrySending = [s \in Slices |-> 0]
    /\ posted = {} /\ failed = {} /\ unknown = {} /\ confirmed = {}
    /\ events = <<>>
    /\ nntpConnections = Connections /\ closedConnections = {}
    /\ isPaused = FALSE /\ pauseReason = "None" /\ resumeTimer = FALSE
    /\ vpnConnected = TRUE
    /\ authRejectedCycles = 0
    /\ nbPosted = 0 /\ filesPosted = {} /\ filesFailed = {} /\ nzb = {} /\ postFinished = FALSE
    /\ phase = "posting" /\ toKill = {} /\ outcome = "none" /\ deleted = FALSE
    /\ nbFaults = 0 /\ nbClicks = 0 /\ nbVpnLosses = 0

stopPosting == phase \in {"killing", "done"}

-----------------------------------------------------------------------------
(* The connections.                                                        *)

Emit(e) == events' = Append(events, e)
Disconnected(c) == [type |-> "disconnected", con |-> c]

\* Mutant: the threads are stopped before the connections are killed.
ReadyWhilePosting(c) ==
    /\ phase = "posting"
    /\ \A d \in Connections : PosterOf[d] = PosterOf[c] => step[d] = "ready"

\* The thread of c can run a handler of c: it is alive and inside no other.
Ready(c) ==
    /\ phase # "done"
    /\ \A d \in Connections : PosterOf[d] = PosterOf[c] => step[d] = "ready"

\* Mutant: the article is recorded as unknown and let go.
PreserveAndDrop(c) ==
    /\ unknown' = unknown \cup currentArticle[c]
    /\ currentArticle' = [currentArticle EXCEPT ![c] = {}]
    /\ UNCHANGED <<preserved, nbTrySending, confirmed>>

\* _preserveCurrentArticleAfterTransportLoss(): the article stays with the
\* connection and is recorded as unknown, once for each attempt.
Preserve(c) ==
    /\ unknown' = IF preserved[c] THEN unknown ELSE unknown \cup currentArticle[c]
    /\ preserved' = [preserved EXCEPT ![c] = @ \/ currentArticle[c] # {}]
    /\ UNCHANGED <<currentArticle, nbTrySending, confirmed>>

\* onStartConnection(): nothing during a pause, a refusal when the tunnel is
\* required and down, else a new socket that starts to connect.
StartConnection(c) ==
    /\ Ready(c) /\ inbox[c] # <<>> /\ Head(inbox[c]) = "start"
    /\ inbox' = [inbox EXCEPT ![c] = Tail(@)]
    /\ \/ /\ isPaused
          /\ UNCHANGED <<socket, authRejected, leaked, events>>
       \/ /\ ~isPaused
          /\ authRejected' = [authRejected EXCEPT ![c] = FALSE]
          /\ leaked' = [leaked EXCEPT ![c] = @ \/ socket[c] # "none"]
          /\ IF c \in UsesVpn /\ ~vpnConnected
               THEN /\ socket' = [socket EXCEPT ![c] = "none"]
                    /\ Emit(Disconnected(c))
               ELSE /\ socket' = [socket EXCEPT ![c] = "connecting"]
                    /\ UNCHANGED events
    /\ UNCHANGED <<sourceVars, postingState, nbDisconnected, becameReady, step,
                   articleVars, resultVars, pauseVars, poolVars, endVars, boundVars>>

\* onKillConnection()
KillConnection(c) ==
    /\ Ready(c) /\ inbox[c] # <<>> /\ Head(inbox[c]) = "kill"
    /\ inbox' = [inbox EXCEPT ![c] = Tail(@)]
    /\ socket' = [socket EXCEPT ![c] = "none"]
    /\ Preserve(c)
    /\ UNCHANGED <<sourceVars, postingState, nbDisconnected, authRejected, becameReady,
                   step, leaked, events, resultVars, pauseVars, poolVars, endVars,
                   boundVars>>

\* onConnected(), and onEncrypted() behind it when the server uses TLS.
Connected(c) ==
    /\ Ready(c)
    /\ \/ socket[c] = "connecting" /\ c \notin Ssl
       \/ socket[c] = "encrypting"
    /\ socket' = [socket EXCEPT ![c] = "up"]
    /\ postingState' = [postingState EXCEPT ![c] = "CONNECTED"]
    /\ UNCHANGED <<sourceVars, nbDisconnected, authRejected, becameReady, inbox, step,
                   leaked, articleVars, resultVars, events, pauseVars, poolVars,
                   endVars, boundVars>>

StartEncryption(c) ==
    /\ Ready(c) /\ socket[c] = "connecting" /\ c \in Ssl
    /\ socket' = [socket EXCEPT ![c] = "encrypting"]
    /\ UNCHANGED <<sourceVars, postingState, nbDisconnected, authRejected, becameReady,
                   inbox, step, leaked, articleVars, resultVars, events, pauseVars,
                   poolVars, endVars, boundVars>>

\* The environment spends one of its faults.
Fault == nbFaults < MaxFaults /\ nbFaults' = nbFaults + 1
NoFault == UNCHANGED nbFaults

\* onErrors() or onTimeout() before the connection is up: _closeConnection()
\* releases the socket and gives the connection up at once.
ConnectFails(c) ==
    /\ Ready(c) /\ socket[c] = "connecting" /\ Fault
    /\ socket' = [socket EXCEPT ![c] = "none"]
    /\ Preserve(c)
    /\ Emit(Disconnected(c))
    /\ UNCHANGED <<sourceVars, postingState, nbDisconnected, authRejected, becameReady,
                   inbox, step, leaked, resultVars, pauseVars, poolVars, endVars,
                   nbClicks, nbVpnLosses>>

\* onDisconnected(): the connection tries again, or is given up.
WantsRetry(c) ==
    /\ ~stopPosting /\ ~isPaused
    /\ postingState[c] # "NO_MORE_FILES" /\ ~authRejected[c]

OnDisconnected(c) ==
    /\ socket' = [socket EXCEPT ![c] = "none"]
    /\ nbDisconnected' = [nbDisconnected EXCEPT ![c] = IF WantsRetry(c) THEN @ + 1 ELSE @]
    /\ IF WantsRetry(c) /\ nbDisconnected[c] < NbMaxTrySending
         THEN /\ step' = [step EXCEPT ![c] = "lost"]
              /\ UNCHANGED <<articleVars, events>>
         ELSE /\ Preserve(c)
              /\ Emit(Disconnected(c))
              /\ UNCHANGED step
    /\ UNCHANGED <<sourceVars, postingState, authRejected, becameReady, inbox, leaked,
                   resultVars, pauseVars, poolVars, endVars, nbClicks, nbVpnLosses>>

\* An established transport fails (onErrors, onTimeout), the one in use or one
\* that was replaced, or the disconnection that _closeConnection() asked for
\* comes about.
LoseTransport(c) ==
    /\ Ready(c) /\ Fault
    /\ socket[c] \in {"encrypting", "up"} \/ leaked[c]
    /\ OnDisconnected(c)

TransportClosed(c) ==
    /\ Ready(c) /\ socket[c] = "closing" /\ NoFault
    /\ OnDisconnected(c)

\* The second half of onDisconnected(): the article is preserved, which waits
\* for the history, and only then a new start is queued.
Reconnect(c) ==
    /\ phase # "done" /\ step[c] = "lost"
    /\ step' = [step EXCEPT ![c] = "ready"]
    /\ inbox' = [inbox EXCEPT ![c] = Append(@, "start")]
    /\ Preserve(c)
    /\ UNCHANGED <<sourceVars, postingState, socket, nbDisconnected, authRejected,
                   becameReady, leaked, resultVars, events, pauseVars, poolVars, endVars,
                   boundVars>>

\* Mutant: the article a connection still has is forgotten.
SendNextArticleAfresh(c, article) ==
    step' = [step EXCEPT ![c] = IF isPaused THEN "ready" ELSE "fetch"]

\* _sendNextArticle() up to the call of getNextArticle(): a connection that
\* still has an article sends it again.
SendNextArticle(c, article) ==
    step' = [step EXCEPT ![c] = IF isPaused THEN "ready"
                                ELSE IF article = {} THEN "fetch" ELSE "check"]

\* _closeConnection() of an established connection.
CloseConnection(c) == socket' = [socket EXCEPT ![c] = "closing"]

Listening(c, state) ==
    /\ Ready(c) /\ socket[c] = "up" /\ postingState[c] = state

\* _handleWelcome(): the greeting is accepted, or the connection closed.
Welcome(c) ==
    /\ Listening(c, "CONNECTED")
    /\ \/ /\ NoFault /\ c \in NeedsAuth
          /\ postingState' = [postingState EXCEPT ![c] = "AUTH"]
          /\ UNCHANGED <<socket, becameReady, step>>
       \/ /\ NoFault /\ c \notin NeedsAuth
          /\ postingState' = [postingState EXCEPT ![c] = "IDLE"]
          /\ becameReady' = [becameReady EXCEPT ![c] = TRUE]
          /\ SendNextArticle(c, currentArticle[c])
          /\ UNCHANGED socket
       \/ /\ Fault
          /\ CloseConnection(c)
          /\ UNCHANGED <<postingState, becameReady, step>>
    /\ UNCHANGED <<sourceVars, nbDisconnected, authRejected, inbox, leaked, articleVars,
                   resultVars, events, pauseVars, poolVars, endVars, nbClicks,
                   nbVpnLosses>>

\* _handleAuthUser() and _handleAuthPass()
Authenticate(c) ==
    /\ Listening(c, "AUTH")
    /\ \/ /\ NoFault
          /\ postingState' = [postingState EXCEPT ![c] = "IDLE"]
          /\ becameReady' = [becameReady EXCEPT ![c] = TRUE]
          /\ SendNextArticle(c, currentArticle[c])
          /\ UNCHANGED <<socket, authRejected>>
       \/ /\ Fault
          /\ authRejected' = [authRejected EXCEPT ![c] = TRUE]
          /\ CloseConnection(c)
          /\ UNCHANGED <<postingState, becameReady, step>>
    /\ UNCHANGED <<sourceVars, nbDisconnected, inbox, leaked, articleVars, resultVars,
                   events, pauseVars, poolVars, endVars, nbClicks, nbVpnLosses>>

\* Poster::getNextArticle(): an article of the poster, none because of a pause
\* or a stop, or none because nothing is left.
GetNextArticle(c) ==
    /\ phase # "done" /\ step[c] = "fetch"
    /\ step' = [step EXCEPT ![c] = "check"]
    /\ preserved' = [preserved EXCEPT ![c] = FALSE]
    /\ \/ /\ isPaused \/ stopPosting
          /\ UNCHANGED <<sourceVars, currentArticle>>
       \/ /\ ~isPaused /\ ~stopPosting
          /\ \E s \in staged[PosterOf[c]] :
                /\ Source!Hand(PosterOf[c], s)
                /\ currentArticle' = [currentArticle EXCEPT ![c] = {s}]
       \/ /\ ~isPaused /\ ~stopPosting
          /\ Source!Exhaust(PosterOf[c])
          /\ UNCHANGED currentArticle
    /\ UNCHANGED <<postingState, socket, nbDisconnected, authRejected, becameReady, inbox,
                   leaked, nbTrySending, unknown, confirmed, resultVars, events,
                   pauseVars, poolVars, endVars, boundVars>>

\* The rest of _sendNextArticle(): the POST command is sent, the connection is
\* closed for lack of articles, or a pause holds it where it is.
UseArticle(c) ==
    /\ phase # "done" /\ step[c] = "check"
    /\ step' = [step EXCEPT ![c] = "ready"]
    /\ exhausted' = [exhausted EXCEPT ![PosterOf[c]] = FALSE]
    /\ \/ /\ isPaused
          /\ UNCHANGED <<postingState, socket>>
       \/ /\ ~isPaused /\ currentArticle[c] # {}
          /\ postingState' = [postingState EXCEPT ![c] = "SENDING_ARTICLE"]
          /\ UNCHANGED socket
       \/ /\ ~isPaused /\ currentArticle[c] = {}
          /\ postingState' = [postingState EXCEPT ![c] = "NO_MORE_FILES"]
          /\ CloseConnection(c)
    /\ UNCHANGED <<unread, staged, handed, reported, nbDisconnected, authRejected,
                   becameReady, inbox, leaked, articleVars, resultVars, events,
                   pauseVars, poolVars, endVars, boundVars>>

\* _handlePostResponse(): 340 and the article is written, or the connection is
\* closed with the article still its own.
PostResponse(c) ==
    /\ Listening(c, "SENDING_ARTICLE")
    /\ \/ /\ NoFault
          /\ postingState' = [postingState EXCEPT ![c] = "WAITING_ANSWER"]
          /\ preserved' = [preserved EXCEPT ![c] = FALSE]
          /\ nbTrySending' = [s \in Slices |-> IF s \in currentArticle[c]
                                                 THEN nbTrySending[s] + 1
                                                 ELSE nbTrySending[s]]
          /\ UNCHANGED socket
       \/ /\ Fault
          /\ postingState' = [postingState EXCEPT ![c] = "NOT_CONNECTED"]
          /\ CloseConnection(c)
          /\ UNCHANGED <<preserved, nbTrySending>>
    /\ UNCHANGED <<sourceVars, nbDisconnected, authRejected, becameReady, inbox, step,
                   leaked, currentArticle, unknown, confirmed, resultVars, events,
                   pauseVars, poolVars, endVars, nbClicks, nbVpnLosses>>

\* _handleArticleResponse(): 240 and the article is posted.
ArticlePosted(c) ==
    /\ Listening(c, "WAITING_ANSWER")
    /\ \E s \in currentArticle[c] :
          /\ confirmed' = confirmed \cup {s}
          /\ Emit([type |-> "posted", slice |-> s])
    /\ postingState' = [postingState EXCEPT ![c] = "IDLE"]
    /\ currentArticle' = [currentArticle EXCEPT ![c] = {}]
    /\ preserved' = [preserved EXCEPT ![c] = FALSE]
    /\ SendNextArticle(c, {})
    /\ UNCHANGED <<sourceVars, socket, nbDisconnected, authRejected, becameReady, inbox,
                   leaked, nbTrySending, unknown, resultVars, pauseVars, poolVars,
                   endVars, boundVars>>

\* _handleArticleResponse(): another reply and the article is tried again, or
\* has failed once its tries are used up.
ArticleRejected(c) ==
    /\ Listening(c, "WAITING_ANSWER")
    /\ \E s \in currentArticle[c] :
          IF nbTrySending[s] < NbMaxTrySending
            THEN /\ postingState' = [postingState EXCEPT ![c] = "SENDING_ARTICLE"]
                 /\ UNCHANGED <<events, currentArticle, preserved, step>>
            ELSE /\ postingState' = [postingState EXCEPT ![c] = "IDLE"]
                 /\ Emit([type |-> "failed", slice |-> s])
                 /\ currentArticle' = [currentArticle EXCEPT ![c] = {}]
                 /\ preserved' = [preserved EXCEPT ![c] = FALSE]
                 /\ SendNextArticle(c, {})
    /\ UNCHANGED <<sourceVars, socket, nbDisconnected, authRejected, becameReady, inbox,
                   leaked, nbTrySending, unknown, confirmed, resultVars, pauseVars,
                   poolVars, endVars, boundVars>>

\* A builder, or a connection of the poster, reads one more slice.
ReadAhead(p) ==
    /\ phase # "done"
    /\ Cardinality(staged[p]) < Prefetch
    /\ \E s \in Slices : Source!Stage(p, s)
    /\ UNCHANGED <<sessionVars, articleVars, resultVars, events, pauseVars, poolVars,
                   endVars, boundVars>>

\* The reader comes to a file it cannot open.
ErrorReadingFile ==
    /\ phase # "done"
    /\ \E f \in Unreadable :
          /\ Source!Report(f)
          /\ Emit([type |-> "errorReading", file |-> f])
    /\ UNCHANGED <<sessionVars, articleVars, resultVars, pauseVars, poolVars, endVars,
                   boundVars>>

-----------------------------------------------------------------------------
(* The main thread.                                                        *)

Articles(f) == {s \in Slices : FileOf[s] = f}

\* _finishPosting() begins: _finishedAtWall is set and a pause is lifted.
\* The rest follows in StopConnections, KillForStop and Finalize.
FinishPosting ==
    /\ phase' = "unpausing"
    /\ isPaused' = FALSE /\ pauseReason' = "None"
    /\ UNCHANGED <<toKill, outcome, deleted>>

finished == phase # "posting"

\* The main thread takes the next queued signal; it is busy while it finishes.
Takes(type) ==
    /\ phase \in {"posting", "done"}
    /\ events # <<>> /\ Head(events).type = type
IdleMain == phase = "posting"

\* NntpFile::onArticlePosted(), not guarded by the end of the job; the last
\* article of a file queues the signal of the file.
OnArticlePosted ==
    /\ Takes("posted")
    /\ LET s == Head(events).slice
           f == FileOf[s]
       IN /\ posted' = posted \cup {s}
          /\ unknown' = unknown \ {s}
          /\ events' = IF Articles(f) \subseteq posted' \cup failed
                         THEN Append(Tail(events), [type |-> "filePosted", file |-> f])
                         ELSE Tail(events)
    /\ UNCHANGED <<sourceVars, sessionVars, currentArticle, preserved, nbTrySending,
                   confirmed, failed, nbPosted, filesPosted, filesFailed, nzb, postFinished,
                   pauseVars, poolVars, endVars, boundVars>>

\* NntpFile::onArticleFailed()
OnArticleFailed ==
    /\ Takes("failed")
    /\ LET s == Head(events).slice
           f == FileOf[s]
       IN /\ failed' = failed \cup {s}
          /\ unknown' = unknown \ {s}
          /\ events' = IF Articles(f) \subseteq posted \cup failed'
                         THEN Append(Tail(events), [type |-> "filePosted", file |-> f])
                         ELSE Tail(events)
    /\ UNCHANGED <<sourceVars, sessionVars, currentArticle, preserved, nbTrySending,
                   confirmed, posted, nbPosted, filesPosted, filesFailed, nzb, postFinished,
                   pauseVars, poolVars, endVars, boundVars>>

\* Mutant: the file at hand is not counted.
EndIfPastLastFile ==
    IF nbPosted = Cardinality(Files)
      THEN postFinished' = TRUE /\ FinishPosting
      ELSE UNCHANGED <<postFinished, isPaused, pauseReason, endVars>>

\* The last file ends the job.
EndIfLastFile ==
    IF nbPosted + 1 = Cardinality(Files)
      THEN postFinished' = TRUE /\ FinishPosting
      ELSE UNCHANGED <<postFinished, isPaused, pauseReason, endVars>>

\* Mutant: a file with failed articles is not left out.
NzbWithAny(f) == nzb \cup {f}

\* NntpFile::writeToNZB(), for a file without a failed article.
NzbWith(f) == IF Articles(f) \cap failed = {} THEN nzb \cup {f} ELSE nzb

\* PostingJob::onNntpFilePosted()
OnNntpFilePosted ==
    /\ Takes("filePosted")
    /\ events' = Tail(events)
    /\ IF finished
         THEN UNCHANGED <<nbPosted, filesPosted, nzb, postFinished, isPaused,
                          pauseReason, endVars>>
         ELSE LET f == Head(events).file
              IN /\ nbPosted' = nbPosted + 1
                 /\ filesPosted' = filesPosted \cup {f}
                 /\ nzb' = NzbWith(f)
                 /\ EndIfLastFile
    /\ UNCHANGED <<sourceVars, sessionVars, articleVars, posted, failed, filesFailed,
                   resumeTimer, vpnConnected, poolVars, boundVars>>

\* PostingJob::onNntpErrorReading()
OnNntpErrorReading ==
    /\ Takes("errorReading")
    /\ events' = Tail(events)
    /\ IF finished
         THEN UNCHANGED <<nbPosted, filesFailed, postFinished, isPaused, pauseReason,
                          endVars>>
         ELSE /\ nbPosted' = nbPosted + 1
              /\ filesFailed' = filesFailed \cup {Head(events).file}
              /\ EndIfLastFile
    /\ UNCHANGED <<sourceVars, sessionVars, articleVars, posted, failed, filesPosted,
                   nzb, resumeTimer, vpnConnected, poolVars, boundVars>>

\* Mutant: the latest reason replaces the one in force.
LatestPauseReason(current, incoming) == incoming

\* PostingJob::pause(): a reason merges with the one in force, a new pause
\* kills the connections of the pool.
MergedPauseReason(current, incoming) ==
    IF "User" \in {current, incoming} THEN "User"
    ELSE IF incoming = "Vpn" THEN "Vpn" ELSE current

PauseJob(reason, pool) ==
    IF isPaused
      THEN /\ pauseReason' = MergedPauseReason(pauseReason, reason)
           /\ UNCHANGED <<isPaused, inbox>>
      ELSE /\ isPaused' = TRUE /\ pauseReason' = reason
           /\ inbox' = [c \in Connections |-> IF c \in pool
                                                THEN Append(inbox[c], "kill")
                                                ELSE inbox[c]]
\* A merged reason other than the backoff stops the backoff timer.
TimerAfterPause == resumeTimer /\ (isPaused => pauseReason' = "Backoff")

\* PostingJob::resume(): the pool is restored when it is empty, and started.
ResumeJob(pool, closed) ==
    LET swap == pool = {} /\ closed # {}
    IN /\ isPaused' = FALSE /\ pauseReason' = "None"
       /\ nntpConnections' = IF swap THEN closed ELSE pool
       /\ closedConnections' = IF swap THEN pool ELSE closed
       /\ inbox' = [c \in Connections |-> IF c \in nntpConnections'
                                            THEN Append(inbox[c], "start")
                                            ELSE inbox[c]]

\* All connections are lost: did any become ready since the last time, and
\* were all of them refused for their credentials?
CyclesAfterLoss ==
    IF \A d \in closedConnections' : ~becameReady[d] /\ authRejected[d]
      THEN authRejectedCycles + 1 ELSE 0

\* Mutant: one loss is forgiven instead of all.
ForgiveOneLoss(c) == [nbDisconnected EXCEPT ![c] = @ - 1]

\* NntpConnection::resetErrorCount()
ResetErrorCount(c) == [nbDisconnected EXCEPT ![c] = 0]

\* PostingJob::onDisconnectedConnection()
OnDisconnectedConnection ==
    /\ Takes("disconnected")
    /\ LET c == Head(events).con
           last == nntpConnections = {c}
           noMoreFiles == postingState[c] = "NO_MORE_FILES"
       IN /\ events' = Tail(events)
          /\ IF stopPosting \/ c \notin nntpConnections
               THEN UNCHANGED <<nntpConnections, closedConnections, nbDisconnected>>
               ELSE /\ nntpConnections' = nntpConnections \ {c}
                    /\ closedConnections' = closedConnections \cup {c}
                    /\ nbDisconnected' = ResetErrorCount(c)
          /\ IF stopPosting \/ ~last \/ noMoreFiles
               THEN /\ IF ~stopPosting /\ last /\ nbPosted = Cardinality(Files)
                         THEN FinishPosting
                         ELSE UNCHANGED <<isPaused, pauseReason, endVars>>
                    /\ UNCHANGED <<authRejectedCycles, becameReady, inbox, resumeTimer>>
               ELSE /\ authRejectedCycles' = CyclesAfterLoss
                    /\ becameReady' = [d \in Connections |->
                                          becameReady[d] /\ d \notin closedConnections']
                    /\ IF TryResume /\ authRejectedCycles' < KMaxAuthRejectedCycles
                         THEN /\ PauseJob("Backoff", nntpConnections')
                              /\ resumeTimer' = TRUE
                              /\ UNCHANGED endVars
                         ELSE FinishPosting /\ UNCHANGED <<inbox, resumeTimer>>
    /\ UNCHANGED <<sourceVars, postingState, socket, authRejected, step, leaked,
                   articleVars, resultVars, vpnConnected, boundVars>>

\* PostingJob::onResumeTriggered(): the backoff is over.
OnResumeTriggered ==
    /\ IdleMain /\ Takes("timeout")
    /\ events' = Tail(events)
    /\ IF isPaused /\ pauseReason = "Backoff"
         THEN ResumeJob(closedConnections, nntpConnections)
         ELSE UNCHANGED <<isPaused, pauseReason, inbox, nntpConnections, closedConnections>>
    /\ UNCHANGED <<sourceVars, postingState, socket, nbDisconnected, authRejected,
                   becameReady, step, leaked, articleVars, resultVars,
                   resumeTimer, vpnConnected, authRejectedCycles, endVars, boundVars>>

\* MainWindow::onPauseClicked(): NgPost::pause(), or NgPost::resume(), which
\* keeps a job that needs the tunnel waiting for it.
vpnRequired == UsesVpn # {}
AwaitsVpn ==
    ~vpnConnected /\ (pauseReason = "Vpn" \/ (pauseReason = "User" /\ vpnRequired))

OnPauseClicked ==
    /\ IdleMain /\ Takes("pauseClicked")
    /\ events' = Tail(events)
    /\ \/ /\ ~isPaused
          /\ PauseJob("User", nntpConnections)
          /\ resumeTimer' = TimerAfterPause
          /\ UNCHANGED <<nntpConnections, closedConnections>>
       \/ /\ isPaused /\ AwaitsVpn
          /\ pauseReason' = "Vpn"
          /\ UNCHANGED <<isPaused, inbox, resumeTimer, nntpConnections, closedConnections>>
       \/ /\ isPaused /\ ~AwaitsVpn
          /\ ResumeJob(nntpConnections, closedConnections)
          /\ UNCHANGED resumeTimer
    /\ UNCHANGED <<sourceVars, postingState, socket, nbDisconnected, authRejected,
                   becameReady, step, leaked, articleVars, resultVars,
                   vpnConnected, authRejectedCycles, endVars, boundVars>>

\* The tunnel goes down, by itself (vpnInterrupted) or because the user asked
\* for it (manualDisconnectRequested): the job is paused.
VpnInterrupted ==
    /\ IdleMain /\ Takes("vpnDown")
    /\ events' = Tail(events)
    /\ vpnConnected' = FALSE
    /\ PauseJob(Head(events).reason, nntpConnections)
    /\ resumeTimer' = TimerAfterPause
    /\ UNCHANGED <<sourceVars, postingState, socket, nbDisconnected, authRejected,
                   becameReady, step, leaked, articleVars, resultVars, poolVars,
                   endVars, boundVars>>

\* The tunnel is back: resumeIfPausedFor(VpnRecovery).
VpnRecovered ==
    /\ IdleMain /\ Takes("vpnUp")
    /\ events' = Tail(events)
    /\ vpnConnected' = TRUE
    /\ IF isPaused /\ pauseReason = "Vpn"
         THEN ResumeJob(nntpConnections, closedConnections)
         ELSE UNCHANGED <<isPaused, pauseReason, inbox, nntpConnections,
                          closedConnections>>
    /\ UNCHANGED <<sourceVars, postingState, socket, nbDisconnected, authRejected,
                   becameReady, step, leaked, articleVars, resultVars,
                   resumeTimer, authRejectedCycles, endVars, boundVars>>

\* PostingJob::onStopPosting()
OnStopPosting ==
    /\ IdleMain /\ Takes("stop")
    /\ events' = Tail(events)
    /\ FinishPosting
    /\ UNCHANGED <<sourceVars, sessionVars, articleVars, resultVars, resumeTimer,
                   vpnConnected, poolVars, boundVars>>

\* What reaches the main thread from outside the job takes its turn in the
\* queue of events; a job that is over takes no notice of it.
Queued(type) == \E i \in DOMAIN events : events[i].type = type

Outside(e) ==
    /\ phase = "posting" /\ ~Queued(e.type)
    /\ Emit(e)
    /\ UNCHANGED <<sourceVars, sessionVars, articleVars, resultVars, pauseVars, poolVars,
                   endVars>>

PauseIsClicked ==
    /\ nbClicks < MaxClicks /\ nbClicks' = nbClicks + 1
    /\ Outside([type |-> "pauseClicked"])
    /\ UNCHANGED <<nbFaults, nbVpnLosses>>

StopIsAsked == MayStop /\ Outside([type |-> "stop"]) /\ UNCHANGED boundVars

TunnelGoesDown ==
    /\ vpnConnected /\ nbVpnLosses < MaxVpnLosses /\ nbVpnLosses' = nbVpnLosses + 1
    /\ \E reason \in {"Vpn", "User"} : Outside([type |-> "vpnDown", reason |-> reason])
    /\ UNCHANGED <<nbFaults, nbClicks>>

TunnelComesBack == ~vpnConnected /\ Outside([type |-> "vpnUp"]) /\ UNCHANGED boundVars

BackoffEnds == resumeTimer /\ Outside([type |-> "timeout"]) /\ UNCHANGED boundVars

Outdated ==
    /\ phase = "done" /\ events # <<>>
    /\ Head(events).type \in {"pauseClicked", "stop", "vpnDown", "vpnUp", "timeout"}
    /\ events' = Tail(events)
    /\ UNCHANGED <<sourceVars, sessionVars, articleVars, resultVars, pauseVars, poolVars,
                   endVars, boundVars>>

\* _finishPosting() goes on: _stopPosting is raised, then every connection of
\* the pool is killed in its own thread while the main thread waits.
StopConnections ==
    /\ phase = "unpausing"
    /\ phase' = "killing" /\ toKill' = nntpConnections
    /\ UNCHANGED <<sourceVars, sessionVars, articleVars, resultVars, events, pauseVars,
                   poolVars, outcome, deleted, boundVars>>

KillForStop(c) ==
    /\ phase = "killing" /\ c \in toKill
    /\ Ready(c) /\ inbox[c] = <<>>
    /\ toKill' = toKill \ {c}
    /\ socket' = [socket EXCEPT ![c] = "none"]
    /\ Preserve(c)
    /\ UNCHANGED <<sourceVars, postingState, nbDisconnected, authRejected, becameReady,
                   inbox, step, leaked, resultVars, events, pauseVars, poolVars, phase,
                   outcome, deleted, boundVars>>

\* Mutant: only the files that could not be read count as missing.
SucceededIfRead == postFinished /\ filesFailed = {}

\* hasPostFinishedSuccessfully()
Succeeded == postFinished /\ failed = {} /\ filesFailed = {}

\* The threads are stopped, the outcome is recorded and the source files are
\* deleted if the post is complete (_delOriginalFilesOfCompletePost).
Finalize ==
    /\ phase = "killing" /\ toKill = {}
    /\ \A c \in Connections : step[c] = "ready"
    /\ phase' = "done"
    /\ outcome' = IF ~postFinished THEN "failed"
                  ELSE IF Succeeded THEN "success" ELSE "partial"
    /\ deleted' = /\ DelFiles /\ Succeeded
                  /\ Files = filesPosted
    /\ UNCHANGED <<sourceVars, sessionVars, articleVars, resultVars, events, pauseVars,
                   poolVars, toKill, boundVars>>

-----------------------------------------------------------------------------
Handshake(c) ==
    \/ StartConnection(c) \/ KillConnection(c) \/ StartEncryption(c) \/ Connected(c)
    \/ Welcome(c) \/ Authenticate(c) \/ TransportClosed(c) \/ Reconnect(c)
Posting(c) ==
    \/ GetNextArticle(c) \/ UseArticle(c) \/ PostResponse(c)
    \/ ArticlePosted(c) \/ ArticleRejected(c)

MainThread ==
    \/ OnArticlePosted \/ OnArticleFailed \/ OnNntpFilePosted \/ OnNntpErrorReading
    \/ OnDisconnectedConnection \/ OnPauseClicked \/ OnResumeTriggered
    \/ VpnInterrupted \/ VpnRecovered \/ OnStopPosting \/ Outdated
    \/ StopConnections \/ Finalize
    \/ \E c \in Connections : KillForStop(c)

Next ==
    \/ \E c \in Connections : Handshake(c) \/ Posting(c) \/ ConnectFails(c)
                                \/ LoseTransport(c)
    \/ \E p \in Posters : ReadAhead(p)
    \/ ErrorReadingFile \/ MainThread
    \/ PauseIsClicked \/ StopIsAsked \/ TunnelGoesDown \/ TunnelComesBack \/ BackoffEnds

Spec == Init /\ [][Next]_vars

\* Every thread keeps running, the sources are read, and a server that takes a
\* command answers it.  Nothing obliges the user, the tunnel or a fault.
Fairness ==
    /\ \A c \in Connections : WF_vars(Handshake(c) \/ Posting(c))
    /\ \A p \in Posters : WF_vars(ReadAhead(p))
    /\ WF_vars(ErrorReadingFile) /\ WF_vars(MainThread)

FairSpec == Spec /\ Fairness

-----------------------------------------------------------------------------
(* Properties.                                                             *)

\* Who answers for an article once it has been handed over: a connection, a
\* queued signal, or its file.
Owners(s) == {c \in Connections : s \in currentArticle[c]}
Signals(s) == {i \in DOMAIN events : /\ events[i].type \in {"posted", "failed"}
                                     /\ events[i].slice = s}
Verdicts(s) == (IF s \in posted THEN 1 ELSE 0) + (IF s \in failed THEN 1 ELSE 0)

\* No article is lost or sent by two connections, whatever is dropped, killed
\* and restarted: exactly one connection, queued signal or verdict of its file
\* answers for every article handed over.
OneCustodian ==
    \A s \in handed : Cardinality(Owners(s)) + Cardinality(Signals(s)) + Verdicts(s) = 1

\* A file has an entry in the NZB only if the server confirmed each of its
\* articles with a 240 (onNntpFilePosted, writeToNZB).
NzbIsComplete == \A f \in nzb : Articles(f) \subseteq confirmed

\* A partial post never looks complete: a success is recorded, or the source
\* files deleted, only when every file was read and every article confirmed.
SuccessIsComplete ==
    outcome = "success" \/ deleted => Unreadable = {} /\ Slices \subseteq confirmed

\* "Closing the transports above classifies every in-flight article before the
\* final CLI counters are produced" (PostingJob::_finishPosting): when the job
\* is over, an article that was sent and never answered is recorded as unknown.
InFlightIsUnknown ==
    phase = "done" =>
        \A c \in Connections :
            postingState[c] = "WAITING_ANSWER" => currentArticle[c] \subseteq unknown

\* "a user-paused job is never resumed automatically" (README): only the user,
\* or the end of the job, lifts a pause the user asked for.
UserPauseHolds ==
    [][pauseReason = "User" /\ pauseReason' # "User" => OnPauseClicked \/ FinishPosting]_vars

\* A job that meets no fault and no pause ends, whatever its articles' answers:
\* the last file is counted, the job finished and its threads stopped.
JobEnds == [](nbFaults + nbClicks + nbVpnLosses = 0) => <>(phase = "done")

\* A job that starts to finish gets through it, although the main thread waits
\* for threads that may be reading, reconnecting or recording an article.
FinishEnds == finished ~> phase = "done"

\* "The last connection can close before the final file slot has written its
\* NZB entry, so let that slot finish the job" (onDisconnectedConnection): when
\* a running job has no connection left, a signal that can finish it is queued.
LastSlotIsComing ==
    phase = "posting" /\ ~isPaused /\ nntpConnections = {} =>
        \E i \in DOMAIN events : events[i].type # "disconnected"

==============================================================================
