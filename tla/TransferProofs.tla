---------------------------- MODULE TransferProofs ----------------------------
(***************************************************************************)
(* What becomes of an article and of a file, for any number of posters,    *)
(* connections, files and articles, and any number of faults, clicks and   *)
(* losses of the tunnel.  The inductive invariant TransferInv follows an   *)
(* article from the connection that holds it to the queued signal of its   *)
(* verdict and to its file, and a file from its last verdict to the count  *)
(* that ends the job.                                                      *)
(***************************************************************************)
EXTENDS Transfer, SequenceTheorems, FiniteSetTheorems, TLAPS

(* Signals in a queue. *)

\* A member of S is in queue q, and at most one is.
Holds(q, S) == \E i \in 1..Len(q) : q[i] \in S
Once(q, S) == \A i, j \in 1..Len(q) : q[i] \in S /\ q[j] \in S => i = j

\* What a queue gains at its end.
LEMMA AppendSignal ==
    ASSUME NEW T, NEW q \in Seq(T), NEW e \in T, NEW S
    PROVE  /\ Holds(Append(q, e), S) <=> Holds(q, S) \/ e \in S
           /\ Once(q, S) /\ (e \in S => ~Holds(q, S)) => Once(Append(q, e), S)
<1>1. /\ Len(q) \in Nat /\ Len(Append(q, e)) = Len(q) + 1
      /\ \A i \in 1..Len(q) : Append(q, e)[i] = q[i]
      /\ Append(q, e)[Len(q) + 1] = e
  BY LenProperties, AppendProperties
<1>2. Holds(Append(q, e), S) => Holds(q, S) \/ e \in S
  BY <1>1 DEF Holds
<1>3. Holds(q, S) => Holds(Append(q, e), S)
  BY <1>1 DEF Holds
<1>4. e \in S => Holds(Append(q, e), S)
  BY <1>1 DEF Holds
<1>5. ASSUME Once(q, S), e \in S => ~Holds(q, S), NEW i \in 1..Len(q) + 1, NEW j \in 1..Len(q) + 1,
             Append(q, e)[i] \in S, Append(q, e)[j] \in S
      PROVE  i = j
  BY <1>1, <1>5 DEF Holds, Once
<1>6. Once(q, S) /\ (e \in S => ~Holds(q, S)) => Once(Append(q, e), S)
  BY <1>1, <1>5 DEF Once
<1> QED
  BY <1>2, <1>3, <1>4, <1>6

\* What it loses at its head.
LEMMA TakeSignal ==
    ASSUME NEW T, NEW q \in Seq(T), q # <<>>, NEW S
    PROVE  /\ Holds(q, S) <=> Head(q) \in S \/ Holds(Tail(q), S)
           /\ Once(q, S) => Once(Tail(q), S)
           /\ Once(q, S) /\ Head(q) \in S => ~Holds(Tail(q), S)
<1>1. /\ Len(q) \in Nat \ {0} /\ Len(Tail(q)) = Len(q) - 1 /\ Head(q) = q[1]
      /\ \A i \in 1..Len(Tail(q)) : Tail(q)[i] = q[i + 1]
  BY LenProperties, EmptySeq, HeadTailProperties
<1>2. \A i \in 1..Len(q) : i = 1 \/ (i - 1 \in 1..Len(Tail(q)) /\ Tail(q)[i - 1] = q[i])
  BY <1>1
<1>3. Holds(q, S) => Head(q) \in S \/ Holds(Tail(q), S)
  BY <1>1, <1>2 DEF Holds
<1>4. ASSUME NEW i \in 1..Len(Tail(q))
      PROVE  i + 1 \in 1..Len(q) /\ i + 1 # 1 /\ q[i + 1] = Tail(q)[i]
  BY <1>1
<1>5. Head(q) \in S \/ Holds(Tail(q), S) => Holds(q, S)
  BY <1>1, <1>4 DEF Holds
<1>6. ASSUME Once(q, S), NEW i \in 1..Len(Tail(q)), NEW j \in 1..Len(Tail(q)),
             Tail(q)[i] \in S, Tail(q)[j] \in S
      PROVE  i = j
  <2>1. i + 1 = j + 1
    BY <1>4, <1>6 DEF Once
  <2> QED
    BY <2>1, <1>1
<1>7. Once(q, S) /\ Head(q) \in S => ~Holds(Tail(q), S)
  BY <1>1, <1>4 DEF Once, Holds
<1> QED
  BY <1>3, <1>5, <1>6, <1>7 DEF Once
-----------------------------------------------------------------------------
(* Types. *)

\* The fields of a signal are those of its type.
LEMMA EventFields ==
    ASSUME NEW e \in Event
    PROVE  /\ e.type \in {"posted", "failed"} => e.slice \in Slices /\ e = [type |-> e.type, slice |-> e.slice]
           /\ e.type \in {"filePosted", "errorReading"} =>
                e.file \in Files /\ e = [type |-> e.type, file |-> e.file]
           /\ e.type = "disconnected" => e.con \in Connections
           /\ e.type = "vpnDown" => e.reason \in {"Vpn", "User"}
BY DEF Event

\* A signal that is queued is of its type.
LEMMA EventTypes ==
    /\ \A c \in Connections : Disconnected(c) \in Event
    /\ \A s \in Slices : [type |-> "posted", slice |-> s] \in Event
                         /\ [type |-> "failed", slice |-> s] \in Event
    /\ \A f \in Files : [type |-> "filePosted", file |-> f] \in Event
                        /\ [type |-> "errorReading", file |-> f] \in Event
    /\ \A r \in {"Vpn", "User"} : [type |-> "vpnDown", reason |-> r] \in Event
    /\ [type |-> "pauseClicked"] \in Event /\ [type |-> "stop"] \in Event
    /\ [type |-> "vpnUp"] \in Event /\ [type |-> "timeout"] \in Event
BY DEF Event, Disconnected

\* The parts of the type invariant that steps change together.
SessionType ==
    /\ postingState \in [Connections -> PostingStates]
    /\ socket \in [Connections -> {"none", "connecting", "encrypting", "up", "closing"}]
    /\ nbDisconnected \in [Connections -> Nat]
    /\ authRejected \in [Connections -> BOOLEAN]
    /\ becameReady \in [Connections -> BOOLEAN]
    /\ inbox \in [Connections -> Seq({"start", "kill"})]
    /\ step \in [Connections -> {"ready", "fetch", "check", "lost"}]
    /\ leaked \in [Connections -> BOOLEAN]

ArticleType ==
    /\ currentArticle \in [Connections -> SUBSET Slices]
    /\ preserved \in [Connections -> BOOLEAN]
    /\ nbTrySending \in [Slices -> Nat]
    /\ unknown \subseteq Slices /\ confirmed \subseteq Slices

ResultType ==
    /\ posted \subseteq Slices /\ failed \subseteq Slices
    /\ filesPosted \subseteq Files /\ filesFailed \subseteq Files /\ nzb \subseteq Files
    /\ nbPosted \in Nat /\ postFinished \in BOOLEAN

PauseType ==
    /\ isPaused \in BOOLEAN /\ pauseReason \in {"None", "User", "Vpn", "Backoff"}
    /\ resumeTimer \in BOOLEAN /\ vpnConnected \in BOOLEAN

PoolType ==
    /\ nntpConnections \subseteq Connections /\ closedConnections \subseteq Connections
    /\ authRejectedCycles \in Nat

EndType ==
    /\ phase \in {"posting", "unpausing", "killing", "done"}
    /\ toKill \subseteq Connections
    /\ outcome \in {"none", "success", "partial", "failed"} /\ deleted \in BOOLEAN

BoundType == nbFaults \in Nat /\ nbClicks \in Nat /\ nbVpnLosses \in Nat

TypesHold ==
    /\ Source!TypeOK /\ SessionType /\ ArticleType /\ ResultType
    /\ events \in Seq(Event) /\ PauseType /\ PoolType /\ EndType /\ BoundType

LEMMA TypeParts == (TypeOK <=> TypesHold) /\ (TypeOK' <=> TypesHold')
BY DEF TypesHold, TypeOK, SessionType, ArticleType, ResultType, PauseType, PoolType, EndType, BoundType

LEMMA TypeInit == Init => TypeOK
<1> SUFFICES ASSUME Init PROVE TypeOK
  OBVIOUS
<1>1. <<"start">> \in Seq({"start", "kill"}) /\ <<>> \in Seq(Event)
  BY EmptySeq
<1>2. Source!TypeOK
  BY DEF Init, Source!Init, Source!TypeOK
<1>3. SessionType
  BY <1>1 DEF Init, SessionType, PostingStates
<1>4. ArticleType /\ ResultType /\ PauseType
  BY DEF Init, ArticleType, ResultType, PauseType
<1>5. PoolType /\ EndType /\ BoundType /\ events \in Seq(Event)
  BY <1>1 DEF Init, PoolType, EndType, BoundType
<1> QED
  BY <1>2, <1>3, <1>4, <1>5, TypeParts DEF TypesHold

LEMMA KeptTypes ==
    /\ Source!TypeOK /\ UNCHANGED sourceVars => Source!TypeOK'
    /\ SessionType /\ UNCHANGED sessionVars => SessionType'
    /\ ArticleType /\ UNCHANGED articleVars => ArticleType'
    /\ ResultType /\ UNCHANGED resultVars => ResultType'
    /\ PauseType /\ UNCHANGED pauseVars => PauseType'
    /\ PoolType /\ UNCHANGED poolVars => PoolType'
    /\ EndType /\ UNCHANGED endVars => EndType'
    /\ BoundType /\ UNCHANGED boundVars => BoundType'
<1>1. Source!TypeOK /\ UNCHANGED sourceVars => Source!TypeOK'
  BY DEF Source!TypeOK, sourceVars
<1>2. SessionType /\ UNCHANGED sessionVars => SessionType'
  BY DEF SessionType, sessionVars
<1>3. ArticleType /\ UNCHANGED articleVars => ArticleType'
  BY DEF ArticleType, articleVars
<1>4. ResultType /\ UNCHANGED resultVars => ResultType'
  BY DEF ResultType, resultVars
<1>5. PauseType /\ UNCHANGED pauseVars => PauseType'
  BY DEF PauseType, pauseVars
<1>6. PoolType /\ UNCHANGED poolVars => PoolType'
  BY DEF PoolType, poolVars
<1>7. EndType /\ UNCHANGED endVars => EndType'
  BY DEF EndType, endVars
<1>8. BoundType /\ UNCHANGED boundVars => BoundType'
  BY DEF BoundType, boundVars
<1> QED
  BY <1>1, <1>2, <1>3, <1>4, <1>5, <1>6, <1>7, <1>8

\* The queue of the main thread grows by one signal or loses its first.
LEMMA EventsType ==
    ASSUME events \in Seq(Event)
    PROVE  /\ \A e \in Event : Emit(e) => events' \in Seq(Event)
           /\ events # <<>> => Head(events) \in Event /\ Tail(events) \in Seq(Event)
BY AppendProperties, HeadTailProperties DEF Emit

LEMMA PreserveType == ASSUME ArticleType, NEW c \in Connections, Preserve(c) PROVE ArticleType'
BY DEF Preserve, ArticleType

\* The types that a handler of connection c leaves alone.
LEMMA HandshakeType ==
    ASSUME TypeOK, NEW c \in Connections,
           Handshake(c) \/ ConnectFails(c) \/ LoseTransport(c)
    PROVE  TypeOK'
<1>0. /\ Source!TypeOK /\ SessionType /\ ArticleType /\ ResultType
      /\ events \in Seq(Event) /\ PauseType /\ PoolType /\ EndType /\ BoundType
  BY TypeParts DEF TypesHold
<1>1. /\ UNCHANGED sourceVars /\ UNCHANGED resultVars /\ UNCHANGED pauseVars
      /\ UNCHANGED poolVars /\ UNCHANGED endVars
  BY DEF Handshake, ConnectFails, LoseTransport, StartConnection, KillConnection, StartEncryption,
     Connected, Welcome, TransportClosed, Reconnect, OnDisconnected, Authenticate
<1>2. events' \in Seq(Event)
  BY <1>0, EventTypes, EventsType DEF Handshake, ConnectFails, LoseTransport, StartConnection,
     KillConnection, StartEncryption, Connected, Welcome, TransportClosed, Reconnect,
     OnDisconnected, Authenticate
<1>3. ArticleType'
  BY <1>0, PreserveType, KeptTypes DEF Handshake, ConnectFails, LoseTransport, StartConnection,
     KillConnection, StartEncryption, Connected, Welcome, TransportClosed, Reconnect,
     OnDisconnected, Authenticate
<1>4. BoundType'
  BY <1>0 DEF BoundType, boundVars, Fault, NoFault, Handshake, ConnectFails, LoseTransport,
     StartConnection, KillConnection, StartEncryption, Connected, Welcome, TransportClosed,
     Reconnect, OnDisconnected, Authenticate
<1>5. SessionType'
  <2> USE <1>0 DEF SessionType
  <2>1. CASE StartConnection(c)
    BY <2>1, HeadTailProperties, ZenonT(90) DEF StartConnection
  <2>2. CASE KillConnection(c)
    BY <2>2, HeadTailProperties DEF KillConnection
  <2>3. CASE StartEncryption(c) \/ Connected(c)
    BY <2>3 DEF StartEncryption, Connected, PostingStates
  <2>4. CASE Welcome(c) \/ Authenticate(c)
    BY <2>4 DEF Welcome, Authenticate, CloseConnection, SendNextArticle, PostingStates
  <2>5. CASE Reconnect(c)
    BY <2>5, AppendProperties DEF Reconnect
  <2>6. CASE ConnectFails(c)
    BY <2>6 DEF ConnectFails
  <2>7. CASE OnDisconnected(c)
    <3>1. socket' \in [Connections -> {"none", "connecting", "encrypting", "up", "closing"}]
      BY <2>7 DEF OnDisconnected
    <3>2. nbDisconnected' \in [Connections -> Nat]
      BY <2>7 DEF OnDisconnected
    <3>3. step' \in [Connections -> {"ready", "fetch", "check", "lost"}]
      BY <2>7 DEF OnDisconnected
    <3>4. UNCHANGED <<postingState, authRejected, becameReady, inbox, leaked>>
      BY <2>7 DEF OnDisconnected
    <3> QED
      BY <3>1, <3>2, <3>3, <3>4
  <2> QED
    BY <2>1, <2>2, <2>3, <2>4, <2>5, <2>6, <2>7 DEF Handshake, LoseTransport, TransportClosed
<1> QED
  BY <1>0, <1>1, <1>2, <1>3, <1>4, <1>5, KeptTypes, TypeParts DEF TypesHold

LEMMA PostingType ==
    ASSUME TypeOK, NEW c \in Connections, Posting(c)
    PROVE  TypeOK'
<1>0. /\ Source!TypeOK /\ SessionType /\ ArticleType /\ ResultType
      /\ events \in Seq(Event) /\ PauseType /\ PoolType /\ EndType /\ BoundType
  BY TypeParts DEF TypesHold
<1>1. UNCHANGED resultVars /\ UNCHANGED pauseVars /\ UNCHANGED poolVars /\ UNCHANGED endVars
  BY DEF Posting, GetNextArticle, UseArticle, PostResponse, ArticlePosted, ArticleRejected
<1>2. BoundType'
  BY <1>0 DEF BoundType, boundVars, Fault, NoFault, Posting, GetNextArticle, UseArticle,
     PostResponse, ArticlePosted, ArticleRejected
<1>3. events' \in Seq(Event)
  <2>1. \A s \in currentArticle[c] : s \in Slices
    BY <1>0 DEF ArticleType
  <2> QED
    BY <1>0, <2>1, EventTypes, EventsType DEF Posting, GetNextArticle, UseArticle, PostResponse,
       ArticlePosted, ArticleRejected
<1>4. Source!TypeOK'
  BY <1>0, ZenonT(90) DEF Posting, GetNextArticle, UseArticle, PostResponse, ArticlePosted, ArticleRejected,
     Source!Hand, Source!Exhaust, Source!TypeOK, sourceVars, Posters
<1>5. SessionType'
  BY <1>0 DEF Posting, GetNextArticle, UseArticle, PostResponse, ArticlePosted, ArticleRejected,
     SessionType, SendNextArticle, CloseConnection, PostingStates
<1>6. ArticleType'
  <2> USE <1>0 DEF ArticleType
  <2>1. CASE GetNextArticle(c)
    <3>1. \A s \in staged[PosterOf[c]] : s \in Slices
      BY DEF Source!TypeOK, Posters
    <3>2. currentArticle' \in [Connections -> SUBSET Slices]
      BY <2>1, <3>1 DEF GetNextArticle
    <3> QED
      BY <2>1, <3>2 DEF GetNextArticle
  <2>2. CASE UseArticle(c)
    BY <2>2 DEF UseArticle, articleVars
  <2>3. CASE PostResponse(c)
    <3>1. preserved' = [preserved EXCEPT ![c] = FALSE] \/ preserved' = preserved
      BY <2>3 DEF PostResponse
    <3>2. \/ nbTrySending' = nbTrySending
          \/ nbTrySending' = [s \in Slices |-> IF s \in currentArticle[c]
                                                 THEN nbTrySending[s] + 1 ELSE nbTrySending[s]]
      BY <2>3 DEF PostResponse
    <3>3. nbTrySending' \in [Slices -> Nat]
      BY <3>2
    <3> QED
      BY <2>3, <3>1, <3>3 DEF PostResponse
  <2>4. CASE ArticlePosted(c) \/ ArticleRejected(c)
    BY <2>4 DEF ArticlePosted, ArticleRejected
  <2> QED
    BY <2>1, <2>2, <2>3, <2>4 DEF Posting
<1> QED
  BY <1>0, <1>1, <1>2, <1>3, <1>4, <1>5, <1>6, KeptTypes, TypeParts DEF TypesHold

\* The readers and what comes from outside.
LEMMA OutsideType ==
    ASSUME TypeOK,
           \/ \E p \in Posters : ReadAhead(p)
           \/ ErrorReadingFile \/ PauseIsClicked \/ StopIsAsked \/ TunnelGoesDown
           \/ TunnelComesBack \/ BackoffEnds
    PROVE  TypeOK'
<1>0. /\ Source!TypeOK /\ SessionType /\ ArticleType /\ ResultType
      /\ events \in Seq(Event) /\ PauseType /\ PoolType /\ EndType /\ BoundType
  BY TypeParts DEF TypesHold
<1>1. CASE \E p \in Posters : ReadAhead(p)
  <2>1. Source!TypeOK'
    BY <1>0, <1>1 DEF ReadAhead, Source!Stage, Source!TypeOK
  <2> QED
    BY <1>0, <1>1, <2>1, KeptTypes, TypeParts DEF ReadAhead, TypesHold
<1>2. CASE ErrorReadingFile
  <2>1. PICK f \in Unreadable : Source!Report(f) /\ Emit([type |-> "errorReading", file |-> f])
    BY <1>2 DEF ErrorReadingFile
  <2>2. Source!TypeOK' /\ f \in Files
    BY <1>0, <2>1, TransferAssumption DEF Source!Report, Source!TypeOK
  <2>3. events' \in Seq(Event)
    BY <1>0, <2>1, <2>2, EventTypes, EventsType
  <2> QED
    BY <1>0, <1>2, <2>2, <2>3, KeptTypes, TypeParts DEF ErrorReadingFile, TypesHold
<1>3. CASE PauseIsClicked \/ StopIsAsked \/ TunnelGoesDown \/ TunnelComesBack \/ BackoffEnds
  <2>1. PICK e \in Event : Outside(e)
    BY <1>3, EventTypes DEF PauseIsClicked, StopIsAsked, TunnelGoesDown, TunnelComesBack, BackoffEnds
  <2>2. events' \in Seq(Event)
    BY <1>0, <2>1, EventsType DEF Outside
  <2>3. BoundType'
    BY <1>0, <1>3 DEF BoundType, boundVars, PauseIsClicked, StopIsAsked, TunnelGoesDown,
       TunnelComesBack, BackoffEnds
  <2> QED
    BY <1>0, <2>1, <2>2, <2>3, KeptTypes, TypeParts DEF Outside, TypesHold
<1> QED
  BY <1>1, <1>2, <1>3

\* What the main thread does with the signals of the files.
LEMMA SignalType ==
    ASSUME TypeOK,
           OnArticlePosted \/ OnArticleFailed \/ OnNntpFilePosted \/ OnNntpErrorReading \/ Outdated
    PROVE  TypeOK'
<1>0. /\ Source!TypeOK /\ SessionType /\ ArticleType /\ ResultType
      /\ events \in Seq(Event) /\ PauseType /\ PoolType /\ EndType /\ BoundType
  BY TypeParts DEF TypesHold
<1>1. Tail(events) \in Seq(Event) /\ Head(events) \in Event
  BY <1>0, EventsType DEF OnArticlePosted, OnArticleFailed, OnNntpFilePosted, OnNntpErrorReading,
     Outdated, Takes
<1>2. /\ UNCHANGED sourceVars /\ UNCHANGED sessionVars /\ UNCHANGED poolVars
      /\ UNCHANGED boundVars
  BY DEF OnArticlePosted, OnArticleFailed, OnNntpFilePosted, OnNntpErrorReading, Outdated
<1>3. events' \in Seq(Event) /\ ResultType' /\ ArticleType'
  <2>1. CASE OnArticlePosted \/ OnArticleFailed
    <3>1. Head(events).slice \in Slices
      BY <1>1, <2>1, EventFields DEF OnArticlePosted, OnArticleFailed, Takes
    <3>2. [type |-> "filePosted", file |-> FileOf[Head(events).slice]] \in Event
      BY <3>1, EventTypes, TransferAssumption
    <3>3. events' \in Seq(Event)
      BY <1>1, <2>1, <3>2, AppendProperties DEF OnArticlePosted, OnArticleFailed
    <3>4. ResultType' /\ ArticleType'
      BY <1>0, <2>1, <3>1 DEF OnArticlePosted, OnArticleFailed, ResultType, ArticleType
    <3> QED
      BY <3>3, <3>4
  <2>2. CASE OnNntpFilePosted \/ OnNntpErrorReading
    <3>1. Head(events).file \in Files
      BY <1>1, <2>2, EventFields DEF OnNntpFilePosted, OnNntpErrorReading, Takes
    <3>2. events' \in Seq(Event) /\ ArticleType'
      BY <1>0, <1>1, <2>2, KeptTypes DEF OnNntpFilePosted, OnNntpErrorReading
    <3>3. nbPosted' \in {nbPosted, nbPosted + 1} /\ (postFinished' = TRUE \/ postFinished' = postFinished)
      BY <2>2 DEF OnNntpFilePosted, OnNntpErrorReading, EndIfLastFile
    <3>4. /\ UNCHANGED <<posted, failed>> /\ filesPosted' \subseteq Files
          /\ filesFailed' \subseteq Files /\ nzb' \subseteq Files
      BY <1>0, <2>2, <3>1 DEF OnNntpFilePosted, OnNntpErrorReading, ResultType, NzbWith
    <3>5. nbPosted' \in Nat
      BY <1>0, <3>3 DEF ResultType
    <3>6. postFinished' \in BOOLEAN
      BY <1>0, <3>3 DEF ResultType
    <3> QED
      BY <1>0, <3>2, <3>4, <3>5, <3>6 DEF ResultType
  <2>3. CASE Outdated
    BY <1>0, <1>1, <2>3, KeptTypes DEF Outdated
  <2> QED
    BY <2>1, <2>2, <2>3
<1>4. PauseType' /\ EndType'
  <2>1. CASE OnArticlePosted \/ OnArticleFailed \/ Outdated
    BY <1>0, <2>1, KeptTypes DEF OnArticlePosted, OnArticleFailed, Outdated
  <2>2. CASE OnNntpFilePosted \/ OnNntpErrorReading
    BY <1>0, <2>2, ZenonT(90) DEF OnNntpFilePosted, OnNntpErrorReading, EndIfLastFile, FinishPosting,
       PauseType, EndType, endVars
  <2> QED
    BY <2>1, <2>2
<1> QED
  BY <1>0, <1>2, <1>3, <1>4, KeptTypes, TypeParts DEF TypesHold

\* A queue of a connection grows by one slot call.
LEMMA InboxType ==
    ASSUME inbox \in [Connections -> Seq({"start", "kill"})], NEW call \in {"start", "kill"},
           NEW pool, inbox' = [c \in Connections |-> IF c \in pool THEN Append(inbox[c], call)
                                                                  ELSE inbox[c]]
    PROVE  inbox' \in [Connections -> Seq({"start", "kill"})]
<1>1. \A c \in Connections : Append(inbox[c], call) \in Seq({"start", "kill"})
  BY AppendProperties
<1> QED
  BY <1>1

LEMMA PauseResumeType ==
    ASSUME TypeOK
    PROVE  /\ \A reason \in {"User", "Vpn", "Backoff"} : \A pool : PauseJob(reason, pool) =>
                /\ inbox' \in [Connections -> Seq({"start", "kill"})]
                /\ isPaused' \in BOOLEAN /\ pauseReason' \in {"None", "User", "Vpn", "Backoff"}
           /\ \A pool, closed \in SUBSET Connections : ResumeJob(pool, closed) =>
                /\ inbox' \in [Connections -> Seq({"start", "kill"})]
                /\ isPaused' \in BOOLEAN /\ pauseReason' \in {"None", "User", "Vpn", "Backoff"}
                /\ nntpConnections' \subseteq Connections /\ closedConnections' \subseteq Connections
<1>0. SessionType /\ PauseType /\ inbox \in [Connections -> Seq({"start", "kill"})]
  BY TypeParts DEF TypesHold, SessionType
<1>1. ASSUME NEW reason \in {"User", "Vpn", "Backoff"}, NEW pool, PauseJob(reason, pool)
      PROVE  /\ inbox' \in [Connections -> Seq({"start", "kill"})]
             /\ isPaused' \in BOOLEAN /\ pauseReason' \in {"None", "User", "Vpn", "Backoff"}
  <2>1. CASE isPaused
    BY <1>0, <1>1, <2>1 DEF PauseJob, MergedPauseReason, PauseType
  <2>2. CASE ~isPaused
    <3>1. inbox' = [c \in Connections |-> IF c \in pool THEN Append(inbox[c], "kill") ELSE inbox[c]]
      BY <1>1, <2>2 DEF PauseJob
    <3>2. inbox' \in [Connections -> Seq({"start", "kill"})]
      BY <1>0, <3>1, InboxType
    <3> QED
      BY <1>1, <2>2, <3>2 DEF PauseJob
  <2> QED
    BY <2>1, <2>2
<1>2. ASSUME NEW pool \in SUBSET Connections, NEW closed \in SUBSET Connections,
             ResumeJob(pool, closed)
      PROVE  /\ inbox' \in [Connections -> Seq({"start", "kill"})]
             /\ isPaused' \in BOOLEAN /\ pauseReason' \in {"None", "User", "Vpn", "Backoff"}
             /\ nntpConnections' \subseteq Connections /\ closedConnections' \subseteq Connections
  <2>1. inbox' = [c \in Connections |-> IF c \in nntpConnections' THEN Append(inbox[c], "start")
                                                                  ELSE inbox[c]]
    BY <1>2 DEF ResumeJob
  <2>2. inbox' \in [Connections -> Seq({"start", "kill"})]
    BY <1>0, <2>1, InboxType
  <2> QED
    BY <1>2, <2>2 DEF ResumeJob
<1> QED
  BY <1>1, <1>2

\* What it does when a connection, a pause or the tunnel changes.
LEMMA PauseStepType ==
    ASSUME TypeOK, OnPauseClicked \/ OnResumeTriggered \/ VpnInterrupted \/ VpnRecovered
    PROVE  TypeOK'
<1>0. /\ Source!TypeOK /\ SessionType /\ ArticleType /\ ResultType
      /\ events \in Seq(Event) /\ PauseType /\ PoolType /\ EndType /\ BoundType
  BY TypeParts DEF TypesHold
<1>1. Head(events) \in Event /\ events' \in Seq(Event)
  BY <1>0, EventsType DEF OnPauseClicked, OnResumeTriggered, VpnInterrupted, VpnRecovered, Takes
<1>2. /\ UNCHANGED sourceVars /\ UNCHANGED articleVars /\ UNCHANGED resultVars /\ UNCHANGED endVars
      /\ UNCHANGED boundVars
      /\ UNCHANGED <<postingState, socket, nbDisconnected, authRejected, becameReady, step, leaked,
                     authRejectedCycles>>
  BY DEF OnPauseClicked, OnResumeTriggered, VpnInterrupted, VpnRecovered, poolVars
<1>3. /\ inbox' \in [Connections -> Seq({"start", "kill"})]
      /\ isPaused' \in BOOLEAN /\ pauseReason' \in {"None", "User", "Vpn", "Backoff"}
      /\ nntpConnections' \subseteq Connections /\ closedConnections' \subseteq Connections
  <2>0. nntpConnections \in SUBSET Connections /\ closedConnections \in SUBSET Connections
    BY <1>0 DEF PoolType
  <2>1. CASE OnPauseClicked
    <3>1. CASE PauseJob("User", nntpConnections) /\ UNCHANGED <<nntpConnections, closedConnections>>
      BY <2>0, <3>1, PauseResumeType
    <3>2. CASE pauseReason' = "Vpn" /\ UNCHANGED <<isPaused, inbox, nntpConnections, closedConnections>>
      BY <1>0, <2>0, <3>2 DEF PauseType, SessionType
    <3>3. CASE ResumeJob(nntpConnections, closedConnections)
      BY <2>0, <3>3, PauseResumeType
    <3> QED
      BY <2>1, <3>1, <3>2, <3>3 DEF OnPauseClicked
  <2>2. CASE OnResumeTriggered
    BY <1>0, <2>0, <2>2, PauseResumeType DEF OnResumeTriggered, PauseType, SessionType
  <2>3. CASE VpnInterrupted
    <3>1. Head(events).reason \in {"User", "Vpn", "Backoff"}
      BY <1>1, <2>3, EventFields DEF VpnInterrupted, Takes
    <3>2. PauseJob(Head(events).reason, nntpConnections) /\ UNCHANGED poolVars
      BY <2>3 DEF VpnInterrupted
    <3> QED
      BY <2>0, <3>1, <3>2, PauseResumeType DEF poolVars
  <2>4. CASE VpnRecovered
    BY <1>0, <2>0, <2>4, PauseResumeType DEF VpnRecovered, PauseType, SessionType
  <2> QED
    BY <2>1, <2>2, <2>3, <2>4
<1>4. resumeTimer' \in BOOLEAN /\ vpnConnected' \in BOOLEAN
  BY <1>0 DEF OnPauseClicked, OnResumeTriggered, VpnInterrupted, VpnRecovered, PauseType,
     TimerAfterPause
<1>5. SessionType' /\ PauseType' /\ PoolType'
  BY <1>0, <1>2, <1>3, <1>4 DEF SessionType, PauseType, PoolType
<1> QED
  BY <1>0, <1>1, <1>2, <1>5, KeptTypes, TypeParts DEF TypesHold

LEMMA DisconnectedType ==
    ASSUME TypeOK, OnDisconnectedConnection
    PROVE  TypeOK'
<1>0. /\ Source!TypeOK /\ SessionType /\ ArticleType /\ ResultType
      /\ events \in Seq(Event) /\ PauseType /\ PoolType /\ EndType /\ BoundType
  BY TypeParts DEF TypesHold
<1> DEFINE c == Head(events).con
<1>1. Head(events) \in Event /\ c \in Connections /\ events' \in Seq(Event)
  BY <1>0, EventsType, EventFields DEF OnDisconnectedConnection, Takes
<1>2. /\ UNCHANGED sourceVars /\ UNCHANGED articleVars /\ UNCHANGED resultVars
      /\ UNCHANGED boundVars
      /\ UNCHANGED <<postingState, socket, authRejected, step, leaked, vpnConnected>>
  BY DEF OnDisconnectedConnection
<1>3. nbDisconnected' = nbDisconnected \/ nbDisconnected' = [nbDisconnected EXCEPT ![c] = 0]
  BY DEF OnDisconnectedConnection, ResetErrorCount
<1>4. nntpConnections' \subseteq Connections /\ closedConnections' \subseteq Connections
  BY <1>0, <1>1 DEF OnDisconnectedConnection, PoolType
<1>5. \/ UNCHANGED <<authRejectedCycles, becameReady>>
      \/ /\ authRejectedCycles' = CyclesAfterLoss
         /\ becameReady' = [d \in Connections |-> becameReady[d] /\ d \notin closedConnections']
  BY DEF OnDisconnectedConnection
<1>6. authRejectedCycles' \in Nat /\ becameReady' \in [Connections -> BOOLEAN]
  <2>1. CyclesAfterLoss \in Nat
    BY <1>0 DEF CyclesAfterLoss, PoolType
  <2>2. [d \in Connections |-> becameReady[d] /\ d \notin closedConnections'] \in [Connections -> BOOLEAN]
    OBVIOUS
  <2>3. becameReady \in [Connections -> BOOLEAN] /\ authRejectedCycles \in Nat
    BY <1>0 DEF SessionType, PoolType
  <2> QED
    BY <1>5, <2>1, <2>2, <2>3
<1>7. \/ UNCHANGED <<isPaused, pauseReason, endVars, inbox, resumeTimer>>
      \/ FinishPosting /\ UNCHANGED <<inbox, resumeTimer>>
      \/ PauseJob("Backoff", nntpConnections') /\ resumeTimer' = TRUE /\ UNCHANGED endVars
  BY DEF OnDisconnectedConnection
<1>8. inbox' \in [Connections -> Seq({"start", "kill"})] /\ PauseType' /\ EndType'
  <2>1. CASE UNCHANGED <<isPaused, pauseReason, endVars, inbox, resumeTimer>>
    BY <1>0, <1>2, <2>1, KeptTypes DEF SessionType, PauseType, pauseVars
  <2>2. CASE FinishPosting /\ UNCHANGED <<inbox, resumeTimer>>
    BY <1>0, <1>2, <2>2 DEF FinishPosting, SessionType, PauseType, EndType
  <2>3. CASE PauseJob("Backoff", nntpConnections') /\ resumeTimer' = TRUE /\ UNCHANGED endVars
    BY <1>0, <1>2, <2>3, KeptTypes, PauseResumeType DEF PauseType
  <2> QED
    BY <1>7, <2>1, <2>2, <2>3
<1>9. SessionType' /\ PoolType'
  <2>1. nbDisconnected' \in [Connections -> Nat]
    <3>1. nbDisconnected \in [Connections -> Nat]
      BY <1>0 DEF SessionType
    <3> QED
      BY <1>3, <3>1
  <2> QED
    BY <1>0, <1>2, <1>4, <1>6, <1>8, <2>1 DEF SessionType, PoolType
<1> QED
  BY <1>0, <1>1, <1>2, <1>8, <1>9, KeptTypes, TypeParts DEF TypesHold

\* The end of the job.
LEMMA EndingType ==
    ASSUME TypeOK, OnStopPosting \/ StopConnections \/ Finalize
                   \/ \E c \in Connections : KillForStop(c)
    PROVE  TypeOK'
<1>0. /\ Source!TypeOK /\ SessionType /\ ArticleType /\ ResultType
      /\ events \in Seq(Event) /\ PauseType /\ PoolType /\ EndType /\ BoundType
  BY TypeParts DEF TypesHold
<1>1. CASE OnStopPosting
  <2>1. events' \in Seq(Event)
    BY <1>0, <1>1, EventsType DEF OnStopPosting, Takes
  <2>2. PauseType' /\ EndType'
    BY <1>0, <1>1 DEF OnStopPosting, FinishPosting, PauseType, EndType
  <2> QED
    BY <1>0, <1>1, <2>1, <2>2, KeptTypes, TypeParts DEF OnStopPosting, TypesHold
<1>2. CASE StopConnections \/ Finalize
  <2>1. EndType'
    BY <1>0, <1>2 DEF StopConnections, Finalize, EndType, PoolType, Succeeded
  <2> QED
    BY <1>0, <1>2, <2>1, KeptTypes, TypeParts DEF StopConnections, Finalize, TypesHold
<1>3. ASSUME NEW c \in Connections, KillForStop(c) PROVE TypeOK'
  <2>1. EndType' /\ SessionType'
    BY <1>0, <1>3 DEF KillForStop, EndType, SessionType
  <2>2. ArticleType'
    BY <1>0, <1>3, PreserveType DEF KillForStop
  <2> QED
    BY <1>0, <1>3, <2>1, <2>2, KeptTypes, TypeParts DEF KillForStop, TypesHold
<1> QED
  BY <1>1, <1>2, <1>3

LEMMA TypeStep == TypeOK /\ [Next]_vars => TypeOK'
<1> SUFFICES ASSUME TypeOK, [Next]_vars PROVE TypeOK'
  OBVIOUS
<1>1. CASE UNCHANGED vars
  BY <1>1, KeptTypes, TypeParts DEF vars, TypesHold
<1> QED
  BY <1>1, HandshakeType, PostingType, OutsideType, SignalType, PauseStepType, DisconnectedType,
     EndingType DEF Next, MainThread

\* Every reachable state of a transfer is of its type: whatever the handlers of
\* the connections and of the job do to their queues, they leave in them only
\* calls and signals the other side knows.
THEOREM TypeCorrect == Spec => []TypeOK
<1> QED
  BY TypeInit, TypeStep, PTL DEF Spec
-----------------------------------------------------------------------------
(* The inductive invariant. *)

VerdictSignals(s) == [type : {"posted", "failed"}, slice : {s}]
PostedSignals(s) == [type : {"posted"}, slice : {s}]
FileSignals(f) == [type : {"filePosted"}, file : {f}]
ErrorSignals(f) == [type : {"errorReading"}, file : {f}]

Held(s) == \E c \in Connections : s \in currentArticle[c]
Judged(s) == s \in posted \cup failed

\* A connection has one article at most, which no other connection has.
OneHolder ==
    /\ \A c \in Connections : \A s, t \in currentArticle[c] : s = t
    /\ \A c, d \in Connections : \A s \in currentArticle[c] : s \in currentArticle[d] => c = d
    /\ \A c \in Connections : step[c] = "fetch" => currentArticle[c] = {}

\* An article that is handed over is held, or its verdict is queued, or given,
\* and never two of these.
Lineage ==
    /\ posted \cap failed = {}
    /\ \A s \in Slices :
         /\ Once(events, VerdictSignals(s))
         /\ Held(s) => ~Holds(events, VerdictSignals(s)) /\ ~Judged(s)
         /\ Holds(events, VerdictSignals(s)) => ~Judged(s)
         /\ s \in handed <=> Held(s) \/ Holds(events, VerdictSignals(s)) \/ Judged(s)

\* An article that is not handed over yet is in one place.
SourceInv ==
    /\ unread \cap handed = {}
    /\ \A p \in Posters : staged[p] \cap (unread \cup handed) = {}
    /\ \A p, q \in Posters : \A s \in staged[p] : s \in staged[q] => p = q

\* An article is posted because the server confirmed it.
ConfirmedInv ==
    /\ posted \subseteq confirmed
    /\ \A s \in Slices : Holds(events, PostedSignals(s)) => s \in confirmed

\* A file is counted once, after the last verdict or for its error, and the
\* count that ends the job is that of all the files.
FileInv(f) ==
    /\ Once(events, FileSignals(f))
    /\ Holds(events, FileSignals(f)) => f \notin filesPosted
    /\ f \in filesPosted \/ Holds(events, FileSignals(f)) =>
         Articles(f) \subseteq posted \cup failed /\ f \notin Unreadable
    /\ Once(events, ErrorSignals(f))
    /\ Holds(events, ErrorSignals(f)) => f \notin filesFailed
    /\ f \in filesFailed \/ Holds(events, ErrorSignals(f)) => f \in reported

FilesInv ==
    /\ \A f \in Files : FileInv(f)
    /\ nbPosted = Cardinality(filesPosted \cup filesFailed)
    /\ postFinished => filesPosted \cup filesFailed = Files

TransferInv ==
    /\ TypeOK /\ OneHolder /\ Lineage /\ SourceInv /\ ConfirmedInv /\ FilesInv
    /\ NzbIsComplete /\ SuccessIsComplete

LEMMA TransferInvInit == Init => TransferInv
<1> SUFFICES ASSUME Init PROVE TransferInv
  OBVIOUS
<1>1. \A S : ~Holds(events, S) /\ Once(events, S)
  BY DEF Init, Holds, Once
<1>2. OneHolder /\ Lineage /\ SourceInv /\ ConfirmedInv
  BY <1>1 DEF Init, Source!Init, OneHolder, Lineage, SourceInv, ConfirmedInv, Held, Judged
<1>3. FilesInv
  BY <1>1, FS_EmptySet DEF Init, FilesInv, FileInv
<1>4. NzbIsComplete /\ SuccessIsComplete
  BY DEF Init, NzbIsComplete, SuccessIsComplete
<1> QED
  BY <1>2, <1>3, <1>4, TypeInit DEF TransferInv
-----------------------------------------------------------------------------
(* The steps. *)

\* The queue keeps its signals of the types in T and gets no other of them.
Spares(T) ==
    \/ UNCHANGED events
    \/ \E e \in Event : e.type \notin T /\ events' = Append(events, e)
    \/ events # <<>> /\ Head(events).type \notin T /\ events' = Tail(events)

LEMMA SparedSignals ==
    ASSUME events \in Seq(Event), NEW T, NEW S, \A e \in S : e.type \in T, Spares(T)
    PROVE  /\ Holds(events', S) <=> Holds(events, S)
           /\ Once(events, S) => Once(events', S)
<1>1. CASE UNCHANGED events
  BY <1>1 DEF Holds, Once
<1>2. ASSUME NEW e \in Event, e.type \notin T, events' = Append(events, e)
      PROVE  /\ Holds(events', S) <=> Holds(events, S)
             /\ Once(events, S) => Once(events', S)
  <2>1. e \notin S
    BY <1>2
  <2> QED
    BY <1>2, <2>1, AppendSignal
<1>3. CASE events # <<>> /\ Head(events).type \notin T /\ events' = Tail(events)
  <2>1. Head(events) \notin S
    BY <1>3
  <2> QED
    BY <1>3, <2>1, TakeSignal
<1> QED
  BY <1>1, <1>2, <1>3 DEF Spares

\* The signals that concern one article or one file.
LEMMA SignalTypes ==
    /\ \A s : \A e \in VerdictSignals(s) : e.type \in {"posted", "failed"} /\ e.slice = s
    /\ \A s : \A e \in PostedSignals(s) : e.type = "posted" /\ e.slice = s
    /\ \A f : \A e \in FileSignals(f) : e.type = "filePosted" /\ e.file = f
    /\ \A f : \A e \in ErrorSignals(f) : e.type = "errorReading" /\ e.file = f
    /\ \A s : \A t \in {"posted", "failed"} : [type |-> t, slice |-> s] \in VerdictSignals(s)
    /\ \A s : [type |-> "posted", slice |-> s] \in PostedSignals(s)
    /\ \A s : [type |-> "failed", slice |-> s] \notin PostedSignals(s)
    /\ \A f : [type |-> "filePosted", file |-> f] \in FileSignals(f)
    /\ \A f : [type |-> "errorReading", file |-> f] \in ErrorSignals(f)
BY DEF VerdictSignals, PostedSignals, FileSignals, ErrorSignals

Verdict == {"posted", "failed"}

custodyVars == <<unread, staged, handed, currentArticle, posted, failed>>

\* A step that moves no article.
Aside ==
    /\ UNCHANGED <<custodyVars, confirmed>> /\ Spares(Verdict)
    /\ \A c \in Connections : step'[c] = "fetch" => step[c] = "fetch" \/ currentArticle[c] = {}

\* The server's verdict on the article of c.
Answer(c, s, type) ==
    /\ s \in currentArticle[c]
    /\ events' = Append(events, [type |-> type, slice |-> s])
    /\ currentArticle' = [currentArticle EXCEPT ![c] = {}]
    /\ UNCHANGED <<unread, staged, handed, posted, failed>>
    /\ confirmed' = IF type = "posted" THEN confirmed \cup {s} ELSE confirmed
    /\ \A d \in Connections : d # c => step'[d] = step[d]

LEMMA HandshakeAside ==
    ASSUME TypeOK, NEW c \in Connections,
           Handshake(c) \/ ConnectFails(c) \/ LoseTransport(c)
    PROVE  Aside
<1>1. UNCHANGED <<custodyVars, confirmed>>
  BY DEF Handshake, ConnectFails, LoseTransport, StartConnection, KillConnection, StartEncryption,
     Connected, Welcome, TransportClosed, Reconnect, OnDisconnected, Authenticate, Preserve,
     sourceVars, articleVars, resultVars, custodyVars
<1>2. Disconnected(c) \in Event /\ Disconnected(c).type = "disconnected"
  BY EventTypes DEF Disconnected
<1>3. UNCHANGED events \/ Emit(Disconnected(c))
  BY DEF Handshake, ConnectFails, LoseTransport, StartConnection, KillConnection, StartEncryption,
     Connected, Welcome, TransportClosed, Reconnect, OnDisconnected, Authenticate
<1>4. Spares(Verdict)
  BY <1>2, <1>3 DEF Spares, Verdict, Emit
<1>5. \/ UNCHANGED step
      \/ SendNextArticle(c, currentArticle[c])
      \/ step' = [step EXCEPT ![c] = "lost"]
      \/ step' = [step EXCEPT ![c] = "ready"]
  BY DEF Handshake, ConnectFails, LoseTransport, StartConnection, KillConnection, StartEncryption,
     Connected, Welcome, TransportClosed, Reconnect, OnDisconnected, Authenticate
<1>6. step \in [Connections -> {"ready", "fetch", "check", "lost"}]
  BY TypeParts DEF TypesHold, SessionType
<1>7. ASSUME NEW d \in Connections, step'[d] = "fetch"
      PROVE  step[d] = "fetch" \/ currentArticle[d] = {}
  BY <1>5, <1>6, <1>7 DEF SendNextArticle
<1> QED
  BY <1>1, <1>4, <1>7 DEF Aside

\* A connection gets the article it asked for.
HandOver(c, s) ==
    /\ s \in staged[PosterOf[c]] /\ Source!Hand(PosterOf[c], s)
    /\ step[c] = "fetch" /\ currentArticle' = [currentArticle EXCEPT ![c] = {s}]
    /\ step'[c] # "fetch" /\ \A d \in Connections : d # c => step'[d] = step[d]
    /\ UNCHANGED <<events, posted, failed, confirmed>>

\* A slice is read.
Read(p, s) ==
    /\ Source!Stage(p, s)
    /\ UNCHANGED <<currentArticle, events, posted, failed, confirmed, step>>

\* A file is told the verdict on an article, its last one queues its own signal.
Judge(s) ==
    /\ events # <<>> /\ Head(events) \in VerdictSignals(s)
    /\ \/ Head(events) \in PostedSignals(s) /\ posted' = posted \cup {s} /\ failed' = failed
       \/ Head(events) \notin PostedSignals(s) /\ posted' = posted /\ failed' = failed \cup {s}
    /\ events' = IF Articles(FileOf[s]) \subseteq posted' \cup failed'
                   THEN Append(Tail(events), [type |-> "filePosted", file |-> FileOf[s]])
                   ELSE Tail(events)
    /\ UNCHANGED <<unread, staged, handed, currentArticle, confirmed, step>>

LEMMA PostingSteps ==
    ASSUME TypeOK, NEW c \in Connections, Posting(c)
    PROVE  \/ Aside
           \/ \E s \in Slices : HandOver(c, s)
           \/ \E s \in Slices : \E type \in Verdict : Answer(c, s, type)
<1>0. /\ step \in [Connections -> {"ready", "fetch", "check", "lost"}]
      /\ currentArticle[c] \subseteq Slices
      /\ PosterOf[c] \in Posters /\ staged[PosterOf[c]] \subseteq Slices
  <2>1. SessionType /\ ArticleType /\ Source!TypeOK /\ PosterOf[c] \in Posters
    BY TypeParts DEF TypesHold, Posters
  <2>2. staged \in [Posters -> SUBSET Slices]
    BY <2>1 DEF Source!TypeOK
  <2> QED
    BY <2>1, <2>2 DEF SessionType, ArticleType
<1>1. CASE GetNextArticle(c)
  <2>1. step'[c] # "fetch" /\ \A d \in Connections : d # c => step'[d] = step[d]
    BY <1>0, <1>1 DEF GetNextArticle
  <2>2. CASE \E s \in staged[PosterOf[c]] :
                /\ Source!Hand(PosterOf[c], s)
                /\ currentArticle' = [currentArticle EXCEPT ![c] = {s}]
    BY <1>0, <1>1, <2>1, <2>2 DEF GetNextArticle, HandOver, resultVars
  <2>3. CASE UNCHANGED <<unread, staged, handed, currentArticle>>
    BY <1>1, <2>1, <2>3 DEF GetNextArticle, Aside, custodyVars, Spares, resultVars
  <2> QED
    BY <1>1, <2>2, <2>3 DEF GetNextArticle, sourceVars, Source!Exhaust
<1>2. CASE UseArticle(c) \/ PostResponse(c)
  <2>1. UNCHANGED <<custodyVars, confirmed>> /\ UNCHANGED events
    BY <1>2 DEF UseArticle, PostResponse, sourceVars, articleVars, resultVars, custodyVars
  <2>2. step' = step \/ step' = [step EXCEPT ![c] = "ready"]
    BY <1>2 DEF UseArticle, PostResponse
  <2> QED
    BY <1>0, <2>1, <2>2 DEF Aside, Spares
<1>3. CASE ArticlePosted(c)
  <2>1. PICK s \in currentArticle[c] : confirmed' = confirmed \cup {s}
                                       /\ Emit([type |-> "posted", slice |-> s])
    BY <1>3 DEF ArticlePosted
  <2>2. UNCHANGED <<unread, staged, handed, posted, failed>>
    BY <1>3 DEF ArticlePosted, sourceVars, resultVars
  <2>3. \A d \in Connections : d # c => step'[d] = step[d]
    BY <1>0, <1>3 DEF ArticlePosted, SendNextArticle
  <2>4. Answer(c, s, "posted")
    BY <1>3, <2>1, <2>2, <2>3 DEF ArticlePosted, Answer, Emit
  <2> QED
    BY <1>0, <2>4 DEF Verdict
<1>4. CASE ArticleRejected(c)
  <2>2. UNCHANGED <<unread, staged, handed, posted, failed, confirmed>>
    BY <1>4 DEF ArticleRejected, sourceVars, resultVars
  <2>3. CASE UNCHANGED <<events, currentArticle, step>>
    BY <2>2, <2>3 DEF Aside, custodyVars, Spares
  <2>4. ASSUME NEW s \in currentArticle[c], Emit([type |-> "failed", slice |-> s]),
               currentArticle' = [currentArticle EXCEPT ![c] = {}], SendNextArticle(c, {})
        PROVE  Answer(c, s, "failed")
    <3>1. \A d \in Connections : d # c => step'[d] = step[d]
      BY <1>0, <2>4 DEF SendNextArticle
    <3> QED
      BY <2>2, <2>4, <3>1 DEF Answer, Emit
  <2> QED
    BY <1>0, <1>4, <2>3, <2>4 DEF ArticleRejected, Verdict
<1> QED
  BY <1>1, <1>2, <1>3, <1>4 DEF Posting

LEMMA MainAside ==
    ASSUME TypeOK,
           \/ ErrorReadingFile \/ PauseIsClicked \/ StopIsAsked \/ TunnelGoesDown
           \/ TunnelComesBack \/ BackoffEnds
           \/ OnNntpFilePosted \/ OnNntpErrorReading \/ OnDisconnectedConnection \/ OnPauseClicked
           \/ OnResumeTriggered \/ VpnInterrupted \/ VpnRecovered \/ OnStopPosting \/ Outdated
           \/ StopConnections \/ Finalize \/ \E c \in Connections : KillForStop(c)
    PROVE  Aside
<1>1. UNCHANGED <<custodyVars, confirmed, step>>
  BY DEF ErrorReadingFile, PauseIsClicked, StopIsAsked, TunnelGoesDown, TunnelComesBack, BackoffEnds,
     OnNntpFilePosted, OnNntpErrorReading, OnDisconnectedConnection, OnPauseClicked,
     OnResumeTriggered, VpnInterrupted, VpnRecovered, OnStopPosting, Outdated, StopConnections,
     Finalize, KillForStop, Preserve, Outside, Source!Report,
     sourceVars, sessionVars, articleVars, resultVars, custodyVars
<1>2. CASE ErrorReadingFile
  <2>1. \A f \in Unreadable : [type |-> "errorReading", file |-> f] \in Event
    BY EventTypes, TransferAssumption
  <2> QED
    BY <1>1, <1>2, <2>1 DEF ErrorReadingFile, Aside, Spares, Verdict, Emit
<1>3. CASE PauseIsClicked \/ StopIsAsked \/ TunnelGoesDown \/ TunnelComesBack \/ BackoffEnds
  <2>1. PICK e \in Event : Outside(e) /\ e.type \notin Verdict
    BY <1>3, EventTypes DEF PauseIsClicked, StopIsAsked, TunnelGoesDown, TunnelComesBack,
       BackoffEnds, Verdict
  <2> QED
    BY <1>1, <2>1 DEF Outside, Emit, Aside, Spares
<1>4. CASE \/ OnNntpFilePosted \/ OnNntpErrorReading \/ OnDisconnectedConnection \/ OnPauseClicked
           \/ OnResumeTriggered \/ VpnInterrupted \/ VpnRecovered \/ OnStopPosting \/ Outdated
  <2>1. events # <<>> /\ Head(events).type \notin Verdict /\ events' = Tail(events)
    BY <1>4 DEF OnNntpFilePosted, OnNntpErrorReading, OnDisconnectedConnection, OnPauseClicked,
       OnResumeTriggered, VpnInterrupted, VpnRecovered, OnStopPosting, Outdated, Takes, Verdict
  <2> QED
    BY <1>1, <2>1 DEF Aside, Spares
<1>5. CASE StopConnections \/ Finalize \/ \E c \in Connections : KillForStop(c)
  BY <1>1, <1>5 DEF StopConnections, Finalize, KillForStop, Aside, Spares
<1> QED
  BY <1>2, <1>3, <1>4, <1>5

LEMMA JudgeSteps ==
    ASSUME TypeOK, OnArticlePosted \/ OnArticleFailed
    PROVE  \E s \in Slices : Judge(s)
<1>1. events # <<>> /\ Head(events) \in Event
  BY EventsType DEF OnArticlePosted, OnArticleFailed, Takes, TypeOK
<1>2. PICK s \in Slices : s = Head(events).slice /\ Head(events) = [type |-> Head(events).type, slice |-> s]
  BY <1>1, EventFields DEF OnArticlePosted, OnArticleFailed, Takes
<1>3. UNCHANGED <<unread, staged, handed, currentArticle, confirmed, step>>
  BY DEF OnArticlePosted, OnArticleFailed, sourceVars, sessionVars
<1>4. CASE OnArticlePosted
  <2>1. Head(events) \in VerdictSignals(s) /\ Head(events) \in PostedSignals(s)
    <3>1. Head(events) = [type |-> "posted", slice |-> s]
      BY <1>2, <1>4 DEF OnArticlePosted, Takes
    <3> QED
      BY <3>1 DEF VerdictSignals, PostedSignals
  <2> QED
    BY <1>1, <1>2, <1>3, <1>4, <2>1 DEF OnArticlePosted, Judge
<1>5. CASE OnArticleFailed
  <2>1. Head(events) \in VerdictSignals(s) /\ Head(events) \notin PostedSignals(s)
    <3>1. Head(events) = [type |-> "failed", slice |-> s]
      BY <1>2, <1>5 DEF OnArticleFailed, Takes
    <3> QED
      BY <3>1 DEF VerdictSignals, PostedSignals
  <2> QED
    BY <1>1, <1>2, <1>3, <1>5, <2>1 DEF OnArticleFailed, Judge
<1> QED
  BY <1>4, <1>5

\* What a step does to the custody of the articles.
LEMMA CustodySteps ==
    ASSUME TypeOK, [Next]_vars
    PROVE  \/ Aside
           \/ \E c \in Connections, s \in Slices : HandOver(c, s)
           \/ \E c \in Connections, s \in Slices, type \in Verdict : Answer(c, s, type)
           \/ \E p \in Posters, s \in Slices : Read(p, s)
           \/ \E s \in Slices : Judge(s)
<1>1. CASE UNCHANGED vars
  BY <1>1 DEF vars, sourceVars, sessionVars, articleVars, resultVars, custodyVars, Aside, Spares
<1>2. ASSUME NEW p \in Posters, ReadAhead(p) PROVE \E s \in Slices : Read(p, s)
  BY <1>2 DEF ReadAhead, Read, sessionVars, articleVars, resultVars
<1> QED
  BY <1>1, <1>2, HandshakeAside, PostingSteps, MainAside, JudgeSteps DEF Next, MainThread
-----------------------------------------------------------------------------
(* Custody. *)

\* An article that is not handed over has no custodian.
LEMMA StagedIsFree ==
    ASSUME TransferInv, NEW c \in Connections, NEW s \in Slices, HandOver(c, s)
    PROVE  /\ s \notin handed /\ ~Held(s) /\ ~Judged(s)
           /\ ~Holds(events, VerdictSignals(s))
BY DEF TransferInv, SourceInv, Lineage, HandOver, Posters

LEMMA OneHolderStep ==
    ASSUME TransferInv, [Next]_vars
    PROVE  OneHolder'
<1>0. OneHolder /\ currentArticle \in [Connections -> SUBSET Slices]
      /\ step \in [Connections -> {"ready", "fetch", "check", "lost"}]
  BY DEF TransferInv, TypeOK
<1>1. CASE Aside
  BY <1>0, <1>1 DEF Aside, OneHolder, custodyVars
<1>2. ASSUME NEW c \in Connections, NEW s \in Slices, HandOver(c, s) PROVE OneHolder'
  <2>1. ~Held(s)
    BY <1>2, StagedIsFree
  <2>2. currentArticle' = [currentArticle EXCEPT ![c] = {s}] /\ step'[c] # "fetch"
        /\ \A d \in Connections : d # c => step'[d] = step[d]
    BY <1>2 DEF HandOver
  <2> QED
    BY <1>0, <2>1, <2>2 DEF OneHolder, Held
<1>3. ASSUME NEW c \in Connections, NEW s \in Slices, NEW type \in Verdict, Answer(c, s, type)
      PROVE  OneHolder'
  BY <1>0, <1>3 DEF Answer, OneHolder
<1>4. ASSUME NEW p \in Posters, NEW s \in Slices, Read(p, s) PROVE OneHolder'
  BY <1>0, <1>4 DEF Read, OneHolder
<1>5. ASSUME NEW s \in Slices, Judge(s) PROVE OneHolder'
  BY <1>0, <1>5 DEF Judge, OneHolder
<1> QED
  BY <1>1, <1>2, <1>3, <1>4, <1>5, CustodySteps DEF TransferInv

LEMMA SourceStep ==
    ASSUME TransferInv, [Next]_vars
    PROVE  SourceInv'
<1>0. SourceInv /\ staged \in [Posters -> SUBSET Slices]
  BY DEF TransferInv, TypeOK, Source!TypeOK
<1>1. CASE Aside
  BY <1>0, <1>1 DEF Aside, SourceInv, custodyVars
<1>2. ASSUME NEW c \in Connections, NEW s \in Slices, HandOver(c, s) PROVE SourceInv'
  BY <1>0, <1>2 DEF HandOver, Source!Hand, SourceInv, Posters
<1>3. ASSUME NEW c \in Connections, NEW s \in Slices, NEW type \in Verdict, Answer(c, s, type)
      PROVE  SourceInv'
  BY <1>0, <1>3 DEF Answer, SourceInv
<1>4. ASSUME NEW p \in Posters, NEW s \in Slices, Read(p, s) PROVE SourceInv'
  BY <1>0, <1>4 DEF Read, Source!Stage, SourceInv
<1>5. ASSUME NEW s \in Slices, Judge(s) PROVE SourceInv'
  BY <1>0, <1>5 DEF Judge, SourceInv
<1> QED
  BY <1>1, <1>2, <1>3, <1>4, <1>5, CustodySteps DEF TransferInv

\* What the queue holds of the verdicts after each step.
LEMMA JudgedQueue ==
    ASSUME TransferInv, NEW s \in Slices, Judge(s)
    PROVE  /\ ~Holds(events', VerdictSignals(s))
           /\ \A t \in Slices : Once(events', VerdictSignals(t))
           /\ \A t \in Slices \ {s} :
                Holds(events', VerdictSignals(t)) <=> Holds(events, VerdictSignals(t))
           /\ \A t \in Slices : Holds(events', PostedSignals(t)) => Holds(events, PostedSignals(t))
<1>0. /\ events \in Seq(Event) /\ events # <<>> /\ Head(events) \in VerdictSignals(s)
      /\ \A t \in Slices : Once(events, VerdictSignals(t))
  BY DEF TransferInv, TypeOK, Lineage, Judge
<1> DEFINE q == Tail(events)
           e == [type |-> "filePosted", file |-> FileOf[s]]
<1>1. q \in Seq(Event) /\ e \in Event
  BY <1>0, EventsType, EventTypes, TransferAssumption
<1>2. /\ ~Holds(q, VerdictSignals(s))
      /\ \A t \in Slices : Once(q, VerdictSignals(t))
      /\ \A t \in Slices \ {s} : Holds(q, VerdictSignals(t)) <=> Holds(events, VerdictSignals(t))
      /\ \A t \in Slices : Holds(q, PostedSignals(t)) => Holds(events, PostedSignals(t))
  <2>1. \A t \in Slices \ {s} : Head(events) \notin VerdictSignals(t)
    BY <1>0, SignalTypes
  <2> QED
    BY <1>0, <2>1, TakeSignal
<1>3. events' = q \/ events' = Append(q, e)
  BY DEF Judge
<1>4. \A t \in Slices : e \notin VerdictSignals(t) /\ e \notin PostedSignals(t)
  BY DEF VerdictSignals, PostedSignals
<1> HIDE DEF q, e
<1>5. \A t \in Slices : /\ Holds(Append(q, e), VerdictSignals(t)) <=> Holds(q, VerdictSignals(t))
                        /\ Holds(Append(q, e), PostedSignals(t)) <=> Holds(q, PostedSignals(t))
                        /\ Once(q, VerdictSignals(t)) => Once(Append(q, e), VerdictSignals(t))
  BY <1>1, <1>4, AppendSignal
<1> QED
  BY <1>2, <1>3, <1>5

LEMMA AnsweredQueue ==
    ASSUME TransferInv, NEW c \in Connections, NEW s \in Slices, NEW type \in Verdict,
           Answer(c, s, type)
    PROVE  /\ Holds(events', VerdictSignals(s))
           /\ \A t \in Slices : Once(events', VerdictSignals(t))
           /\ \A t \in Slices \ {s} :
                Holds(events', VerdictSignals(t)) <=> Holds(events, VerdictSignals(t))
           /\ \A t \in Slices : Holds(events', PostedSignals(t)) =>
                Holds(events, PostedSignals(t)) \/ (t = s /\ type = "posted")
<1> DEFINE e == [type |-> type, slice |-> s]
<1>0. /\ events \in Seq(Event) /\ events' = Append(events, e) /\ ~Holds(events, VerdictSignals(s))
      /\ \A t \in Slices : Once(events, VerdictSignals(t))
  BY DEF TransferInv, TypeOK, Lineage, Answer, Held
<1>1. /\ e \in Event /\ e \in VerdictSignals(s)
      /\ \A t \in Slices : t # s => e \notin VerdictSignals(t)
      /\ \A t \in Slices : e \in PostedSignals(t) => t = s /\ type = "posted"
  BY EventTypes DEF Verdict, VerdictSignals, PostedSignals
<1> HIDE DEF e
<1> QED
  BY <1>0, <1>1, AppendSignal

LEMMA LineageStep ==
    ASSUME TransferInv, [Next]_vars
    PROVE  Lineage'
<1>0. /\ Lineage /\ currentArticle \in [Connections -> SUBSET Slices] /\ events \in Seq(Event)
      /\ OneHolder
  BY DEF TransferInv, TypeOK
<1>1. CASE Aside
  <2>1. \A s \in Slices : /\ Holds(events', VerdictSignals(s)) <=> Holds(events, VerdictSignals(s))
                          /\ Once(events, VerdictSignals(s)) => Once(events', VerdictSignals(s))
    BY <1>0, <1>1, SparedSignals, SignalTypes DEF Aside, Verdict
  <2>2. posted' = posted /\ failed' = failed /\ handed' = handed /\ \A s : Held(s)' <=> Held(s)
    BY <1>1 DEF Aside, custodyVars, Held
  <2> QED
    BY <1>0, <2>1, <2>2 DEF Lineage, Judged
<1>2. ASSUME NEW c \in Connections, NEW s \in Slices, HandOver(c, s) PROVE Lineage'
  <2>1. /\ ~Judged(s) /\ ~Holds(events, VerdictSignals(s)) /\ Held(s)'
        /\ handed' = handed \cup {s}
    BY <1>0, <1>2, StagedIsFree DEF HandOver, Held, Source!Hand
  <2>2. \A t \in Slices \ {s} : Held(t)' <=> Held(t)
    BY <1>0, <1>2 DEF HandOver, Held, OneHolder
  <2>3. events' = events /\ posted' = posted /\ failed' = failed
    BY <1>2 DEF HandOver
  <2> QED
    BY <1>0, <2>1, <2>2, <2>3 DEF Lineage, Judged
<1>3. ASSUME NEW c \in Connections, NEW s \in Slices, NEW type \in Verdict, Answer(c, s, type)
      PROVE  Lineage'
  <2>1. s \in currentArticle[c] /\ currentArticle' = [currentArticle EXCEPT ![c] = {}]
        /\ handed' = handed /\ posted' = posted /\ failed' = failed
    BY <1>3 DEF Answer
  <2>2. Held(s) /\ ~Judged(s) /\ ~Held(s)'
    BY <1>0, <2>1 DEF Lineage, Held, OneHolder
  <2>3. \A t \in Slices \ {s} : Held(t)' <=> Held(t)
    BY <1>0, <2>1 DEF Held, OneHolder
  <2> QED
    BY <1>0, <1>3, <2>1, <2>2, <2>3, AnsweredQueue DEF Lineage, Judged
<1>4. ASSUME NEW p \in Posters, NEW s \in Slices, Read(p, s) PROVE Lineage'
  BY <1>0, <1>4 DEF Read, Source!Stage, Lineage, Held, Judged
<1>5. ASSUME NEW s \in Slices, Judge(s) PROVE Lineage'
  <2>1. Holds(events, VerdictSignals(s))
    BY <1>0, <1>5, TakeSignal DEF Judge
  <2>2. handed' = handed /\ \A t : Held(t)' <=> Held(t)
    BY <1>5 DEF Judge, Held
  <2>3. /\ ~Judged(s) /\ Judged(s)' /\ \A t \in Slices \ {s} : Judged(t)' <=> Judged(t)
        /\ posted' \cap failed' = {}
    BY <1>0, <1>5, <2>1 DEF Judge, Lineage, Judged
  <2> QED
    BY <1>0, <1>5, <2>1, <2>2, <2>3, JudgedQueue DEF Lineage
<1> QED
  BY <1>1, <1>2, <1>3, <1>4, <1>5, CustodySteps DEF TransferInv

LEMMA ConfirmedStep ==
    ASSUME TransferInv, [Next]_vars
    PROVE  ConfirmedInv' /\ confirmed \subseteq confirmed' /\ posted \subseteq posted'
           /\ failed \subseteq failed'
<1>0. ConfirmedInv /\ events \in Seq(Event)
  BY DEF TransferInv, TypeOK
<1>1. CASE Aside
  <2>1. \A s \in Slices : Holds(events', PostedSignals(s)) <=> Holds(events, PostedSignals(s))
    BY <1>0, <1>1, SparedSignals, SignalTypes DEF Aside, Verdict
  <2> QED
    BY <1>0, <1>1, <2>1 DEF Aside, custodyVars, ConfirmedInv
<1>2. CASE \/ \E c \in Connections, s \in Slices : HandOver(c, s)
           \/ \E p \in Posters, s \in Slices : Read(p, s)
  BY <1>0, <1>2 DEF HandOver, Read, ConfirmedInv
<1>3. ASSUME NEW c \in Connections, NEW s \in Slices, NEW type \in Verdict, Answer(c, s, type)
      PROVE  ConfirmedInv' /\ confirmed \subseteq confirmed' /\ posted \subseteq posted'
             /\ failed \subseteq failed'
  BY <1>0, <1>3, AnsweredQueue DEF Answer, ConfirmedInv
<1>5. ASSUME NEW s \in Slices, Judge(s)
      PROVE  ConfirmedInv' /\ confirmed \subseteq confirmed' /\ posted \subseteq posted'
             /\ failed \subseteq failed'
  <2>1. Head(events) \in PostedSignals(s) => Holds(events, PostedSignals(s))
    BY <1>0, <1>5, TakeSignal DEF Judge
  <2> QED
    BY <1>0, <1>5, <2>1, JudgedQueue DEF Judge, ConfirmedInv
<1> QED
  BY <1>1, <1>2, <1>3, <1>5, CustodySteps DEF TransferInv
-----------------------------------------------------------------------------
(* Files. *)

OfFiles == {"filePosted", "errorReading"}
countVars == <<nbPosted, filesPosted, filesFailed, postFinished, nzb>>

\* A step that concerns no file.
FilesAside == UNCHANGED <<countVars, reported>> /\ Spares(OfFiles)

LEMMA HandshakeFiles ==
    ASSUME TypeOK, NEW c \in Connections,
           Handshake(c) \/ ConnectFails(c) \/ LoseTransport(c)
    PROVE  FilesAside
<1>1. UNCHANGED <<countVars, reported>>
  BY DEF Handshake, ConnectFails, LoseTransport, StartConnection, KillConnection, StartEncryption,
     Connected, Welcome, TransportClosed, Reconnect, OnDisconnected, Authenticate,
     sourceVars, resultVars, countVars
<1>2. Disconnected(c) \in Event /\ Disconnected(c).type = "disconnected"
  BY EventTypes DEF Disconnected
<1>3. UNCHANGED events \/ Emit(Disconnected(c))
  BY DEF Handshake, ConnectFails, LoseTransport, StartConnection, KillConnection, StartEncryption,
     Connected, Welcome, TransportClosed, Reconnect, OnDisconnected, Authenticate
<1> QED
  BY <1>1, <1>2, <1>3 DEF FilesAside, Spares, OfFiles, Emit

LEMMA PostingFiles ==
    ASSUME TypeOK, NEW c \in Connections, Posting(c)
    PROVE  FilesAside
<1>1. UNCHANGED <<countVars, reported>>
  BY DEF Posting, GetNextArticle, UseArticle, PostResponse, ArticlePosted, ArticleRejected,
     Source!Hand, Source!Exhaust, sourceVars, resultVars, countVars
<1>2. \A s \in currentArticle[c] : s \in Slices
  BY DEF TypeOK
<1>3. \/ UNCHANGED events
      \/ \E s \in Slices : \E type \in Verdict : events' = Append(events, [type |-> type, slice |-> s])
  BY <1>2 DEF Posting, GetNextArticle, UseArticle, PostResponse, ArticlePosted, ArticleRejected,
     Emit, Verdict
<1>4. \A s \in Slices : \A type \in Verdict : [type |-> type, slice |-> s] \in Event
  BY EventTypes DEF Verdict
<1> QED
  BY <1>1, <1>3, <1>4 DEF FilesAside, Spares, OfFiles, Verdict

LEMMA OtherFiles ==
    ASSUME TypeOK,
           \/ \E p \in Posters : ReadAhead(p)
           \/ PauseIsClicked \/ StopIsAsked \/ TunnelGoesDown \/ TunnelComesBack \/ BackoffEnds
           \/ OnDisconnectedConnection \/ OnPauseClicked
           \/ OnResumeTriggered \/ VpnInterrupted \/ VpnRecovered \/ OnStopPosting \/ Outdated
           \/ StopConnections \/ Finalize \/ \E c \in Connections : KillForStop(c)
    PROVE  FilesAside
<1>1. UNCHANGED <<countVars, reported>>
  BY DEF ReadAhead, PauseIsClicked, StopIsAsked, TunnelGoesDown, TunnelComesBack, BackoffEnds,
     OnDisconnectedConnection, OnPauseClicked, OnResumeTriggered, VpnInterrupted, VpnRecovered,
     OnStopPosting, Outdated, StopConnections, Finalize, KillForStop, Outside, Source!Stage,
     sourceVars, resultVars, countVars
<1>3. CASE PauseIsClicked \/ StopIsAsked \/ TunnelGoesDown \/ TunnelComesBack \/ BackoffEnds
  <2>1. PICK e \in Event : Outside(e) /\ e.type \notin OfFiles
    BY <1>3, EventTypes DEF PauseIsClicked, StopIsAsked, TunnelGoesDown, TunnelComesBack,
       BackoffEnds, OfFiles
  <2> QED
    BY <1>1, <2>1 DEF Outside, Emit, FilesAside, Spares
<1>4. CASE \/ OnDisconnectedConnection \/ OnPauseClicked
           \/ OnResumeTriggered \/ VpnInterrupted \/ VpnRecovered \/ OnStopPosting \/ Outdated
  <2>1. events # <<>> /\ Head(events).type \notin OfFiles /\ events' = Tail(events)
    BY <1>4 DEF OnDisconnectedConnection, OnPauseClicked,
       OnResumeTriggered, VpnInterrupted, VpnRecovered, OnStopPosting, Outdated, Takes, OfFiles
  <2> QED
    BY <1>1, <2>1 DEF FilesAside, Spares
<1>5. CASE \/ \E p \in Posters : ReadAhead(p)
           \/ StopConnections \/ Finalize \/ \E c \in Connections : KillForStop(c)
  BY <1>1, <1>5 DEF ReadAhead, StopConnections, Finalize, KillForStop, FilesAside, Spares
<1> QED
  BY <1>3, <1>4, <1>5

\* What a step does to the count of the files.
LEMMA FileSteps ==
    ASSUME TypeOK, [Next]_vars
    PROVE  \/ FilesAside
           \/ OnArticlePosted \/ OnArticleFailed
           \/ ErrorReadingFile \/ OnNntpFilePosted \/ OnNntpErrorReading
<1>1. CASE UNCHANGED vars
  BY <1>1 DEF vars, sourceVars, resultVars, countVars, FilesAside, Spares
<1> QED
  BY <1>1, HandshakeFiles, PostingFiles, OtherFiles DEF Next, MainThread

\* The files are counted, and all of them when the count says so.
LEMMA CountStep ==
    ASSUME FilesInv, TypeOK, NEW f \in Files, f \notin filesPosted \cup filesFailed,
           filesPosted' \cup filesFailed' = filesPosted \cup filesFailed \cup {f},
           filesPosted' \cup filesFailed' \subseteq Files,
           nbPosted' = nbPosted + 1, EndIfLastFile
    PROVE  /\ nbPosted' = Cardinality(filesPosted' \cup filesFailed')
           /\ postFinished' => filesPosted' \cup filesFailed' = Files
<1> DEFINE old == filesPosted \cup filesFailed
           new == filesPosted' \cup filesFailed'
<1>1. old \subseteq Files /\ nbPosted = Cardinality(old) /\ (postFinished => old = Files)
  BY DEF FilesInv, TypeOK
<1>2. new \subseteq Files /\ new = old \cup {f} /\ f \notin old
  OBVIOUS
<1>3. postFinished' => postFinished \/ nbPosted' = Cardinality(Files)
  BY DEF EndIfLastFile
<1> HIDE DEF old, new
<1>4. IsFiniteSet(old) /\ Cardinality(new) = Cardinality(old) + 1
  BY <1>1, <1>2, FS_Subset, FS_AddElement, TransferAssumption
<1>5. nbPosted' = Cardinality(new)
  BY <1>1, <1>4
<1>6. Cardinality(Files) = Cardinality(new) => Files = new
  BY <1>2, FS_Subset, TransferAssumption
<1>7. postFinished' => new = Files
  BY <1>1, <1>2, <1>3, <1>5, <1>6
<1> QED
  BY <1>5, <1>7 DEF new

\* Only a file whose last verdict is given queues its signal.
LEMMA JudgedFiles ==
    ASSUME TransferInv, NEW s \in Slices, Judge(s), UNCHANGED <<countVars, reported>>,
           NEW f \in Files
    PROVE  FileInv(f)'
<1>0. /\ events \in Seq(Event) /\ events # <<>> /\ Head(events) \in VerdictSignals(s)
      /\ FileInv(f) /\ Lineage /\ FileOf[s] \in Files \ Unreadable
  BY TransferAssumption DEF TransferInv, TypeOK, FilesInv, Judge
<1>1. UNCHANGED <<filesPosted, filesFailed, reported>>
  BY DEF countVars
<1>2. posted \cup failed \subseteq posted' \cup failed'
  BY DEF Judge
<1> DEFINE q == Tail(events)
           e == [type |-> "filePosted", file |-> FileOf[s]]
<1>3. /\ q \in Seq(Event) /\ e \in Event
      /\ Head(events) \notin FileSignals(f) /\ Head(events) \notin ErrorSignals(f)
      /\ e \notin ErrorSignals(f) /\ (e \in FileSignals(f) => f = FileOf[s])
  BY <1>0, EventsType, EventTypes DEF VerdictSignals, FileSignals, ErrorSignals
<1>4. /\ Holds(q, FileSignals(f)) <=> Holds(events, FileSignals(f))
      /\ Holds(q, ErrorSignals(f)) <=> Holds(events, ErrorSignals(f))
      /\ Once(q, FileSignals(f)) /\ Once(q, ErrorSignals(f))
  BY <1>0, <1>3, TakeSignal DEF FileInv
<1>5. ~(Articles(FileOf[s]) \subseteq posted \cup failed)
  <2>1. Holds(events, VerdictSignals(s))
    BY <1>0, TakeSignal
  <2>2. ~Judged(s)
    BY <1>0, <2>1 DEF Lineage
  <2> QED
    BY <2>2 DEF Articles, Judged
<1>6. events' = IF Articles(FileOf[s]) \subseteq posted' \cup failed' THEN Append(q, e) ELSE q
  BY DEF Judge
<1> HIDE DEF q, e
<1>7. CASE events' = q
  BY <1>0, <1>1, <1>2, <1>4, <1>7 DEF FileInv, Articles
<1>8. CASE Articles(FileOf[s]) \subseteq posted' \cup failed' /\ events' = Append(q, e)
  <2>1. f = FileOf[s] => ~Holds(q, FileSignals(f)) /\ f \notin filesPosted
    BY <1>0, <1>4, <1>5 DEF FileInv
  <2>2. /\ Holds(Append(q, e), FileSignals(f)) <=> Holds(q, FileSignals(f)) \/ e \in FileSignals(f)
        /\ Holds(Append(q, e), ErrorSignals(f)) <=> Holds(q, ErrorSignals(f))
        /\ Once(Append(q, e), FileSignals(f)) /\ Once(Append(q, e), ErrorSignals(f))
    BY <1>3, <1>4, <2>1, AppendSignal
  <2>3. e \in FileSignals(f) => Articles(f)' \subseteq posted' \cup failed' /\ f \notin Unreadable
    BY <1>0, <1>3, <1>8 DEF Articles
  <2> QED
    BY <1>0, <1>1, <1>2, <1>3, <1>4, <1>8, <2>1, <2>2, <2>3 DEF FileInv, Articles
<1> QED
  BY <1>6, <1>7, <1>8

\* A file is counted when its signal is taken.
LEMMA CountedFiles ==
    ASSUME TransferInv, OnNntpFilePosted \/ OnNntpErrorReading
    PROVE  FilesInv'
<1>0. /\ events \in Seq(Event) /\ events # <<>> /\ Head(events) \in Event /\ events' = Tail(events)
      /\ FilesInv /\ TypeOK /\ reported \subseteq Unreadable
  BY EventsType DEF TransferInv, TypeOK, OnNntpFilePosted, OnNntpErrorReading, Takes, Source!TypeOK
<1>1. UNCHANGED <<posted, failed, reported>>
  BY DEF OnNntpFilePosted, OnNntpErrorReading, sourceVars
<1>2. PICK g \in Files : /\ g = Head(events).file
                         /\ OnNntpFilePosted => Head(events) \in FileSignals(g)
                         /\ OnNntpErrorReading => Head(events) \in ErrorSignals(g)
  BY <1>0, EventFields DEF OnNntpFilePosted, OnNntpErrorReading, Takes, FileSignals, ErrorSignals
<1>3. \A f \in Files :
        /\ Holds(events', FileSignals(f)) => Holds(events, FileSignals(f))
        /\ Holds(events', ErrorSignals(f)) => Holds(events, ErrorSignals(f))
        /\ Once(events', FileSignals(f)) /\ Once(events', ErrorSignals(f))
  BY <1>0, TakeSignal DEF FilesInv, FileInv
<1>4. /\ OnNntpFilePosted => Holds(events, FileSignals(g)) /\ ~Holds(events', FileSignals(g))
      /\ OnNntpErrorReading => Holds(events, ErrorSignals(g)) /\ ~Holds(events', ErrorSignals(g))
  BY <1>0, <1>2, TakeSignal DEF FilesInv, FileInv
<1>5. FileInv(g)
  BY <1>0 DEF FilesInv
<1>6. CASE UNCHANGED <<nbPosted, filesPosted, filesFailed, postFinished>>
  BY <1>0, <1>1, <1>3, <1>6 DEF FilesInv, FileInv, Articles
<1>7. CASE ~UNCHANGED <<nbPosted, filesPosted, filesFailed, postFinished>>
  <2>1. /\ nbPosted' = nbPosted + 1 /\ EndIfLastFile
        /\ OnNntpFilePosted => filesPosted' = filesPosted \cup {g} /\ filesFailed' = filesFailed
        /\ OnNntpErrorReading => filesPosted' = filesPosted /\ filesFailed' = filesFailed \cup {g}
    BY <1>2, <1>7 DEF OnNntpFilePosted, OnNntpErrorReading
  <2>2. g \notin filesPosted \cup filesFailed
    BY <1>0, <1>4, <1>5 DEF FileInv
  <2>3. /\ nbPosted' = Cardinality(filesPosted' \cup filesFailed')
        /\ postFinished' => filesPosted' \cup filesFailed' = Files
    BY <1>0, <2>1, <2>2, CountStep DEF TypeOK
  <2>4. ASSUME NEW f \in Files PROVE FileInv(f)'
    <3>1. FileInv(f)
      BY <1>0 DEF FilesInv
    <3>2. CASE f = g
      BY <1>1, <1>3, <1>4, <2>1, <3>1, <3>2 DEF FileInv, Articles
    <3>3. CASE f # g
      BY <1>1, <1>3, <2>1, <3>1, <3>3 DEF FileInv, Articles
    <3> QED
      BY <3>2, <3>3
  <2> QED
    BY <2>3, <2>4 DEF FilesInv
<1> QED
  BY <1>6, <1>7

LEMMA FilesStep ==
    ASSUME TransferInv, [Next]_vars
    PROVE  FilesInv'
<1>0. FilesInv /\ TypeOK /\ events \in Seq(Event) /\ reported \subseteq Unreadable
  BY DEF TransferInv, TypeOK, Source!TypeOK
<1>1. posted \cup failed \subseteq posted' \cup failed'
  BY ConfirmedStep
<1>2. CASE FilesAside
  <2>1. \A f \in Files :
          /\ Holds(events', FileSignals(f)) <=> Holds(events, FileSignals(f))
          /\ Once(events, FileSignals(f)) => Once(events', FileSignals(f))
    BY <1>0, <1>2, SparedSignals, SignalTypes DEF FilesAside, OfFiles
  <2>2. \A f \in Files :
          /\ Holds(events', ErrorSignals(f)) <=> Holds(events, ErrorSignals(f))
          /\ Once(events, ErrorSignals(f)) => Once(events', ErrorSignals(f))
    BY <1>0, <1>2, SparedSignals, SignalTypes DEF FilesAside, OfFiles
  <2>3. UNCHANGED <<nbPosted, filesPosted, filesFailed, postFinished, reported>>
    BY <1>2 DEF FilesAside, countVars
  <2>4. ASSUME NEW f \in Files PROVE FileInv(f)'
    BY <1>0, <1>1, <2>1, <2>2, <2>3 DEF FilesInv, FileInv, Articles
  <2> QED
    BY <1>0, <2>3, <2>4 DEF FilesInv
<1>3. CASE OnArticlePosted \/ OnArticleFailed
  <2>1. PICK s \in Slices : Judge(s)
    BY <1>0, <1>3, JudgeSteps
  <2>2. UNCHANGED <<countVars, reported>>
    BY <1>3 DEF OnArticlePosted, OnArticleFailed, sourceVars, countVars
  <2>3. \A f \in Files : FileInv(f)'
    BY <2>1, <2>2, JudgedFiles
  <2> QED
    BY <1>0, <2>2, <2>3 DEF FilesInv, countVars
<1>4. CASE ErrorReadingFile
  <2>1. PICK g \in Unreadable : Source!Report(g) /\ Emit([type |-> "errorReading", file |-> g])
    BY <1>4 DEF ErrorReadingFile
  <2>2. UNCHANGED <<nbPosted, filesPosted, filesFailed, postFinished, posted, failed>>
    BY <1>4 DEF ErrorReadingFile, resultVars
  <2> DEFINE e == [type |-> "errorReading", file |-> g]
  <2>3. g \in Files /\ e \in Event /\ events' = Append(events, e)
    BY <2>1, EventTypes, TransferAssumption DEF Emit
  <2>4. \A f \in Files : e \notin FileSignals(f) /\ (e \in ErrorSignals(f) => f = g)
    BY DEF FileSignals, ErrorSignals
  <2> HIDE DEF e
  <2>5. g \notin reported /\ reported' = reported \cup {g}
    BY <2>1 DEF Source!Report
  <2>6. ASSUME NEW f \in Files PROVE FileInv(f)'
    <3>1. FileInv(f)
      BY <1>0 DEF FilesInv
    <3>2. e \in ErrorSignals(f) => ~Holds(events, ErrorSignals(f)) /\ f \notin filesFailed
      BY <2>4, <2>5, <3>1 DEF FileInv
    <3>3. /\ Holds(events', FileSignals(f)) <=> Holds(events, FileSignals(f))
          /\ Holds(events', ErrorSignals(f)) => Holds(events, ErrorSignals(f)) \/ e \in ErrorSignals(f)
          /\ Once(events', FileSignals(f)) /\ Once(events', ErrorSignals(f))
      BY <1>0, <2>3, <2>4, <3>1, <3>2, AppendSignal DEF FileInv
    <3> QED
      BY <2>2, <2>4, <2>5, <3>1, <3>2, <3>3 DEF FileInv, Articles
  <2> QED
    BY <1>0, <2>2, <2>6 DEF FilesInv
<1> QED
  BY <1>0, <1>2, <1>3, <1>4, CountedFiles, FileSteps
-----------------------------------------------------------------------------
(* What the job reports. *)

LEMMA NzbStep ==
    ASSUME TransferInv, [Next]_vars
    PROVE  NzbIsComplete'
<1>0. NzbIsComplete /\ FilesInv /\ TypeOK /\ ConfirmedInv /\ confirmed \subseteq confirmed'
  BY ConfirmedStep DEF TransferInv
<1>1. CASE nzb' = nzb
  BY <1>0, <1>1 DEF NzbIsComplete, Articles
<1>2. CASE nzb' # nzb
  <2>1. OnNntpFilePosted
    BY <1>0, <1>2, FileSteps DEF FilesAside, countVars, OnArticlePosted, OnArticleFailed,
       ErrorReadingFile, OnNntpErrorReading, resultVars
  <2>2. events # <<>> /\ events \in Seq(Event) /\ Head(events) \in Event
    BY <1>0, <2>1, EventsType DEF OnNntpFilePosted, Takes, TypeOK
  <2>3. PICK g \in Files : g = Head(events).file /\ Head(events) \in FileSignals(g)
    BY <2>1, <2>2, EventFields DEF OnNntpFilePosted, Takes, FileSignals
  <2>4. Articles(g) \cap failed = {} /\ nzb' = nzb \cup {g}
    BY <1>2, <2>1, <2>3 DEF OnNntpFilePosted, NzbWith
  <2>5. Articles(g) \subseteq posted \cup failed
    BY <1>0, <2>2, <2>3, TakeSignal DEF FilesInv, FileInv
  <2>6. Articles(g) \subseteq confirmed'
    BY <1>0, <2>4, <2>5 DEF ConfirmedInv
  <2> QED
    BY <1>0, <2>4, <2>6 DEF NzbIsComplete, Articles
<1> QED
  BY <1>1, <1>2

\* Only Finalize records an outcome.
LEMMA OutcomeSteps ==
    ASSUME [Next]_vars
    PROVE  UNCHANGED <<outcome, deleted>> \/ Finalize
<1>1. ASSUME NEW c \in Connections,
             Handshake(c) \/ Posting(c) \/ ConnectFails(c) \/ LoseTransport(c)
      PROVE  UNCHANGED <<outcome, deleted>>
  BY <1>1 DEF Handshake, ConnectFails, LoseTransport, StartConnection, KillConnection,
     StartEncryption, Connected, Welcome, TransportClosed, Reconnect, OnDisconnected, Authenticate,
     Posting, GetNextArticle, UseArticle, PostResponse, ArticlePosted, ArticleRejected, endVars
<1>2. CASE \/ \E p \in Posters : ReadAhead(p)
           \/ ErrorReadingFile \/ PauseIsClicked \/ StopIsAsked \/ TunnelGoesDown
           \/ TunnelComesBack \/ BackoffEnds
  BY <1>2 DEF ReadAhead, ErrorReadingFile, PauseIsClicked, StopIsAsked, TunnelGoesDown,
     TunnelComesBack, BackoffEnds, Outside, endVars
<1>3. CASE MainThread
  BY <1>3 DEF MainThread, OnArticlePosted, OnArticleFailed, OnNntpFilePosted, OnNntpErrorReading,
     OnDisconnectedConnection, OnPauseClicked, OnResumeTriggered, VpnInterrupted, VpnRecovered,
     OnStopPosting, Outdated, StopConnections, KillForStop, EndIfLastFile, FinishPosting, endVars
<1>4. CASE UNCHANGED vars
  BY <1>4 DEF vars, endVars
<1> QED
  BY <1>1, <1>2, <1>3, <1>4 DEF Next

LEMMA SuccessStep ==
    ASSUME TransferInv, [Next]_vars
    PROVE  SuccessIsComplete'
<1>0. /\ SuccessIsComplete /\ FilesInv /\ TypeOK /\ ConfirmedInv
      /\ confirmed \subseteq confirmed'
  BY ConfirmedStep DEF TransferInv
<1>1. CASE UNCHANGED <<outcome, deleted>>
  BY <1>0, <1>1 DEF SuccessIsComplete
<1>2. CASE Finalize
  <2>1. SUFFICES ASSUME Succeeded PROVE Unreadable = {} /\ Slices \subseteq confirmed
    BY <1>0, <1>2 DEF Finalize, SuccessIsComplete
  <2>2. failed = {} /\ filesPosted = Files
    BY <1>0, <2>1 DEF Succeeded, FilesInv
  <2>3. \A f \in Files : Articles(f) \subseteq posted /\ f \notin Unreadable
    BY <1>0, <2>2 DEF FilesInv, FileInv
  <2>4. \A s \in Slices : s \in Articles(FileOf[s]) /\ FileOf[s] \in Files
    BY TransferAssumption DEF Articles
  <2> QED
    BY <1>0, <2>3, <2>4, TransferAssumption DEF ConfirmedInv
<1> QED
  BY <1>1, <1>2, OutcomeSteps

LEMMA TransferInvStep == TransferInv /\ [Next]_vars => TransferInv'
<1> SUFFICES ASSUME TransferInv, [Next]_vars PROVE TransferInv'
  OBVIOUS
<1>1. TypeOK'
  BY TypeStep DEF TransferInv
<1> QED
  BY <1>1, OneHolderStep, LineageStep, SourceStep, ConfirmedStep, FilesStep, NzbStep, SuccessStep
     DEF TransferInv

\* The inductive invariant holds for every number of posters, connections,
\* files and articles, whatever is dropped, killed, paused and started again.
THEOREM TransferInvariance == Spec => []TransferInv
<1> QED
  BY TransferInvInit, TransferInvStep, PTL DEF Spec

LEMMA SmallSet ==
    ASSUME NEW S, \A x, y \in S : x = y
    PROVE  Cardinality(S) = IF S = {} THEN 0 ELSE 1
<1>1. CASE S = {}
  BY <1>1, FS_EmptySet
<1>2. ASSUME NEW x \in S PROVE Cardinality(S) = 1
  <2>1. S = {x}
    OBVIOUS
  <2> QED
    BY <2>1, FS_Singleton
<1> QED
  BY <1>1, <1>2

LEMMA CustodianIsOne == TransferInv => OneCustodian
<1> SUFFICES ASSUME TransferInv, NEW s \in handed
             PROVE  Cardinality(Owners(s)) + Cardinality(Signals(s)) + Verdicts(s) = 1
  BY DEF OneCustodian
<1>0. TypeOK /\ OneHolder /\ Lineage /\ s \in Slices /\ events \in Seq(Event)
  BY DEF TransferInv, TypeOK, Source!TypeOK
<1>1. /\ Held(s) => ~Holds(events, VerdictSignals(s)) /\ ~Judged(s)
      /\ Holds(events, VerdictSignals(s)) => ~Judged(s)
      /\ Held(s) \/ Holds(events, VerdictSignals(s)) \/ Judged(s)
      /\ Once(events, VerdictSignals(s)) /\ posted \cap failed = {}
  BY <1>0 DEF Lineage
<1>2. Cardinality(Owners(s)) = IF Held(s) THEN 1 ELSE 0
  <2>1. \A c, d \in Owners(s) : c = d
    BY <1>0 DEF Owners, OneHolder
  <2>2. Owners(s) # {} <=> Held(s)
    BY DEF Owners, Held
  <2> QED
    BY <2>1, <2>2, SmallSet
<1>3. Cardinality(Signals(s)) = IF Holds(events, VerdictSignals(s)) THEN 1 ELSE 0
  <2>1. DOMAIN events = 1..Len(events) /\ \A i \in 1..Len(events) : events[i] \in Event
    BY <1>0
  <2>2. \A i \in 1..Len(events) :
           events[i] \in VerdictSignals(s) <=>
              events[i].type \in {"posted", "failed"} /\ events[i].slice = s
    BY <2>1, EventFields DEF VerdictSignals
  <2>3. \A i, j \in Signals(s) : i = j
    BY <1>1, <2>1, <2>2 DEF Signals, Once
  <2>4. Signals(s) # {} <=> Holds(events, VerdictSignals(s))
    BY <2>1, <2>2 DEF Signals, Holds
  <2> QED
    BY <2>3, <2>4, SmallSet
<1>4. Verdicts(s) = IF Judged(s) THEN 1 ELSE 0
  BY <1>1 DEF Verdicts, Judged
<1> QED
  BY <1>1, <1>2, <1>3, <1>4

\* No article is lost and none is sent by two connections: whatever the number
\* of connections and the order in which they drop, are killed, are restarted
\* and get their answers, exactly one connection, queued signal or file answers
\* for an article that was handed over (NntpConnection, NntpFile).
THEOREM CustodyCorrect == Spec => []OneCustodian
<1> QED
  BY TransferInvariance, CustodianIsOne, PTL

\* A file listed in the NZB was confirmed in full (onNntpFilePosted,
\* writeToNZB), for any number of articles and any order of the signals.
THEOREM NzbCorrect == Spec => []NzbIsComplete
<1>1. TransferInv => NzbIsComplete
  BY DEF TransferInv
<1> QED
  BY <1>1, TransferInvariance, PTL

\* A success is recorded, or the source files are deleted, only when every file
\* was read and every article confirmed (hasPostFinishedSuccessfully,
\* _delOriginalFilesOfCompletePost): a count of files that reaches their number
\* counts no file twice.
THEOREM SuccessCorrect == Spec => []SuccessIsComplete
<1>1. TransferInv => SuccessIsComplete
  BY DEF TransferInv
<1> QED
  BY <1>1, TransferInvariance, PTL
-----------------------------------------------------------------------------
(* Pauses. *)

\* A job is paused for a reason.
PauseInv == pauseReason # "None" <=> isPaused

\* What a step does to the pause.
LEMMA PauseSteps ==
    ASSUME TypeOK, [Next]_vars
    PROVE  \/ UNCHANGED <<isPaused, pauseReason>>
           \/ FinishPosting \/ OnPauseClicked
           \/ \E reason \in {"User", "Vpn", "Backoff"} : \E pool : PauseJob(reason, pool)
           \/ pauseReason # "User" /\ \E pool, closed : ResumeJob(pool, closed)
<1>1. ASSUME NEW c \in Connections,
             Handshake(c) \/ Posting(c) \/ ConnectFails(c) \/ LoseTransport(c)
      PROVE  UNCHANGED <<isPaused, pauseReason>>
  BY <1>1 DEF Handshake, ConnectFails, LoseTransport, StartConnection, KillConnection,
     StartEncryption, Connected, Welcome, TransportClosed, Reconnect, OnDisconnected, Authenticate,
     Posting, GetNextArticle, UseArticle, PostResponse, ArticlePosted, ArticleRejected, pauseVars
<1>2. CASE \/ \E p \in Posters : ReadAhead(p)
           \/ ErrorReadingFile \/ PauseIsClicked \/ StopIsAsked \/ TunnelGoesDown
           \/ TunnelComesBack \/ BackoffEnds
  BY <1>2 DEF ReadAhead, ErrorReadingFile, PauseIsClicked, StopIsAsked, TunnelGoesDown,
     TunnelComesBack, BackoffEnds, Outside, pauseVars
<1>3. CASE VpnInterrupted
  <2>1. Head(events).reason \in {"User", "Vpn", "Backoff"}
    BY <1>3, EventsType, EventFields DEF VpnInterrupted, Takes, TypeOK
  <2> QED
    BY <1>3, <2>1 DEF VpnInterrupted
<1>4. CASE OnDisconnectedConnection
  BY <1>4 DEF OnDisconnectedConnection
<1>5. CASE OnResumeTriggered \/ VpnRecovered
  BY <1>5 DEF OnResumeTriggered, VpnRecovered
<1>6. CASE \/ OnArticlePosted \/ OnArticleFailed \/ OnNntpFilePosted \/ OnNntpErrorReading
           \/ OnStopPosting \/ Outdated \/ StopConnections \/ Finalize
           \/ \E c \in Connections : KillForStop(c)
  BY <1>6 DEF OnArticlePosted, OnArticleFailed, OnNntpFilePosted, OnNntpErrorReading,
     OnStopPosting, Outdated, StopConnections, Finalize, KillForStop, EndIfLastFile, pauseVars
<1>7. CASE UNCHANGED vars
  BY <1>7 DEF vars, pauseVars
<1> QED
  BY <1>1, <1>2, <1>3, <1>4, <1>5, <1>6, <1>7 DEF Next, MainThread

LEMMA PauseInvStep ==
    ASSUME TypeOK, PauseInv, [Next]_vars
    PROVE  PauseInv'
<1>1. CASE OnPauseClicked
  BY <1>1 DEF OnPauseClicked, PauseJob, ResumeJob, PauseInv
<1>2. ASSUME NEW reason \in {"User", "Vpn", "Backoff"}, NEW pool, PauseJob(reason, pool)
      PROVE  PauseInv'
  BY <1>2 DEF PauseJob, MergedPauseReason, PauseInv
<1>3. CASE FinishPosting \/ \E pool, closed : ResumeJob(pool, closed)
  BY <1>3 DEF FinishPosting, ResumeJob, PauseInv
<1>4. CASE UNCHANGED <<isPaused, pauseReason>>
  BY <1>4 DEF PauseInv
<1> QED
  BY <1>1, <1>2, <1>3, <1>4, PauseSteps

\* A pause the user asked for is lifted by the user or by the end of the job
\* (PostingJob::pause, mergePauseReason): no timer of the backoff, loss or
\* return of the tunnel lifts it or forgets whose it is, in whatever order
\* they are queued.
THEOREM UserPauseCorrect == Spec => UserPauseHolds
<1>1. Init => PauseInv
  BY DEF Init, PauseInv
<1>2. TypeOK /\ PauseInv /\ [Next]_vars =>
        PauseInv'
        /\ [pauseReason = "User" /\ pauseReason' # "User" => OnPauseClicked \/ FinishPosting]_vars
  <2> SUFFICES ASSUME TypeOK, PauseInv, [Next]_vars, pauseReason = "User", pauseReason' # "User"
               PROVE  OnPauseClicked \/ FinishPosting
    BY PauseInvStep
  <2>1. ASSUME NEW reason \in {"User", "Vpn", "Backoff"}, NEW pool, PauseJob(reason, pool)
        PROVE  FALSE
    BY <2>1 DEF PauseJob, MergedPauseReason, PauseInv
  <2> QED
    BY <2>1, PauseSteps
<1> QED
  BY <1>1, <1>2, TypeCorrect, PTL DEF Spec, UserPauseHolds
=============================================================================
