----------------------------- MODULE VpnManager -----------------------------
(***************************************************************************)
(* The VPN manager of ngPost on Linux, the privileged helper it drives     *)
(* through a pipe, and what NgPost does of it for the jobs that need the   *)
(* tunnel: admission, retention, interruption, resume.                     *)
(*                                                                         *)
(* The manager, its backend and NgPost run in the main thread and call one *)
(* another by direct signals, so their handlers are operators from a state *)
(* (a record, see Now) to the next one, and an action applies one of them. *)
(* The helper is a process of its own: commands reach it through `cmds`,   *)
(* what it prints reaches the backend through `out`, each in order but at  *)
(* any time.  Every job of this module needs the tunnel.                   *)
(***************************************************************************)
EXTENDS Naturals, Sequences, FiniteSets

CONSTANTS
    Jobs, NoJob,
    Protocols,              \* of the profiles: "openvpn", "wireguard"
    RecoveryMaxAttempts,    \* VPN_RECOVERY_MAX_ATTEMPTS; 0: no limit
    MaxFaults,              \* bound on the incidents of the tunnel and helper
    MaxClicks               \* bound on start, disconnect and resume by the user

ASSUME VpnAssumption ==
    /\ NoJob \notin Jobs /\ IsFiniteSet(Jobs)
    /\ Protocols \subseteq {"openvpn", "wireguard"}
    /\ {RecoveryMaxAttempts, MaxFaults, MaxClicks} \subseteq Nat

VARIABLES
    \* VpnManager
    state, health,
    recoveryActive, recoveryReason, recoveryAttempts, currentAttemptId,
    activeJobsNeedingVpn, autoStartedByJob,
    timers,         \* those that run: recovery, healthyReset, autoDisconnect, tunPoll
    tunIp,          \* the address to bind to, 0 for none
    \* the backend, its pipes and the helper
    backend, cmds, out, helper,
    protocol,       \* of the active profile
    \* NgPost and its jobs
    activeJob, parked, paused,
    retained,       \* PostingJob::_vpnRetained
    over,           \* jobs that have ended
    exhausted,      \* the dialog of recoveryExhausted() is open
    \* history, for the properties only
    stoppedByUser,  \* the user disconnected and nothing asked for the tunnel since
    upsets,         \* "desync": the count of the manager was not that of the
                    \* jobs; "crash": the helper crashed before it had stopped;
                    \* "late": its address was looked for while it was stopping;
                    \* "unretained": a job was resumed that held no tunnel
    nbFaults, nbClicks

managerVars == <<state, health, recoveryActive, recoveryReason, recoveryAttempts,
                 currentAttemptId, activeJobsNeedingVpn, autoStartedByJob, timers, tunIp>>
helperVars == <<backend, cmds, out, helper, protocol>>
jobVars == <<activeJob, parked, paused, retained, over, exhausted>>
vars == <<managerVars, helperVars, jobVars, stoppedByUser, upsets, nbFaults, nbClicks>>

States == {"Disabled", "Starting", "Connected", "LeaseBusy", "Reconnecting", "Stopping", "Failed"}
Healths == {"Healthy", "Suspect", "RecoveringInternally", "Restarting"}

\* Recovery takes up "lost" only: TunnelLost, HelperExited, ProcessExited,
\* Internal; "busy" is LeaseBusy, "other" every other failure.
FailureKinds == {"none", "lost", "busy", "other"}

NoBackend == [exists |-> FALSE, stopRequested |-> FALSE, wasReady |-> FALSE]
NoHelper == [alive |-> FALSE, running |-> FALSE, health |-> "healthy", gone |-> FALSE,
             ip |-> 0, active |-> FALSE]

\* Commands: RESTART, the attempt, or the end of the input.
EOF == 0

Ready(attempt, ip) == [type |-> "READY", attempt |-> attempt, ip |-> ip]
Message(type) == [type |-> type, attempt |-> 0, ip |-> 0]

TypeOK ==
    /\ state \in States /\ health \in Healths
    /\ recoveryActive \in BOOLEAN /\ recoveryReason \in FailureKinds
    /\ {recoveryAttempts, currentAttemptId, activeJobsNeedingVpn, tunIp} \subseteq Nat
    /\ RecoveryMaxAttempts > 0 => recoveryAttempts <= RecoveryMaxAttempts
    /\ activeJobsNeedingVpn <= 1 /\ autoStartedByJob \in BOOLEAN
    /\ timers \subseteq {"recovery", "healthyReset", "autoDisconnect", "tunPoll"}
    /\ DOMAIN backend = DOMAIN NoBackend /\ DOMAIN helper = DOMAIN NoHelper
    /\ cmds \in Seq(Nat)
    /\ activeJob \in Jobs \cup {NoJob} /\ parked \in Seq(Jobs)
    /\ paused \in {"no", "user", "vpn"} /\ retained \subseteq Jobs /\ over \subseteq Jobs
    /\ {exhausted, stoppedByUser} \subseteq BOOLEAN

Init ==
    /\ state = "Disabled" /\ health = "Healthy"
    /\ recoveryActive = FALSE /\ recoveryReason = "none"
    /\ recoveryAttempts = 0 /\ currentAttemptId = 0
    /\ activeJobsNeedingVpn = 0 /\ autoStartedByJob = FALSE
    /\ timers = {} /\ tunIp = 0
    /\ backend = NoBackend /\ cmds = <<>> /\ out = <<>> /\ helper = NoHelper
    /\ protocol \in Protocols
    /\ activeJob = NoJob /\ parked = <<>> /\ paused = "no" /\ retained = {}
    /\ over = {} /\ exhausted = FALSE
    /\ stoppedByUser = FALSE /\ upsets = {} /\ nbFaults = 0 /\ nbClicks = 0

\* `inStart` and `failedInStart` are the flags of a start() that is running, `ok`
\* and `admission` the results of start() and admitJob().
Now == [state |-> state, health |-> health, rec |-> recoveryActive, reason |-> recoveryReason,
        attempts |-> recoveryAttempts, id |-> currentAttemptId,
        needing |-> activeJobsNeedingVpn, auto |-> autoStartedByJob, timers |-> timers,
        tunIp |-> tunIp, be |-> backend, cmds |-> cmds, out |-> out, helper |-> helper,
        active |-> activeJob, parked |-> parked, paused |-> paused, retained |-> retained,
        exhausted |-> exhausted, stopped |-> stoppedByUser,
        inStart |-> FALSE, failedInStart |-> FALSE, ok |-> TRUE, admission |-> "Proceed",
        upset |-> {}]

Become(s) ==
    /\ state' = s.state /\ health' = s.health
    /\ recoveryActive' = s.rec /\ recoveryReason' = s.reason
    /\ recoveryAttempts' = s.attempts /\ currentAttemptId' = s.id
    /\ activeJobsNeedingVpn' = s.needing /\ autoStartedByJob' = s.auto
    /\ timers' = s.timers /\ tunIp' = s.tunIp
    /\ backend' = s.be /\ cmds' = s.cmds /\ out' = s.out /\ helper' = s.helper
    /\ activeJob' = s.active /\ parked' = s.parked /\ paused' = s.paused
    /\ retained' = s.retained /\ exhausted' = s.exhausted /\ stoppedByUser' = s.stopped
    /\ upsets' = upsets \cup s.upset
                        \cup (IF s.needing # Cardinality(s.retained) THEN {"desync"} ELSE {})
    /\ UNCHANGED protocol

StartTimer(s, t) == [s EXCEPT !.timers = @ \cup {t}]
StopTimers(s, ts) == [s EXCEPT !.timers = @ \ ts]
Parked(j) == \E i \in 1..Len(parked) : parked[i] = j

-----------------------------------------------------------------------------
(* What NgPost does at the signals of the manager. *)

\* VpnBackend::setActive().
SetActive(s, on) == [s EXCEPT !.helper.active = on /\ s.be.exists]

\* As it would be if the manager was not told of the job.
retainForJobUntold(s) == s

retainForJob(s) ==
    SetActive([StopTimers(s, {"autoDisconnect"}) EXCEPT !.needing = @ + 1], TRUE)

_retainVpnForJob(s, j) ==
    IF j \in s.retained THEN s ELSE [retainForJob(s) EXCEPT !.retained = @ \cup {j}]

Activate(s, j) == _retainVpnForJob([s EXCEPT !.active = j, !.paused = "no"], j)

\* The head of the queue becomes active.
StartHead(s) == Activate([s EXCEPT !.parked = Tail(@)], Head(s.parked))

\* As it would be if a job put on pause by the user was resumed too.
OnConnectedAny(s) ==
    IF s.active # NoJob THEN [s EXCEPT !.paused = "no"]
    ELSE IF s.parked # <<>> THEN StartHead(s) ELSE s

\* stateChanged(Connected): the interrupted job goes on, or the head of the
\* queue, admitted at once, starts.
OnConnected(s) ==
    IF s.active # NoJob THEN [s EXCEPT !.paused = IF @ = "vpn" THEN "no" ELSE @]
    ELSE IF s.parked # <<>> THEN StartHead(s) ELSE s

\* stateChanged() to a state in which the manager holds the tunnel for nobody.
OnReleased(s) ==
    IF s.state = "Disabled" \/ (s.state \in {"Failed", "LeaseBusy"} /\ s.needing = 0)
    THEN [s EXCEPT !.retained = @ \ {s.active}] ELSE s

_setState(s, st) ==
    LET t == [s EXCEPT !.state = st]
    IN IF s.state = st THEN s ELSE IF st = "Connected" THEN OnConnected(t) ELSE OnReleased(t)

\* As it would be if the interruption was not told.
vpnInterruptedUntold(s) == s

\* PostingJob::pause(VpnRecovery).
vpnInterrupted(s) ==
    IF s.active # NoJob /\ s.paused = "no" THEN [s EXCEPT !.paused = "vpn"] ELSE s

-----------------------------------------------------------------------------
(* The manager. *)

_cancelAutoDisconnect(s) == StopTimers(s, {"autoDisconnect"})

_setHealth(s, h) ==
    LET t == [s EXCEPT !.health = h]
    IN IF h = s.health \/ h = "Healthy" THEN t
       ELSE StopTimers(t, {"healthyReset", "autoDisconnect"})

_clearTunnelIdentity(s) == [StopTimers(s, {"tunPoll"}) EXCEPT !.tunIp = 0]

\* As it would be if a backend that is replaced was still heard.
_destroyBackendHeard(s) ==
    [s EXCEPT !.be = NoBackend, !.helper = [NoHelper EXCEPT !.ip = s.helper.ip], !.cmds = <<>>]

\* The helper sees the end of its input and is waited for.
_destroyBackend(s) ==
    [s EXCEPT !.be = NoBackend, !.helper = [NoHelper EXCEPT !.ip = s.helper.ip],
              !.cmds = <<>>, !.out = <<>>]

\* As it would be if one attempt too many was let through.
BudgetLeftByOne(s) == RecoveryMaxAttempts = 0 \/ s.attempts <= RecoveryMaxAttempts

BudgetLeft(s) == RecoveryMaxAttempts = 0 \/ s.attempts < RecoveryMaxAttempts

_scheduleExternalRestart(s) ==
    StartTimer(_setState(_setHealth(s, "Restarting"), "Reconnecting"), "recovery")

requestRecovery(s, reason) ==
    IF (s.state = "Stopping" /\ s.be.exists) \/ reason # "lost" \/ s.rec THEN s
    ELSE LET t == _setState(_setHealth([s EXCEPT !.rec = TRUE, !.reason = reason], "Restarting"),
                            "Reconnecting")
         IN _scheduleExternalRestart(
                vpnInterrupted(_cancelAutoDisconnect(_clearTunnelIdentity(t))))

_finishRecoveryExhausted(s) ==
    LET t == _destroyBackend(_setHealth(
                 [StopTimers(s, {"recovery", "healthyReset"}) EXCEPT !.rec = FALSE], "Restarting"))
    IN [vpnInterrupted(_setState(_clearTunnelIdentity(t), "Failed")) EXCEPT !.exhausted = TRUE]

_finishRequestedStop(s) ==
    LET t == _setHealth([StopTimers(s, {"recovery", "healthyReset"}) EXCEPT !.rec = FALSE],
                        "Healthy")
    IN [_destroyBackend(_setState(t, "Disabled")) EXCEPT !.auto = FALSE, !.needing = 0]

RecoversFrom(s, t) ==
    \/ t.kind = "UnexpectedExit" /\ t.wasReady /\ (s.needing > 0 \/ s.auto)
    \/ s.rec

_recoverFromTermination(s, t) ==
    IF t.kind = "UnexpectedExit" /\ t.wasReady /\ (s.needing > 0 \/ s.auto)
    THEN IF s.rec THEN _scheduleExternalRestart(_destroyBackend(s))
         ELSE requestRecovery(_destroyBackend(s), t.failure)
    ELSE IF s.inStart THEN [s EXCEPT !.reason = t.failure, !.failedInStart = TRUE]
    ELSE _scheduleExternalRestart(_destroyBackend([s EXCEPT !.reason = t.failure]))

_finishFailedTermination(s, t) ==
    LET u == _setState(s, IF t.failure = "busy" THEN "LeaseBusy" ELSE "Failed")
        v == IF s.inStart THEN [u EXCEPT !.failedInStart = TRUE] ELSE _destroyBackend(u)
    IN IF t.wasReady THEN v ELSE [v EXCEPT !.needing = 0, !.auto = FALSE]

onBackendTerminated(s, t) ==
    LET u == _cancelAutoDisconnect(_clearTunnelIdentity(s))
    IN IF t.kind = "RequestedStop" THEN _finishRequestedStop(u)
       ELSE IF RecoversFrom(u, t) THEN _recoverFromTermination(u, t)
       ELSE _finishFailedTermination(u, t)

StartFailure(failure) == [kind |-> "StartFailure", failure |-> failure, wasReady |-> FALSE]

_finishBackendStart(s) ==
    [_destroyBackend(_setState(s, IF s.state = "LeaseBusy" THEN "LeaseBusy" ELSE "Failed"))
        EXCEPT !.inStart = FALSE, !.ok = FALSE]

\* The outcomes of start(): "ok", no usable profile, or a backend that reports
\* its failure before it returns.
Outcomes == {"ok", "noConfig", "sync"}

Launch(s) ==
    LET t == [_destroyBackend(s) EXCEPT !.be.exists = TRUE, !.helper.alive = TRUE]
    IN _setState(t, "Starting")

start(s, outcome) ==
    CASE s.state = "Stopping" -> [s EXCEPT !.ok = FALSE]
      [] s.state \in {"Starting", "Connected"} -> [s EXCEPT !.ok = TRUE]
      [] s.state \notin {"Stopping", "Starting", "Connected"} ->
         CASE outcome = "noConfig" -> [_setState(s, "Failed") EXCEPT !.ok = FALSE]
           [] outcome = "sync" ->
                _finishBackendStart(onBackendTerminated([Launch(s) EXCEPT !.inStart = TRUE],
                                                        StartFailure("other")))
           [] OTHER -> [Launch(s) EXCEPT !.ok = TRUE]

\* As it would be if a stop left the recovery to itself.
stopOnly(s) ==
    IF s.state \in {"Disabled", "Stopping"} THEN s
    ELSE LET t == _setState(s, "Stopping")
         IN IF s.be.exists
            THEN [t EXCEPT !.be.stopRequested = TRUE, !.cmds = Append(@, EOF)]
            ELSE [_setState(_setHealth(_clearTunnelIdentity(t), "Healthy"), "Disabled")
                     EXCEPT !.auto = FALSE, !.needing = 0]

\* OpenVpnBackend::stop() closes the input of the helper.
stop(s) ==
    IF s.state \in {"Disabled", "Stopping"} THEN s
    ELSE LET t == _setState([StopTimers(s, {"recovery", "healthyReset"}) EXCEPT !.rec = FALSE],
                            "Stopping")
         IN IF s.be.exists
            THEN [t EXCEPT !.be.stopRequested = TRUE, !.cmds = Append(@, EOF)]
            ELSE [_setState(_setHealth(_clearTunnelIdentity(t), "Healthy"), "Disabled")
                     EXCEPT !.auto = FALSE, !.needing = 0]

\* It does not stop to look for the address: after HEALTHY that goes on.
_completeReady(s) ==
    LET t == _setHealth([StopTimers(s, {"recovery"}) EXCEPT !.rec = FALSE, !.reason = "none"],
                        "Healthy")
    IN StartTimer(_setState(SetActive(t, s.needing > 0), "Connected"), "healthyReset")

\* bindable: the address is there at once.
onBackendReady(s, ip, bindable) ==
    LET t == [s EXCEPT !.tunIp = ip]
    IN IF s.state = "Stopping" THEN s
       ELSE IF bindable THEN _completeReady(StopTimers(t, {"tunPoll"}))
       ELSE StartTimer(t, "tunPoll")

onBackendRestartReady(s, attempt, ip, bindable) ==
    IF attempt # s.id THEN s ELSE onBackendReady(s, ip, bindable)

\* As it would be if a restart that failed was not tried again.
onBackendRestartFailedOnce(s, attempt) ==
    IF attempt # s.id \/ ~s.rec THEN s ELSE [s EXCEPT !.reason = "lost"]

onBackendRestartFailed(s, attempt) ==
    IF attempt # s.id \/ ~s.rec THEN s
    ELSE _scheduleExternalRestart([s EXCEPT !.reason = "lost"])

onRecoveringInternally(s) ==
    IF s.rec /\ s.health = "RecoveringInternally" THEN s
    ELSE IF ~BudgetLeft(s) THEN _finishRecoveryExhausted(s)
    ELSE LET t == [s EXCEPT !.attempts = @ + 1, !.rec = TRUE, !.reason = "lost"]
         IN StartTimer(vpnInterrupted(_setState(_setHealth(t, "RecoveringInternally"),
                                                "Reconnecting")), "recovery")

onBackendHealthChanged(s, h) ==
    CASE s.state = "Stopping" -> s
      [] s.state # "Stopping" /\ h = "Healthy" -> IF s.tunIp = 0 THEN s ELSE _completeReady(s)
      [] s.state # "Stopping" /\ h = "Suspect" -> _setHealth(s, "Suspect")
      [] s.state # "Stopping" /\ h = "RecoveringInternally" -> onRecoveringInternally(s)
      [] s.state # "Stopping" /\ h = "Down" ->
            IF s.rec /\ s.health = "RecoveringInternally"
            THEN _scheduleExternalRestart([s EXCEPT !.reason = "lost"])
            ELSE requestRecovery(s, "lost")

\* A backend that runs is told to restart; otherwise a new one is started.
_performExternalRestart(s, outcome) ==
    IF ~s.rec THEN s
    ELSE IF ~BudgetLeft(s) THEN _finishRecoveryExhausted(s)
    ELSE LET t == [s EXCEPT !.attempts = @ + 1, !.id = @ + 1]
             u == start(_setState(t, "Reconnecting"), outcome)
         IN IF s.be.exists THEN [t EXCEPT !.cmds = Append(@, t.id)]
            ELSE IF u.ok \/ ~u.rec THEN u
            ELSE IF RecoveryMaxAttempts > 0 /\ u.attempts >= RecoveryMaxAttempts
                 THEN _finishRecoveryExhausted(u)
            ELSE _scheduleExternalRestart(u)

retryVpn(s) ==
    IF s.needing = 0 /\ ~s.auto THEN s
    ELSE requestRecovery([s EXCEPT !.attempts = 0, !.rec = FALSE],
                         IF s.reason = "none" THEN "lost" ELSE s.reason)

_startForAdmittedJob(s, outcome) ==
    LET t == start([s EXCEPT !.auto = TRUE, !.stopped = FALSE], outcome)
    IN CASE s.state = "Connected" /\ s.health = "Healthy" -> [s EXCEPT !.admission = "Proceed"]
         [] s.state = "Disabled" ->
               IF t.ok THEN [t EXCEPT !.admission = "Wait"]
               ELSE [t EXCEPT !.auto = FALSE, !.admission = "Blocked"]
         [] OTHER -> [s EXCEPT !.admission = "Wait"]

admitJob(s, outcome) ==
    IF s.state \in {"LeaseBusy", "Failed"} THEN [s EXCEPT !.admission = "Blocked"]
    ELSE _startForAdmittedJob(s, outcome)

releaseForJob(s) ==
    LET n == IF s.needing > 0 THEN s.needing - 1 ELSE 0
        t == IF n = 0 THEN SetActive([s EXCEPT !.needing = n], FALSE)
             ELSE [s EXCEPT !.needing = n]
    IN IF n > 0 THEN t
       ELSE IF s.auto /\ (s.rec \/ s.state = "Reconnecting"
                            \/ (s.state = "Connected" /\ s.health # "Healthy"))
            THEN stop([t EXCEPT !.auto = FALSE])
       ELSE IF s.state \in {"Disabled", "Failed", "LeaseBusy"} THEN [t EXCEPT !.auto = FALSE]
       ELSE IF s.auto /\ s.state = "Connected" THEN StartTimer(t, "autoDisconnect")
       ELSE t

_releaseVpnForJob(s, j) ==
    IF j \in s.retained THEN releaseForJob([s EXCEPT !.retained = @ \ {j}]) ELSE s

-----------------------------------------------------------------------------
(* The user and the jobs. *)

\* A call that may start the helper; anything but "ok" is an incident.
Try(outcome) ==
    IF outcome = "ok" THEN UNCHANGED nbFaults
    ELSE nbFaults < MaxFaults /\ nbFaults' = nbFaults + 1
Click == ~exhausted /\ nbClicks < MaxClicks /\ nbClicks' = nbClicks + 1
NoClick == UNCHANGED nbClicks

\* startPostingJob(); behind an active job it waits.
SubmitJob(j, outcome) ==
    /\ j # activeJob /\ ~Parked(j) /\ j \notin over
    /\ Try(outcome)
    /\ LET s == admitJob(Now, outcome)
       IN Become(IF s.admission = "Proceed" /\ activeJob = NoJob THEN Activate(s, j)
                 ELSE [s EXCEPT !.parked = Append(@, j)])
    /\ UNCHANGED over /\ NoClick

\* The active job ends, by itself or stopped, and the next one is admitted.
JobEnds(outcome) ==
    /\ activeJob # NoJob
    /\ Try(outcome)
    /\ LET s == _releaseVpnForJob([Now EXCEPT !.active = NoJob, !.paused = "no"], activeJob)
           t == admitJob(s, outcome)
       IN Become(IF parked = <<>> THEN s
                 ELSE IF t.admission = "Proceed" THEN StartHead(t) ELSE t)
    /\ over' = over \cup {activeJob} /\ NoClick

\* NgPost::_resumeActiveJob().
ResumeJob(outcome) ==
    /\ Click /\ activeJob # NoJob /\ paused # "no"
    /\ Try(outcome)
    /\ LET s == admitJob(Now, outcome)
       IN Become(CASE state = "Connected" /\ health = "Healthy" ->
                        [Now EXCEPT !.paused = "no",
                                    !.upset = IF activeJob \in retained THEN {} ELSE {"unretained"}]
                   [] ~(state = "Connected" /\ health = "Healthy") /\ paused = "user"
                         /\ state # "Stopping" ->
                        (IF s.admission = "Wait"
                         THEN _retainVpnForJob([s EXCEPT !.paused = "vpn"], activeJob) ELSE s)
                   [] OTHER -> Now)
    /\ UNCHANGED over

\* The start button of the VPN dialog.
StartByUser(outcome) ==
    /\ Click /\ state \in {"Disabled", "Failed", "LeaseBusy"}
    /\ Try(outcome)
    /\ Become(start([Now EXCEPT !.stopped = FALSE], outcome))
    /\ UNCHANGED over

\* The stop button; manualDisconnectRequested() puts the job on a user pause
\* first.
disconnectByUser ==
    /\ Click /\ state \in {"Starting", "Connected", "Reconnecting"}
    /\ LET s == IF activeJobsNeedingVpn > 0 /\ activeJob # NoJob
                THEN [Now EXCEPT !.paused = "user"] ELSE Now
       IN Become(stop([s EXCEPT !.stopped = TRUE]))
    /\ UNCHANGED <<over, nbFaults>>

\* "Retry" in the dialog of recoveryExhausted(); a job that is stopped instead
\* ends like any other.
AnswerExhausted(retry) ==
    /\ exhausted
    /\ Become([(IF retry THEN retryVpn([Now EXCEPT !.stopped = FALSE]) ELSE Now)
                  EXCEPT !.exhausted = FALSE])
    /\ UNCHANGED <<over, nbFaults>> /\ NoClick

-----------------------------------------------------------------------------
(* The timers. *)

RecoveryTimeout(outcome) ==
    /\ "recovery" \in timers
    /\ Try(outcome)
    /\ Become(_performExternalRestart(StopTimers(Now, {"recovery"}), outcome))
    /\ UNCHANGED over /\ NoClick

HealthyResetTimeout ==
    /\ "healthyReset" \in timers
    /\ Become([StopTimers(Now, {"healthyReset"}) EXCEPT
                  !.attempts = IF state = "Connected" /\ health = "Healthy" /\ ~recoveryActive
                               THEN 0 ELSE @])
    /\ UNCHANGED <<over, nbFaults>> /\ NoClick

Idle == /\ state = "Connected" /\ health = "Healthy" /\ ~recoveryActive
        /\ activeJobsNeedingVpn = 0 /\ autoStartedByJob

onAutoDisconnectTimeout ==
    /\ "autoDisconnect" \in timers
    /\ LET s == StopTimers(Now, {"autoDisconnect"})
       IN Become(IF Idle THEN stop([s EXCEPT !.auto = FALSE]) ELSE s)
    /\ UNCHANGED <<over, nbFaults>> /\ NoClick

\* The address appears, or has not after 5 s: a tunnel that is down has lost its
\* address, or was watched for longer than that.
PollTunIp(bindable) ==
    /\ "tunPoll" \in timers /\ (bindable => helper.health # "down")
    /\ IF bindable \/ helper.health = "down" THEN UNCHANGED nbFaults ELSE nbFaults < MaxFaults /\ nbFaults' = nbFaults + 1
    /\ LET s == [StopTimers(Now, {"tunPoll"}) EXCEPT
                    !.upset = IF state = "Stopping" THEN {"late"} ELSE {}]
       IN Become(IF bindable THEN _completeReady(s)
                 ELSE onBackendTerminated(s,
                        [kind |-> "UnexpectedExit", failure |-> "lost", wasReady |-> TRUE]))
    /\ UNCHANGED over /\ NoClick

-----------------------------------------------------------------------------
(* What the helper prints. *)

Termination(m) ==
    CASE m.type \in {"busy", "lost", "other"} -> StartFailure(m.type)
      [] m.type = "EXIT" /\ backend.stopRequested ->
            [kind |-> "RequestedStop", failure |-> "none", wasReady |-> backend.wasReady]
      [] OTHER -> IF backend.wasReady
                  THEN [kind |-> "UnexpectedExit", failure |-> "lost", wasReady |-> TRUE]
                  ELSE StartFailure("other")

\* OpenVpnBackend::_handleLine(), onProcessFinished() and onProcessError().
Handle(s, m, bindable) ==
    LET r == [s EXCEPT !.be.wasReady = TRUE]
    IN CASE m.type = "READY" /\ m.attempt = 0 -> onBackendReady(r, m.ip, bindable)
         [] m.type = "READY" /\ m.attempt # 0 ->
               onBackendRestartReady(r, m.attempt, m.ip, bindable)
         [] m.type = "RESTART_FAILED" -> onBackendRestartFailed(s, m.attempt)
         [] m.type \in {"Healthy", "Suspect", "RecoveringInternally", "Down"} ->
               onBackendHealthChanged(s, m.type)
         [] m.type \in {"busy", "lost", "other", "EXIT", "CRASH"} ->
               onBackendTerminated(s, Termination(m))

Crashed == Head(out).type = "CRASH" /\ state = "Stopping"

Receive(bindable) ==
    /\ out # <<>>
    /\ Become(Handle([Now EXCEPT !.out = Tail(@), !.upset = IF Crashed THEN {"crash"} ELSE {}],
                     Head(out), bindable))
    /\ UNCHANGED <<over, nbFaults>> /\ NoClick

-----------------------------------------------------------------------------
(* The helper. *)

HelperStep == UNCHANGED <<managerVars, jobVars, backend, protocol, stoppedByUser, nbClicks>>
Fault == nbFaults < MaxFaults /\ nbFaults' = nbFaults + 1
NoFault == UNCHANGED <<nbFaults, upsets>>
Say(ms) == out' = out \o ms
MayDie == [helper EXCEPT !.alive = FALSE]

HelperStarts ==
    /\ helper.alive /\ ~helper.running
    /\ LET ip == helper.ip + 1
       IN /\ helper' = [helper EXCEPT !.running = TRUE, !.ip = ip, !.health = "healthy"]
          /\ Say(<<Ready(0, ip)>>)
    /\ UNCHANGED cmds /\ NoFault /\ HelperStep

\* The lease is taken, the tunnel cannot be made (an internal error), or the
\* profile is refused.
HelperStartFails(why) ==
    /\ helper.alive /\ ~helper.running /\ Fault
    /\ helper' = MayDie /\ Say(<<Message(why), Message("EXIT")>>)
    /\ UNCHANGED <<cmds, upsets>> /\ HelperStep

\* set_global_health() tells the changes only; WireGuard is watched while a job
\* is active.
Watched == helper.alive /\ helper.running /\ (protocol = "wireguard" => helper.active)

HelperSuspects ==
    /\ Watched /\ helper.health = "healthy" /\ ~helper.gone /\ Fault
    /\ helper' = [helper EXCEPT !.health = "suspect"]
    /\ Say(<<Message(IF protocol = "openvpn" THEN "RecoveringInternally" ELSE "Suspect")>>)
    /\ UNCHANGED <<cmds, upsets>> /\ HelperStep

\* After a reconnection OpenVPN may have another address.
HelperHeals(moved) ==
    /\ Watched /\ helper.health \in {"suspect", "down"} /\ ~helper.gone
    /\ moved => protocol = "openvpn"
    /\ LET ip == IF moved THEN helper.ip + 1 ELSE helper.ip
       IN /\ helper' = [helper EXCEPT !.health = "healthy", !.ip = ip]
          /\ Say((IF moved THEN <<Ready(0, ip)>> ELSE <<>>) \o <<Message("Healthy")>>)
    /\ UNCHANGED cmds /\ NoFault /\ HelperStep

HelperGoesDown ==
    /\ Watched /\ helper.health # "down"
    /\ IF helper.gone THEN NoFault ELSE Fault /\ UNCHANGED upsets
    /\ helper' = [helper EXCEPT !.health = "down"] /\ Say(<<Message("Down")>>)
    /\ UNCHANGED cmds /\ HelperStep

\* RESTART, or the end of the input.
HelperReads(ok) ==
    /\ helper.alive /\ helper.running /\ cmds # <<>> /\ cmds' = Tail(cmds)
    /\ IF Head(cmds) = EOF
       THEN ok /\ helper' = MayDie /\ Say(<<Message("EXIT")>>) /\ NoFault
       ELSE IF ok
       THEN LET ip == helper.ip + 1
            IN /\ helper' = [helper EXCEPT !.ip = ip, !.health = "healthy", !.gone = FALSE]
               /\ Say(<<Ready(Head(cmds), ip)>>) /\ NoFault
       ELSE /\ Fault /\ UNCHANGED upsets
            /\ helper' = [helper EXCEPT !.gone = TRUE]
            /\ Say(<<[Message("RESTART_FAILED") EXCEPT !.attempt = Head(cmds)]>>)
    /\ HelperStep

HelperCrashes ==
    /\ helper.alive /\ Fault
    /\ helper' = MayDie /\ Say(<<Message("CRASH")>>)
    /\ UNCHANGED <<cmds, upsets>> /\ HelperStep

-----------------------------------------------------------------------------
User ==
    \/ \E j \in Jobs, o \in Outcomes : SubmitJob(j, o)
    \/ \E o \in Outcomes : ResumeJob(o) \/ StartByUser(o) \/ JobEnds(o)
    \/ disconnectByUser
    \/ \E retry \in BOOLEAN : AnswerExhausted(retry)

Timeouts ==
    \/ \E o \in Outcomes : RecoveryTimeout(o)
    \/ HealthyResetTimeout \/ onAutoDisconnectTimeout
    \/ \E b \in BOOLEAN : PollTunIp(b)

Helper ==
    \/ HelperStarts \/ HelperSuspects \/ HelperGoesDown \/ HelperCrashes
    \/ \E why \in {"busy", "lost", "other"} : HelperStartFails(why)
    \/ \E b \in BOOLEAN : HelperHeals(b) \/ HelperReads(b)

Next == User \/ Timeouts \/ Helper \/ \E b \in BOOLEAN : Receive(b)

Spec == Init /\ [][Next]_vars

-----------------------------------------------------------------------------
\* What the user disconnected stays so until something asks for the tunnel
\* again: no timer and no late answer of the helper brings it back.  (If the
\* helper crashes instead of stopping, it does.)
UserStopWins ==
    stoppedByUser /\ upsets \cap {"crash", "late"} = {}
        => state \in {"Stopping", "Disabled", "Failed", "LeaseBusy"}

\* Nothing but the user takes the tunnel down under a job that runs: neither
\* the idle timer nor the release by an earlier job.
OnlyUserStopsUnderJob ==
    [][state # "Stopping" /\ state' = "Stopping"
          => activeJob' = NoJob \/ disconnectByUser]_vars

\* A job posts through the tunnel, or is on pause, as long as the manager knows
\* that the job holds it.  (It does not of a job that the user resumes after the
\* tunnel was disconnected and started again.)
JobPausedWithoutTunnel ==
    activeJob # NoJob /\ paused = "no" /\ upsets = {}
        => state = "Connected" /\ tunIp # 0

\* "Keep the job's local association in sync so a later user retry retains it
\* once" (_initVpnManager()): a job that posts is one the tunnel is kept for.
\* A resume does not retain it while the tunnel is up.
RunningIsRetained ==
    activeJob # NoJob /\ paused = "no" /\ upsets \subseteq {"unretained"}
        => activeJob \in retained

\* Once every message is taken, a tunnel said to be healthy is up, and the
\* address jobs bind to is the one it has, whatever was said, restarted and
\* answered late before; or a restart overtaken by an answer of the tunnel has
\* failed, which the helper says once it looks.
ConnectedIsTrue ==
    state = "Connected" /\ health = "Healthy" /\ out = <<>> /\ cmds = <<>>
        => /\ helper.alive /\ helper.running /\ helper.health # "down"
           /\ tunIp = helper.ip \/ helper.gone

\* A state that is to change has something that will change it: a timer, a
\* message, a command, or a helper that starts.
ChangeIsComing ==
    state \in {"Starting", "Reconnecting", "Stopping"}
        => \/ timers \cap {"recovery", "tunPoll"} # {} \/ out # <<>>
           \/ helper.alive /\ (cmds # <<>> \/ ~helper.running)

\* Only the user, or its end, lifts the pause that the user put a job on.
UserPauseIsKept ==
    [][\A j \in Jobs : activeJob = j /\ paused = "user" /\ activeJob' = j /\ paused' # "user"
          => \E o \in Outcomes : ResumeJob(o)]_vars
=============================================================================
