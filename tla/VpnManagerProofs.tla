-------------------------- MODULE VpnManagerProofs --------------------------
(***************************************************************************)
(* Proofs about VpnManager.                                                *)
(***************************************************************************)
EXTENDS VpnManager, FiniteSetTheorems, TLAPS

-----------------------------------------------------------------------------
(* Sequences: the pipes and the queue. *)

Elems(q) == {q[i] : i \in 1..Len(q)}
IsInjectiveSeq(q) == \A i, k \in 1..Len(q) : q[i] = q[k] => i = k

LEMMA ElemsTail ==
    ASSUME NEW X, NEW q \in Seq(X), q # <<>>
    PROVE  /\ Tail(q) \in Seq(X) /\ Head(q) \in X
           /\ Elems(q) = Elems(Tail(q)) \cup {Head(q)}
           /\ IsInjectiveSeq(q) => IsInjectiveSeq(Tail(q)) /\ Head(q) \notin Elems(Tail(q))
<1>1. /\ Tail(q) \in Seq(X) /\ Len(Tail(q)) = Len(q) - 1 /\ Len(q) \in Nat /\ Len(q) > 0
      /\ \A i \in 1..Len(Tail(q)) : Tail(q)[i] = q[i + 1]
      /\ Head(q) = q[1] /\ Head(q) \in X
  OBVIOUS
<1> DEFINE t == Tail(q)
<1> HIDE DEF t
<1>2. ASSUME NEW y PROVE y \in Elems(q) <=> y \in Elems(t) \cup {q[1]}
  <2>1. ASSUME NEW i \in 1..Len(q) PROVE q[i] \in Elems(t) \cup {q[1]}
    <3>1. CASE i = 1
      BY <3>1
    <3>2. CASE i # 1
      <4>1. i - 1 \in 1..Len(t) /\ t[i - 1] = q[i]
        BY <1>1, <3>2 DEF t
      <4> QED
        BY <4>1 DEF Elems
    <3> QED
      BY <3>1, <3>2
  <2>2. ASSUME NEW i \in 1..Len(t) PROVE t[i] \in Elems(q)
    BY <1>1 DEF Elems, t
  <2>3. q[1] \in Elems(q)
    BY <1>1 DEF Elems
  <2> QED
    BY <2>1, <2>2, <2>3 DEF Elems
<1>3. ASSUME IsInjectiveSeq(q)
      PROVE  IsInjectiveSeq(t) /\ q[1] \notin Elems(t)
  BY <1>1, <1>3 DEF IsInjectiveSeq, Elems, t
<1> QED
  BY <1>1, <1>2, <1>3 DEF t

LEMMA ElemsConcat ==
    ASSUME NEW X, NEW q \in Seq(X), NEW r \in Seq(X)
    PROVE  q \o r \in Seq(X) /\ Elems(q \o r) = Elems(q) \cup Elems(r)
<1> DEFINE c == q \o r
<1>1. /\ c \in Seq(X) /\ Len(c) = Len(q) + Len(r) /\ Len(q) \in Nat /\ Len(r) \in Nat
      /\ \A i \in 1..Len(q) : c[i] = q[i]
      /\ \A i \in 1..Len(r) : c[Len(q) + i] = r[i]
  OBVIOUS
<1> HIDE DEF c
<1>2. ASSUME NEW i \in 1..Len(c) PROVE c[i] \in Elems(q) \cup Elems(r)
  <2>1. CASE i \in 1..Len(q)
    BY <1>1, <2>1 DEF Elems
  <2>2. CASE i \notin 1..Len(q)
    <3>1. i - Len(q) \in 1..Len(r) /\ c[i] = r[i - Len(q)]
      BY <1>1, <2>2, SMTT(30)
    <3> QED
      BY <3>1 DEF Elems
  <2> QED
    BY <2>1, <2>2
<1>3. ASSUME NEW i \in 1..Len(q) PROVE q[i] \in Elems(c)
  BY <1>1 DEF Elems
<1>4. ASSUME NEW i \in 1..Len(r) PROVE r[i] \in Elems(c)
  <2>1. Len(q) + i \in 1..Len(c) /\ c[Len(q) + i] = r[i]
    BY <1>1
  <2> QED
    BY <2>1 DEF Elems
<1>5. Elems(c) = Elems(q) \cup Elems(r)
  BY <1>2, <1>3, <1>4 DEF Elems
<1> QED
  BY <1>1, <1>5 DEF c

LEMMA ElemsFew ==
    ASSUME NEW a, NEW b
    PROVE  Elems(<<>>) = {} /\ Elems(<<a>>) = {a} /\ Elems(<<a, b>>) = {a, b}
BY DEF Elems

LEMMA SeqFew ==
    ASSUME NEW X, NEW a \in X
    PROVE  /\ <<a>> \in Seq(X) /\ Elems(<<a>>) = {a}
           /\ \A b \in X : <<a, b>> \in Seq(X) /\ Elems(<<a, b>>) = {a, b}
<1>1. <<a>> \in Seq(X) /\ \A b \in X : <<a, b>> \in Seq(X)
  OBVIOUS
<1> QED
  BY <1>1, ElemsFew

LEMMA InjectiveAppend ==
    ASSUME NEW X, NEW q \in Seq(X), NEW x \in X, IsInjectiveSeq(q), x \notin Elems(q)
    PROVE  /\ Append(q, x) \in Seq(X) /\ IsInjectiveSeq(Append(q, x))
           /\ Elems(Append(q, x)) = Elems(q) \cup {x}
<1> DEFINE r == Append(q, x)
<1>1. /\ r \in Seq(X) /\ Len(r) = Len(q) + 1 /\ r[Len(q) + 1] = x /\ Len(q) \in Nat
      /\ \A i \in 1..Len(q) : r[i] = q[i]
  OBVIOUS
<1> HIDE DEF r
<1>2. IsInjectiveSeq(r)
  BY <1>1 DEF IsInjectiveSeq, Elems
<1>3. ASSUME NEW y PROVE y \in Elems(r) <=> y \in Elems(q) \cup {x}
  BY <1>1 DEF Elems
<1> QED
  BY <1>1, <1>2, <1>3 DEF r

-----------------------------------------------------------------------------
(* The states the handlers pass from one to the next. *)

Fields == {"state", "health", "rec", "reason", "attempts", "id", "needing", "auto", "timers",
           "tunIp", "be", "cmds", "out", "helper", "active", "parked", "paused", "retained",
           "exhausted", "stopped", "inStart", "failedInStart", "ok", "admission", "upset"}

StartFailures == {"busy", "lost", "other"}
Terminal == StartFailures \cup {"EXIT", "CRASH"}
Reports == {"Healthy", "Suspect", "RecoveringInternally", "Down"}
Messages == [type : Terminal \cup {"READY", "RESTART_FAILED"} \cup Reports,
             attempt : Nat, ip : Nat]
Timers == {"recovery", "healthyReset", "autoDisconnect", "tunPoll"}
Backends == [exists : BOOLEAN, stopRequested : BOOLEAN, wasReady : BOOLEAN]
Helpers == [alive : BOOLEAN, running : BOOLEAN, health : {"healthy", "suspect", "down"},
            gone : BOOLEAN, ip : Nat, active : BOOLEAN]

WithinBudget(n) == RecoveryMaxAttempts > 0 => n <= RecoveryMaxAttempts

IsState(s) ==
    /\ s = [f \in Fields |-> s[f]]
    /\ s.state \in States /\ s.health \in Healths
    /\ s.rec \in BOOLEAN /\ s.reason \in FailureKinds
    /\ s.attempts \in Nat /\ s.id \in Nat /\ s.needing \in Nat /\ s.tunIp \in Nat
    /\ WithinBudget(s.attempts)
    /\ s.auto \in BOOLEAN /\ s.timers \subseteq Timers
    /\ s.be \in Backends /\ s.helper \in Helpers
    /\ s.cmds \in Seq(Nat) /\ s.out \in Seq(Messages)
    /\ s.active \in Jobs \cup {NoJob} /\ s.parked \in Seq(Jobs)
    /\ s.paused \in {"no", "user", "vpn"} /\ s.retained \subseteq Jobs
    /\ s.exhausted \in BOOLEAN /\ s.stopped \in BOOLEAN
    /\ s.inStart \in BOOLEAN /\ s.ok \in BOOLEAN

\* Nothing but the fields F changes from s to t.
Only(s, t, F) == \A f \in Fields \ F : t[f] = s[f]

\* The changes of one step after those of another.
LEMMA OnlyTrans ==
    ASSUME NEW s, NEW a, NEW t, NEW F, NEW G, Only(s, a, F), Only(a, t, G)
    PROVE  Only(s, t, F \cup G)
BY DEF Only

\* No backend, no helper, nothing in the pipes.
Dead(t) ==
    /\ t.be = NoBackend /\ t.cmds = <<>> /\ t.out = <<>>
    /\ t.helper = [NoHelper EXCEPT !.ip = t.helper.ip]

LEMMA SetActiveIs ==
    ASSUME NEW s, IsState(s), NEW on \in BOOLEAN
    PROVE  LET t == SetActive(s, on)
           IN /\ IsState(t) /\ Only(s, t, {"helper"})
              /\ \E b \in BOOLEAN : t.helper = [s.helper EXCEPT !.active = b]
              /\ ~s.be.exists \/ ~on => ~t.helper.active
BY DEF SetActive, IsState, Only, Fields, Helpers, Backends

LEMMA SetHealthIs ==
    ASSUME NEW s, IsState(s), NEW h \in Healths
    PROVE  LET t == _setHealth(s, h)
           IN /\ IsState(t) /\ Only(s, t, {"health", "timers"}) /\ t.health = h
              /\ t.timers \subseteq s.timers
              /\ s.timers \ t.timers \subseteq {"healthyReset", "autoDisconnect"}
BY DEF _setHealth, StopTimers, IsState, Only, Fields

LEMMA DestroyBackendIs ==
    ASSUME NEW s, IsState(s)
    PROVE  LET t == _destroyBackend(s)
           IN /\ IsState(t) /\ Only(s, t, {"be", "cmds", "out", "helper"}) /\ Dead(t)
              /\ t.helper.ip = s.helper.ip
<1> DEFINE h == [NoHelper EXCEPT !.ip = s.helper.ip]
           t == [s EXCEPT !.be = NoBackend, !.helper = h, !.cmds = <<>>, !.out = <<>>]
<1>1. h \in Helpers /\ h.ip = s.helper.ip /\ NoBackend \in Backends
  BY DEF IsState, NoHelper, NoBackend, Helpers, Backends
<1>2. /\ t.be = NoBackend /\ t.helper = h /\ t.cmds = <<>> /\ t.out = <<>>
      /\ Only(s, t, {"be", "cmds", "out", "helper"}) /\ t = [f \in Fields |-> t[f]]
  BY DEF IsState, Only, Fields
<1>3. _destroyBackend(s) = t
  BY DEF _destroyBackend
<1>6. <<>> \in Seq(Nat) /\ <<>> \in Seq(Messages)
  OBVIOUS
<1> HIDE DEF t
<1>4. IsState(t)
  <2> HIDE DEF h
  <2> QED
    BY <1>1, <1>2, <1>6 DEF IsState, Only, Fields
<1>5. Dead(t)
  BY <1>1, <1>2 DEF Dead
<1> QED
  BY <1>1, <1>2, <1>3, <1>4, <1>5

LEMMA InterruptedIs ==
    ASSUME NEW s, IsState(s)
    PROVE  LET t == vpnInterrupted(s)
           IN /\ IsState(t) /\ Only(s, t, {"paused"})
              /\ t.paused = IF s.active # NoJob /\ s.paused = "no" THEN "vpn" ELSE s.paused
BY SMTT(90) DEF vpnInterrupted, IsState, Only, Fields

LEMMA ClearIdentityIs ==
    ASSUME NEW s, IsState(s)
    PROVE  LET t == _clearTunnelIdentity(s)
           IN /\ IsState(t) /\ Only(s, t, {"tunIp", "timers"})
              /\ t.tunIp = 0 /\ t.timers = s.timers \ {"tunPoll"}
BY DEF _clearTunnelIdentity, StopTimers, IsState, Only, Fields

\* What a change to a state other than Connected does.
LEMMA SetStateIs ==
    ASSUME NEW s, IsState(s), NEW st \in States, st # "Connected"
    PROVE  LET t == _setState(s, st)
           IN /\ IsState(t) /\ Only(s, t, {"state", "retained"}) /\ t.state = st
              /\ s.state = st => t = s
              /\ \/ t.retained = s.retained
                 \/ /\ t.retained = s.retained \ {s.active}
                    /\ st = "Disabled" \/ (st \in {"Failed", "LeaseBusy"} /\ s.needing = 0)
<1> DEFINE t == [s EXCEPT !.state = st]
           u == [t EXCEPT !.retained = @ \ {t.active}]
<1>1. IsState(t) /\ Only(s, t, {"state"}) /\ t.state = st
  BY DEF IsState, Only, Fields
<1>2. IsState(u) /\ Only(t, u, {"retained"}) /\ u.retained = t.retained \ {t.active}
  BY <1>1, ZenonT(60) DEF IsState, Only, Fields
<1>3. CASE s.state = st
  <2>1. _setState(s, st) = s
    BY <1>3 DEF _setState
  <2> QED
    BY <1>3, <2>1 DEF Only
<1>4. CASE s.state # st /\ OnReleased(t) = t
  <2>1. _setState(s, st) = t
    BY <1>4 DEF _setState
  <2> HIDE DEF t
  <2> QED
    BY <1>1, <1>4, <2>1 DEF Only, Fields
<1>5. CASE s.state # st /\ OnReleased(t) # t
  <2>1. _setState(s, st) = u
    BY <1>5 DEF _setState, OnReleased
  <2>2. t.state = "Disabled" \/ (t.state \in {"Failed", "LeaseBusy"} /\ t.needing = 0)
    BY <1>5 DEF OnReleased
  <2> HIDE DEF t, u
  <2> QED
    BY <1>1, <1>2, <1>5, <2>1, <2>2 DEF Only, Fields
<1> QED
  BY <1>3, <1>4, <1>5

-----------------------------------------------------------------------------
(* What the parts of a recovery and of an end do. *)

LEMMA ScheduleIs ==
    ASSUME NEW s, IsState(s)
    PROVE  LET t == _scheduleExternalRestart(s)
           IN /\ IsState(t) /\ Only(s, t, {"state", "health", "timers"})
              /\ t.state = "Reconnecting" /\ "recovery" \in t.timers
              /\ t.timers \subseteq s.timers \cup {"recovery"}
              /\ s.timers \ t.timers \subseteq {"healthyReset", "autoDisconnect"}
<1> DEFINE a == _setHealth(s, "Restarting")
           b == _setState(a, "Reconnecting")
           t == StartTimer(b, "recovery")
<1>1. /\ IsState(a) /\ Only(s, a, {"health", "timers"}) /\ a.timers \subseteq s.timers
      /\ s.timers \ a.timers \subseteq {"healthyReset", "autoDisconnect"}
  BY SetHealthIs DEF Healths
<1> HIDE DEF a
<1>2. /\ IsState(b) /\ Only(a, b, {"state", "retained"}) /\ b.state = "Reconnecting"
      /\ b.retained = a.retained
  BY <1>1, SetStateIs DEF States
<1> HIDE DEF b
<1>3. IsState(t) /\ Only(b, t, {"timers"}) /\ t.timers = b.timers \cup {"recovery"}
  BY <1>2 DEF StartTimer, IsState, Only, Fields, Timers
<1> HIDE DEF t
<1>4. Only(s, t, {"state", "health", "timers"})
  BY <1>1, <1>2, <1>3 DEF Only, Fields
<1>5. b.timers = a.timers /\ t.state = b.state
  BY <1>2, <1>3 DEF Only, Fields
<1> QED
  BY <1>1, <1>2, <1>3, <1>4, <1>5 DEF _scheduleExternalRestart, a, b, t

\* The job that is active goes on pause if it posts.
Interrupted(s, t) ==
    t.paused = IF s.active # NoJob /\ s.paused = "no" THEN "vpn" ELSE s.paused

LEMMA RecoveryIs ==
    ASSUME NEW s, IsState(s), ~(s.state = "Stopping" /\ s.be.exists), ~s.rec
    PROVE  LET t == requestRecovery(s, "lost")
           IN /\ IsState(t)
              /\ Only(s, t, {"rec", "reason", "state", "health", "timers", "tunIp", "paused"})
              /\ t.state = "Reconnecting" /\ t.rec /\ t.tunIp = 0 /\ "recovery" \in t.timers
              /\ t.timers \subseteq (s.timers \ {"tunPoll", "autoDisconnect"}) \cup {"recovery"}
              /\ Interrupted(s, t)
<1> DEFINE r == [s EXCEPT !.rec = TRUE, !.reason = "lost"]
           a == _setHealth(r, "Restarting")
           b == _setState(a, "Reconnecting")
           c == _clearTunnelIdentity(b)
           d == _cancelAutoDisconnect(c)
           e == vpnInterrupted(d)
           t == _scheduleExternalRestart(e)
<1>0. requestRecovery(s, "lost") = t
  BY DEF requestRecovery
<1>1. IsState(r) /\ Only(s, r, {"rec", "reason"}) /\ r.rec
  BY DEF IsState, Only, Fields, FailureKinds
<1> HIDE DEF r
<1>2. IsState(a) /\ Only(r, a, {"health", "timers"}) /\ a.timers \subseteq r.timers
  BY <1>1, SetHealthIs DEF Healths
<1> HIDE DEF a
<1>3. IsState(b) /\ Only(a, b, {"state", "retained"}) /\ b.retained = a.retained
  BY <1>2, SetStateIs DEF States
<1> HIDE DEF b
<1>4. /\ IsState(c) /\ Only(b, c, {"tunIp", "timers"})
      /\ c.tunIp = 0 /\ c.timers = b.timers \ {"tunPoll"}
  BY <1>3, ClearIdentityIs
<1> HIDE DEF c
<1>5. IsState(d) /\ Only(c, d, {"timers"}) /\ d.timers = c.timers \ {"autoDisconnect"}
  BY <1>4 DEF _cancelAutoDisconnect, StopTimers, IsState, Only, Fields
<1> HIDE DEF d
<1>6. IsState(e) /\ Only(d, e, {"paused"}) /\ Interrupted(d, e)
  BY <1>5, InterruptedIs DEF Interrupted
<1> HIDE DEF e
<1>7. /\ IsState(t) /\ Only(e, t, {"state", "health", "timers"})
      /\ t.state = "Reconnecting" /\ "recovery" \in t.timers
      /\ t.timers \subseteq e.timers \cup {"recovery"}
  BY <1>6, ScheduleIs
<1> HIDE DEF t
<1>8. Only(s, t, {"rec", "reason", "state", "health", "timers", "tunIp", "paused"})
  BY <1>1, <1>2, <1>3, <1>4, <1>5, <1>6, <1>7 DEF Only, Fields
<1>9. t.rec = r.rec /\ t.tunIp = c.tunIp /\ t.paused = e.paused
  BY <1>1, <1>2, <1>3, <1>4, <1>5, <1>6, <1>7, ZenonT(90) DEF Only, Fields
<1>10. /\ d.paused = s.paused /\ d.active = s.active
       /\ a.timers \subseteq s.timers /\ b.timers = a.timers /\ e.timers = d.timers
  BY <1>1, <1>2, <1>3, <1>4, <1>5, <1>6 DEF Only, Fields
<1>11. Interrupted(s, t)
  BY <1>6, <1>9, <1>10 DEF Interrupted
<1> QED
  BY <1>0, <1>1, <1>4, <1>5, <1>7, <1>8, <1>9, <1>10, <1>11

LEMMA ExhaustedIs ==
    ASSUME NEW s, IsState(s)
    PROVE  LET t == _finishRecoveryExhausted(s)
           IN /\ IsState(t)
              /\ Only(s, t, {"rec", "state", "health", "timers", "tunIp", "paused", "retained",
                             "exhausted", "be", "cmds", "out", "helper"})
              /\ t.state = "Failed" /\ ~t.rec /\ t.tunIp = 0 /\ Dead(t) /\ t.exhausted
              /\ t.timers \subseteq s.timers \ {"recovery", "tunPoll"}
              /\ Interrupted(s, t)
              /\ \/ t.retained = s.retained
                 \/ t.retained = s.retained \ {s.active} /\ s.needing = 0
<1> DEFINE r == [StopTimers(s, {"recovery", "healthyReset"}) EXCEPT !.rec = FALSE]
           a == _setHealth(r, "Restarting")
           b == _destroyBackend(a)
           c == _clearTunnelIdentity(b)
           d == _setState(c, "Failed")
           e == vpnInterrupted(d)
           t == [e EXCEPT !.exhausted = TRUE]
<1>0. _finishRecoveryExhausted(s) = t
  BY DEF _finishRecoveryExhausted
<1>1. /\ IsState(r) /\ Only(s, r, {"rec", "timers"}) /\ ~r.rec
      /\ r.timers = s.timers \ {"recovery", "healthyReset"}
  BY DEF IsState, Only, Fields, StopTimers
<1> HIDE DEF r
<1>2. IsState(a) /\ Only(r, a, {"health", "timers"}) /\ a.timers \subseteq r.timers
  BY <1>1, SetHealthIs DEF Healths
<1> HIDE DEF a
<1>3. IsState(b) /\ Only(a, b, {"be", "cmds", "out", "helper"}) /\ Dead(b)
  BY <1>2, DestroyBackendIs
<1> HIDE DEF b
<1>4. /\ IsState(c) /\ Only(b, c, {"tunIp", "timers"})
      /\ c.tunIp = 0 /\ c.timers = b.timers \ {"tunPoll"}
  BY <1>3, ClearIdentityIs
<1> HIDE DEF c
<1>5. /\ IsState(d) /\ Only(c, d, {"state", "retained"}) /\ d.state = "Failed"
      /\ \/ d.retained = c.retained
         \/ d.retained = c.retained \ {c.active} /\ c.needing = 0
  BY <1>4, SetStateIs DEF States
<1> HIDE DEF d
<1>6. IsState(e) /\ Only(d, e, {"paused"}) /\ Interrupted(d, e)
  BY <1>5, InterruptedIs DEF Interrupted
<1> HIDE DEF e
<1>7. IsState(t) /\ Only(e, t, {"exhausted"}) /\ t.exhausted
  BY <1>6 DEF IsState, Only, Fields
<1> HIDE DEF t
<1>8. Only(s, t, {"rec", "state", "health", "timers", "tunIp", "paused", "retained",
                  "exhausted", "be", "cmds", "out", "helper"})
  BY <1>1, <1>2, <1>3, <1>4, <1>5, <1>6, <1>7 DEF Only, Fields
<1>9. /\ t.rec = r.rec /\ t.tunIp = c.tunIp /\ t.paused = e.paused /\ t.state = d.state
      /\ t.timers = c.timers /\ t.retained = d.retained
      /\ t.be = b.be /\ t.cmds = b.cmds /\ t.out = b.out /\ t.helper = b.helper
  BY <1>1, <1>2, <1>3, <1>4, <1>5, <1>6, <1>7 DEF Only, Fields
<1>10. /\ d.paused = s.paused /\ d.active = s.active /\ b.timers = a.timers
       /\ c.retained = s.retained /\ c.active = s.active /\ c.needing = s.needing
  BY <1>1, <1>2, <1>3, <1>4, <1>5 DEF Only, Fields
<1>11. Interrupted(s, t)
  BY <1>6, <1>9, <1>10 DEF Interrupted
<1>12. Dead(t)
  BY <1>3, <1>9 DEF Dead
<1> QED
  BY <1>0, <1>1, <1>2, <1>4, <1>5, <1>7, <1>8, <1>9, <1>10, <1>11, <1>12

LEMMA RequestedStopIs ==
    ASSUME NEW s, IsState(s)
    PROVE  LET t == _finishRequestedStop(s)
           IN /\ IsState(t)
              /\ Only(s, t, {"rec", "state", "health", "timers", "retained", "auto", "needing",
                             "be", "cmds", "out", "helper"})
              /\ t.state = "Disabled" /\ ~t.rec /\ Dead(t) /\ t.needing = 0
              /\ t.timers \subseteq s.timers \ {"recovery"}
              /\ t.retained \in {s.retained, s.retained \ {s.active}}
<1> DEFINE r == [StopTimers(s, {"recovery", "healthyReset"}) EXCEPT !.rec = FALSE]
           a == _setHealth(r, "Healthy")
           b == _setState(a, "Disabled")
           c == _destroyBackend(b)
           t == [c EXCEPT !.auto = FALSE, !.needing = 0]
<1>0. _finishRequestedStop(s) = t
  BY DEF _finishRequestedStop
<1>1. /\ IsState(r) /\ Only(s, r, {"rec", "timers"}) /\ ~r.rec
      /\ r.timers = s.timers \ {"recovery", "healthyReset"}
  BY DEF IsState, Only, Fields, StopTimers
<1> HIDE DEF r
<1>2. IsState(a) /\ Only(r, a, {"health", "timers"}) /\ a.timers \subseteq r.timers
  BY <1>1, SetHealthIs DEF Healths
<1> HIDE DEF a
<1>3. /\ IsState(b) /\ Only(a, b, {"state", "retained"}) /\ b.state = "Disabled"
      /\ b.retained \in {a.retained, a.retained \ {a.active}}
  BY <1>2, SetStateIs, ZenonT(90) DEF States
<1> HIDE DEF b
<1>4. IsState(c) /\ Only(b, c, {"be", "cmds", "out", "helper"}) /\ Dead(c)
  BY <1>3, DestroyBackendIs
<1> HIDE DEF c
<1>5. IsState(t) /\ Only(c, t, {"auto", "needing"}) /\ t.needing = 0
  BY <1>4 DEF IsState, Only, Fields
<1> HIDE DEF t
<1>6. Only(s, t, {"rec", "state", "health", "timers", "retained", "auto", "needing",
                  "be", "cmds", "out", "helper"})
  BY <1>1, <1>2, <1>3, <1>4, <1>5 DEF Only, Fields
<1>7. /\ t.rec = r.rec /\ t.state = b.state /\ t.timers = a.timers /\ t.retained = b.retained
      /\ t.be = c.be /\ t.cmds = c.cmds /\ t.out = c.out /\ t.helper = c.helper
      /\ a.retained = s.retained /\ a.active = s.active
  BY <1>1, <1>2, <1>3, <1>4, <1>5 DEF Only, Fields
<1>8. Dead(t)
  BY <1>4, <1>7 DEF Dead
<1> QED
  BY <1>0, <1>1, <1>2, <1>3, <1>5, <1>6, <1>7, <1>8

\* Within start() the backend is left to _finishBackendStart().
LEMMA FailedTerminationIs ==
    ASSUME NEW s, IsState(s), NEW k
    PROVE  LET t == _finishFailedTermination(s, k)
           IN /\ IsState(t)
              /\ Only(s, t, {"state", "retained", "needing", "auto", "failedInStart",
                             "be", "cmds", "out", "helper"})
              /\ t.state = IF k.failure = "busy" THEN "LeaseBusy" ELSE "Failed"
              /\ IF s.inStart THEN Only(s, t, Fields \ {"be", "cmds", "out", "helper"}) ELSE Dead(t)
              /\ t.needing \in {0, s.needing}
              /\ \/ t.retained = s.retained
                 \/ t.retained = s.retained \ {s.active} /\ s.needing = 0
<1> DEFINE st == IF k.failure = "busy" THEN "LeaseBusy" ELSE "Failed"
           u == _setState(s, st)
           v == IF s.inStart THEN [u EXCEPT !.failedInStart = TRUE] ELSE _destroyBackend(u)
           w == [v EXCEPT !.needing = 0, !.auto = FALSE]
           t == IF k.wasReady THEN v ELSE w
<1>0. _finishFailedTermination(s, k) = t
  BY DEF _finishFailedTermination
<1>1. st \in {"LeaseBusy", "Failed"} /\ st \in States /\ st # "Connected" /\ st # "Disabled"
  BY DEF States
<1> HIDE DEF st
<1>2. /\ IsState(u) /\ Only(s, u, {"state", "retained"}) /\ u.state = st
      /\ \/ u.retained = s.retained
         \/ u.retained = s.retained \ {s.active} /\ s.needing = 0
  BY <1>1, SetStateIs
<1> HIDE DEF u
<1>3. /\ IsState(v) /\ Only(u, v, {"failedInStart", "be", "cmds", "out", "helper"})
      /\ IF s.inStart THEN Only(u, v, {"failedInStart"}) ELSE Dead(v)
  <2>1. CASE s.inStart
    BY <1>2, <2>1 DEF IsState, Only, Fields
  <2>2. CASE ~s.inStart
    <3>1. /\ IsState(_destroyBackend(u)) /\ Dead(_destroyBackend(u))
          /\ Only(u, _destroyBackend(u), {"be", "cmds", "out", "helper"})
      BY <1>2, DestroyBackendIs
    <3> QED
      BY <2>2, <3>1 DEF Only
  <2> QED
    BY <2>1, <2>2
<1> HIDE DEF v
<1>4. IsState(w) /\ Only(v, w, {"auto", "needing"}) /\ w.needing = 0
  BY <1>3 DEF IsState, Only, Fields
<1> HIDE DEF w
<1>5. IsState(t) /\ Only(v, t, {"auto", "needing"}) /\ t.needing \in {0, v.needing}
  BY <1>3, <1>4 DEF Only
<1> HIDE DEF t
<1>6. Only(s, t, {"state", "retained", "needing", "auto", "failedInStart",
                  "be", "cmds", "out", "helper"})
  BY <1>2, <1>3, <1>5 DEF Only, Fields
<1>7. /\ t.state = u.state /\ v.needing = s.needing /\ t.retained = u.retained
      /\ t.be = v.be /\ t.cmds = v.cmds /\ t.out = v.out /\ t.helper = v.helper
  BY <1>2, <1>3, <1>5 DEF Only, Fields
<1>8. IF s.inStart THEN Only(s, t, Fields \ {"be", "cmds", "out", "helper"}) ELSE Dead(t)
  <2>1. CASE s.inStart
    <3>1. v.be = u.be /\ v.cmds = u.cmds /\ v.out = u.out /\ v.helper = u.helper
      BY <1>3, <2>1 DEF Only, Fields
    <3>2. u.be = s.be /\ u.cmds = s.cmds /\ u.out = s.out /\ u.helper = s.helper
      BY <1>2 DEF Only, Fields
    <3> QED
      BY <1>7, <2>1, <3>1, <3>2 DEF Only, Fields
  <2>2. CASE ~s.inStart
    BY <1>3, <1>7, <2>2 DEF Dead
  <2> QED
    BY <2>1, <2>2
<1> QED
  BY <1>0, <1>2, <1>5, <1>6, <1>7, <1>8 DEF st

LEMMA LaunchIs ==
    ASSUME NEW s, IsState(s)
    PROVE  LET t == Launch(s)
           IN /\ IsState(t)
              /\ Only(s, t, {"state", "be", "cmds", "out", "helper"})
              /\ t.state = "Starting"
              /\ t.be = [NoBackend EXCEPT !.exists = TRUE]
              /\ t.helper = [NoHelper EXCEPT !.ip = s.helper.ip, !.alive = TRUE]
              /\ t.cmds = <<>> /\ t.out = <<>>
<1> DEFINE a == _destroyBackend(s)
           b == [a EXCEPT !.be.exists = TRUE, !.helper.alive = TRUE]
           c == _setState(b, "Starting")
<1>0. Launch(s) = c
  BY DEF Launch
<1>1. /\ IsState(a) /\ Only(s, a, {"be", "cmds", "out", "helper"}) /\ Dead(a)
      /\ a.helper.ip = s.helper.ip
  BY DestroyBackendIs
<1> HIDE DEF a
<1>2. /\ a.be = NoBackend /\ a.helper = [NoHelper EXCEPT !.ip = s.helper.ip]
      /\ a.cmds = <<>> /\ a.out = <<>>
  BY <1>1 DEF Dead
<1>3. /\ b.be = [NoBackend EXCEPT !.exists = TRUE]
      /\ b.helper = [NoHelper EXCEPT !.ip = s.helper.ip, !.alive = TRUE]
      /\ b.cmds = <<>> /\ b.out = <<>>
      /\ Only(a, b, {"be", "helper"}) /\ b = [f \in Fields |-> b[f]]
  BY <1>1, <1>2 DEF IsState, Only, Fields, NoHelper, NoBackend
<1>4. b.be \in Backends /\ b.helper \in Helpers
  <2>1. s.helper.ip \in Nat
    BY DEF IsState, Helpers
  <2> HIDE DEF b
  <2> QED
    BY <1>3, <2>1 DEF Backends, Helpers, NoHelper, NoBackend
<1> HIDE DEF b
<1>5. IsState(b)
  BY <1>1, <1>3, <1>4 DEF IsState, Only, Fields
<1>6. /\ IsState(c) /\ Only(b, c, {"state", "retained"}) /\ c.state = "Starting"
      /\ c.retained = b.retained
  BY <1>5, SetStateIs DEF States
<1> HIDE DEF c
<1>7. Only(s, c, {"state", "be", "cmds", "out", "helper"})
  <2>1. Only(s, b, {"be", "cmds", "out", "helper"})
    BY <1>1, <1>3 DEF Only, Fields
  <2> QED
    BY <1>6, <2>1 DEF Only, Fields
<1>8. c.be = b.be /\ c.helper = b.helper /\ c.cmds = b.cmds /\ c.out = b.out
  BY <1>6 DEF Only, Fields
<1> QED
  BY <1>0, <1>3, <1>6, <1>7, <1>8

\* The states in which start() starts.
AtRest(s) == s.state \in {"Disabled", "Failed", "LeaseBusy", "Reconnecting"}

LEMMA StartIs ==
    ASSUME NEW s, IsState(s), AtRest(s)
    PROVE  LET t == start(s, "ok")
           IN /\ IsState(t)
              /\ Only(s, t, {"state", "be", "cmds", "out", "helper", "ok"})
              /\ t.state = "Starting" /\ t.ok
              /\ t.be = [NoBackend EXCEPT !.exists = TRUE]
              /\ t.helper = [NoHelper EXCEPT !.ip = s.helper.ip, !.alive = TRUE]
              /\ t.cmds = <<>> /\ t.out = <<>>
<1> DEFINE a == Launch(s)
           t == [a EXCEPT !.ok = TRUE]
<1>0. start(s, "ok") = t
  BY DEF start, AtRest
<1>1. /\ IsState(a) /\ Only(s, a, {"state", "be", "cmds", "out", "helper"})
      /\ a.state = "Starting"
      /\ a.be = [NoBackend EXCEPT !.exists = TRUE]
      /\ a.helper = [NoHelper EXCEPT !.ip = s.helper.ip, !.alive = TRUE]
      /\ a.cmds = <<>> /\ a.out = <<>>
  BY LaunchIs
<1> HIDE DEF a
<1>2. IsState(t) /\ Only(a, t, {"ok"}) /\ t.ok
  BY <1>1 DEF IsState, Only, Fields
<1> HIDE DEF t
<1>3. Only(s, t, {"state", "be", "cmds", "out", "helper", "ok"})
  BY <1>1, <1>2 DEF Only, Fields
<1>4. /\ t.state = a.state /\ t.be = a.be /\ t.helper = a.helper
      /\ t.cmds = a.cmds /\ t.out = a.out
  BY <1>2 DEF Only, Fields
<1> QED
  BY <1>0, <1>1, <1>2, <1>3, <1>4

\* A start that fails before it returns.
LEMMA StartFailsIs ==
    ASSUME NEW s, IsState(s), AtRest(s), Dead(s), ~s.inStart,
           NEW outcome \in {"noConfig", "sync"}
    PROVE  LET t == start(s, outcome)
           IN /\ IsState(t)
              /\ Only(s, t, {"state", "retained", "timers", "tunIp", "needing", "auto", "reason",
                             "failedInStart", "inStart", "ok",
                             "be", "cmds", "out", "helper"})
              /\ t.state = "Failed" /\ Dead(t) /\ ~t.ok /\ ~t.inStart
              /\ t.tunIp \in {0, s.tunIp} /\ t.timers \subseteq s.timers
              /\ t.needing \in {0, s.needing} /\ (s.rec => t.needing = s.needing)
              /\ \/ t.retained = s.retained
                 \/ t.retained = s.retained \ {s.active} /\ s.needing = 0
<1>1. CASE outcome = "noConfig"
  <2> DEFINE a == _setState(s, "Failed")
             t == [a EXCEPT !.ok = FALSE]
  <2>0. start(s, outcome) = t
    BY <1>1 DEF start, AtRest
  <2>1. /\ IsState(a) /\ Only(s, a, {"state", "retained"}) /\ a.state = "Failed"
        /\ \/ a.retained = s.retained
           \/ a.retained = s.retained \ {s.active} /\ s.needing = 0
    BY SetStateIs DEF States
  <2> HIDE DEF a
  <2>2. IsState(t) /\ Only(a, t, {"ok"}) /\ ~t.ok
    BY <2>1 DEF IsState, Only, Fields
  <2> HIDE DEF t
  <2>3. Only(s, t, {"state", "retained", "ok"})
    BY <2>1, <2>2 DEF Only, Fields
  <2>4. /\ t.state = a.state /\ t.retained = a.retained
        /\ t.be = s.be /\ t.cmds = s.cmds /\ t.out = s.out /\ t.helper = s.helper
        /\ t.inStart = s.inStart /\ t.tunIp = s.tunIp
        /\ t.timers = s.timers /\ t.needing = s.needing
    BY <2>2, <2>3 DEF Only, Fields
  <2>5. Dead(t)
    BY <2>4 DEF Dead
  <2>6. Only(s, t, {"state", "retained", "timers", "tunIp", "needing", "auto", "reason",
                    "failedInStart", "inStart", "ok", "be", "cmds", "out", "helper"})
    BY <2>3 DEF Only
  <2> QED
    BY <2>0, <2>1, <2>2, <2>4, <2>5, <2>6
<1>2. CASE outcome = "sync"
  <2> DEFINE k == StartFailure("other")
             a == Launch(s)
             b == [a EXCEPT !.inStart = TRUE]
             c == _clearTunnelIdentity(b)
             d == _cancelAutoDisconnect(c)
             e == IF d.rec THEN [d EXCEPT !.reason = "other", !.failedInStart = TRUE]
                  ELSE _finishFailedTermination(d, k)
             f == _setState(e, "Failed")
             g == _destroyBackend(f)
             t == [g EXCEPT !.inStart = FALSE, !.ok = FALSE]
  <2>1. IsState(a) /\ Only(s, a, {"state", "be", "cmds", "out", "helper"})
    BY LaunchIs
  <2> HIDE DEF a
  <2>2. IsState(b) /\ Only(a, b, {"inStart"}) /\ b.inStart = TRUE
    BY <2>1 DEF IsState, Only, Fields
  <2>b. b = [Launch(s) EXCEPT !.inStart = TRUE]
    BY DEF a
  <2> HIDE DEF b
  <2>3. /\ IsState(c) /\ Only(b, c, {"tunIp", "timers"}) /\ c.tunIp = 0
        /\ c.timers = b.timers \ {"tunPoll"}
    BY <2>2, ClearIdentityIs
  <2>4. IsState(d) /\ Only(c, d, {"timers"}) /\ d.timers = c.timers \ {"autoDisconnect"}
    <3> HIDE DEF c
    <3> QED
      BY <2>3 DEF _cancelAutoDisconnect, StopTimers, IsState, Only, Fields
  <2>5. d.inStart = TRUE /\ d.rec \in BOOLEAN
    <3> HIDE DEF c, d
    <3> QED
      BY <2>2, <2>3, <2>4 DEF Only, Fields, IsState
  <2>6. onBackendTerminated(b, k) = e
    <3>1. d = _cancelAutoDisconnect(_clearTunnelIdentity(b))
      OBVIOUS
    <3> HIDE DEF d
    <3>2. k.kind = "StartFailure" /\ k.failure = "other"
      BY DEF StartFailure
    <3> HIDE DEF k
    <3> QED
      BY <2>5, <3>1, <3>2 DEF onBackendTerminated, RecoversFrom, _recoverFromTermination
  <2> HIDE DEF c, d
  <2>7. /\ IsState(e) /\ Only(d, e, {"state", "retained", "needing", "auto", "reason", "failedInStart"})
        /\ e.state \in {d.state, "Failed"}
        /\ e.needing \in {0, d.needing} /\ (d.rec => e.needing = d.needing)
        /\ \/ e.state = d.state /\ e.retained = d.retained /\ e.needing = d.needing
           \/ /\ e.state = "Failed"
              /\ \/ e.retained = d.retained
                 \/ e.retained = d.retained \ {d.active} /\ d.needing = 0
    <3>1. CASE d.rec
      BY <2>4, <3>1, ZenonT(60) DEF IsState, Only, Fields, FailureKinds
    <3>2. CASE ~d.rec
      <4> DEFINE x == _finishFailedTermination(d, k)
      <4>1. k.failure # "busy"
        BY DEF StartFailure
      <4>2. /\ IsState(x)
            /\ Only(d, x, {"state", "retained", "needing", "auto", "failedInStart",
                           "be", "cmds", "out", "helper"})
            /\ Only(d, x, Fields \ {"be", "cmds", "out", "helper"})
            /\ x.state = "Failed" /\ x.needing \in {0, d.needing}
            /\ \/ x.retained = d.retained
               \/ x.retained = d.retained \ {d.active} /\ d.needing = 0
        <5> HIDE DEF k
        <5> QED
          BY <2>4, <2>5, <4>1, FailedTerminationIs
      <4>3. e = x
        BY <3>2
      <4> HIDE DEF x, e
      <4>4. Only(d, x, {"state", "retained", "needing", "auto", "reason", "failedInStart"})
        BY <4>2 DEF Only, Fields
      <4> QED
        BY <3>2, <4>2, <4>3, <4>4
    <3> QED
      BY <2>5, <3>1, <3>2
  <2> HIDE DEF e
  <2>8. e.state \in {"Starting", "Failed"}
    <3>1. a.state = "Starting"
      BY LaunchIs DEF a
    <3>2. d.state = a.state
      BY <2>2, <2>3, <2>4 DEF Only, Fields
    <3> QED
      BY <2>7, <3>1, <3>2
  <2>9. /\ IsState(f) /\ Only(e, f, {"state", "retained"}) /\ f.state = "Failed"
        /\ e.state = "Failed" => f = e
        /\ \/ f.retained = e.retained
           \/ f.retained = e.retained \ {e.active} /\ e.needing = 0
    BY <2>7, SetStateIs DEF States
  <2> HIDE DEF f
  <2>10. IsState(g) /\ Only(f, g, {"be", "cmds", "out", "helper"}) /\ Dead(g)
    BY <2>9, DestroyBackendIs
  <2> HIDE DEF g
  <2>11. IsState(t) /\ Only(g, t, {"inStart", "ok"}) /\ ~t.inStart /\ ~t.ok
    BY <2>10 DEF IsState, Only, Fields
  <2>12. start(s, outcome) = t
    <3>1. start(s, outcome) = _finishBackendStart(onBackendTerminated(b, k))
      BY <1>2, <2>b DEF start, AtRest
    <3> QED
      BY <2>6, <2>8, <3>1 DEF _finishBackendStart, f, g
  <2> HIDE DEF t
  <2>13. Only(s, d, {"state", "be", "cmds", "out", "helper", "inStart", "tunIp", "timers"})
    BY <2>1, <2>2, <2>3, <2>4 DEF Only, Fields
  <2>14. Only(s, t, {"state", "retained", "timers", "tunIp", "needing", "auto", "reason",
                     "failedInStart", "inStart", "ok", "be", "cmds", "out", "helper"})
    BY <2>7, <2>9, <2>10, <2>11, <2>13 DEF Only, Fields
  <2>15. /\ t.state = f.state /\ t.tunIp = c.tunIp
         /\ t.timers = d.timers /\ b.timers = s.timers /\ t.needing = e.needing
         /\ t.retained = f.retained /\ d.retained = s.retained /\ d.needing = s.needing
         /\ d.active = s.active /\ e.active = s.active /\ d.rec = s.rec
         /\ t.be = g.be /\ t.cmds = g.cmds /\ t.out = g.out /\ t.helper = g.helper
    BY <2>1, <2>2, <2>3, <2>4, <2>7, <2>9, <2>10, <2>11 DEF Only, Fields
  <2>16. Dead(t)
    BY <2>10, <2>15 DEF Dead
  <2>17. \/ t.retained = s.retained
         \/ t.retained = s.retained \ {s.active} /\ s.needing = 0
    BY <2>7, <2>8, <2>9, <2>15
  <2> QED
    BY <2>1, <2>3, <2>4, <2>7, <2>9, <2>11, <2>12, <2>14, <2>15, <2>16, <2>17
<1> QED
  BY <1>1, <1>2

\* The end of a backend that had started: RequestedStop, a recovery, or a failure.
EndsRequested(s, k, t) ==
    /\ k.kind = "RequestedStop" /\ t.state = "Disabled" /\ ~t.rec
    /\ t.needing = 0 /\ t.paused = s.paused
    /\ t.retained \in {s.retained, s.retained \ {s.active}}

EndsRecovering(s, k, t) ==
    /\ s.rec \/ (k.kind = "UnexpectedExit" /\ k.wasReady)
    /\ t.state = "Reconnecting" /\ t.rec /\ "recovery" \in t.timers
    /\ t.needing = s.needing /\ t.retained = s.retained
    /\ Interrupted(s, t) \/ (s.rec /\ t.paused = s.paused)

EndsFailing(s, k, t) ==
    /\ k.kind # "RequestedStop" /\ ~(k.kind = "UnexpectedExit" /\ k.wasReady /\ s.needing > 0)
    /\ t.state \in {"LeaseBusy", "Failed"} /\ ~t.rec
    /\ t.paused = s.paused /\ t.needing \in {0, s.needing}
    /\ \/ t.retained = s.retained
       \/ t.retained = s.retained \ {s.active} /\ s.needing = 0

Kinds == [kind : {"RequestedStop", "UnexpectedExit", "StartFailure"}, failure : FailureKinds,
          wasReady : BOOLEAN]

LEMMA TerminatedIs ==
    ASSUME NEW s, IsState(s), ~s.inStart, NEW k \in Kinds,
           k.kind = "UnexpectedExit" => k.failure = "lost"
    PROVE  LET t == onBackendTerminated(s, k)
           IN /\ IsState(t)
              /\ Only(s, t, {"rec", "reason", "state", "health", "timers", "retained", "auto",
                             "needing", "tunIp", "paused", "be", "cmds", "out", "helper",
                             "failedInStart"})
              /\ Dead(t) /\ t.tunIp = 0
              /\ t.timers \subseteq (s.timers \ {"tunPoll", "autoDisconnect"}) \cup {"recovery"}
              /\ EndsRequested(s, k, t) \/ EndsRecovering(s, k, t) \/ EndsFailing(s, k, t)
<1> DEFINE F == {"rec", "reason", "state", "health", "timers", "retained", "auto", "needing",
                 "tunIp", "paused", "be", "cmds", "out", "helper", "failedInStart"}
           a == _clearTunnelIdentity(s)
           u == _cancelAutoDisconnect(a)
           t == onBackendTerminated(s, k)
<1>1. IsState(a) /\ Only(s, a, {"tunIp", "timers"}) /\ a.tunIp = 0 /\ a.timers = s.timers \ {"tunPoll"}
  BY ClearIdentityIs
<1> HIDE DEF a
<1>2. /\ IsState(u) /\ Only(a, u, {"timers"}) /\ u.timers = a.timers \ {"autoDisconnect"}
  BY <1>1 DEF _cancelAutoDisconnect, StopTimers, IsState, Only, Fields
<1>3. t = IF k.kind = "RequestedStop" THEN _finishRequestedStop(u)
          ELSE IF RecoversFrom(u, k) THEN _recoverFromTermination(u, k)
          ELSE _finishFailedTermination(u, k)
  BY DEF onBackendTerminated, a
<1> HIDE DEF u, t
<1>4. /\ Only(s, u, {"tunIp", "timers"}) /\ u.tunIp = 0
      /\ u.timers = s.timers \ {"tunPoll", "autoDisconnect"}
      /\ u.rec = s.rec /\ u.needing = s.needing /\ u.retained = s.retained
      /\ u.active = s.active /\ u.paused = s.paused /\ ~u.inStart
  BY <1>1, <1>2 DEF Only, Fields
<1>5. CASE k.kind = "RequestedStop"
  <2>1. /\ IsState(t)
        /\ Only(u, t, {"rec", "state", "health", "timers", "retained", "auto", "needing",
                       "be", "cmds", "out", "helper"})
        /\ t.state = "Disabled" /\ ~t.rec /\ Dead(t) /\ t.needing = 0
        /\ t.timers \subseteq u.timers
        /\ t.retained \in {u.retained, u.retained \ {u.active}}
    <3>1. t = _finishRequestedStop(u)
      BY <1>3, <1>5
    <3> QED
      BY <1>2, <3>1, RequestedStopIs
  <2>2. Only(s, t, F) /\ t.tunIp = u.tunIp /\ t.paused = u.paused
    BY <1>4, <2>1 DEF Only, Fields
  <2>3. EndsRequested(s, k, t)
    BY <1>4, <1>5, <2>1, <2>2 DEF EndsRequested
  <2> QED
    BY <1>4, <2>1, <2>2, <2>3 DEF t
<1>6. CASE k.kind # "RequestedStop" /\ RecoversFrom(u, k)
  <2> DEFINE Unexpected == k.kind = "UnexpectedExit" /\ k.wasReady /\ (u.needing > 0 \/ u.auto)
             r == [u EXCEPT !.reason = k.failure]
             b == _destroyBackend(u)
             c == _destroyBackend(r)
  <2>1. /\ s.rec \/ (k.kind = "UnexpectedExit" /\ k.wasReady)
        /\ ~Unexpected => s.rec
    BY <1>4, <1>6 DEF RecoversFrom
  <2>2. t = IF Unexpected THEN IF u.rec THEN _scheduleExternalRestart(b)
                               ELSE requestRecovery(b, k.failure)
            ELSE _scheduleExternalRestart(c)
    <3>1. t = _recoverFromTermination(u, k)
      BY <1>3, <1>6
    <3> QED
      BY <1>4, <3>1 DEF _recoverFromTermination
  <2>3. Unexpected => k.failure = "lost"
    OBVIOUS
  <2>4. IsState(b) /\ Only(u, b, {"be", "cmds", "out", "helper"}) /\ Dead(b)
    BY <1>2, DestroyBackendIs
  <2>5. IsState(c) /\ Only(u, c, {"reason", "be", "cmds", "out", "helper"}) /\ Dead(c)
    <3>1. IsState(r) /\ Only(u, r, {"reason"})
      BY <1>2 DEF IsState, Only, Fields, Kinds
    <3> HIDE DEF r
    <3>2. IsState(c) /\ Only(r, c, {"be", "cmds", "out", "helper"}) /\ Dead(c)
      BY <3>1, DestroyBackendIs
    <3> QED
      BY <3>1, <3>2 DEF Only, Fields
  <2> HIDE DEF b, c
  <2>6. CASE Unexpected /\ ~u.rec
    <3>1. ~b.rec /\ ~b.be.exists
      BY <2>4, <2>6 DEF Only, Fields, Dead, NoBackend
    <3>2. t = requestRecovery(b, "lost")
      BY <2>2, <2>3, <2>6
    <3>3. /\ IsState(t)
          /\ Only(b, t, {"rec", "reason", "state", "health", "timers", "tunIp", "paused"})
          /\ t.state = "Reconnecting" /\ t.rec /\ t.tunIp = 0 /\ "recovery" \in t.timers
          /\ t.timers \subseteq b.timers \cup {"recovery"}
          /\ Interrupted(b, t)
      BY <2>4, <3>1, <3>2, RecoveryIs
    <3>4. /\ Only(s, t, F) /\ t.be = b.be /\ t.cmds = b.cmds /\ t.out = b.out
          /\ t.helper = b.helper
          /\ t.retained = u.retained /\ t.needing = u.needing
          /\ b.timers = u.timers /\ b.active = u.active /\ b.paused = u.paused
      BY <1>4, <2>4, <3>3 DEF Only, Fields
    <3>5. Dead(t)
      BY <2>4, <3>4 DEF Dead
    <3>6. EndsRecovering(s, k, t)
      BY <1>4, <2>1, <3>3, <3>4 DEF EndsRecovering, Interrupted
    <3> QED
      BY <1>4, <3>3, <3>4, <3>5, <3>6 DEF t
  <2>7. CASE ~(Unexpected /\ ~u.rec)
    <3>1. PICK x \in {b, c} : t = _scheduleExternalRestart(x)
      BY <2>2, <2>7
    <3>2. IsState(x) /\ Only(u, x, {"reason", "be", "cmds", "out", "helper"}) /\ Dead(x)
      BY <2>4, <2>5 DEF Only
    <3>3. /\ IsState(t) /\ Only(x, t, {"state", "health", "timers"})
          /\ t.state = "Reconnecting" /\ "recovery" \in t.timers
          /\ t.timers \subseteq x.timers \cup {"recovery"}
      BY <3>1, <3>2, ScheduleIs
    <3>4. /\ Only(s, t, F) /\ t.be = x.be /\ t.cmds = x.cmds /\ t.out = x.out
          /\ t.helper = x.helper /\ t.rec = u.rec /\ t.tunIp = u.tunIp
          /\ t.retained = u.retained /\ t.needing = u.needing /\ t.paused = u.paused
          /\ x.timers = u.timers
      BY <1>4, <3>2, <3>3 DEF Only, Fields
    <3>5. Dead(t)
      BY <3>2, <3>4 DEF Dead
    <3>6. s.rec
      BY <1>4, <2>1, <2>7
    <3>7. EndsRecovering(s, k, t)
      BY <1>4, <3>3, <3>4, <3>6 DEF EndsRecovering
    <3> QED
      BY <1>4, <3>3, <3>4, <3>5, <3>7 DEF t
  <2> QED
    BY <2>6, <2>7
<1>7. CASE k.kind # "RequestedStop" /\ ~RecoversFrom(u, k)
  <2>1. /\ ~s.rec /\ ~(k.kind = "UnexpectedExit" /\ k.wasReady /\ s.needing > 0)
    BY <1>4, <1>7 DEF RecoversFrom
  <2>2. /\ IsState(t)
        /\ Only(u, t, {"state", "retained", "needing", "auto", "failedInStart",
                       "be", "cmds", "out", "helper"})
        /\ t.state \in {"LeaseBusy", "Failed"} /\ Dead(t)
        /\ t.needing \in {0, u.needing}
        /\ \/ t.retained = u.retained
           \/ t.retained = u.retained \ {u.active} /\ u.needing = 0
    <3>1. t = _finishFailedTermination(u, k)
      BY <1>3, <1>7
    <3> QED
      BY <1>2, <1>4, <3>1, FailedTerminationIs, ZenonT(90)
  <2>3. /\ Only(s, t, F) /\ t.rec = u.rec /\ t.tunIp = u.tunIp /\ t.paused = u.paused
        /\ t.timers = u.timers
    BY <1>4, <2>2 DEF Only, Fields
  <2>4. EndsFailing(s, k, t)
    BY <1>4, <1>7, <2>1, <2>2, <2>3 DEF EndsFailing
  <2> QED
    BY <1>4, <2>2, <2>3, <2>4 DEF t
<1> QED
  BY <1>5, <1>6, <1>7

\* stop() of what is not at rest.
LEMMA StopIs ==
    ASSUME NEW s, IsState(s), s.state \notin {"Disabled", "Stopping"}
    PROVE  LET t == stop(s)
           IN /\ IsState(t) /\ ~t.rec /\ t.timers \subseteq s.timers
              /\ IF s.be.exists
                 THEN /\ Only(s, t, {"rec", "timers", "state", "be", "cmds"})
                      /\ t.state = "Stopping"
                      /\ t.be = [s.be EXCEPT !.stopRequested = TRUE]
                      /\ t.cmds = Append(s.cmds, EOF)
                 ELSE /\ Only(s, t, {"rec", "timers", "tunIp", "health", "state", "retained",
                                     "auto", "needing"})
                      /\ t.state = "Disabled" /\ t.tunIp = 0 /\ "tunPoll" \notin t.timers
                      /\ t.needing = 0
                      /\ t.retained \in {s.retained, s.retained \ {s.active}}
<1> DEFINE r == [StopTimers(s, {"recovery", "healthyReset"}) EXCEPT !.rec = FALSE]
           u == _setState(r, "Stopping")
           a == [u EXCEPT !.be.stopRequested = TRUE, !.cmds = Append(@, EOF)]
           b == _clearTunnelIdentity(u)
           c == _setHealth(b, "Healthy")
           d == _setState(c, "Disabled")
           e == [d EXCEPT !.auto = FALSE, !.needing = 0]
           t == stop(s)
<1>1. /\ IsState(r) /\ Only(s, r, {"rec", "timers"}) /\ ~r.rec
      /\ r.timers = s.timers \ {"recovery", "healthyReset"}
  BY DEF IsState, Only, Fields, StopTimers
<1> HIDE DEF r
<1>2. /\ IsState(u) /\ Only(r, u, {"state", "retained"}) /\ u.state = "Stopping"
      /\ u.retained = r.retained
  BY <1>1, SetStateIs DEF States
<1>3. t = IF s.be.exists THEN a ELSE e
  BY DEF stop, r
<1> HIDE DEF u, t
<1>4. CASE s.be.exists
  <2>1. /\ a.be = [u.be EXCEPT !.stopRequested = TRUE] /\ a.cmds = Append(u.cmds, EOF)
        /\ Only(u, a, {"be", "cmds"}) /\ a = [f \in Fields |-> a[f]]
    BY <1>2 DEF IsState, Only, Fields
  <2>2. a.be \in Backends /\ a.cmds \in Seq(Nat)
    <3>1. u.be \in Backends /\ u.cmds \in Seq(Nat) /\ EOF \in Nat
      BY <1>2 DEF IsState, EOF
    <3> HIDE DEF a
    <3>2. a.be \in Backends
      BY <2>1, <3>1 DEF Backends
    <3>3. a.cmds \in Seq(Nat)
      BY <2>1, <3>1
    <3> QED
      BY <3>2, <3>3
  <2> HIDE DEF a
  <2>3. IsState(a)
    BY <1>2, <2>1, <2>2, ZenonT(90) DEF IsState, Only, Fields
  <2>4. /\ Only(s, a, {"rec", "timers", "state", "be", "cmds"})
        /\ a.state = u.state /\ a.rec = r.rec /\ a.timers = r.timers
        /\ u.be = s.be /\ u.cmds = s.cmds
    <3>1. u.retained = s.retained
      BY <1>1, <1>2 DEF Only, Fields
    <3> QED
      BY <1>1, <1>2, <2>1, <3>1, ZenonT(90) DEF Only, Fields
  <2> QED
    BY <1>1, <1>2, <1>3, <1>4, <2>1, <2>3, <2>4 DEF t
<1>5. CASE ~s.be.exists
  <2>1. IsState(b) /\ Only(u, b, {"tunIp", "timers"}) /\ b.tunIp = 0 /\ b.timers = u.timers \ {"tunPoll"}
    BY <1>2, ClearIdentityIs
  <2> HIDE DEF b
  <2>2. IsState(c) /\ Only(b, c, {"health", "timers"}) /\ c.timers \subseteq b.timers
    BY <2>1, SetHealthIs DEF Healths
  <2> HIDE DEF c
  <2>3. /\ IsState(d) /\ Only(c, d, {"state", "retained"}) /\ d.state = "Disabled"
        /\ d.retained \in {c.retained, c.retained \ {c.active}}
    BY <2>2, SetStateIs, ZenonT(90) DEF States
  <2> HIDE DEF d
  <2>4. IsState(e) /\ Only(d, e, {"auto", "needing"}) /\ e.needing = 0
    BY <2>3 DEF IsState, Only, Fields
  <2> HIDE DEF e
  <2>5. Only(s, e, {"rec", "timers", "tunIp", "health", "state", "retained", "auto", "needing"})
    BY <1>1, <1>2, <2>1, <2>2, <2>3, <2>4 DEF Only, Fields
  <2>6. /\ e.state = d.state /\ e.rec = r.rec /\ e.timers = c.timers /\ u.timers = r.timers
        /\ e.tunIp = b.tunIp /\ e.retained = d.retained
        /\ c.retained = s.retained /\ c.active = s.active
    BY <1>1, <1>2, <2>1, <2>2, <2>3, <2>4 DEF Only, Fields
  <2> QED
    BY <1>1, <1>3, <1>5, <2>1, <2>2, <2>3, <2>4, <2>5, <2>6 DEF t
<1>6. s.be.exists \in BOOLEAN
  BY DEF IsState, Backends
<1> QED
  BY <1>4, <1>5, <1>6

-----------------------------------------------------------------------------
(* What NgPost does for a job. *)

\* The helper is as it was, but for the watch that a job wants.
SameHelper(s, t) == \E b \in BOOLEAN : t.helper = [s.helper EXCEPT !.active = b]

\* Nothing is watched where there is no backend.
LEMMA DeadUnwatched ==
    ASSUME NEW s, NEW t, IsState(s), IsState(t), Dead(s), SameHelper(s, t), ~t.helper.active,
           t.be = s.be, t.cmds = s.cmds, t.out = s.out
    PROVE  Dead(t)
<1>1. PICK b \in BOOLEAN : t.helper = [s.helper EXCEPT !.active = b]
  BY DEF SameHelper
<1>2. s.helper \in Helpers /\ t.helper \in Helpers
  BY DEF IsState
<1>3. s.helper = [NoHelper EXCEPT !.ip = s.helper.ip]
  BY DEF Dead
<1>4. ~s.helper.active
  BY <1>3 DEF NoHelper
<1>5. t.helper = s.helper
  BY <1>1, <1>2, <1>4 DEF Helpers
<1> QED
  BY <1>3, <1>5 DEF Dead

LEMMA RetainIs ==
    ASSUME NEW s, IsState(s), NEW j \in Jobs, j \notin s.retained
    PROVE  LET t == _retainVpnForJob(s, j)
           IN /\ IsState(t) /\ Only(s, t, {"timers", "needing", "helper", "retained"})
              /\ t.needing = s.needing + 1 /\ t.retained = s.retained \cup {j}
              /\ t.timers = s.timers \ {"autoDisconnect"} /\ SameHelper(s, t)
              /\ ~s.be.exists => ~t.helper.active
<1> DEFINE a == StopTimers(s, {"autoDisconnect"})
           b == [a EXCEPT !.needing = @ + 1]
           c == SetActive(b, TRUE)
           t == [c EXCEPT !.retained = @ \cup {j}]
<1>0. _retainVpnForJob(s, j) = t
  BY DEF _retainVpnForJob, retainForJob
<1>1. IsState(a) /\ Only(s, a, {"timers"}) /\ a.timers = s.timers \ {"autoDisconnect"}
  BY DEF StopTimers, IsState, Only, Fields
<1> HIDE DEF a
<1>2. IsState(b) /\ Only(a, b, {"needing"}) /\ b.needing = a.needing + 1
  <2>1. Only(a, b, {"needing"}) /\ b = [f \in Fields |-> b[f]] /\ b.needing = a.needing + 1
    BY <1>1 DEF IsState, Only, Fields
  <2> HIDE DEF b
  <2>2. b.needing \in Nat
    BY <1>1, <2>1, SMTT(90) DEF IsState
  <2> QED
    BY <1>1, <2>1, <2>2 DEF IsState, Only, Fields
<1> HIDE DEF b
<1>3. /\ IsState(c) /\ Only(b, c, {"helper"}) /\ SameHelper(b, c)
      /\ ~b.be.exists => ~c.helper.active
  BY <1>2, SetActiveIs DEF SameHelper
<1> HIDE DEF c
<1>4. IsState(t) /\ Only(c, t, {"retained"}) /\ t.retained = c.retained \cup {j}
  BY <1>3 DEF IsState, Only, Fields
<1> HIDE DEF t
<1>5. Only(s, t, {"timers", "needing", "helper", "retained"})
  BY <1>1, <1>2, <1>3, <1>4 DEF Only, Fields
<1>6. /\ t.needing = b.needing /\ a.needing = s.needing /\ t.timers = a.timers
      /\ c.retained = s.retained /\ t.helper = c.helper /\ b.helper = s.helper
      /\ b.be = s.be
  BY <1>1, <1>2, <1>3, <1>4 DEF Only, Fields
<1>7. SameHelper(s, t) /\ (~s.be.exists => ~t.helper.active)
  BY <1>3, <1>6 DEF SameHelper
<1> QED
  BY <1>0, <1>1, <1>2, <1>4, <1>5, <1>6, <1>7

LEMMA ActivateIs ==
    ASSUME NEW s, IsState(s), NEW j \in Jobs, j \notin s.retained
    PROVE  LET t == Activate(s, j)
           IN /\ IsState(t)
              /\ Only(s, t, {"active", "paused", "timers", "needing", "helper", "retained"})
              /\ t.active = j /\ t.paused = "no" /\ t.needing = s.needing + 1
              /\ t.retained = s.retained \cup {j}
              /\ t.timers = s.timers \ {"autoDisconnect"} /\ SameHelper(s, t)
<1> DEFINE a == [s EXCEPT !.active = j, !.paused = "no"]
           t == _retainVpnForJob(a, j)
<1>0. Activate(s, j) = t
  BY DEF Activate
<1>1. IsState(a) /\ Only(s, a, {"active", "paused"}) /\ a.active = j /\ a.paused = "no"
  BY DEF IsState, Only, Fields
<1> HIDE DEF a
<1>2. /\ a.retained = s.retained /\ a.needing = s.needing /\ a.timers = s.timers
      /\ a.helper = s.helper
  BY <1>1 DEF Only, Fields
<1>3. /\ IsState(t) /\ Only(a, t, {"timers", "needing", "helper", "retained"})
      /\ t.needing = a.needing + 1 /\ t.retained = a.retained \cup {j}
      /\ t.timers = a.timers \ {"autoDisconnect"} /\ SameHelper(a, t)
  BY <1>1, <1>2, RetainIs
<1> HIDE DEF t
<1>4. /\ Only(s, t, {"active", "paused", "timers", "needing", "helper", "retained"})
      /\ t.active = a.active /\ t.paused = a.paused
  BY <1>1, <1>3 DEF Only, Fields
<1>5. SameHelper(s, t)
  BY <1>2, <1>3 DEF SameHelper
<1> QED
  BY <1>0, <1>1, <1>2, <1>3, <1>4, <1>5

LEMMA StartHeadIs ==
    ASSUME NEW s, IsState(s), s.parked # <<>>, Head(s.parked) \notin s.retained
    PROVE  LET t == StartHead(s)
           IN /\ IsState(t)
              /\ Only(s, t, {"parked", "active", "paused", "timers", "needing", "helper",
                             "retained"})
              /\ t.parked = Tail(s.parked) /\ t.active = Head(s.parked) /\ t.paused = "no"
              /\ t.needing = s.needing + 1 /\ t.retained = s.retained \cup {Head(s.parked)}
              /\ t.timers = s.timers \ {"autoDisconnect"} /\ SameHelper(s, t)
<1> DEFINE j == Head(s.parked)
           a == [s EXCEPT !.parked = Tail(@)]
           t == Activate(a, j)
<1>1. s.parked \in Seq(Jobs) /\ j \in Jobs /\ Tail(s.parked) \in Seq(Jobs)
  <2>1. s.parked \in Seq(Jobs)
    BY DEF IsState
  <2> QED
    BY <2>1, ElemsTail
<1>2. IsState(a) /\ Only(s, a, {"parked"}) /\ a.parked = Tail(s.parked)
  <2> HIDE DEF j
  <2> QED
    BY <1>1 DEF IsState, Only, Fields
<1>3. StartHead(s) = t
  BY DEF StartHead
<1> HIDE DEF a, j
<1>4. a.retained = s.retained /\ a.needing = s.needing /\ a.timers = s.timers /\ a.helper = s.helper
  BY <1>2 DEF Only, Fields
<1>5. j \notin a.retained
  BY <1>4 DEF j
<1>6. /\ IsState(t)
      /\ Only(a, t, {"active", "paused", "timers", "needing", "helper", "retained"})
      /\ t.active = j /\ t.paused = "no" /\ t.needing = a.needing + 1
      /\ t.retained = a.retained \cup {j}
      /\ t.timers = a.timers \ {"autoDisconnect"} /\ SameHelper(a, t)
  BY <1>1, <1>2, <1>5, ActivateIs
<1> HIDE DEF t
<1>7. /\ Only(s, t, {"parked", "active", "paused", "timers", "needing", "helper", "retained"})
      /\ t.parked = a.parked
  BY <1>2, <1>6 DEF Only, Fields
<1>8. SameHelper(s, t)
  BY <1>4, <1>6 DEF SameHelper
<1> QED
  BY <1>2, <1>3, <1>4, <1>6, <1>7, <1>8 DEF j

\* What the jobs do when the tunnel is there: nothing, the active one goes on,
\* or the head of the queue starts.
NobodyStarts(s, t) ==
    /\ t.active = s.active /\ t.parked = s.parked
    /\ t.retained = s.retained /\ t.needing = s.needing

HeadStarts(s, t) ==
    /\ s.active = NoJob /\ s.parked # <<>> /\ s.state # "Connected"
    /\ t.active = Head(s.parked) /\ t.parked = Tail(s.parked) /\ t.paused = "no"
    /\ t.retained = {Head(s.parked)} /\ t.needing = s.needing + 1
    /\ "autoDisconnect" \notin t.timers

LEMMA CompleteReadyIs ==
    ASSUME NEW s, IsState(s), s.retained \subseteq {s.active}
    PROVE  LET t == _completeReady(s)
           IN /\ IsState(t)
              /\ Only(s, t, {"state", "health", "rec", "reason", "timers", "helper", "active",
                             "parked", "paused", "retained", "needing"})
              /\ t.state = "Connected" /\ ~t.rec /\ SameHelper(s, t)
              /\ t.timers \subseteq (s.timers \ {"recovery"}) \cup {"healthyReset"}
              /\ \/ NobodyStarts(s, t) /\ s.state = "Connected" /\ t.paused = s.paused
                 \/ NobodyStarts(s, t) /\ t.paused = IF s.active # NoJob /\ s.paused = "vpn" THEN "no" ELSE s.paused
                 \/ HeadStarts(s, t)
<1> DEFINE r == [StopTimers(s, {"recovery"}) EXCEPT !.rec = FALSE, !.reason = "none"]
           a == _setHealth(r, "Healthy")
           b == SetActive(a, a.needing > 0)
           d == [b EXCEPT !.state = "Connected"]
           p == [d EXCEPT !.paused = IF @ = "vpn" THEN "no" ELSE @]
           h == StartHead(d)
           e == _setState(b, "Connected")
           t == StartTimer(e, "healthyReset")
<1>1. /\ IsState(r) /\ Only(s, r, {"rec", "reason", "timers"}) /\ ~r.rec
      /\ r.timers = s.timers \ {"recovery"}
  BY DEF IsState, Only, Fields, StopTimers, FailureKinds
<1>2. /\ IsState(a) /\ Only(r, a, {"health", "timers"}) /\ a.timers \subseteq r.timers
  <2> HIDE DEF r
  <2> QED
    BY <1>1, SetHealthIs DEF Healths
<1>n. a.needing = s.needing
  <2> HIDE DEF r, a
  <2> QED
    BY <1>1, <1>2 DEF Only, Fields
<1>0. _completeReady(s) = t
  <2>1. _completeReady(s) = StartTimer(_setState(SetActive(a, s.needing > 0), "Connected"), "healthyReset")
    BY DEF _completeReady
  <2> HIDE DEF a
  <2> QED
    BY <1>n, <2>1
<1> HIDE DEF r, a
<1>3. IsState(b) /\ Only(a, b, {"helper"}) /\ SameHelper(a, b)
  <2>1. (a.needing > 0) \in BOOLEAN
    BY <1>2 DEF IsState
  <2> QED
    BY <1>2, <2>1, SetActiveIs DEF SameHelper
<1>e. e = IF b.state = "Connected" THEN b ELSE IF d.active # NoJob THEN p
          ELSE IF d.parked # <<>> THEN h ELSE d
  <2> HIDE DEF b
  <2> QED
    BY DEF _setState, OnConnected
<1> HIDE DEF b
<1>4. IsState(d) /\ Only(b, d, {"state"}) /\ d.state = "Connected"
  BY <1>3 DEF IsState, Only, Fields, States
<1> HIDE DEF d
<1>5. /\ IsState(p) /\ Only(d, p, {"paused"})
      /\ p.paused = IF d.paused = "vpn" THEN "no" ELSE d.paused
  BY <1>4 DEF IsState, Only, Fields
<1> HIDE DEF p
<1>6. /\ Only(s, b, {"rec", "reason", "timers", "health", "helper"})
      /\ Only(s, d, {"rec", "reason", "timers", "health", "helper", "state"})
      /\ d.active = s.active /\ d.parked = s.parked /\ d.paused = s.paused
      /\ d.retained = s.retained /\ d.needing = s.needing /\ d.helper = b.helper
      /\ d.timers = a.timers /\ b.timers = a.timers /\ b.state = s.state
      /\ b.rec = r.rec /\ d.rec = r.rec /\ a.helper = s.helper
  BY <1>1, <1>2, <1>3, <1>4 DEF Only, Fields
<1> DEFINE G == {"state", "health", "rec", "reason", "timers", "helper", "active",
                 "parked", "paused", "retained", "needing"}
<1>7. /\ IsState(e) /\ Only(s, e, G) /\ e.state = "Connected" /\ ~e.rec /\ SameHelper(s, e)
      /\ e.timers \subseteq a.timers
      /\ \/ NobodyStarts(s, e) /\ s.state = "Connected" /\ e.paused = s.paused
         \/ NobodyStarts(s, e) /\ e.paused = IF s.active # NoJob /\ s.paused = "vpn" THEN "no" ELSE s.paused
         \/ HeadStarts(s, e)
  <2>s. SameHelper(s, b) /\ SameHelper(s, d)
    BY <1>3, <1>6 DEF SameHelper
  <2>1. CASE b.state = "Connected"
    <3>1. e = b
      BY <1>e, <2>1
    <3>2. Only(s, b, G) /\ NobodyStarts(s, b) /\ b.paused = s.paused
      BY <1>6 DEF Only, Fields, NobodyStarts
    <3> QED
      BY <1>1, <1>3, <1>6, <2>1, <2>s, <3>1, <3>2
  <2>2. CASE b.state # "Connected" /\ d.active # NoJob
    <3>1. e = p
      BY <1>e, <2>2
    <3>2. /\ Only(s, p, G) /\ NobodyStarts(s, p) /\ p.state = d.state /\ p.rec = d.rec
          /\ p.timers = d.timers /\ p.helper = d.helper
      BY <1>5, <1>6 DEF Only, Fields, NobodyStarts
    <3>3. SameHelper(s, p)
      BY <2>s, <3>2 DEF SameHelper
    <3> QED
      BY <1>1, <1>4, <1>5, <1>6, <2>2, <3>1, <3>2, <3>3
  <2>3. CASE b.state # "Connected" /\ d.active = NoJob /\ d.parked # <<>>
    <3>1. e = h
      BY <1>e, <2>3
    <3>2. s.retained = {}
      <4>1. NoJob \notin Jobs
        BY VpnAssumption
      <4>2. s.retained \subseteq Jobs
        BY DEF IsState
      <4> QED
        BY <1>6, <2>3, <4>1, <4>2
    <3>3. /\ IsState(h)
          /\ Only(d, h, {"parked", "active", "paused", "timers", "needing", "helper", "retained"})
          /\ h.parked = Tail(d.parked) /\ h.active = Head(d.parked) /\ h.paused = "no"
          /\ h.needing = d.needing + 1 /\ h.retained = d.retained \cup {Head(d.parked)}
          /\ h.timers = d.timers \ {"autoDisconnect"} /\ SameHelper(d, h)
      BY <1>4, <1>6, <2>3, <3>2, StartHeadIs
    <3> HIDE DEF h
    <3>4. Only(s, h, G) /\ h.state = d.state /\ h.rec = d.rec
      BY <1>6, <3>3 DEF Only, Fields
    <3>5. SameHelper(s, h)
      BY <2>s, <3>3 DEF SameHelper
    <3>6. HeadStarts(s, h)
      BY <1>6, <2>3, <3>2, <3>3 DEF HeadStarts
    <3> QED
      BY <1>1, <1>4, <1>6, <3>1, <3>3, <3>4, <3>5, <3>6
  <2>4. CASE b.state # "Connected" /\ d.active = NoJob /\ d.parked = <<>>
    <3>1. e = d
      BY <1>e, <2>4
    <3>2. Only(s, d, G) /\ NobodyStarts(s, d)
      BY <1>6 DEF Only, Fields, NobodyStarts
    <3> QED
      BY <1>1, <1>4, <1>6, <2>4, <2>s, <3>1, <3>2
  <2> QED
    BY <2>1, <2>2, <2>3, <2>4
<1> HIDE DEF e
<1>8. IsState(t) /\ Only(e, t, {"timers"}) /\ t.timers = e.timers \cup {"healthyReset"}
  BY <1>7 DEF StartTimer, IsState, Only, Fields, Timers
<1> HIDE DEF t
<1>9. /\ Only(s, t, G) /\ t.state = e.state /\ t.rec = e.rec /\ t.helper = e.helper
      /\ t.active = e.active /\ t.parked = e.parked /\ t.paused = e.paused
      /\ t.retained = e.retained /\ t.needing = e.needing
  BY <1>7, <1>8 DEF Only, Fields
<1>10. SameHelper(s, t)
  BY <1>7, <1>9 DEF SameHelper
<1>11. \/ NobodyStarts(s, t) /\ s.state = "Connected" /\ t.paused = s.paused
       \/ NobodyStarts(s, t) /\ t.paused = IF s.active # NoJob /\ s.paused = "vpn" THEN "no" ELSE s.paused
       \/ HeadStarts(s, t)
  BY <1>7, <1>8, <1>9 DEF NobodyStarts, HeadStarts
<1> QED
  BY <1>0, <1>1, <1>2, <1>7, <1>8, <1>9, <1>10, <1>11

-----------------------------------------------------------------------------
(* The invariant. U are the upsets so far. *)

\* The tunnel is held for the active job alone.
Held(s) ==
    /\ s.retained \subseteq {s.active}
    /\ s.needing <= 1 /\ (s.needing = 1 => s.retained # {})
    /\ "autoDisconnect" \in s.timers => s.active = NoJob
    /\ s.active = NoJob => s.paused = "no"

Queue(s) == IsInjectiveSeq(s.parked) /\ s.active \notin Elems(s.parked)

\* What goes with the state of the manager.
Machine(s) ==
    /\ s.rec => s.state \in {"Starting", "Reconnecting"}
    /\ s.state = "Reconnecting" => s.rec
    /\ s.state \in {"Starting", "Connected", "Stopping"} => s.be.exists
    /\ s.be.exists => s.state \in {"Starting", "Connected", "Stopping", "Reconnecting"}
    /\ ~s.be.exists => Dead(s)
    /\ s.state = "Stopping" => s.be.stopRequested
    /\ s.state = "Connected" => s.tunIp # 0
    /\ s.tunIp # 0 => s.be.wasReady
    /\ "tunPoll" \in s.timers => s.tunIp # 0
    /\ s.exhausted => s.state = "Failed"

\* A helper that has not made the tunnel says only that it ends.
Printed(s) ==
    /\ s.helper.alive => s.be.exists /\ \A m \in Elems(s.out) : m.type \notin Terminal
    /\ ~s.helper.running => ~s.be.wasReady /\ \A m \in Elems(s.out) : m.type \in Terminal
    /\ \A m \in Elems(s.out) : /\ m.type \in StartFailures => ~s.helper.running
                               /\ m.type = "READY" => m.ip # 0

\* A backend told to stop is heard in another state only after a late answer.
Late(s, U) == s.be.stopRequested /\ s.state # "Stopping" => "late" \in U

\* What the user has stopped is neither there nor on its way.
Still(s, U) ==
    s.stopped /\ U \cap {"crash", "late"} = {}
        => ~s.rec /\ ~s.exhausted /\ s.state \notin {"Starting", "Connected"}

\* The manager counts the job that holds the tunnel; a job that posts has it.
Runs(s, U) ==
    U = {} => /\ s.retained # {} => s.needing = 1
              /\ s.active # NoJob /\ s.paused # "user" => s.active \in s.retained
              /\ s.active # NoJob /\ s.paused = "no" => s.state = "Connected"
              /\ s.active # NoJob /\ s.state = "Stopping" => s.paused = "user"

Inv(s, U) ==
    /\ IsState(s) /\ ~s.inStart /\ Held(s) /\ Queue(s) /\ Machine(s) /\ Printed(s)
    /\ Late(s, U) /\ Still(s, U) /\ Runs(s, U)

\* The upsets V after a step from U: those, and a count that is wrong.
Upset(U, V, t) == U \subseteq V /\ (V = {} => t.needing = Cardinality(t.retained))

\* The job is as it was, or on pause, or let go, and its pause is justified.
JobStays(s, t, U) ==
    /\ t.active = s.active /\ t.parked = s.parked
    /\ t.paused = s.paused \/ (s.active # NoJob /\ s.paused = "no" /\ t.paused = "vpn")
    /\ t.needing \in {0, s.needing}
    /\ \/ t.retained = s.retained
       \/ /\ t.retained = s.retained \ {s.active}
          /\ s.needing = 0 \/ (t.needing = 0 /\ (U # {} \/ s.active = NoJob \/ s.paused = "user"))
    /\ "autoDisconnect" \in t.timers => "autoDisconnect" \in s.timers
    /\ U = {} /\ s.active # NoJob /\ t.paused = "no" => t.state = "Connected"
    /\ U = {} /\ s.active # NoJob /\ t.state = "Stopping" => t.paused = "user"

LEMMA CountOfOne ==
    ASSUME NEW S, NEW x, S \subseteq {x}
    PROVE  Cardinality(S) \in {0, 1} /\ (Cardinality(S) = 1 <=> S # {})
<1>1. Cardinality({}) = 0 /\ Cardinality({x}) = 1
  BY FS_EmptySet, FS_Singleton
<1>2. S = {} \/ S = {x}
  OBVIOUS
<1> QED
  BY <1>1, <1>2

LEMMA StaysHeld ==
    ASSUME NEW s, NEW t, NEW U, NEW V, IsState(s), IsState(t), Held(s), Queue(s), Runs(s, U),
           JobStays(s, t, U), Upset(U, V, t)
    PROVE  Held(t) /\ Queue(t) /\ Runs(t, V)
<1>0. s.needing \in Nat /\ s.needing \in {0, 1} /\ s.retained \subseteq Jobs /\ NoJob \notin Jobs
  <2>1. s.needing \in Nat /\ s.needing <= 1 /\ s.retained \subseteq Jobs
    BY DEF IsState, Held
  <2> QED
    BY <2>1, VpnAssumption
<1>1. t.active = s.active /\ t.parked = s.parked
  BY DEF JobStays
<1>2. Queue(t)
  BY <1>1 DEF Queue
<1>3. s.needing = 0 => s.retained = {} \/ U # {}
  BY DEF Runs
<1>4. Held(t)
  BY <1>0, <1>1 DEF Held, JobStays
<1>5. Runs(t, V)
  <2> SUFFICES ASSUME V = {} PROVE Runs(t, V)
    BY DEF Runs
  <2>1. U = {} /\ t.needing = Cardinality(t.retained)
    BY DEF Upset
  <2>2. t.retained \subseteq {t.active}
    BY <1>4 DEF Held
  <2>3. t.retained # {} <=> t.needing = 1
    BY <2>1, <2>2, CountOfOne
  <2>4. /\ s.retained # {} => s.needing = 1
        /\ s.active # NoJob /\ s.paused # "user" => s.active \in s.retained
    BY <2>1 DEF Runs
  <2>5. s.active # NoJob /\ t.paused # "user" => s.active \in t.retained
    <3> SUFFICES ASSUME s.active # NoJob, t.paused # "user" PROVE s.active \in t.retained
      OBVIOUS
    <3>1. s.paused # "user"
      BY DEF JobStays
    <3>2. s.active \in s.retained /\ s.needing = 1
      BY <2>4, <3>1
    <3>3. CASE t.retained = s.retained
      BY <3>2, <3>3
    <3>4. CASE t.retained # s.retained
      BY <2>1, <3>1, <3>2, <3>4 DEF JobStays
    <3> QED
      BY <3>3, <3>4
  <2> QED
    BY <1>1, <2>1, <2>3, <2>5 DEF Runs, JobStays
<1> QED
  BY <1>2, <1>4, <1>5

\* The tunnel is let go of.
LEMMA DeadTunnel ==
    ASSUME NEW t, IsState(t), Dead(t), t.tunIp = 0, "tunPoll" \notin t.timers,
           (t.state = "Reconnecting" /\ t.rec)
              \/ (t.state \in {"Failed", "LeaseBusy", "Disabled"} /\ ~t.rec),
           t.exhausted => t.state = "Failed",
           NEW V
    PROVE  Machine(t) /\ Printed(t) /\ Late(t, V)
<1>1. /\ t.be = NoBackend /\ t.out = <<>> /\ t.helper = [NoHelper EXCEPT !.ip = t.helper.ip]
  BY DEF Dead
<1>2. ~t.be.exists /\ ~t.be.stopRequested /\ ~t.be.wasReady /\ ~t.helper.alive /\ ~t.helper.running
  BY <1>1 DEF NoBackend, NoHelper
<1>3. Elems(t.out) = {}
  BY <1>1, ElemsFew
<1> QED
  BY <1>2, <1>3 DEF Machine, Printed, Late

\* What only the user may do: lift a pause of the user, and stop the tunnel
\* under a job.
PauseKept(s, t) ==
    s.active # NoJob /\ t.active = s.active /\ s.paused = "user" => t.paused = "user"

Allowed(s, t) ==
    /\ s.state # "Stopping" /\ t.state = "Stopping" => t.active = NoJob
    /\ PauseKept(s, t)

\* The backend and what it prints are as they were, but for what was read.
TunnelStays(s, t) ==
    /\ t.be = s.be /\ t.out = s.out
    /\ t.helper.alive = s.helper.alive /\ t.helper.running = s.helper.running

LEMMA TunnelStaysPrinted ==
    ASSUME NEW s, NEW t, Printed(s), TunnelStays(s, t)
    PROVE  Printed(t)
BY DEF Printed, TunnelStays

LEMMA LaterLate ==
    ASSUME NEW s, NEW t, NEW U, NEW V, U \subseteq V, Late(s, U), t.be = s.be,
           s.state = "Stopping" => t.state = "Stopping" \/ "late" \in U
    PROVE  Late(t, V)
BY DEF Late

\* A backend ends.
LEMMA TerminatedKeeps ==
    ASSUME NEW s, NEW U, Inv(s, U), s.be.exists, NEW k \in Kinds,
           k.kind = "RequestedStop" => s.be.stopRequested,
           k.kind = "UnexpectedExit" => k.failure = "lost" /\ k.wasReady,
           k.kind = "StartFailure" => ~s.be.wasReady,
           s.state = "Stopping" /\ k.kind = "UnexpectedExit" => U \cap {"crash", "late"} # {},
           NEW V, Upset(U, V, onBackendTerminated(s, k))
    PROVE  LET t == onBackendTerminated(s, k)
           IN Inv(t, V) /\ Allowed(s, t) /\ t.upset = s.upset
<1> DEFINE t == onBackendTerminated(s, k)
<1>0. IsState(s) /\ ~s.inStart /\ Held(s) /\ Queue(s) /\ Machine(s) /\ Late(s, U)
      /\ Still(s, U) /\ Runs(s, U)
  BY DEF Inv
<1>1. /\ IsState(t)
      /\ Only(s, t, {"rec", "reason", "state", "health", "timers", "retained", "auto",
                     "needing", "tunIp", "paused", "be", "cmds", "out", "helper",
                     "failedInStart"})
      /\ Dead(t) /\ t.tunIp = 0
      /\ t.timers \subseteq (s.timers \ {"tunPoll", "autoDisconnect"}) \cup {"recovery"}
      /\ EndsRequested(s, k, t) \/ EndsRecovering(s, k, t) \/ EndsFailing(s, k, t)
  BY <1>0, TerminatedIs
<1>2. Upset(U, V, t)
  OBVIOUS
<1> HIDE DEF t
<1>3. /\ t.active = s.active /\ t.parked = s.parked /\ t.exhausted = s.exhausted
      /\ t.stopped = s.stopped /\ t.inStart = s.inStart /\ t.upset = s.upset
  BY <1>1 DEF Only, Fields
<1>4. ~s.exhausted
  BY <1>0 DEF Machine
<1>5. /\ (t.state = "Reconnecting" /\ t.rec)
         \/ (t.state \in {"Failed", "LeaseBusy", "Disabled"} /\ ~t.rec)
      /\ "autoDisconnect" \notin t.timers /\ "tunPoll" \notin t.timers
  BY <1>1 DEF EndsRequested, EndsRecovering, EndsFailing
<1>6. Machine(t) /\ Printed(t) /\ Late(t, V)
  BY <1>1, <1>3, <1>4, <1>5, DeadTunnel
<1>7. ASSUME U = {}
      PROVE  /\ s.be.stopRequested => s.state = "Stopping"
             /\ s.active # NoJob /\ s.paused = "no"
                  => s.state = "Connected" /\ s.needing > 0 /\ s.be.wasReady
             /\ s.active # NoJob /\ s.state = "Stopping" => s.paused = "user"
  BY <1>0, <1>7 DEF Late, Runs, Machine
<1>8. JobStays(s, t, U)
  <2>1. CASE EndsRequested(s, k, t)
    BY <1>3, <1>5, <1>7, <2>1 DEF JobStays, EndsRequested
  <2>2. CASE EndsRecovering(s, k, t)
    <3>1. U = {} /\ s.rec => ~(s.active # NoJob /\ s.paused = "no")
      BY <1>0, <1>7 DEF Machine
    <3> QED
      BY <1>3, <1>5, <2>2, <3>1 DEF JobStays, EndsRecovering, Interrupted
  <2>3. CASE EndsFailing(s, k, t)
    <3>1. U = {} => ~(s.active # NoJob /\ s.paused = "no")
      BY <1>7, <2>3 DEF EndsFailing, Kinds
    <3> QED
      BY <1>3, <1>5, <2>3, <3>1 DEF JobStays, EndsFailing
  <2> QED
    BY <1>1, <2>1, <2>2, <2>3
<1>9. Held(t) /\ Queue(t) /\ Runs(t, V)
  BY <1>0, <1>1, <1>2, <1>8, StaysHeld
<1>10. Still(t, V)
  <2>1. SUFFICES ASSUME t.stopped, V \cap {"crash", "late"} = {}
        PROVE  ~t.rec /\ t.state \notin {"Starting", "Connected"}
    BY <1>3, <1>4 DEF Still
  <2>2. s.stopped /\ U \cap {"crash", "late"} = {}
    BY <1>2, <1>3, <2>1 DEF Upset
  <2>3. ~s.rec /\ s.state = "Stopping"
    BY <1>0, <2>2 DEF Still, Machine
  <2>4. ~EndsRecovering(s, k, t)
    BY <2>2, <2>3 DEF EndsRecovering
  <2> QED
    BY <1>1, <2>4 DEF EndsRequested, EndsFailing
<1>11. Allowed(s, t)
  BY <1>5, <1>8 DEF Allowed, PauseKept, JobStays
<1> QED
  BY <1>0, <1>1, <1>3, <1>6, <1>9, <1>10, <1>11 DEF Inv, t

\* Something is there to be lost or recovered.
Awake(s) == s.rec \/ s.state \in {"Starting", "Connected"}

LEMMA NotStopped ==
    ASSUME NEW s, NEW U, NEW V, Still(s, U), Awake(s), U \subseteq V, s.stopped
    PROVE  V \cap {"crash", "late"} # {}
BY DEF Still, Awake

LEMMA SameHelperRuns ==
    ASSUME NEW s, NEW t, IsState(s), SameHelper(s, t)
    PROVE  /\ t.helper.alive = s.helper.alive /\ t.helper.running = s.helper.running
           /\ t.helper.ip = s.helper.ip /\ t.helper.gone = s.helper.gone
           /\ t.helper.health = s.helper.health
BY DEF SameHelper, IsState, Helpers

\* A recovery begins, or goes on, with the backend that is there.
LEMMA ReconnectingKeeps ==
    ASSUME NEW s, NEW U, Inv(s, U), Awake(s), NEW t, IsState(t),
           Only(s, t, {"rec", "reason", "attempts", "state", "health", "timers", "tunIp", "paused"}),
           t.state = "Reconnecting", t.rec,
           \/ t.tunIp = s.tunIp
           \/ t.tunIp = 0 /\ "tunPoll" \notin t.timers,
           t.timers \subseteq s.timers \cup {"recovery"},
           Interrupted(s, t) \/ (s.rec /\ t.paused = s.paused),
           NEW V, Upset(U, V, t)
    PROVE  Inv(t, V) /\ Allowed(s, t) /\ t.upset = s.upset
<1>0. IsState(s) /\ ~s.inStart /\ Held(s) /\ Queue(s) /\ Machine(s) /\ Printed(s) /\ Late(s, U)
      /\ Still(s, U) /\ Runs(s, U)
  BY DEF Inv
<1>1. /\ t.active = s.active /\ t.parked = s.parked /\ t.exhausted = s.exhausted
      /\ t.stopped = s.stopped /\ t.inStart = s.inStart /\ t.upset = s.upset
      /\ t.needing = s.needing /\ t.retained = s.retained
      /\ t.be = s.be /\ t.cmds = s.cmds /\ t.out = s.out /\ t.helper = s.helper
  BY DEF Only, Fields
<1>2. s.state \in {"Starting", "Connected", "Reconnecting"} /\ ~s.exhausted
  BY <1>0 DEF Machine, Awake
<1>3. Machine(t)
  BY <1>0, <1>1, <1>2 DEF Machine, Dead
<1>4. Printed(t)
  BY <1>0, <1>1, TunnelStaysPrinted DEF TunnelStays
<1>5. Late(t, V)
  BY <1>0, <1>1, <1>2, LaterLate DEF Upset
<1>6. Still(t, V)
  BY <1>0, <1>1, NotStopped DEF Still, Upset
<1>7. U = {} /\ s.active # NoJob => t.paused # "no"
  <2>1. U = {} /\ s.active # NoJob /\ s.paused = "no" => ~s.rec
    BY <1>0 DEF Runs, Machine
  <2> QED
    BY <2>1 DEF Interrupted
<1>8. JobStays(s, t, U)
  BY <1>1, <1>7 DEF JobStays, Interrupted
<1>9. Held(t) /\ Queue(t) /\ Runs(t, V)
  BY <1>0, <1>8, StaysHeld
<1>10. Allowed(s, t)
  BY <1>8 DEF Allowed, PauseKept, JobStays
<1> QED
  BY <1>0, <1>1, <1>3, <1>4, <1>5, <1>6, <1>9, <1>10 DEF Inv

LEMMA ExhaustedKeeps ==
    ASSUME NEW s, NEW U, Inv(s, U), Awake(s),
           NEW V, Upset(U, V, _finishRecoveryExhausted(s))
    PROVE  LET t == _finishRecoveryExhausted(s)
           IN Inv(t, V) /\ Allowed(s, t) /\ t.upset = s.upset
<1> DEFINE t == _finishRecoveryExhausted(s)
<1>0. IsState(s) /\ ~s.inStart /\ Held(s) /\ Queue(s) /\ Machine(s)
      /\ Still(s, U) /\ Runs(s, U)
  BY DEF Inv
<1>1. /\ IsState(t)
      /\ Only(s, t, {"rec", "state", "health", "timers", "tunIp", "paused", "retained",
                     "exhausted", "be", "cmds", "out", "helper"})
      /\ t.state = "Failed" /\ ~t.rec /\ t.tunIp = 0 /\ Dead(t) /\ t.exhausted
      /\ t.timers \subseteq s.timers \ {"recovery", "tunPoll"}
      /\ Interrupted(s, t)
      /\ \/ t.retained = s.retained
         \/ t.retained = s.retained \ {s.active} /\ s.needing = 0
  BY <1>0, ExhaustedIs
<1>2. Upset(U, V, t)
  OBVIOUS
<1> HIDE DEF t
<1>3. /\ t.active = s.active /\ t.parked = s.parked /\ t.needing = s.needing
      /\ t.stopped = s.stopped /\ t.inStart = s.inStart /\ t.upset = s.upset
  BY <1>1 DEF Only, Fields
<1>4. Machine(t) /\ Printed(t) /\ Late(t, V)
  BY <1>1, DeadTunnel
<1>5. Still(t, V)
  BY <1>0, <1>2, <1>3, NotStopped DEF Still, Upset
<1>6. JobStays(s, t, U)
  BY <1>1, <1>3 DEF JobStays, Interrupted
<1>7. Held(t) /\ Queue(t) /\ Runs(t, V)
  BY <1>0, <1>1, <1>2, <1>6, StaysHeld
<1>8. Allowed(s, t)
  BY <1>1, <1>6 DEF Allowed, PauseKept, JobStays
<1> QED
  BY <1>0, <1>1, <1>3, <1>4, <1>5, <1>7, <1>8 DEF Inv, t

\* The tunnel is ready.
LEMMA CompleteReadyKeeps ==
    ASSUME NEW s, NEW U, Inv(s, U), s.tunIp # 0, s.state = "Stopping" => "late" \in U,
           NEW V, Upset(U, V, _completeReady(s))
    PROVE  LET t == _completeReady(s)
           IN Inv(t, V) /\ Allowed(s, t) /\ t.upset = s.upset
<1> DEFINE t == _completeReady(s)
<1>0. IsState(s) /\ ~s.inStart /\ Held(s) /\ Queue(s) /\ Machine(s) /\ Printed(s) /\ Late(s, U)
      /\ Still(s, U) /\ Runs(s, U)
  BY DEF Inv
<1>h. s.retained \subseteq {s.active}
  BY <1>0 DEF Held
<1>1. /\ IsState(t)
      /\ Only(s, t, {"state", "health", "rec", "reason", "timers", "helper", "active",
                     "parked", "paused", "retained", "needing"})
      /\ t.state = "Connected" /\ ~t.rec /\ SameHelper(s, t)
      /\ t.timers \subseteq (s.timers \ {"recovery"}) \cup {"healthyReset"}
      /\ \/ NobodyStarts(s, t) /\ s.state = "Connected" /\ t.paused = s.paused
         \/ NobodyStarts(s, t) /\ t.paused = IF s.active # NoJob /\ s.paused = "vpn" THEN "no" ELSE s.paused
         \/ HeadStarts(s, t)
  BY <1>0, <1>h, CompleteReadyIs
<1>2. Upset(U, V, t)
  OBVIOUS
<1> HIDE DEF t
<1>3. /\ t.exhausted = s.exhausted /\ t.tunIp = s.tunIp
      /\ t.stopped = s.stopped /\ t.inStart = s.inStart /\ t.upset = s.upset
      /\ t.be = s.be /\ t.cmds = s.cmds /\ t.out = s.out
  BY <1>1 DEF Only, Fields
<1>4. /\ s.be.wasReady /\ s.be.exists /\ ~s.exhausted
      /\ s.state \in {"Starting", "Connected", "Stopping", "Reconnecting"}
  <2>1. s.be.wasReady /\ (~s.be.exists => s.be = NoBackend)
    BY <1>0 DEF Machine, Dead
  <2>2. s.be.exists
    BY <2>1 DEF NoBackend
  <2> QED
    BY <1>0, <2>1, <2>2 DEF Machine
<1>5. Machine(t)
  BY <1>1, <1>3, <1>4 DEF Machine
<1>6. Printed(t)
  BY <1>0, <1>1, <1>3, SameHelperRuns, TunnelStaysPrinted DEF TunnelStays
<1>7. Late(t, V)
  BY <1>0, <1>2, <1>3, LaterLate DEF Upset
<1>8. Still(t, V)
  <2>1. Awake(s) \/ "late" \in U
    BY <1>0, <1>4 DEF Machine, Awake
  <2>2. s.stopped => V \cap {"crash", "late"} # {}
    BY <1>0, <1>2, <2>1, NotStopped DEF Upset
  <2> QED
    BY <1>3, <2>2 DEF Still
<1>n. s.needing \in Nat /\ s.retained \subseteq Jobs /\ NoJob \notin Jobs
  BY <1>0, VpnAssumption DEF IsState
<1>9. CASE HeadStarts(s, t)
  <2>1. s.retained = {} /\ s.needing = 0 /\ t.needing = 1
    <3>1. s.retained = {}
      BY <1>h, <1>n, <1>9 DEF HeadStarts
    <3>2. s.needing <= 1 /\ s.needing # 1
      BY <1>0, <3>1 DEF Held
    <3> QED
      BY <1>n, <1>9, <3>1, <3>2 DEF HeadStarts
  <2>2. /\ Head(s.parked) \in Jobs /\ IsInjectiveSeq(Tail(s.parked))
        /\ Head(s.parked) \notin Elems(Tail(s.parked))
    <3>1. s.parked \in Seq(Jobs) /\ s.parked # <<>> /\ IsInjectiveSeq(s.parked)
      BY <1>0, <1>9 DEF IsState, Queue, HeadStarts
    <3> QED
      BY <3>1, ElemsTail
  <2>3. t.active # NoJob
    BY <1>n, <1>9, <2>2 DEF HeadStarts
  <2>4. Held(t)
    BY <1>9, <2>1, <2>3 DEF Held, HeadStarts
  <2>5. Queue(t)
    BY <1>9, <2>2 DEF Queue, HeadStarts
  <2>6. Runs(t, V)
    BY <1>1, <1>9, <2>1 DEF Runs, HeadStarts
  <2>7. Allowed(s, t)
    BY <1>1, <1>9 DEF Allowed, PauseKept, HeadStarts
  <2> QED
    BY <1>0, <1>1, <1>3, <1>5, <1>6, <1>7, <1>8, <2>4, <2>5, <2>6, <2>7 DEF Inv, t
<1>10. CASE NobodyStarts(s, t)
           /\ t.paused \in {s.paused, IF s.active # NoJob /\ s.paused = "vpn" THEN "no" ELSE s.paused}
  <2>1. Held(t)
    BY <1>0, <1>1, <1>10 DEF Held, NobodyStarts
  <2>2. Queue(t)
    BY <1>0, <1>10 DEF Queue, NobodyStarts
  <2>3. Runs(t, V)
    <3> SUFFICES ASSUME V = {} PROVE Runs(t, V)
      BY DEF Runs
    <3>1. U = {}
      BY <1>2 DEF Upset
    <3> QED
      BY <1>0, <1>1, <1>10, <3>1 DEF Runs, NobodyStarts
  <2>4. Allowed(s, t)
    BY <1>1, <1>10 DEF Allowed, PauseKept
  <2> QED
    BY <1>0, <1>1, <1>3, <1>5, <1>6, <1>7, <1>8, <2>1, <2>2, <2>3, <2>4 DEF Inv, t
<1> QED
  BY <1>1, <1>9, <1>10

\* Nothing but times, counts, the reason or the address changes.
LEMMA QuietKeeps ==
    ASSUME NEW s, NEW U, Inv(s, U), NEW t, IsState(t),
           Only(s, t, {"health", "reason", "auto", "attempts", "id", "ok", "admission",
                       "failedInStart", "timers", "tunIp", "cmds"}),
           t.timers \subseteq s.timers \cup {"recovery", "healthyReset", "tunPoll"},
           "tunPoll" \in t.timers \/ s.state = "Connected" => t.tunIp # 0,
           t.tunIp # 0 => s.be.wasReady,
           ~s.be.exists => t.cmds = <<>>,
           NEW V, Upset(U, V, t)
    PROVE  Inv(t, V) /\ Allowed(s, t) /\ t.upset = s.upset
<1>0. IsState(s) /\ ~s.inStart /\ Held(s) /\ Queue(s) /\ Machine(s) /\ Printed(s) /\ Late(s, U)
      /\ Still(s, U) /\ Runs(s, U)
  BY DEF Inv
<1>1. /\ t.active = s.active /\ t.parked = s.parked /\ t.exhausted = s.exhausted
      /\ t.stopped = s.stopped /\ t.inStart = s.inStart /\ t.upset = s.upset
      /\ t.needing = s.needing /\ t.retained = s.retained /\ t.paused = s.paused
      /\ t.be = s.be /\ t.out = s.out /\ t.helper = s.helper
      /\ t.state = s.state /\ t.rec = s.rec
  BY DEF Only, Fields
<1>2. Machine(t)
  BY <1>0, <1>1 DEF Machine, Dead
<1>3. Printed(t)
  BY <1>0, <1>1, TunnelStaysPrinted DEF TunnelStays
<1>4. Late(t, V)
  BY <1>0, <1>1, LaterLate DEF Upset
<1>5. Still(t, V)
  BY <1>0, <1>1 DEF Still, Upset
<1>6. JobStays(s, t, U)
  BY <1>0, <1>1 DEF JobStays, Runs
<1>7. Held(t) /\ Queue(t) /\ Runs(t, V)
  BY <1>0, <1>6, StaysHeld
<1>8. Allowed(s, t)
  BY <1>1 DEF Allowed, PauseKept
<1> QED
  BY <1>0, <1>1, <1>2, <1>3, <1>4, <1>5, <1>7, <1>8 DEF Inv

\* A state that satisfies the invariant, and what upset it, needs no more upset.
LEMMA InvCounts ==
    ASSUME NEW s, NEW U, Inv(s, U), NEW V, U \subseteq V
    PROVE  Upset(U, V, s) /\ Upset(U, U, s)
<1>1. s.retained \subseteq {s.active} /\ s.needing <= 1 /\ (s.needing = 1 => s.retained # {})
      /\ s.needing \in Nat
  BY DEF Inv, Held, IsState
<1>2. U = {} /\ s.retained # {} => s.needing = 1
  BY DEF Inv, Runs
<1>3. Cardinality(s.retained) \in {0, 1} /\ (Cardinality(s.retained) = 1 <=> s.retained # {})
  BY <1>1, CountOfOne
<1>4. U = {} => s.needing = Cardinality(s.retained)
  BY <1>1, <1>2, <1>3
<1> QED
  BY <1>4 DEF Upset

\* More upsets harm nothing.
LEMMA InvUpset ==
    ASSUME NEW s, NEW U, Inv(s, U), NEW V, U \subseteq V
    PROVE  Inv(s, V) /\ Allowed(s, s)
<1>1. IsState(s) /\ ~s.inStart /\ Held(s) /\ Queue(s) /\ Machine(s) /\ Printed(s) /\ Late(s, U)
      /\ Still(s, U) /\ Runs(s, U)
  BY DEF Inv
<1>2. Late(s, V)
  BY <1>1 DEF Late
<1>3. Still(s, V)
  BY <1>1 DEF Still
<1>4. V = {} => U = {}
  OBVIOUS
<1>5. Runs(s, V)
  BY <1>1, <1>4 DEF Runs
<1> QED
  BY <1>1, <1>2, <1>3, <1>5 DEF Inv, Allowed, PauseKept

LEMMA AllowedAfter ==
    ASSUME NEW s, NEW r, NEW t, Allowed(r, t),
           r.state = s.state, r.active = s.active, r.paused = s.paused
    PROVE  Allowed(s, t)
BY DEF Allowed, PauseKept

LEMMA ReadyKeeps ==
    ASSUME NEW s, NEW U, Inv(s, U), s.be.wasReady, NEW ip \in Nat \ {0}, NEW bindable \in BOOLEAN,
           NEW V, Upset(U, V, onBackendReady(s, ip, bindable))
    PROVE  LET t == onBackendReady(s, ip, bindable)
           IN Inv(t, V) /\ Allowed(s, t) /\ t.upset = s.upset
<1> DEFINE a == [s EXCEPT !.tunIp = ip]
           b == StartTimer(a, "tunPoll")
           c == StopTimers(a, {"tunPoll"})
           t == onBackendReady(s, ip, bindable)
<1>0. IsState(s) /\ U \subseteq V /\ Upset(U, V, t)
  BY DEF Inv, Upset
<1>1. IsState(a) /\ Only(s, a, {"tunIp"}) /\ a.tunIp = ip
  BY <1>0 DEF IsState, Only, Fields
<1>2. IsState(b) /\ Only(a, b, {"timers"}) /\ b.timers = a.timers \cup {"tunPoll"}
  <2> HIDE DEF a
  <2> QED
    BY <1>1 DEF StartTimer, IsState, Only, Fields, Timers
<1>d. IsState(c) /\ Only(a, c, {"timers"}) /\ c.timers = a.timers \ {"tunPoll"}
  <2> HIDE DEF a
  <2> QED
    BY <1>1 DEF StopTimers, IsState, Only, Fields
<1>3. t = IF s.state = "Stopping" THEN s ELSE IF bindable THEN _completeReady(c) ELSE b
  BY DEF onBackendReady
<1> HIDE DEF a, b, c, t
<1>4. /\ a.state = s.state /\ a.active = s.active /\ a.paused = s.paused /\ a.upset = s.upset
      /\ a.timers = s.timers /\ a.needing = s.needing /\ a.retained = s.retained
      /\ a.cmds = s.cmds
  BY <1>1 DEF Only, Fields
<1>c. ~s.be.exists => s.cmds = <<>>
  BY DEF Inv, Machine, Dead
<1>5. Inv(a, U)
  <2>1. Upset(U, U, a)
    BY <1>4, InvCounts DEF Upset
  <2>2. Only(s, a, {"health", "reason", "auto", "attempts", "id", "ok", "admission",
                    "failedInStart", "timers", "tunIp", "cmds"})
    BY <1>1 DEF Only
  <2> QED
    BY <1>1, <1>4, <1>c, <2>1, <2>2, QuietKeeps
<1>6. CASE s.state = "Stopping"
  BY <1>0, <1>3, <1>6, InvUpset DEF t
<1>7. CASE s.state # "Stopping" /\ bindable
  <2>1. t = _completeReady(c)
    BY <1>3, <1>7
  <2>2. /\ c.state = s.state /\ c.active = s.active /\ c.paused = s.paused /\ c.upset = s.upset
        /\ c.cmds = s.cmds /\ c.tunIp = ip /\ c.needing = a.needing /\ c.retained = a.retained
        /\ a.be = s.be
    BY <1>1, <1>4, <1>d DEF Only, Fields
  <2>3. Inv(c, U)
    <3>1. Upset(U, U, c)
      BY <1>5, <2>2, InvCounts DEF Upset
    <3>2. /\ Only(a, c, {"health", "reason", "auto", "attempts", "id", "ok", "admission",
                         "failedInStart", "timers", "tunIp", "cmds"})
          /\ c.timers \subseteq a.timers \cup {"recovery", "healthyReset", "tunPoll"}
      BY <1>d DEF Only
    <3> QED
      BY <1>4, <1>5, <1>c, <1>d, <2>2, <3>1, <3>2, QuietKeeps
  <2>4. Inv(t, V) /\ Allowed(c, t) /\ t.upset = c.upset
    BY <1>0, <1>7, <2>1, <2>2, <2>3, CompleteReadyKeeps
  <2> QED
    BY <2>2, <2>4, AllowedAfter DEF t
<1>8. CASE s.state # "Stopping" /\ ~bindable
  <2>1. t = b
    BY <1>3, <1>8
  <2>2. /\ Only(a, b, {"health", "reason", "auto", "attempts", "id", "ok", "admission",
                       "failedInStart", "timers", "tunIp", "cmds"})
        /\ b.tunIp = ip /\ b.cmds = a.cmds
        /\ b.timers \subseteq a.timers \cup {"recovery", "healthyReset", "tunPoll"}
    BY <1>1, <1>2 DEF Only, Fields
  <2>3. a.be = s.be
    BY <1>1 DEF Only, Fields
  <2>4. Inv(b, V) /\ Allowed(a, b) /\ b.upset = a.upset
    <3>1. Upset(U, V, b)
      BY <1>0, <2>1
    <3> QED
      BY <1>2, <1>4, <1>5, <1>c, <2>2, <2>3, <3>1, QuietKeeps
  <2> QED
    BY <1>4, <2>1, <2>4, AllowedAfter DEF t
<1> QED
  BY <1>6, <1>7, <1>8

LEMMA RestartFailedKeeps ==
    ASSUME NEW s, NEW U, Inv(s, U), NEW attempt,
           NEW V, Upset(U, V, onBackendRestartFailed(s, attempt))
    PROVE  LET t == onBackendRestartFailed(s, attempt)
           IN Inv(t, V) /\ Allowed(s, t) /\ t.upset = s.upset
<1> DEFINE a == [s EXCEPT !.reason = "lost"]
           t == onBackendRestartFailed(s, attempt)
<1>0. IsState(s) /\ U \subseteq V /\ Upset(U, V, t)
  BY DEF Inv, Upset
<1>1. CASE attempt # s.id \/ ~s.rec
  <2>1. t = s
    BY <1>1 DEF onBackendRestartFailed
  <2> QED
    BY <1>0, <2>1, InvUpset
<1>2. CASE ~(attempt # s.id \/ ~s.rec)
  <2>1. t = _scheduleExternalRestart(a)
    BY <1>2 DEF onBackendRestartFailed
  <2>2. IsState(a) /\ Only(s, a, {"reason"})
    BY <1>0 DEF IsState, Only, Fields, FailureKinds
  <2> HIDE DEF a, t
  <2>3. /\ IsState(t) /\ Only(a, t, {"state", "health", "timers"}) /\ t.state = "Reconnecting"
        /\ t.timers \subseteq a.timers \cup {"recovery"}
    BY <2>1, <2>2, ScheduleIs
  <2>4. /\ Only(s, t, {"rec", "reason", "attempts", "state", "health", "timers", "tunIp", "paused"})
        /\ t.rec = s.rec /\ t.tunIp = s.tunIp /\ a.timers = s.timers /\ t.paused = s.paused
    BY <2>2, <2>3 DEF Only, Fields
  <2>5. Inv(t, V) /\ Allowed(s, t) /\ t.upset = s.upset
    BY <1>0, <1>2, <2>3, <2>4, ReconnectingKeeps DEF Awake
  <2> QED
    BY <2>5 DEF t
<1> QED
  BY <1>1, <1>2

LEMMA RecoveringInternallyKeeps ==
    ASSUME NEW s, NEW U, Inv(s, U), Awake(s),
           NEW V, Upset(U, V, onRecoveringInternally(s))
    PROVE  LET t == onRecoveringInternally(s)
           IN Inv(t, V) /\ Allowed(s, t) /\ t.upset = s.upset
<1> DEFINE r == [s EXCEPT !.attempts = @ + 1, !.rec = TRUE, !.reason = "lost"]
           a == _setHealth(r, "RecoveringInternally")
           b == _setState(a, "Reconnecting")
           c == vpnInterrupted(b)
           d == StartTimer(c, "recovery")
           t == onRecoveringInternally(s)
<1>0. IsState(s) /\ U \subseteq V /\ Upset(U, V, t)
  BY DEF Inv, Upset
<1>1. t = IF s.rec /\ s.health = "RecoveringInternally" THEN s
          ELSE IF ~BudgetLeft(s) THEN _finishRecoveryExhausted(s) ELSE d
  BY DEF onRecoveringInternally
<1>2. CASE s.rec /\ s.health = "RecoveringInternally"
  BY <1>0, <1>1, <1>2, InvUpset
<1>3. CASE ~(s.rec /\ s.health = "RecoveringInternally") /\ ~BudgetLeft(s)
  BY <1>0, <1>1, <1>3, ExhaustedKeeps
<1>4. CASE ~(s.rec /\ s.health = "RecoveringInternally") /\ BudgetLeft(s)
  <2>1. t = d
    BY <1>1, <1>4
  <2>n. s.attempts + 1 \in Nat /\ WithinBudget(s.attempts + 1)
    BY <1>0, <1>4, VpnAssumption DEF IsState, BudgetLeft, WithinBudget
  <2>2. IsState(r) /\ Only(s, r, {"attempts", "rec", "reason"}) /\ r.rec
    <3>1. /\ Only(s, r, {"attempts", "rec", "reason"}) /\ r = [f \in Fields |-> r[f]]
          /\ r.rec = TRUE /\ r.attempts = s.attempts + 1 /\ r.reason = "lost"
      BY <1>0 DEF IsState, Only, Fields
    <3> HIDE DEF r
    <3> QED
      BY <1>0, <2>n, <3>1, ZenonT(90) DEF IsState, Only, Fields, FailureKinds
  <2> HIDE DEF r, t
  <2>3. IsState(a) /\ Only(r, a, {"health", "timers"}) /\ a.timers \subseteq r.timers
    BY <2>2, SetHealthIs DEF Healths
  <2> HIDE DEF a
  <2>4. IsState(b) /\ Only(a, b, {"state", "retained"}) /\ b.state = "Reconnecting" /\ b.retained = a.retained
    BY <2>3, SetStateIs DEF States
  <2> HIDE DEF b
  <2>5. IsState(c) /\ Only(b, c, {"paused"}) /\ Interrupted(b, c)
    BY <2>4, InterruptedIs DEF Interrupted
  <2> HIDE DEF c
  <2>6. IsState(d) /\ Only(c, d, {"timers"}) /\ d.timers = c.timers \cup {"recovery"}
    BY <2>5 DEF StartTimer, IsState, Only, Fields, Timers
  <2> HIDE DEF d
  <2>10. Only(s, b, {"rec", "reason", "attempts", "state", "health", "timers"})
    BY <2>2, <2>3, <2>4 DEF Only, Fields
  <2>7. /\ Only(s, d, {"rec", "reason", "attempts", "state", "health", "timers", "tunIp", "paused"})
        /\ d.state = b.state /\ d.rec = r.rec /\ d.tunIp = s.tunIp /\ d.paused = c.paused
        /\ c.timers = a.timers /\ r.timers = s.timers
        /\ b.active = s.active /\ b.paused = s.paused
    BY <2>2, <2>3, <2>4, <2>5, <2>6, <2>10, ZenonT(90) DEF Only, Fields
  <2>8. Interrupted(s, d)
    BY <2>5, <2>7 DEF Interrupted
  <2>9. Inv(d, V) /\ Allowed(s, d) /\ d.upset = s.upset
    BY <1>0, <2>1, <2>2, <2>3, <2>4, <2>6, <2>7, <2>8, ReconnectingKeeps, ZenonT(90)
  <2> QED
    BY <2>1, <2>9 DEF t
<1> QED
  BY <1>2, <1>3, <1>4

\* What the helper says of the tunnel.
LEMMA HealthChangedKeeps ==
    ASSUME NEW s, NEW U, Inv(s, U), s.be.exists, NEW h \in Reports,
           NEW V, Upset(U, V, onBackendHealthChanged(s, h))
    PROVE  LET t == onBackendHealthChanged(s, h)
           IN Inv(t, V) /\ Allowed(s, t) /\ t.upset = s.upset
<1> DEFINE t == onBackendHealthChanged(s, h)
<1>0. IsState(s) /\ U \subseteq V /\ Upset(U, V, t)
  BY DEF Inv, Upset
<1>1. CASE s.state = "Stopping"
  <2>1. t = s
    BY <1>1 DEF onBackendHealthChanged
  <2> QED
    BY <1>0, <2>1, InvUpset
<1>a. s.state # "Stopping" => Awake(s)
  BY DEF Inv, Machine, Awake
<1>2. CASE s.state # "Stopping" /\ h = "Healthy"
  <2>1. t = IF s.tunIp = 0 THEN s ELSE _completeReady(s)
    BY <1>2 DEF onBackendHealthChanged
  <2> HIDE DEF t
  <2>2. CASE s.tunIp = 0
    BY <1>0, <2>1, <2>2, InvUpset DEF t
  <2>3. CASE s.tunIp # 0
    BY <1>0, <1>2, <2>1, <2>3, CompleteReadyKeeps DEF t
  <2> QED
    BY <2>2, <2>3
<1>3. CASE s.state # "Stopping" /\ h = "Suspect"
  <2>1. t = _setHealth(s, "Suspect")
    BY <1>3 DEF onBackendHealthChanged
  <2> HIDE DEF t
  <2>2. IsState(t) /\ Only(s, t, {"health", "timers"}) /\ t.timers \subseteq s.timers
    BY <1>0, <2>1, SetHealthIs DEF Healths
  <2>3. /\ Only(s, t, {"health", "reason", "auto", "attempts", "id", "ok", "admission",
                       "failedInStart", "timers", "tunIp", "cmds"})
        /\ t.tunIp = s.tunIp
    BY <2>2 DEF Only, Fields
  <2>4. "tunPoll" \in s.timers \/ s.state = "Connected" => s.tunIp # 0
    BY DEF Inv, Machine
  <2>5. s.tunIp # 0 => s.be.wasReady
    BY DEF Inv, Machine
  <2>6. Inv(t, V) /\ Allowed(s, t) /\ t.upset = s.upset
    BY <1>0, <2>2, <2>3, <2>4, <2>5, QuietKeeps
  <2> QED
    BY <2>6 DEF t
<1>4. CASE s.state # "Stopping" /\ h = "RecoveringInternally"
  <2>1. t = onRecoveringInternally(s)
    BY <1>4 DEF onBackendHealthChanged
  <2> HIDE DEF t
  <2> QED
    BY <1>0, <1>4, <1>a, <2>1, RecoveringInternallyKeeps DEF t
<1>5. CASE s.state # "Stopping" /\ h = "Down"
  <2> DEFINE a == [s EXCEPT !.reason = "lost"]
  <2>1. t = IF s.rec /\ s.health = "RecoveringInternally" THEN _scheduleExternalRestart(a)
            ELSE requestRecovery(s, "lost")
    BY <1>5 DEF onBackendHealthChanged
  <2>2. IsState(a) /\ Only(s, a, {"reason"})
    BY <1>0 DEF IsState, Only, Fields, FailureKinds
  <2> HIDE DEF a, t
  <2>3. CASE s.rec /\ s.health = "RecoveringInternally"
    <3>1. /\ IsState(t) /\ Only(a, t, {"state", "health", "timers"}) /\ t.state = "Reconnecting"
          /\ t.timers \subseteq a.timers \cup {"recovery"}
      BY <2>1, <2>2, <2>3, ScheduleIs
    <3>2. /\ Only(s, t, {"rec", "reason", "attempts", "state", "health", "timers", "tunIp", "paused"})
          /\ t.rec = s.rec /\ t.tunIp = s.tunIp /\ a.timers = s.timers /\ t.paused = s.paused
      BY <2>2, <3>1 DEF Only, Fields
    <3>3. Inv(t, V) /\ Allowed(s, t) /\ t.upset = s.upset
      BY <1>0, <2>3, <3>1, <3>2, ReconnectingKeeps DEF Awake
    <3> QED
      BY <3>3 DEF t
  <2>4. CASE ~(s.rec /\ s.health = "RecoveringInternally") /\ ~s.rec
    <3>1. t = requestRecovery(s, "lost")
      BY <2>1, <2>4
    <3>2. /\ IsState(t)
          /\ Only(s, t, {"rec", "reason", "state", "health", "timers", "tunIp", "paused"})
          /\ t.state = "Reconnecting" /\ t.rec /\ t.tunIp = 0
          /\ t.timers \subseteq (s.timers \ {"tunPoll", "autoDisconnect"}) \cup {"recovery"}
          /\ Interrupted(s, t)
      BY <1>0, <1>5, <2>4, <3>1, RecoveryIs
    <3>3. Only(s, t, {"rec", "reason", "attempts", "state", "health", "timers", "tunIp", "paused"})
      BY <3>2 DEF Only
    <3>4. Inv(t, V) /\ Allowed(s, t) /\ t.upset = s.upset
      <4>1. "tunPoll" \notin t.timers /\ t.timers \subseteq s.timers \cup {"recovery"}
        BY <3>2
      <4> QED
        BY <1>0, <1>5, <1>a, <3>2, <3>3, <4>1, ReconnectingKeeps
    <3> QED
      BY <3>4 DEF t
  <2>5. CASE ~(s.rec /\ s.health = "RecoveringInternally") /\ s.rec
    <3>1. t = s
      BY <2>1, <2>5 DEF requestRecovery
    <3> QED
      BY <1>0, <3>1, InvUpset DEF t
  <2> QED
    BY <1>0, <2>3, <2>4, <2>5 DEF IsState
<1> QED
  BY <1>1, <1>2, <1>3, <1>4, <1>5 DEF Reports

\* A message is handled; s is the state without it.
LEMMA HandleKeeps ==
    ASSUME NEW s, NEW U, Inv(s, U), s.be.exists, s.be = backend,
           NEW m \in Messages, NEW bindable \in BOOLEAN,
           m.type \in StartFailures => ~s.helper.running,
           m.type = "READY" => m.ip # 0,
           m.type \notin Terminal => s.helper.running,
           s.state = "Stopping" /\ m.type = "CRASH" => "crash" \in U,
           NEW V, Upset(U, V, Handle(s, m, bindable))
    PROVE  LET t == Handle(s, m, bindable)
           IN Inv(t, V) /\ Allowed(s, t) /\ t.upset = s.upset
<1> DEFINE r == [s EXCEPT !.be.wasReady = TRUE]
           t == Handle(s, m, bindable)
<1>0. /\ IsState(s) /\ U \subseteq V /\ Upset(U, V, t) /\ Machine(s) /\ Printed(s)
      /\ ~s.inStart /\ Held(s) /\ Queue(s) /\ Late(s, U) /\ Still(s, U) /\ Runs(s, U)
  BY DEF Inv, Upset
<1>m. /\ m.type \in Terminal \cup {"READY", "RESTART_FAILED"} \cup Reports
      /\ m.attempt \in Nat /\ m.ip \in Nat
  BY DEF Messages
<1>1. CASE m.type = "READY"
  <2>1. Inv(r, U) /\ r.be.wasReady /\ r.upset = s.upset
        /\ r.state = s.state /\ r.active = s.active /\ r.paused = s.paused
    <3>1. /\ r.be = [s.be EXCEPT !.wasReady = TRUE] /\ Only(s, r, {"be"})
          /\ r = [f \in Fields |-> r[f]]
      BY <1>0 DEF IsState, Only, Fields
    <3> HIDE DEF r
    <3>2. /\ r.be \in Backends /\ r.be.wasReady /\ r.be.exists = s.be.exists
          /\ r.be.stopRequested = s.be.stopRequested
      BY <1>0, <3>1 DEF IsState, Backends
    <3>3. IsState(r)
      BY <1>0, <3>1, <3>2 DEF IsState, Only, Fields
    <3>4. /\ r.active = s.active /\ r.parked = s.parked /\ r.exhausted = s.exhausted
          /\ r.stopped = s.stopped /\ r.inStart = s.inStart /\ r.upset = s.upset
          /\ r.needing = s.needing /\ r.retained = s.retained /\ r.paused = s.paused
          /\ r.out = s.out /\ r.helper = s.helper /\ r.timers = s.timers /\ r.tunIp = s.tunIp
          /\ r.state = s.state /\ r.rec = s.rec
      BY <3>1 DEF Only, Fields
    <3>5. Machine(r)
      BY <1>0, <3>2, <3>4 DEF Machine
    <3>6. Printed(r)
      BY <1>0, <1>1, <3>2, <3>4 DEF Printed, Terminal, StartFailures
    <3>7. Late(r, U) /\ Still(r, U)
      BY <1>0, <3>2, <3>4 DEF Late, Still
    <3>8. Held(r) /\ Queue(r) /\ Runs(r, U)
      BY <1>0, <3>4 DEF Held, Queue, Runs
    <3> QED
      BY <1>0, <3>2, <3>3, <3>4, <3>5, <3>6, <3>7, <3>8 DEF Inv
  <2>2. /\ m.attempt = 0 => t = onBackendReady(r, m.ip, bindable)
        /\ m.attempt # 0 => t = onBackendRestartReady(r, m.attempt, m.ip, bindable)
    BY <1>1 DEF Handle
  <2> HIDE DEF r, t
  <2>3. t = r \/ t = onBackendReady(r, m.ip, bindable)
    BY <2>2 DEF onBackendRestartReady
  <2>4. m.ip \in Nat \ {0}
    BY <1>1, <1>m
  <2>5. Inv(t, V) /\ Allowed(r, t) /\ t.upset = r.upset
    <3>1. CASE t = r
      BY <1>0, <2>1, <3>1, InvUpset
    <3>2. CASE t = onBackendReady(r, m.ip, bindable)
      BY <1>0, <2>1, <2>4, <3>2, ReadyKeeps
    <3> QED
      BY <2>3, <3>1, <3>2
  <2> QED
    BY <2>1, <2>5, AllowedAfter DEF t
<1>2. CASE m.type = "RESTART_FAILED"
  <2>1. t = onBackendRestartFailed(s, m.attempt)
    BY <1>2 DEF Handle
  <2> QED
    BY <1>0, <2>1, RestartFailedKeeps
<1>3. CASE m.type \in Reports
  <2>1. t = onBackendHealthChanged(s, m.type)
    BY <1>3 DEF Handle, Reports
  <2> QED
    BY <1>0, <1>3, <2>1, HealthChangedKeeps
<1>4. CASE m.type \in Terminal
  <2> DEFINE k == Termination(m)
  <2>1. t = onBackendTerminated(s, k)
    BY <1>4 DEF Handle, Terminal, StartFailures
  <2>2. /\ k \in Kinds
        /\ k.kind = "RequestedStop" => s.be.stopRequested
        /\ k.kind = "UnexpectedExit" => k.failure = "lost" /\ k.wasReady
        /\ k.kind = "StartFailure" => ~s.be.wasReady
        /\ k.kind = "UnexpectedExit" => m.type = "CRASH" \/ ~s.be.stopRequested
    <3>1. s.be.wasReady \in BOOLEAN
      BY <1>0 DEF IsState, Backends
    <3>2. CASE m.type \in StartFailures
      <4>1. k = [kind |-> "StartFailure", failure |-> m.type, wasReady |-> FALSE]
        BY <3>2 DEF Termination, StartFailure, StartFailures
      <4>2. ~s.be.wasReady
        BY <1>0, <3>2 DEF Printed
      <4> QED
        BY <3>2, <4>1, <4>2 DEF Kinds, FailureKinds, StartFailures
    <3>3. CASE m.type = "EXIT" /\ s.be.stopRequested
      <4>1. k = [kind |-> "RequestedStop", failure |-> "none", wasReady |-> s.be.wasReady]
        BY <3>3 DEF Termination
      <4> QED
        BY <3>1, <3>3, <4>1 DEF Kinds, FailureKinds
    <3>4. CASE m.type \in {"EXIT", "CRASH"} /\ ~(m.type = "EXIT" /\ s.be.stopRequested) /\ s.be.wasReady
      <4>1. k = [kind |-> "UnexpectedExit", failure |-> "lost", wasReady |-> TRUE]
        BY <3>4 DEF Termination
      <4> QED
        BY <3>4, <4>1 DEF Kinds, FailureKinds
    <3>5. CASE m.type \in {"EXIT", "CRASH"} /\ ~(m.type = "EXIT" /\ s.be.stopRequested) /\ ~s.be.wasReady
      <4>1. k = [kind |-> "StartFailure", failure |-> "other", wasReady |-> FALSE]
        BY <3>5 DEF Termination, StartFailure
      <4> QED
        BY <3>5, <4>1 DEF Kinds, FailureKinds
    <3> QED
      BY <1>4, <3>1, <3>2, <3>3, <3>4, <3>5 DEF Terminal
  <2> HIDE DEF k, t
  <2>3. s.state = "Stopping" /\ k.kind = "UnexpectedExit" => U \cap {"crash", "late"} # {}
    BY <1>0, <2>2 DEF Machine
  <2>4. Inv(t, V) /\ Allowed(s, t) /\ t.upset = s.upset
    BY <1>0, <2>1, <2>2, <2>3, TerminatedKeeps
  <2> QED
    BY <2>4 DEF t
<1> QED
  BY <1>m, <1>1, <1>2, <1>3, <1>4

-----------------------------------------------------------------------------
(* A tunnel is started, or is not. *)

Launched(s, t) ==
    /\ t.state = "Starting"
    /\ t.be = [NoBackend EXCEPT !.exists = TRUE]
    /\ t.helper = [NoHelper EXCEPT !.ip = s.helper.ip, !.alive = TRUE]
    /\ t.cmds = <<>> /\ t.out = <<>>

\* A new backend starts where none was.
LEMMA LaunchedKeeps ==
    ASSUME NEW s, NEW U, Inv(s, U), ~s.be.exists, ~s.exhausted, NEW t, IsState(t),
           Only(s, t, {"state", "stopped", "be", "cmds", "out", "helper", "ok", "attempts",
                       "id", "auto", "admission"}),
           Launched(s, t), t.stopped => s.stopped /\ s.rec,
           NEW V, Upset(U, V, t)
    PROVE  Inv(t, V) /\ Allowed(s, t) /\ t.upset = s.upset
<1>0. IsState(s) /\ ~s.inStart /\ Held(s) /\ Queue(s) /\ Machine(s) /\ Still(s, U) /\ Runs(s, U)
  BY DEF Inv
<1>1. /\ t.active = s.active /\ t.parked = s.parked /\ t.exhausted = s.exhausted
      /\ t.needing = s.needing /\ t.retained = s.retained /\ t.paused = s.paused
      /\ t.inStart = s.inStart /\ t.upset = s.upset
      /\ t.rec = s.rec /\ t.timers = s.timers /\ t.tunIp = s.tunIp
  BY DEF Only, Fields
<1>2. /\ t.state = "Starting" /\ t.be.exists /\ ~t.be.stopRequested /\ ~t.be.wasReady
      /\ t.helper.alive /\ ~t.helper.running /\ t.out = <<>>
  BY DEF Launched, NoBackend, NoHelper
<1>3. s.tunIp = 0 /\ "tunPoll" \notin s.timers /\ s.state # "Connected"
  <2>1. ~s.be.wasReady
    BY <1>0 DEF Machine, Dead, NoBackend
  <2> QED
    BY <1>0, <2>1 DEF Machine
<1>4. Machine(t)
  BY <1>1, <1>2, <1>3 DEF Machine
<1>5. Printed(t)
  <2>1. Elems(t.out) = {}
    BY <1>2, ElemsFew
  <2> QED
    BY <1>2, <2>1 DEF Printed
<1>6. Late(t, V) /\ Still(t, V)
  <2>1. t.stopped => s.stopped /\ Awake(s)
    BY DEF Awake
  <2>2. t.stopped => V \cap {"crash", "late"} # {}
    BY <1>0, <2>1, NotStopped DEF Upset
  <2> QED
    BY <1>2, <2>2 DEF Late, Still
<1>7. JobStays(s, t, U)
  BY <1>0, <1>1, <1>2, <1>3 DEF JobStays, Runs
<1>8. Held(t) /\ Queue(t) /\ Runs(t, V)
  BY <1>0, <1>7, StaysHeld
<1> QED
  BY <1>0, <1>1, <1>2, <1>4, <1>5, <1>6, <1>8 DEF Inv, Allowed, PauseKept

\* None starts: the start has failed, and a recovery goes on or gives up.
LEMMA NotLaunchedKeeps ==
    ASSUME NEW s, NEW U, Inv(s, U), ~s.be.exists, NEW t, IsState(t),
           Only(s, t, {"state", "retained", "timers", "tunIp", "needing", "auto", "reason", "rec",
                       "failedInStart", "inStart", "ok", "stopped", "admission", "attempts", "id",
                       "health", "exhausted", "paused", "be", "cmds", "out", "helper"}),
           Dead(t), ~t.inStart, t.stopped => s.stopped,
           (t.state = "Reconnecting" /\ t.rec) \/ (t.state = "Failed" /\ ~t.rec),
           t.rec => s.rec,
           t.exhausted => t.state = "Failed" /\ (s.rec \/ s.exhausted),
           t.tunIp \in {0, s.tunIp}, t.timers \subseteq s.timers \cup {"recovery"},
           t.paused = s.paused \/ Interrupted(s, t),
           t.needing \in {0, s.needing},
           t.retained = s.retained \/ (t.retained = s.retained \ {s.active} /\ s.needing = 0),
           NEW V, Upset(U, V, t)
    PROVE  Inv(t, V) /\ Allowed(s, t) /\ t.upset = s.upset
<1>0. IsState(s) /\ ~s.inStart /\ Held(s) /\ Queue(s) /\ Machine(s) /\ Still(s, U) /\ Runs(s, U)
  BY DEF Inv
<1>1. t.active = s.active /\ t.parked = s.parked /\ t.upset = s.upset
  BY DEF Only, Fields
<1>2. s.tunIp = 0 /\ "tunPoll" \notin s.timers /\ s.state # "Connected"
  <2>1. ~s.be.wasReady
    BY <1>0 DEF Machine, Dead, NoBackend
  <2> QED
    BY <1>0, <2>1 DEF Machine
<1>3. Machine(t) /\ Printed(t) /\ Late(t, V)
  BY <1>2, DeadTunnel
<1>4. Still(t, V)
  BY <1>0 DEF Still, Upset
<1>5. JobStays(s, t, U)
  BY <1>0, <1>1, <1>2 DEF JobStays, Runs, Interrupted
<1>6. Held(t) /\ Queue(t) /\ Runs(t, V)
  BY <1>0, <1>5, StaysHeld
<1>7. Allowed(s, t)
  BY <1>1 DEF Allowed, PauseKept, Interrupted
<1> QED
  BY <1>1, <1>3, <1>4, <1>6, <1>7 DEF Inv

\* The restart that the recovery timer is for.
LEMMA PerformRestartKeeps ==
    ASSUME NEW s, NEW U, Inv(s, U), NEW outcome \in Outcomes,
           NEW V, Upset(U, V, _performExternalRestart(s, outcome))
    PROVE  LET t == _performExternalRestart(s, outcome)
           IN Inv(t, V) /\ Allowed(s, t) /\ t.upset = s.upset
<1> DEFINE t == _performExternalRestart(s, outcome)
           a == [s EXCEPT !.attempts = @ + 1, !.id = @ + 1]
           x == _setState(a, "Reconnecting")
           u == start(x, outcome)
<1>0. IsState(s) /\ ~s.inStart /\ Machine(s) /\ Upset(U, V, t) /\ U \subseteq V
  BY DEF Inv, Upset
<1>1. CASE ~s.rec
  <2>1. t = s
    BY <1>1 DEF _performExternalRestart
  <2> HIDE DEF t
  <2> QED
    BY <1>0, <2>1, InvUpset DEF t
<1>2. CASE s.rec /\ ~BudgetLeft(s)
  <2>1. t = _finishRecoveryExhausted(s)
    BY <1>2 DEF _performExternalRestart
  <2>2. Awake(s) /\ Upset(U, V, _finishRecoveryExhausted(s))
    BY <1>0, <1>2, <2>1 DEF Awake
  <2> HIDE DEF t
  <2> QED
    BY <2>1, <2>2, ExhaustedKeeps DEF t
<1>3. CASE s.rec /\ BudgetLeft(s)
  <2>1. t = IF s.be.exists THEN [a EXCEPT !.cmds = Append(@, a.id)]
            ELSE IF u.ok \/ ~u.rec THEN u
            ELSE IF RecoveryMaxAttempts > 0 /\ u.attempts >= RecoveryMaxAttempts
                 THEN _finishRecoveryExhausted(u)
            ELSE _scheduleExternalRestart(u)
    BY <1>3 DEF _performExternalRestart
  <2>a. IsState(a) /\ Only(s, a, {"attempts", "id"})
    <3>1. /\ Only(s, a, {"attempts", "id"}) /\ a = [f \in Fields |-> a[f]]
          /\ a.attempts = s.attempts + 1 /\ a.id = s.id + 1
      BY <1>0 DEF IsState, Only, Fields
    <3> HIDE DEF a
    <3>2. s.attempts \in Nat /\ s.id \in Nat /\ RecoveryMaxAttempts \in Nat
      BY <1>0, VpnAssumption DEF IsState
    <3>3. a.attempts \in Nat /\ a.id \in Nat /\ WithinBudget(a.attempts)
      BY <1>3, <3>1, <3>2 DEF BudgetLeft, WithinBudget
    <3> QED
      BY <1>0, <3>1, <3>3 DEF IsState, Only, Fields
  <2> HIDE DEF a
  <2>x. /\ IsState(x) /\ Only(a, x, {"state", "retained"}) /\ x.state = "Reconnecting"
        /\ x.retained = a.retained
    BY <2>a, SetStateIs DEF States
  <2> HIDE DEF x
  <2>2. /\ IsState(x) /\ Only(s, x, {"attempts", "id", "state"}) /\ x.state = "Reconnecting"
        /\ x.rec = s.rec /\ x.be = s.be /\ x.cmds = s.cmds /\ x.out = s.out
        /\ x.helper = s.helper /\ x.inStart = s.inStart /\ x.tunIp = s.tunIp
        /\ x.timers = s.timers /\ x.active = s.active /\ x.needing = s.needing
        /\ x.retained = s.retained /\ x.stopped = s.stopped
    BY <2>a, <2>x DEF Only, Fields
  <2>3. CASE s.be.exists
    <3>1. IsState(t) /\ Only(a, t, {"cmds"})
      <4> DEFINE c == Append(a.cmds, a.id)
      <4>1. c \in Seq(Nat)
        BY <2>a DEF IsState
      <4>2. t = [a EXCEPT !.cmds = c]
        BY <2>1, <2>3
      <4> HIDE DEF c, t
      <4> QED
        BY <2>a, <4>1, <4>2 DEF IsState, Only, Fields
    <3> HIDE DEF t
    <3>2. /\ Only(s, t, {"health", "reason", "auto", "attempts", "id", "ok", "admission",
                         "failedInStart", "timers", "tunIp", "cmds"})
          /\ t.timers = s.timers /\ t.tunIp = s.tunIp
      BY <2>a, <3>1 DEF Only, Fields
    <3>3. /\ "tunPoll" \in t.timers \/ s.state = "Connected" => t.tunIp # 0
          /\ t.tunIp # 0 => s.be.wasReady
      BY <1>0, <3>2 DEF Machine
    <3>4. Inv(t, V) /\ Allowed(s, t) /\ t.upset = s.upset
      BY <1>0, <2>3, <3>1, <3>2, <3>3, QuietKeeps
    <3> QED
      BY <3>4 DEF t
  <2>4. CASE ~s.be.exists
    <3>0. ~s.exhausted
      BY <1>0, <1>3 DEF Machine
    <3>1. Dead(s) /\ Dead(x) /\ AtRest(x) /\ ~x.inStart
      BY <1>0, <2>2, <2>4 DEF Machine, Dead, AtRest
    <3>2. U \subseteq V
      BY <1>0
    <3>5. CASE outcome = "ok"
      <4>1. /\ IsState(u)
            /\ Only(x, u, {"state", "be", "cmds", "out", "helper", "ok"})
            /\ u.state = "Starting" /\ u.ok
            /\ u.be = [NoBackend EXCEPT !.exists = TRUE]
            /\ u.helper = [NoHelper EXCEPT !.ip = x.helper.ip, !.alive = TRUE]
            /\ u.cmds = <<>> /\ u.out = <<>>
        BY <2>2, <3>1, <3>5, StartIs
      <4>2. t = u
        BY <2>1, <2>4, <4>1
      <4> HIDE DEF u, t
      <4>3. Launched(s, u) /\ u.stopped = s.stopped
        <5>1. u.stopped = s.stopped
          BY <2>2, <4>1 DEF Only, Fields
        <5> QED
          BY <2>2, <4>1, <5>1 DEF Launched
      <4>4. Only(s, u, {"state", "stopped", "be", "cmds", "out", "helper", "ok", "attempts",
                        "id", "auto", "admission"})
        BY <2>2, <4>1 DEF Only, Fields
      <4>5. Inv(u, V) /\ Allowed(s, u) /\ u.upset = s.upset
        BY <1>0, <1>3, <2>4, <3>0, <4>1, <4>2, <4>3, <4>4, LaunchedKeeps
      <4> QED
        BY <4>2, <4>5 DEF t
    <3>6. CASE outcome \in {"noConfig", "sync"}
      <4> HIDE DEF t
      <4>0. IsState(x) /\ AtRest(x) /\ Dead(x) /\ ~x.inStart /\ outcome \in {"noConfig", "sync"}
        BY <2>2, <3>1, <3>6
      <4>1. /\ IsState(u)
            /\ Only(x, u, {"state", "retained", "timers", "tunIp", "needing", "auto", "reason",
                           "failedInStart", "inStart", "ok",
                           "be", "cmds", "out", "helper"})
            /\ u.state = "Failed" /\ Dead(u) /\ ~u.ok /\ ~u.inStart
            /\ u.tunIp \in {0, x.tunIp} /\ u.timers \subseteq x.timers
            /\ u.needing \in {0, x.needing} /\ (x.rec => u.needing = x.needing)
            /\ \/ u.retained = x.retained
               \/ u.retained = x.retained \ {x.active} /\ x.needing = 0
        BY ONLY <4>0, StartFailsIs
      <4> HIDE DEF u
      <4> DEFINE F == {"state", "retained", "timers", "tunIp", "needing", "auto", "reason", "rec",
                       "failedInStart", "inStart", "ok", "stopped", "admission", "attempts", "id",
                       "health", "exhausted", "paused", "be", "cmds", "out", "helper"}
      <4>2. /\ Only(s, u, {"state", "retained", "timers", "tunIp", "needing", "auto", "reason",
                           "failedInStart", "inStart", "ok", "stopped", "attempts", "id",
                           "be", "cmds", "out", "helper"})
            /\ u.rec = s.rec /\ u.active = s.active /\ u.paused = s.paused
            /\ u.exhausted = s.exhausted /\ u.stopped = s.stopped
        BY <2>2, <4>1 DEF Only, Fields
      <4>3. CASE t = _finishRecoveryExhausted(u)
        <5>1. /\ IsState(t)
              /\ Only(u, t, {"rec", "state", "health", "timers", "tunIp", "paused", "retained",
                             "exhausted", "be", "cmds", "out", "helper"})
              /\ t.state = "Failed" /\ ~t.rec /\ t.tunIp = 0 /\ Dead(t) /\ t.exhausted
              /\ t.timers \subseteq u.timers \ {"recovery", "tunPoll"}
              /\ Interrupted(u, t)
              /\ \/ t.retained = u.retained
                 \/ t.retained = u.retained \ {u.active} /\ u.needing = 0
          BY <4>1, <4>3, ExhaustedIs
        <5>2. /\ Only(s, t, F) /\ t.inStart = u.inStart /\ t.stopped = u.stopped
              /\ t.needing = u.needing
          BY <4>2, <5>1 DEF Only, Fields
        <5>3. Interrupted(s, t)
          BY <4>2, <5>1 DEF Interrupted
        <5>4. /\ t.retained = s.retained \/ (t.retained = s.retained \ {s.active} /\ s.needing = 0)
              /\ t.needing \in {0, s.needing} /\ t.timers \subseteq s.timers \cup {"recovery"}
              /\ t.stopped => s.stopped
          BY <1>3, <2>2, <4>1, <4>2, <5>1, <5>2
        <5>5. Inv(t, V) /\ Allowed(s, t) /\ t.upset = s.upset
          BY <1>0, <1>3, <2>4, <4>1, <5>1, <5>2, <5>3, <5>4, NotLaunchedKeeps
        <5> QED
          BY <5>5 DEF t
      <4>4. CASE t = _scheduleExternalRestart(u)
        <5>1. /\ IsState(t) /\ Only(u, t, {"state", "health", "timers"})
              /\ t.state = "Reconnecting" /\ t.timers \subseteq u.timers \cup {"recovery"}
          BY <4>1, <4>4, ScheduleIs
        <5>2. /\ Only(s, t, F) /\ t.inStart = u.inStart /\ t.stopped = u.stopped
              /\ t.needing = u.needing /\ t.retained = u.retained /\ t.rec = u.rec
              /\ t.tunIp = u.tunIp /\ t.paused = u.paused /\ t.exhausted = u.exhausted
              /\ t.be = u.be /\ t.cmds = u.cmds /\ t.out = u.out /\ t.helper = u.helper
          BY <4>2, <5>1 DEF Only, Fields
        <5>3. Dead(t)
          BY <4>1, <5>2 DEF Dead
        <5>4. /\ ~t.exhausted /\ t.rec /\ t.paused = s.paused /\ t.tunIp \in {0, s.tunIp}
              /\ t.needing \in {0, s.needing} /\ (t.stopped => s.stopped) /\ ~t.inStart
              /\ t.timers \subseteq s.timers \cup {"recovery"}
              /\ t.retained = s.retained \/ (t.retained = s.retained \ {s.active} /\ s.needing = 0)
          BY <1>3, <2>2, <3>0, <4>1, <4>2, <5>1, <5>2
        <5>5. Inv(t, V) /\ Allowed(s, t) /\ t.upset = s.upset
          BY <1>0, <1>3, <2>4, <5>1, <5>2, <5>3, <5>4, NotLaunchedKeeps
        <5> QED
          BY <5>5 DEF t
      <4> QED
        BY <1>3, <2>1, <2>4, <4>1, <4>2, <4>3, <4>4
    <3> QED
      BY <3>5, <3>6 DEF Outcomes
  <2>5. s.be.exists \in BOOLEAN
    BY <1>0 DEF IsState, Backends
  <2> QED
    BY <2>3, <2>4, <2>5
<1> QED
  BY <1>0, <1>1, <1>2, <1>3 DEF IsState

\* stop() under no job that posts, whether or not the user has asked for it.
LEMMA StopKeeps ==
    ASSUME NEW s, NEW U, IsState(s), ~s.inStart, Held(s), Queue(s), Machine(s), Printed(s),
           Late(s, U), ~s.exhausted, s.state \notin {"Disabled", "Stopping"},
           U = {} /\ s.active # NoJob => s.paused = "user",
           U = {} /\ s.retained # {} => s.needing = 1,
           NEW V, Upset(U, V, stop(s))
    PROVE  LET t == stop(s)
           IN /\ Inv(t, V) /\ t.upset = s.upset /\ t.active = s.active /\ t.parked = s.parked
              /\ t.paused = s.paused /\ t.stopped = s.stopped
              /\ t.retained \in {s.retained, s.retained \ {s.active}}
<1> DEFINE t == stop(s)
<1>1. /\ IsState(t) /\ ~t.rec /\ t.timers \subseteq s.timers
      /\ IF s.be.exists
         THEN /\ Only(s, t, {"rec", "timers", "state", "be", "cmds"})
              /\ t.state = "Stopping"
              /\ t.be = [s.be EXCEPT !.stopRequested = TRUE]
              /\ t.cmds = Append(s.cmds, EOF)
         ELSE /\ Only(s, t, {"rec", "timers", "tunIp", "health", "state", "retained",
                             "auto", "needing"})
              /\ t.state = "Disabled" /\ t.tunIp = 0 /\ "tunPoll" \notin t.timers
              /\ t.needing = 0
              /\ t.retained \in {s.retained, s.retained \ {s.active}}
  BY StopIs
<1>2. Upset(U, V, t)
  OBVIOUS
<1> HIDE DEF t
<1>3. /\ t.active = s.active /\ t.parked = s.parked /\ t.exhausted = s.exhausted
      /\ t.stopped = s.stopped /\ t.inStart = s.inStart /\ t.upset = s.upset
      /\ t.paused = s.paused /\ t.out = s.out /\ t.helper = s.helper
  BY <1>1 DEF Only, Fields
<1>n. s.needing \in Nat /\ s.retained \subseteq Jobs /\ NoJob \notin Jobs
  BY VpnAssumption DEF IsState
<1>4. CASE s.be.exists
  <2>1. /\ t.tunIp = s.tunIp /\ t.needing = s.needing /\ t.retained = s.retained
    BY <1>1, <1>4 DEF Only, Fields
  <2>2. /\ t.be.exists /\ t.be.stopRequested /\ t.be.wasReady = s.be.wasReady
    BY <1>1, <1>4 DEF IsState, Backends
  <2>3. Machine(t)
    BY <1>1, <1>3, <1>4, <2>1, <2>2 DEF Machine
  <2>4. Printed(t)
    BY <1>3, <1>4, <2>2 DEF Printed
  <2>5. Late(t, V) /\ Still(t, V)
    BY <1>1, <1>3, <1>4 DEF Late, Still
  <2>6. Held(t) /\ Queue(t)
    BY <1>1, <1>3, <2>1 DEF Held, Queue
  <2>7. V = {} => U = {} /\ t.needing = Cardinality(t.retained)
    BY <1>2 DEF Upset
  <2>8. Runs(t, V)
    <3> SUFFICES ASSUME V = {} PROVE Runs(t, V)
      BY DEF Runs
    <3>1. s.active # NoJob => t.paused = "user"
      BY <1>3, <2>7
    <3> QED
      BY <1>3, <2>1, <2>7, <3>1 DEF Runs
  <2> QED
    BY <1>1, <1>3, <2>1, <2>3, <2>4, <2>5, <2>6, <2>8 DEF Inv, t
<1>5. CASE ~s.be.exists
  <2>1. t.be = s.be /\ t.cmds = s.cmds
    BY <1>1, <1>5 DEF Only, Fields
  <2>2. Machine(t)
    BY <1>1, <1>3, <1>5, <2>1 DEF Machine, Dead
  <2>3. Printed(t)
    BY <1>3, <2>1 DEF Printed
  <2>4. Late(t, V) /\ Still(t, V)
    BY <1>1, <1>2, <1>3, <1>5, <2>1 DEF Late, Still, Upset
  <2>5. Held(t) /\ Queue(t)
    <3>1. Held(t)
      BY <1>1, <1>3, <1>5 DEF Held
    <3> QED
      BY <1>3, <3>1 DEF Queue
  <2>6. Runs(t, V)
    <3> SUFFICES ASSUME V = {} PROVE Runs(t, V)
      BY DEF Runs
    <3>1. t.needing = Cardinality(t.retained) /\ t.retained \subseteq {t.active}
      BY <1>2, <2>5 DEF Upset, Held
    <3>2. t.retained = {}
      <4>1. t.needing = 0
        BY <1>1, <1>5
      <4> QED
        BY <3>1, <4>1, CountOfOne
    <3>3. s.active # NoJob => t.paused = "user"
      BY <1>2, <1>3 DEF Upset
    <3> QED
      BY <1>3, <3>2, <3>3 DEF Runs
  <2> QED
    BY <1>1, <1>3, <1>5, <2>2, <2>3, <2>4, <2>5, <2>6 DEF Inv, t
<1>6. s.be.exists \in BOOLEAN
  BY DEF IsState, Backends
<1> QED
  BY <1>4, <1>5, <1>6

\* Nobody posts, nobody holds the tunnel.
LEMMA NobodyHolds ==
    ASSUME NEW s, NEW U, Inv(s, U), s.active = NoJob
    PROVE  s.retained = {} /\ s.needing = 0 /\ s.paused = "no"
<1>1. /\ s.needing \in Nat /\ s.retained \subseteq Jobs /\ NoJob \notin Jobs /\ Held(s)
  BY VpnAssumption DEF Inv, IsState
<1>2. s.retained = {} /\ s.paused = "no"
  BY <1>1 DEF Held
<1>3. s.needing <= 1 /\ s.needing # 1
  BY <1>1, <1>2 DEF Held
<1> QED
  BY <1>1, <1>2, <1>3

\* A job starts in a tunnel that is there.
LEMMA ActivateKeeps ==
    ASSUME NEW s, NEW U, Inv(s, U), s.active = NoJob, s.state = "Connected",
           NEW j \in Jobs, j \notin Elems(s.parked),
           NEW V, U \subseteq V
    PROVE  LET t == Activate(s, j)
           IN Inv(t, V) /\ t.state = "Connected" /\ t.upset = s.upset /\ t.active = j
<1> DEFINE t == Activate(s, j)
<1>0. IsState(s) /\ ~s.inStart /\ Held(s) /\ Queue(s) /\ Machine(s) /\ Printed(s) /\ Late(s, U)
      /\ Still(s, U) /\ Runs(s, U)
  BY DEF Inv
<1>n. NoJob \notin Jobs
  BY VpnAssumption
<1>1. s.retained = {} /\ s.needing = 0
  BY NobodyHolds
<1>2. /\ IsState(t)
      /\ Only(s, t, {"active", "paused", "timers", "needing", "helper", "retained"})
      /\ t.active = j /\ t.paused = "no"
      /\ t.needing = s.needing + 1 /\ t.retained = s.retained \cup {j}
      /\ t.timers = s.timers \ {"autoDisconnect"} /\ SameHelper(s, t)
  BY <1>0, <1>1, ActivateIs
<1> HIDE DEF t
<1>3. /\ t.exhausted = s.exhausted /\ t.tunIp = s.tunIp /\ t.state = s.state /\ t.rec = s.rec
      /\ t.stopped = s.stopped /\ t.inStart = s.inStart /\ t.upset = s.upset
      /\ t.be = s.be /\ t.cmds = s.cmds /\ t.out = s.out /\ t.parked = s.parked
  BY <1>2 DEF Only, Fields
<1>4. Machine(t)
  BY <1>0, <1>2, <1>3 DEF Machine
<1>5. Printed(t)
  BY <1>0, <1>3, <1>2, SameHelperRuns, TunnelStaysPrinted DEF TunnelStays
<1>6. Late(t, V) /\ Still(t, V)
  BY <1>0, <1>3 DEF Late, Still
<1>8. Held(t) /\ Queue(t)
  BY <1>0, <1>1, <1>2, <1>3, <1>n DEF Held, Queue
<1>9. Runs(t, V)
  BY <1>1, <1>2, <1>3 DEF Runs
<1> QED
  BY <1>0, <1>2, <1>3, <1>4, <1>5, <1>6, <1>8, <1>9 DEF Inv, t

\* The queue changes, and nothing else.
LEMMA QueueKeeps ==
    ASSUME NEW s, NEW U, Inv(s, U), NEW q \in Seq(Jobs), IsInjectiveSeq(q), s.active \notin Elems(q)
    PROVE  LET t == [s EXCEPT !.parked = q]
           IN Inv(t, U) /\ Only(s, t, {"parked"}) /\ t.parked = q
<1> DEFINE t == [s EXCEPT !.parked = q]
<1>0. IsState(s) /\ ~s.inStart /\ Held(s) /\ Queue(s) /\ Machine(s) /\ Printed(s) /\ Late(s, U)
      /\ Still(s, U) /\ Runs(s, U)
  BY DEF Inv
<1>1. IsState(t) /\ Only(s, t, {"parked"}) /\ t.parked = q
  BY <1>0 DEF IsState, Only, Fields
<1> HIDE DEF t
<1>2. /\ t.active = s.active /\ t.exhausted = s.exhausted /\ t.inStart = s.inStart
      /\ t.stopped = s.stopped /\ t.needing = s.needing /\ t.retained = s.retained
      /\ t.paused = s.paused /\ t.be = s.be /\ t.out = s.out /\ t.cmds = s.cmds
      /\ t.helper = s.helper /\ t.state = s.state /\ t.rec = s.rec /\ t.timers = s.timers
      /\ t.tunIp = s.tunIp
  BY <1>1 DEF Only, Fields
<1>3. Held(t) /\ Queue(t)
  BY <1>0, <1>1, <1>2 DEF Held, Queue
<1>4. Machine(t)
  BY <1>0, <1>2 DEF Machine, Dead
<1>5. Printed(t)
  BY <1>0, <1>2, TunnelStaysPrinted DEF TunnelStays
<1>6. Late(t, U) /\ Still(t, U) /\ Runs(t, U)
  BY <1>0, <1>2 DEF Late, Still, Runs
<1> QED
  BY <1>0, <1>1, <1>2, <1>3, <1>4, <1>5, <1>6 DEF Inv, t

\* The head of the queue starts in a tunnel that is there.
LEMMA StartHeadKeeps ==
    ASSUME NEW s, NEW U, Inv(s, U), s.active = NoJob, s.parked # <<>>, s.state = "Connected",
           NEW V, U \subseteq V
    PROVE  LET t == StartHead(s)
           IN Inv(t, V) /\ t.state = "Connected" /\ t.upset = s.upset
              /\ t.active = Head(s.parked)
<1> DEFINE j == Head(s.parked)
           q == Tail(s.parked)
           a == [s EXCEPT !.parked = q]
<1>1. /\ j \in Jobs /\ q \in Seq(Jobs) /\ IsInjectiveSeq(q) /\ j \notin Elems(q)
      /\ Elems(s.parked) = Elems(q) \cup {j} /\ s.active \notin Elems(s.parked)
  <2>1. s.parked \in Seq(Jobs) /\ IsInjectiveSeq(s.parked) /\ s.active \notin Elems(s.parked)
    BY DEF Inv, IsState, Queue
  <2> QED
    BY <2>1, ElemsTail
<1>2. StartHead(s) = Activate(a, j)
  BY DEF StartHead
<1> HIDE DEF q, j
<1>3. Inv(a, U) /\ Only(s, a, {"parked"}) /\ a.parked = q
  BY <1>1, QueueKeeps
<1> HIDE DEF a
<1>4. a.active = s.active /\ a.state = s.state /\ a.upset = s.upset
  BY <1>3 DEF Only, Fields
<1>5. /\ Inv(a, U) /\ a.active = NoJob /\ a.state = "Connected" /\ j \in Jobs
      /\ j \notin Elems(a.parked) /\ U \subseteq V
  BY <1>1, <1>3, <1>4
<1>6. /\ Inv(Activate(a, j), V) /\ Activate(a, j).state = "Connected"
      /\ Activate(a, j).upset = a.upset /\ Activate(a, j).active = j
  BY ONLY <1>5, ActivateKeeps
<1> QED
  BY <1>2, <1>4, <1>6 DEF j

\* A job is admitted, waits, or is not let in; a tunnel may be started for it.
LEMMA AdmitKeeps ==
    ASSUME NEW s, NEW U, Inv(s, U), NEW outcome \in Outcomes,
           NEW V, Upset(U, V, admitJob(s, outcome))
    PROVE  LET t == admitJob(s, outcome)
           IN /\ Inv(t, V) /\ Allowed(s, t) /\ t.upset = s.upset
              /\ t.active = s.active /\ t.parked = s.parked /\ t.paused = s.paused
              /\ t.admission = "Proceed"
                   => /\ s.state = "Connected" /\ s.health = "Healthy"
                      /\ Only(s, t, {"admission"})
              /\ t.admission = "Wait" => t.retained = s.retained /\ t.needing = s.needing
              /\ t.admission \in {"Proceed", "Wait", "Blocked"}
              /\ t.state \in {s.state, "Starting", "Failed"}
<1> DEFINE t == admitJob(s, outcome)
           a == [s EXCEPT !.auto = TRUE, !.stopped = FALSE]
           u == start(a, outcome)
           b == [s EXCEPT !.admission = "Blocked"]
           p == [s EXCEPT !.admission = "Proceed"]
           w == [s EXCEPT !.admission = "Wait"]
           x == [u EXCEPT !.admission = "Wait"]
           y == [u EXCEPT !.auto = FALSE, !.admission = "Blocked"]
<1>0. IsState(s) /\ Upset(U, V, t) /\ Machine(s) /\ ~s.inStart
  BY DEF Inv
<1>1. CASE s.state # "Disabled"
  <2>1. \/ t = b
        \/ t = p /\ s.state = "Connected" /\ s.health = "Healthy"
        \/ t = w
    BY <1>1 DEF admitJob, _startForAdmittedJob
  <2>2. PICK n \in {"Proceed", "Wait", "Blocked"} :
          /\ t = [s EXCEPT !.admission = n]
          /\ n = "Proceed" => s.state = "Connected" /\ s.health = "Healthy"
    BY <2>1
  <2>3. IsState(t) /\ Only(s, t, {"admission"}) /\ t.admission = n
    BY <1>0, <2>2 DEF IsState, Only, Fields
  <2> HIDE DEF t
  <2>4. /\ Only(s, t, {"health", "reason", "auto", "attempts", "id", "ok", "admission",
                       "failedInStart", "timers", "tunIp", "cmds"})
        /\ t.timers = s.timers /\ t.tunIp = s.tunIp /\ t.cmds = s.cmds
        /\ t.active = s.active /\ t.parked = s.parked /\ t.paused = s.paused
        /\ t.retained = s.retained /\ t.needing = s.needing /\ t.state = s.state
    BY <2>3 DEF Only, Fields
  <2>5. "tunPoll" \in s.timers \/ s.state = "Connected" => s.tunIp # 0
    BY <1>0 DEF Machine
  <2>6. (s.tunIp # 0 => s.be.wasReady) /\ (~s.be.exists => s.cmds = <<>>)
    BY <1>0 DEF Machine, Dead
  <2>7. Inv(t, V) /\ Allowed(s, t) /\ t.upset = s.upset
    BY <1>0, <2>3, <2>4, <2>5, <2>6, QuietKeeps
  <2> QED
    BY <2>2, <2>3, <2>4, <2>7 DEF t
<1>2. CASE s.state = "Disabled"
  <2>1. t = IF u.ok THEN x ELSE y
    BY <1>2 DEF admitJob, _startForAdmittedJob
  <2>2. ~s.be.exists /\ ~s.exhausted /\ ~s.rec /\ Dead(s)
    BY <1>0, <1>2 DEF Machine
  <2>3. IsState(a) /\ Only(s, a, {"auto", "stopped"}) /\ ~a.stopped
    BY <1>0 DEF IsState, Only, Fields
  <2> HIDE DEF a, t
  <2>4. /\ a.state = "Disabled" /\ a.be = s.be /\ a.cmds = s.cmds /\ a.out = s.out
        /\ a.helper = s.helper /\ a.inStart = s.inStart
        /\ a.tunIp = s.tunIp /\ a.timers = s.timers /\ a.active = s.active
        /\ a.needing = s.needing /\ a.retained = s.retained
    BY <1>2, <2>3 DEF Only, Fields
  <2>5. AtRest(a) /\ Dead(a) /\ ~a.inStart
    BY <1>0, <2>2, <2>4 DEF AtRest, Dead
  <2>6. CASE outcome = "ok"
    <3>1. /\ IsState(u)
          /\ Only(a, u, {"state", "be", "cmds", "out", "helper", "ok"})
          /\ u.state = "Starting" /\ u.ok
          /\ u.be = [NoBackend EXCEPT !.exists = TRUE]
          /\ u.helper = [NoHelper EXCEPT !.ip = a.helper.ip, !.alive = TRUE]
          /\ u.cmds = <<>> /\ u.out = <<>>
      BY <2>3, <2>5, <2>6, StartIs
    <3> HIDE DEF u
    <3>2. t = x
      BY <2>1, <3>1
    <3>3. IsState(x) /\ Only(u, x, {"admission"}) /\ x.admission = "Wait"
      BY <3>1 DEF IsState, Only, Fields
    <3> HIDE DEF x
    <3>4. /\ Only(s, x, {"state", "stopped", "be", "cmds", "out", "helper", "ok", "attempts",
                         "id", "auto", "admission"})
          /\ x.state = u.state /\ x.stopped = a.stopped /\ x.be = u.be /\ x.helper = u.helper
          /\ x.cmds = u.cmds /\ x.out = u.out
          /\ x.active = s.active /\ x.parked = s.parked /\ x.paused = s.paused
          /\ x.retained = s.retained /\ x.needing = s.needing
      BY <2>3, <3>1, <3>3 DEF Only, Fields
    <3>5. Launched(s, x)
      BY <2>4, <3>1, <3>4 DEF Launched
    <3>6. Upset(U, V, x)
      BY <1>0, <3>2
    <3>7. Inv(x, V) /\ Allowed(s, x) /\ x.upset = s.upset
      BY <2>2, <2>3, <3>3, <3>4, <3>5, <3>6, LaunchedKeeps
    <3> QED
      BY <3>1, <3>2, <3>3, <3>4, <3>7 DEF t
  <2>7. CASE outcome \in {"noConfig", "sync"}
    <3>1. /\ IsState(u)
          /\ Only(a, u, {"state", "retained", "timers", "tunIp", "needing", "auto", "reason",
                         "failedInStart", "inStart", "ok",
                         "be", "cmds", "out", "helper"})
          /\ u.state = "Failed" /\ Dead(u) /\ ~u.ok /\ ~u.inStart
          /\ u.tunIp \in {0, a.tunIp} /\ u.timers \subseteq a.timers
          /\ u.needing \in {0, a.needing}
          /\ \/ u.retained = a.retained
             \/ u.retained = a.retained \ {a.active} /\ a.needing = 0
      BY <2>3, <2>5, <2>7, StartFailsIs
    <3> HIDE DEF u
    <3>2. t = y
      BY <2>1, <3>1
    <3>3. IsState(y) /\ Only(u, y, {"auto", "admission"}) /\ y.admission = "Blocked"
      BY <3>1 DEF IsState, Only, Fields
    <3> HIDE DEF y
    <3>4. /\ Only(s, y, {"state", "retained", "timers", "tunIp", "needing", "auto", "reason",
                         "failedInStart", "inStart", "ok", "stopped", "admission",
                         "be", "cmds", "out", "helper"})
          /\ y.state = u.state /\ y.stopped = a.stopped /\ y.be = u.be /\ y.helper = u.helper
          /\ y.cmds = u.cmds /\ y.out = u.out /\ y.inStart = u.inStart /\ y.tunIp = u.tunIp
          /\ y.timers = u.timers /\ y.needing = u.needing /\ y.retained = u.retained
      BY <2>3, <3>1, <3>3 DEF Only, Fields
    <3>5. /\ Only(s, y, {"state", "retained", "timers", "tunIp", "needing", "auto", "reason", "rec",
                         "failedInStart", "inStart", "ok", "stopped", "admission", "attempts", "id",
                         "health", "exhausted", "paused", "be", "cmds", "out", "helper"})
          /\ y.rec = s.rec /\ y.exhausted = s.exhausted /\ y.paused = s.paused
          /\ y.active = s.active /\ y.parked = s.parked
      BY <3>4 DEF Only, Fields
    <3>6. Dead(y)
      BY <3>1, <3>4 DEF Dead
    <3>7. Upset(U, V, y)
      BY <1>0, <3>2
    <3>8. /\ ~y.inStart /\ (y.stopped => s.stopped) /\ y.state = "Failed" /\ ~y.rec
          /\ y.tunIp \in {0, s.tunIp} /\ y.timers \subseteq s.timers \cup {"recovery"}
          /\ y.needing \in {0, s.needing}
          /\ y.retained = s.retained \/ (y.retained = s.retained \ {s.active} /\ s.needing = 0)
      BY <2>2, <2>3, <2>4, <3>1, <3>4, <3>5
    <3>9. Inv(y, V) /\ Allowed(s, y) /\ y.upset = s.upset
      BY <2>2, <3>3, <3>5, <3>6, <3>7, <3>8, NotLaunchedKeeps
    <3> QED
      BY <3>2, <3>3, <3>5, <3>8, <3>9 DEF t
  <2> QED
    BY <2>6, <2>7 DEF Outcomes
<1> QED
  BY <1>1, <1>2

-----------------------------------------------------------------------------
(* The steps. *)

VpnInv == Inv(Now, upsets) /\ over \subseteq Jobs

\* What only a handler looks at does not matter afterwards.
LEMMA InvSame ==
    ASSUME NEW s, NEW U, Inv(s, U), NEW t, IsState(t), ~t.inStart,
           Only(s, t, {"inStart", "failedInStart", "ok", "admission", "upset", "auto"})
    PROVE  Inv(t, U)
<1>1. /\ t.active = s.active /\ t.parked = s.parked /\ t.exhausted = s.exhausted
      /\ t.stopped = s.stopped
      /\ t.needing = s.needing /\ t.retained = s.retained /\ t.paused = s.paused
      /\ t.be = s.be /\ t.out = s.out /\ t.cmds = s.cmds /\ t.helper = s.helper
      /\ t.state = s.state /\ t.rec = s.rec /\ t.timers = s.timers /\ t.tunIp = s.tunIp
  BY DEF Only, Fields
<1>0. Held(s) /\ Queue(s) /\ Machine(s) /\ Printed(s) /\ Late(s, U) /\ Still(s, U) /\ Runs(s, U)
  BY DEF Inv
<1>2. Held(t) /\ Queue(t)
  BY <1>0, <1>1 DEF Held, Queue
<1>3. Machine(t)
  BY <1>0, <1>1 DEF Machine, Dead
<1>4. Printed(t)
  BY <1>0, <1>1, TunnelStaysPrinted DEF TunnelStays
<1>5. Late(t, U) /\ Still(t, U) /\ Runs(t, U)
  BY <1>0, <1>1 DEF Late, Still, Runs
<1> QED
  BY <1>2, <1>3, <1>4, <1>5 DEF Inv

\* What Now says of the variables, before a step and after it.
LEMMA NowIs ==
    /\ Now.state = state /\ Now.be = backend /\ Now.out = out /\ Now.cmds = cmds
    /\ Now.helper = helper /\ Now.active = activeJob /\ Now.parked = parked
    /\ Now.paused = paused /\ Now.retained = retained /\ Now.needing = activeJobsNeedingVpn
    /\ Now.timers = timers /\ Now.tunIp = tunIp /\ Now.exhausted = exhausted
    /\ Now.stopped = stoppedByUser /\ Now.rec = recoveryActive /\ Now.upset = {}
    /\ Now.health = health /\ Now.auto = autoStartedByJob /\ ~Now.inStart
BY DEF Now

LEMMA NowShape ==
    /\ Now' = [f \in Fields |-> (Now')[f]]
    /\ (Now').state = state' /\ (Now').health = health' /\ (Now').rec = recoveryActive'
    /\ (Now').reason = recoveryReason' /\ (Now').attempts = recoveryAttempts'
    /\ (Now').id = currentAttemptId' /\ (Now').needing = activeJobsNeedingVpn'
    /\ (Now').auto = autoStartedByJob' /\ (Now').timers = timers' /\ (Now').tunIp = tunIp'
    /\ (Now').be = backend' /\ (Now').cmds = cmds' /\ (Now').out = out'
    /\ (Now').helper = helper' /\ (Now').active = activeJob' /\ (Now').parked = parked'
    /\ (Now').paused = paused' /\ (Now').retained = retained'
    /\ (Now').exhausted = exhausted' /\ (Now').stopped = stoppedByUser'
    /\ (Now').inStart = FALSE /\ (Now').ok = TRUE
<1>1. Now' = [f \in Fields |-> (Now')[f]]
  BY DEF Now, Fields
<1>2. /\ (Now').state = state' /\ (Now').health = health' /\ (Now').rec = recoveryActive'
      /\ (Now').reason = recoveryReason' /\ (Now').attempts = recoveryAttempts'
      /\ (Now').id = currentAttemptId' /\ (Now').needing = activeJobsNeedingVpn'
      /\ (Now').auto = autoStartedByJob' /\ (Now').timers = timers' /\ (Now').tunIp = tunIp'
  BY DEF Now
<1>3. /\ (Now').be = backend' /\ (Now').cmds = cmds' /\ (Now').out = out'
      /\ (Now').helper = helper' /\ (Now').active = activeJob' /\ (Now').parked = parked'
      /\ (Now').paused = paused' /\ (Now').retained = retained'
      /\ (Now').exhausted = exhausted' /\ (Now').stopped = stoppedByUser'
      /\ (Now').inStart = FALSE /\ (Now').ok = TRUE
  BY DEF Now
<1> QED
  BY <1>1, <1>2, <1>3

\* The state of the variables, after what Become() takes over.
LEMMA BecomeIs ==
    ASSUME NEW t, IsState(t), Become(t)
    PROVE  /\ IsState(Now') /\ ~(Now').inStart
           /\ Only(t, Now', {"inStart", "failedInStart", "ok", "admission", "upset"})
<1> DEFINE n == Now'
<1>1. n = [f \in Fields |-> n[f]] /\ n.inStart = FALSE /\ n.ok = TRUE
  BY NowShape
<1>2. /\ n.state = t.state /\ n.health = t.health /\ n.rec = t.rec /\ n.reason = t.reason
      /\ n.attempts = t.attempts /\ n.id = t.id /\ n.needing = t.needing /\ n.auto = t.auto
      /\ n.timers = t.timers /\ n.tunIp = t.tunIp /\ n.be = t.be /\ n.cmds = t.cmds
      /\ n.out = t.out /\ n.helper = t.helper /\ n.active = t.active /\ n.parked = t.parked
      /\ n.paused = t.paused /\ n.retained = t.retained /\ n.exhausted = t.exhausted
      /\ n.stopped = t.stopped
  BY NowShape DEF Become
<1> HIDE DEF n
<1>3. Only(t, n, {"inStart", "failedInStart", "ok", "admission", "upset"})
  BY <1>2 DEF Only, Fields
<1>4. IsState(n)
  BY <1>1, <1>3 DEF IsState, Only, Fields
<1> QED
  BY <1>1, <1>3, <1>4 DEF n

LEMMA BecomeUpsets ==
    ASSUME NEW t, Become(t)
    PROVE  Upset(upsets \cup t.upset, upsets', t) /\ Upset(upsets, upsets', t)
BY DEF Become, Upset

LEMMA BecomeKeeps ==
    ASSUME NEW t, Become(t), Inv(t, upsets'), over' \subseteq Jobs
    PROVE  /\ VpnInv' /\ (Allowed(Now, t) => Allowed(Now, Now'))
           /\ PauseKept(Now, t) => PauseKept(Now, Now')
<1> DEFINE n == Now'
           U == upsets'
<1>1. IsState(n) /\ ~n.inStart /\ Only(t, n, {"inStart", "failedInStart", "ok", "admission", "upset"})
  BY BecomeIs DEF Inv
<1>2. VpnInv' <=> Inv(n, U) /\ over' \subseteq Jobs
  BY DEF VpnInv
<1> HIDE DEF n, U
<1>3. Only(t, n, {"inStart", "failedInStart", "ok", "admission", "upset", "auto"})
  BY <1>1 DEF Only
<1>4. Inv(t, U)
  BY DEF U
<1>5. Inv(n, U)
  BY <1>1, <1>3, <1>4, InvSame
<1>6. n.state = t.state /\ n.stopped = t.stopped /\ n.active = t.active /\ n.paused = t.paused
  BY <1>1 DEF Only, Fields
<1>7. (PauseKept(Now, t) => PauseKept(Now, n)) /\ (Allowed(Now, t) => Allowed(Now, n))
  BY <1>6 DEF Allowed, PauseKept
<1> QED
  BY <1>2, <1>5, <1>7 DEF n

-----------------------------------------------------------------------------
(* The helper. *)

LEMMA HelperKeeps ==
    ASSUME VpnInv, HelperStep, UNCHANGED <<over, upsets>>, helper.alive,
           helper' \in Helpers, cmds' \in Seq(Nat), NEW ms \in Seq(Messages), Say(ms),
           Printed(Now')
    PROVE  VpnInv' /\ Allowed(Now, Now')
<1> DEFINE s == Now
           n == Now'
           U == upsets
<1>1. /\ n = [f \in Fields |-> n[f]] /\ n.helper = helper' /\ n.cmds = cmds' /\ n.out = out \o ms
      /\ Only(s, n, {"cmds", "out", "helper"})
  <2>1. n = [f \in Fields |-> n[f]] /\ n.helper = helper' /\ n.cmds = cmds' /\ n.out = out \o ms
    BY NowShape DEF Say
  <2>2. /\ s.state = state' /\ s.health = health' /\ s.rec = recoveryActive'
        /\ s.reason = recoveryReason' /\ s.attempts = recoveryAttempts'
        /\ s.id = currentAttemptId' /\ s.needing = activeJobsNeedingVpn'
        /\ s.auto = autoStartedByJob' /\ s.timers = timers' /\ s.tunIp = tunIp'
        /\ s.be = backend' /\ s.active = activeJob' /\ s.parked = parked'
        /\ s.paused = paused' /\ s.retained = retained' /\ s.exhausted = exhausted'
        /\ s.stopped = stoppedByUser'
    BY DEF Now, HelperStep, managerVars, jobVars
  <2>3. /\ s.inStart = n.inStart /\ s.failedInStart = n.failedInStart /\ s.ok = n.ok
        /\ s.admission = n.admission /\ s.upset = n.upset
    BY DEF Now
  <2>4. /\ n.state = state' /\ n.health = health' /\ n.rec = recoveryActive'
        /\ n.reason = recoveryReason' /\ n.attempts = recoveryAttempts'
        /\ n.id = currentAttemptId' /\ n.needing = activeJobsNeedingVpn'
        /\ n.auto = autoStartedByJob' /\ n.timers = timers' /\ n.tunIp = tunIp'
        /\ n.be = backend' /\ n.active = activeJob' /\ n.parked = parked'
        /\ n.paused = paused' /\ n.retained = retained' /\ n.exhausted = exhausted'
        /\ n.stopped = stoppedByUser'
    BY NowShape
  <2> HIDE DEF n, s
  <2> QED
    BY <2>1, <2>2, <2>3, <2>4 DEF Only, Fields
<1>2. Inv(s, U) /\ over' \subseteq Jobs /\ upsets' = U /\ s.helper.alive /\ s.out = out
  BY NowIs DEF VpnInv
<1>3. VpnInv' <=> Inv(n, U) /\ over' \subseteq Jobs
  BY <1>2 DEF VpnInv
<1>4. Printed(n)
  OBVIOUS
<1> HIDE DEF n, s, U
<1>0. IsState(s) /\ ~s.inStart /\ Held(s) /\ Queue(s) /\ Machine(s) /\ Printed(s) /\ Late(s, U)
      /\ Still(s, U) /\ Runs(s, U)
  BY <1>2 DEF Inv
<1>5. n.out \in Seq(Messages)
  <2>1. out \in Seq(Messages)
    BY <1>0, <1>2 DEF IsState
  <2> QED
    BY <1>1, <2>1, ElemsConcat
<1>6. IsState(n)
  BY <1>0, <1>1, <1>5 DEF IsState, Only, Fields
<1>7. /\ n.active = s.active /\ n.parked = s.parked /\ n.exhausted = s.exhausted
      /\ n.stopped = s.stopped /\ n.inStart = s.inStart
      /\ n.needing = s.needing /\ n.retained = s.retained /\ n.paused = s.paused
      /\ n.be = s.be /\ n.state = s.state /\ n.rec = s.rec /\ n.timers = s.timers
      /\ n.tunIp = s.tunIp
  BY <1>1 DEF Only, Fields
<1>8. s.be.exists
  BY <1>0, <1>2 DEF Printed
<1>9. Machine(n)
  BY <1>0, <1>7, <1>8 DEF Machine
<1>10. Held(n) /\ Queue(n) /\ Late(n, U) /\ Still(n, U) /\ Runs(n, U)
  BY <1>0, <1>7 DEF Held, Queue, Late, Still, Runs
<1>11. Inv(n, U) /\ Allowed(s, n)
  BY <1>0, <1>4, <1>6, <1>7, <1>9, <1>10 DEF Inv, Allowed, PauseKept
<1> QED
  BY <1>2, <1>3, <1>11 DEF n, s

\* The helper says ms, as it is after that.
LEMMA HelperSays ==
    ASSUME VpnInv, HelperStep, UNCHANGED upsets, helper.alive,
           helper' \in Helpers, cmds' \in Seq(Nat), NEW ms \in Seq(Messages), Say(ms),
           helper.running => helper'.running,
           \A m \in Elems(ms) :
              /\ helper'.alive => m.type \notin Terminal
              /\ ~helper'.running => m.type \in Terminal
              /\ m.type \in StartFailures => ~helper'.running
              /\ m.type = "READY" => m.ip # 0
    PROVE  VpnInv' /\ Allowed(Now, Now')
<1> DEFINE n == Now'
<1>1. /\ n.helper = helper' /\ n.out = out \o ms /\ n.be = backend
  BY NowShape DEF Say, HelperStep
<1>2. /\ out \in Seq(Messages)
      /\ backend.exists /\ \A m \in Elems(out) : m.type \notin Terminal
      /\ ~helper.running => ~backend.wasReady /\ \A m \in Elems(out) : m.type \in Terminal
      /\ \A m \in Elems(out) : m.type = "READY" => m.ip # 0
  BY NowIs DEF VpnInv, Inv, IsState, Printed
<1>3. Elems(out \o ms) = Elems(out) \cup Elems(ms)
  BY <1>2, ElemsConcat
<1> HIDE DEF n
<1>4. StartFailures \subseteq Terminal
  BY DEF Terminal
<1>5. Printed(n)
  BY <1>1, <1>2, <1>3, <1>4 DEF Printed
<1>6. UNCHANGED over
  BY DEF HelperStep, jobVars
<1> QED
  BY <1>5, <1>6, HelperKeeps DEF n

\* The types of what the helper sees and says.
LEMMA HelperTypes ==
    ASSUME VpnInv
    PROVE  /\ helper \in Helpers /\ cmds \in Seq(Nat) /\ out \in Seq(Messages)
           /\ helper.ip + 1 \in Nat \ {0}
           /\ \A n, ip \in Nat : Ready(n, ip) \in Messages
           /\ \A x \in Terminal \cup Reports \cup {"RESTART_FAILED"} :
                 Message(x) \in Messages
                    /\ \A n \in Nat : [Message(x) EXCEPT !.attempt = n] \in Messages
<1>1. helper \in Helpers /\ cmds \in Seq(Nat) /\ out \in Seq(Messages)
  BY NowIs DEF VpnInv, Inv, IsState
<1>2. helper.ip \in Nat
  BY <1>1 DEF Helpers
<1>3. \A n, ip \in Nat : Ready(n, ip) \in Messages
  BY DEF Ready, Messages
<1>4. ASSUME NEW x \in Terminal \cup Reports \cup {"RESTART_FAILED"}
      PROVE  Message(x) \in Messages
                /\ \A n \in Nat : [Message(x) EXCEPT !.attempt = n] \in Messages
  BY DEF Message, Messages
<1> QED
  BY <1>1, <1>2, <1>3, <1>4

LEMMA HelperStartsKeeps ==
    ASSUME VpnInv, HelperStarts
    PROVE  VpnInv' /\ Allowed(Now, Now')
<1> DEFINE ip == helper.ip + 1
           ms == <<Ready(0, ip)>>
<1>1. /\ helper' \in Helpers /\ helper'.running /\ cmds' \in Seq(Nat) /\ ip # 0
  BY HelperTypes DEF HelperStarts, Helpers
<1>2. /\ ms \in Seq(Messages) /\ Elems(ms) = {Ready(0, ip)}
      /\ Ready(0, ip).type = "READY" /\ Ready(0, ip).ip = ip
  <2>1. Ready(0, ip) \in Messages
    BY HelperTypes
  <2> QED
    BY <2>1, SeqFew DEF Ready
<1>3. HelperStep /\ UNCHANGED upsets /\ helper.alive /\ Say(ms)
  BY DEF HelperStarts, NoFault
<1> HIDE DEF ms, ip
<1>4. \A m \in Elems(ms) : m.type = "READY" /\ m.ip # 0
  BY <1>1, <1>2
<1> QED
  BY <1>1, <1>2, <1>3, <1>4, HelperSays DEF Terminal, StartFailures

LEMMA HelperStartFailsKeeps ==
    ASSUME VpnInv, NEW why \in {"busy", "lost", "other"}, HelperStartFails(why)
    PROVE  VpnInv' /\ Allowed(Now, Now')
<1> DEFINE ms == <<Message(why), Message("EXIT")>>
<1>1. /\ helper' \in Helpers /\ ~helper'.alive /\ ~helper'.running /\ cmds' \in Seq(Nat)
      /\ ~helper.running
  BY HelperTypes DEF HelperStartFails, Helpers, MayDie
<1>2. Elems(ms) = {Message(why), Message("EXIT")} /\ ms \in Seq(Messages)
  <2>1. Message(why) \in Messages /\ Message("EXIT") \in Messages
    BY HelperTypes DEF Terminal, StartFailures
  <2> QED
    BY <2>1, SeqFew
<1>3. HelperStep /\ UNCHANGED upsets /\ helper.alive /\ Say(ms)
  BY DEF HelperStartFails
<1> HIDE DEF ms
<1>4. \A m \in Elems(ms) : m.type \in Terminal
  BY <1>2 DEF Message, Terminal, StartFailures
<1> QED
  BY <1>1, <1>2, <1>3, <1>4, HelperSays DEF Terminal, StartFailures

\* A helper that runs goes on, and reports.
LEMMA ReportKeeps ==
    ASSUME VpnInv, HelperStep, UNCHANGED <<upsets, cmds>>, helper.alive, helper.running,
           helper' \in Helpers, helper'.running, NEW x \in Reports, Say(<<Message(x)>>)
    PROVE  VpnInv' /\ Allowed(Now, Now')
<1> DEFINE ms == <<Message(x)>>
<1>1. ms \in Seq(Messages) /\ Elems(ms) = {Message(x)} /\ Message(x).type = x
  <2>1. Message(x) \in Messages
    BY HelperTypes
  <2> QED
    BY <2>1, SeqFew DEF Message
<1>3. Say(ms) /\ cmds' \in Seq(Nat)
  BY HelperTypes
<1> HIDE DEF ms
<1>2. \A m \in Elems(ms) : m.type \in Reports
  BY <1>1
<1> QED
  BY <1>1, <1>2, <1>3, HelperSays DEF Reports, Terminal, StartFailures

LEMMA HelperSuspectsKeeps ==
    ASSUME VpnInv, HelperSuspects
    PROVE  VpnInv' /\ Allowed(Now, Now')
<1> DEFINE x == IF protocol = "openvpn" THEN "RecoveringInternally" ELSE "Suspect"
<1>1. x \in Reports
  BY DEF Reports
<1>2. Say(<<Message(x)>>)
  BY DEF HelperSuspects
<1> HIDE DEF x
<1>3. helper' \in Helpers /\ helper'.running
  BY HelperTypes DEF HelperSuspects, Watched, Helpers
<1> QED
  BY <1>1, <1>2, <1>3, ReportKeeps DEF HelperSuspects, Watched

LEMMA HelperGoesDownKeeps ==
    ASSUME VpnInv, HelperGoesDown
    PROVE  VpnInv' /\ Allowed(Now, Now')
<1>1. helper' \in Helpers /\ helper'.running
  BY HelperTypes DEF HelperGoesDown, Watched, Helpers
<1>2. UNCHANGED <<upsets, cmds>> /\ HelperStep /\ helper.alive /\ helper.running
      /\ Say(<<Message("Down")>>)
  BY DEF HelperGoesDown, Watched, NoFault
<1> QED
  BY <1>1, <1>2, ReportKeeps DEF Reports

LEMMA HelperHealsKeeps ==
    ASSUME VpnInv, NEW moved \in BOOLEAN, HelperHeals(moved)
    PROVE  VpnInv' /\ Allowed(Now, Now')
<1> DEFINE ip == helper.ip + 1
           ms == <<Ready(0, ip)>> \o <<Message("Healthy")>>
<1>1. helper' \in Helpers /\ helper'.running
  <2>1. helper.ip \in Nat /\ helper.ip + 1 \in Nat
    BY HelperTypes DEF Helpers
  <2> QED
    BY <2>1, HelperTypes DEF HelperHeals, Watched, Helpers
<1>2. UNCHANGED <<upsets, cmds>> /\ HelperStep /\ helper.alive /\ helper.running
  BY DEF HelperHeals, Watched, NoFault
<1>3. CASE moved
  <2>1. Say(ms)
    BY <1>3 DEF HelperHeals
  <2>2. ip # 0 /\ Ready(0, ip) \in Messages /\ Message("Healthy") \in Messages
    BY HelperTypes DEF Reports
  <2>3. ms \in Seq(Messages) /\ Elems(ms) = {Ready(0, ip), Message("Healthy")}
    <3> DEFINE a == Ready(0, ip)
               b == Message("Healthy")
    <3>1. a \in Messages /\ b \in Messages
      BY <2>2
    <3> HIDE DEF a, b
    <3> DEFINE q == <<a>>
               r == <<b>>
    <3>2. q \in Seq(Messages) /\ Elems(q) = {a} /\ r \in Seq(Messages) /\ Elems(r) = {b}
      BY <3>1, SeqFew
    <3> HIDE DEF q, r
    <3>3. q \o r \in Seq(Messages) /\ Elems(q \o r) = Elems(q) \cup Elems(r)
      BY <3>2, ElemsConcat
    <3>4. ms = q \o r
      BY DEF q, r, a, b
    <3> HIDE DEF ms
    <3> QED
      BY <3>2, <3>3, <3>4 DEF a, b
  <2> HIDE DEF ms, ip
  <2>4. \A m \in Elems(ms) : m.type \in {"READY", "Healthy"} /\ (m.type = "READY" => m.ip # 0)
    BY <2>2, <2>3 DEF Ready, Message
  <2>5. cmds' \in Seq(Nat)
    BY <1>2, HelperTypes
  <2> QED
    BY <1>1, <1>2, <2>1, <2>3, <2>4, <2>5, HelperSays DEF Terminal, StartFailures
<1>4. CASE ~moved
  <2>1. Say(<<>> \o <<Message("Healthy")>>)
    BY <1>4 DEF HelperHeals
  <2>2. Message("Healthy") \in Messages
    BY HelperTypes DEF Reports
  <2>3. <<>> \o <<Message("Healthy")>> = <<Message("Healthy")>>
    BY <2>2
  <2> QED
    BY <1>1, <1>2, <2>1, <2>3, ReportKeeps DEF Reports
<1> QED
  BY <1>3, <1>4

LEMMA HelperReadsKeeps ==
    ASSUME VpnInv, NEW ok \in BOOLEAN, HelperReads(ok)
    PROVE  VpnInv' /\ Allowed(Now, Now')
<1> DEFINE c == Head(cmds)
           ip == helper.ip + 1
           e == <<Message("EXIT")>>
           r == <<Ready(c, ip)>>
           f == [Message("RESTART_FAILED") EXCEPT !.attempt = c]
<1>1. c \in Nat /\ cmds' \in Seq(Nat) /\ ip \in Nat \ {0}
  BY HelperTypes, ElemsTail DEF HelperReads
<1>2. HelperStep /\ helper.alive /\ helper.running /\ UNCHANGED upsets
  BY DEF HelperReads, NoFault
<1>3. CASE c = EOF
  <2>1. helper' \in Helpers /\ ~helper'.alive /\ helper'.running /\ Say(e)
    BY <1>3, HelperTypes DEF HelperReads, MayDie, Helpers
  <2>2. e \in Seq(Messages) /\ Elems(e) = {Message("EXIT")} /\ Message("EXIT").type = "EXIT"
    <3>1. Message("EXIT") \in Messages
      BY HelperTypes DEF Terminal
    <3> QED
      BY <3>1, SeqFew DEF Message
  <2> HIDE DEF e
  <2>3. \A m \in Elems(e) : m.type = "EXIT"
    BY <2>2
  <2> QED
    BY <1>1, <1>2, <2>1, <2>2, <2>3, HelperSays DEF StartFailures
<1>4. CASE c # EOF /\ ok
  <2>1. helper' \in Helpers /\ helper'.running /\ Say(r)
    BY <1>1, <1>2, <1>4, HelperTypes DEF HelperReads, Helpers
  <2>2. r \in Seq(Messages) /\ Elems(r) = {Ready(c, ip)}
    <3>1. Ready(c, ip) \in Messages
      BY <1>1, HelperTypes
    <3> QED
      BY <3>1, SeqFew
  <2> HIDE DEF r, c, ip
  <2>3. \A m \in Elems(r) : m.type = "READY" /\ m.ip # 0
    BY <1>1, <2>2 DEF Ready
  <2> QED
    BY <1>1, <1>2, <2>1, <2>2, <2>3, HelperSays DEF Terminal, StartFailures
<1>5. CASE c # EOF /\ ~ok
  <2>1. helper' \in Helpers /\ helper'.running /\ Say(<<f>>)
    BY <1>2, <1>5, HelperTypes DEF HelperReads, Helpers
  <2>2. f \in Messages /\ f.type = "RESTART_FAILED"
    BY <1>1, HelperTypes DEF Message
  <2> HIDE DEF f
  <2> DEFINE ms == <<f>>
  <2>3. ms \in Seq(Messages) /\ Elems(ms) = {f} /\ Say(ms)
    BY <2>1, <2>2, SeqFew
  <2> HIDE DEF ms
  <2>4. \A m \in Elems(ms) : m.type = "RESTART_FAILED"
    BY <2>2, <2>3
  <2> QED
    BY <1>1, <1>2, <2>1, <2>3, <2>4, HelperSays DEF Terminal, StartFailures
<1> QED
  BY <1>3, <1>4, <1>5

LEMMA HelperCrashesKeeps ==
    ASSUME VpnInv, HelperCrashes
    PROVE  VpnInv' /\ Allowed(Now, Now')
<1> DEFINE ms == <<Message("CRASH")>>
<1>1. /\ helper' \in Helpers /\ ~helper'.alive /\ (helper.running => helper'.running)
      /\ cmds' \in Seq(Nat)
  BY HelperTypes DEF HelperCrashes, Helpers, MayDie
<1>2. /\ ms \in Seq(Messages) /\ Elems(ms) = {Message("CRASH")}
      /\ Message("CRASH").type = "CRASH"
  <2>1. Message("CRASH") \in Messages
    BY HelperTypes DEF Terminal
  <2> QED
    BY <2>1, SeqFew DEF Message
<1>3. HelperStep /\ UNCHANGED upsets /\ helper.alive /\ Say(ms)
  BY DEF HelperCrashes
<1> HIDE DEF ms
<1>4. \A m \in Elems(ms) : m.type = "CRASH"
  BY <1>2
<1> QED
  BY <1>1, <1>2, <1>3, <1>4, HelperSays DEF Terminal, StartFailures

-----------------------------------------------------------------------------
(* The timers, and what the helper has printed. *)

LEMMA TimersKeep ==
    ASSUME NEW s, NEW U, Inv(s, U), NEW X
    PROVE  LET t == StopTimers(s, X)
           IN Inv(t, U) /\ Only(s, t, {"timers"}) /\ t.timers = s.timers \ X
<1> DEFINE t == StopTimers(s, X)
<1>0. IsState(s) /\ Machine(s) /\ Upset(U, U, s)
  BY InvCounts DEF Inv
<1>1. IsState(t) /\ Only(s, t, {"timers"}) /\ t.timers = s.timers \ X
  BY <1>0 DEF StopTimers, IsState, Only, Fields
<1> HIDE DEF t
<1>2. /\ Only(s, t, {"health", "reason", "auto", "attempts", "id", "ok", "admission",
                     "failedInStart", "timers", "tunIp", "cmds"})
      /\ t.tunIp = s.tunIp /\ t.cmds = s.cmds /\ t.needing = s.needing /\ t.retained = s.retained
  BY <1>1 DEF Only, Fields
<1>3. /\ "tunPoll" \in t.timers \/ s.state = "Connected" => t.tunIp # 0
      /\ t.tunIp # 0 => s.be.wasReady
      /\ ~s.be.exists => t.cmds = <<>>
      /\ t.timers \subseteq s.timers \cup {"recovery", "healthyReset", "tunPoll"}
  BY <1>0, <1>1, <1>2 DEF Machine, Dead
<1>4. Upset(U, U, t)
  BY <1>0, <1>2 DEF Upset
<1>5. Inv(t, U)
  BY <1>1, <1>2, <1>3, <1>4, QuietKeeps
<1> QED
  BY <1>1, <1>5 DEF t

\* A mishap is written down.
LEMMA UpsetKnown ==
    ASSUME NEW s, NEW U, Inv(s, U), NEW X
    PROVE  LET t == [s EXCEPT !.upset = X]
           IN Inv(t, U \cup X) /\ Only(s, t, {"upset"}) /\ t.upset = X
<1> DEFINE t == [s EXCEPT !.upset = X]
<1>0. IsState(s) /\ ~s.inStart
  BY DEF Inv
<1>1. IsState(t) /\ Only(s, t, {"upset"}) /\ t.upset = X
  BY <1>0 DEF IsState, Only, Fields
<1> HIDE DEF t
<1>2. ~t.inStart /\ Only(s, t, {"inStart", "failedInStart", "ok", "admission", "upset", "auto"})
  BY <1>0, <1>1 DEF Only, Fields
<1>3. Inv(t, U)
  BY <1>1, <1>2, InvSame
<1>4. Inv(t, U \cup X)
  BY <1>3, InvUpset
<1> QED
  BY <1>1, <1>4 DEF t

LEMMA RecoveryTimeoutKeeps ==
    ASSUME VpnInv, NEW outcome \in Outcomes, RecoveryTimeout(outcome)
    PROVE  VpnInv' /\ Allowed(Now, Now')
<1> DEFINE s == StopTimers(Now, {"recovery"})
           t == _performExternalRestart(s, outcome)
           U == upsets
           V == upsets'
<1>1. Become(t) /\ over' \subseteq Jobs
  BY DEF RecoveryTimeout, VpnInv
<1>2. Upset(U, V, t)
  BY <1>1, BecomeUpsets
<1>3. Inv(s, U) /\ Only(Now, s, {"timers"})
  BY TimersKeep DEF VpnInv
<1> HIDE DEF s, U, V
<1>4. Inv(t, V) /\ Allowed(s, t)
  BY <1>2, <1>3, PerformRestartKeeps
<1>5. s.state = Now.state /\ s.active = Now.active /\ s.paused = Now.paused
  BY <1>3 DEF Only, Fields
<1> HIDE DEF t
<1>6. Allowed(Now, t)
  BY <1>4, <1>5, AllowedAfter
<1> QED
  BY <1>1, <1>4, <1>6, BecomeKeeps DEF V

LEMMA HealthyResetKeeps ==
    ASSUME VpnInv, HealthyResetTimeout
    PROVE  VpnInv' /\ Allowed(Now, Now')
<1> DEFINE s == StopTimers(Now, {"healthyReset"})
           t == [s EXCEPT !.attempts = IF state = "Connected" /\ health = "Healthy" /\ ~recoveryActive
                                       THEN 0 ELSE @]
           U == upsets
           V == upsets'
<1>1. Become(t) /\ over' \subseteq Jobs
  BY DEF HealthyResetTimeout, VpnInv
<1>2. Upset(U, V, t)
  BY <1>1, BecomeUpsets
<1>3. Inv(s, U) /\ Only(Now, s, {"timers"})
  BY TimersKeep DEF VpnInv
<1> HIDE DEF s, U, V
<1>0. IsState(s) /\ Machine(s)
  BY <1>3 DEF Inv
<1>4. IsState(t) /\ Only(s, t, {"attempts"})
  <2>1. RecoveryMaxAttempts \in Nat
    BY VpnAssumption
  <2>2. /\ Only(s, t, {"attempts"}) /\ t = [f \in Fields |-> t[f]]
        /\ t.attempts \in {0, s.attempts}
    BY <1>0 DEF IsState, Only, Fields
  <2> HIDE DEF t
  <2>3. t.attempts \in Nat /\ WithinBudget(t.attempts)
    BY <1>0, <2>1, <2>2 DEF IsState, WithinBudget
  <2> QED
    BY <1>0, <2>2, <2>3 DEF IsState, Only, Fields
<1> HIDE DEF t
<1>5. /\ Only(s, t, {"health", "reason", "auto", "attempts", "id", "ok", "admission",
                     "failedInStart", "timers", "tunIp", "cmds"})
      /\ t.timers = s.timers /\ t.tunIp = s.tunIp /\ t.cmds = s.cmds
  BY <1>4 DEF Only, Fields
<1>6. /\ "tunPoll" \in t.timers \/ s.state = "Connected" => t.tunIp # 0
      /\ t.tunIp # 0 => s.be.wasReady
      /\ ~s.be.exists => t.cmds = <<>>
  BY <1>0, <1>5 DEF Machine, Dead
<1>7. Inv(t, V) /\ Allowed(s, t)
  BY <1>2, <1>3, <1>4, <1>5, <1>6, QuietKeeps
<1>8. s.state = Now.state /\ s.active = Now.active /\ s.paused = Now.paused
  BY <1>3 DEF Only, Fields
<1>9. Allowed(Now, t)
  BY <1>7, <1>8, AllowedAfter
<1> QED
  BY <1>1, <1>7, <1>9, BecomeKeeps DEF V

LEMMA AutoDisconnectKeeps ==
    ASSUME VpnInv, onAutoDisconnectTimeout
    PROVE  VpnInv' /\ Allowed(Now, Now')
<1> DEFINE s == StopTimers(Now, {"autoDisconnect"})
           a == [s EXCEPT !.auto = FALSE]
           t == IF Idle THEN stop(a) ELSE s
           U == upsets
           V == upsets'
<1>1. Become(t) /\ over' \subseteq Jobs
  BY DEF onAutoDisconnectTimeout, VpnInv
<1>2. Upset(U, V, t)
  BY <1>1, BecomeUpsets
<1>3. Inv(s, U) /\ Only(Now, s, {"timers"}) /\ Inv(Now, U)
  BY TimersKeep DEF VpnInv
<1>4. Now.active = NoJob
  <2>1. "autoDisconnect" \in Now.timers
    BY NowIs DEF onAutoDisconnectTimeout
  <2> QED
    BY <1>3, <2>1 DEF Inv, Held
<1> HIDE DEF s, U, V
<1>5. s.state = Now.state /\ s.active = Now.active /\ s.paused = Now.paused
  BY <1>3 DEF Only, Fields
<1>6. CASE Idle
  <2>1. s.state = "Connected"
    BY <1>5, <1>6, NowIs DEF Idle
  <2>2. IsState(a) /\ Only(s, a, {"auto"})
    BY <1>3 DEF Inv, IsState, Only, Fields
  <2>3. t = stop(a)
    BY <1>6
  <2> HIDE DEF a, t
  <2>4. /\ a.state = s.state /\ a.active = s.active /\ a.inStart = s.inStart
        /\ Only(s, a, {"inStart", "failedInStart", "ok", "admission", "upset", "auto"})
    BY <2>2 DEF Only, Fields
  <2>5. Inv(a, U)
    BY <1>3, <2>2, <2>4, InvSame DEF Inv
  <2>6. a.retained = {} /\ ~a.exhausted
    BY <1>4, <1>5, <2>1, <2>4, <2>5, NobodyHolds DEF Inv, Machine
  <2>7. Upset(U, V, stop(a))
    BY <1>2, <2>3
  <2>8. Inv(stop(a), V) /\ stop(a).active = a.active
    <3>1. IsState(a) /\ ~a.inStart /\ Held(a) /\ Queue(a) /\ Machine(a) /\ Printed(a) /\ Late(a, U)
      BY <2>5 DEF Inv
    <3>2. a.state \notin {"Disabled", "Stopping"} /\ a.active = NoJob
      BY <1>4, <1>5, <2>1, <2>4
    <3> QED
      BY <2>6, <2>7, <3>1, <3>2, StopKeeps
  <2>9. Allowed(Now, t)
    BY <1>4, <1>5, <2>3, <2>4, <2>8 DEF Allowed, PauseKept
  <2> QED
    BY <1>1, <2>3, <2>8, <2>9, BecomeKeeps DEF V
<1>7. CASE ~Idle
  <2>1. t = s
    BY <1>7
  <2> HIDE DEF t
  <2>2. Inv(t, V) /\ Allowed(s, t)
    BY <1>2, <1>3, <2>1, InvUpset DEF Upset
  <2>3. Allowed(Now, t)
    BY <1>5, <2>2, AllowedAfter
  <2> QED
    BY <1>1, <2>2, <2>3, BecomeKeeps DEF V
<1> QED
  BY <1>6, <1>7

LEMMA PollTunIpKeeps ==
    ASSUME VpnInv, NEW bindable \in BOOLEAN, PollTunIp(bindable)
    PROVE  VpnInv' /\ Allowed(Now, Now')
<1> DEFINE X == IF state = "Stopping" THEN {"late"} ELSE {}
           a == StopTimers(Now, {"tunPoll"})
           s == [a EXCEPT !.upset = X]
           k == [kind |-> "UnexpectedExit", failure |-> "lost", wasReady |-> TRUE]
           t == IF bindable THEN _completeReady(s) ELSE onBackendTerminated(s, k)
           U == upsets
           V == upsets'
           W == U \cup X
           D == W \cup {"desync"}
<1>1. Become(t) /\ over' \subseteq Jobs /\ "tunPoll" \in timers
  BY DEF PollTunIp, VpnInv
<1>2. Upset(U \cup t.upset, V, t)
  BY <1>1, BecomeUpsets
<1>3. Inv(a, U) /\ Only(Now, a, {"timers"}) /\ Inv(Now, U)
  BY TimersKeep DEF VpnInv
<1> HIDE DEF a, U, V, X
<1>4. Inv(s, W) /\ Only(a, s, {"upset"}) /\ s.upset = X
  BY <1>3, UpsetKnown
<1> HIDE DEF s
<1>5. /\ s.state = state /\ s.active = Now.active /\ s.paused = Now.paused
      /\ s.state = Now.state /\ s.tunIp = tunIp
  BY <1>3, <1>4, NowIs DEF Only, Fields
<1>6. s.state = "Stopping" => "late" \in W
  BY <1>5 DEF X
<1>7. s.tunIp # 0 /\ s.be.exists
  <2>1. Machine(Now) /\ Now.timers = timers /\ Machine(s) /\ Now.tunIp = tunIp
    BY <1>3, <1>4, NowIs DEF Inv
  <2>2. s.tunIp # 0 /\ s.be.wasReady
    BY <1>1, <1>5, <2>1 DEF Machine
  <2> QED
    BY <2>1, <2>2 DEF Machine, Dead, NoBackend
<1>8. \A Z : Upset(W, Z, t) => Inv(t, Z) /\ Allowed(s, t) /\ t.upset = s.upset
  <2> SUFFICES ASSUME NEW Z, Upset(W, Z, t)
               PROVE  Inv(t, Z) /\ Allowed(s, t) /\ t.upset = s.upset
    OBVIOUS
  <2> HIDE DEF W
  <2>1. CASE bindable
    <3>1. t = _completeReady(s)
      BY <2>1
    <3> HIDE DEF t
    <3>2. Upset(W, Z, _completeReady(s))
      BY <3>1
    <3> QED
      BY <1>4, <1>6, <1>7, <3>1, <3>2, CompleteReadyKeeps
  <2>2. CASE ~bindable
    <3>1. t = onBackendTerminated(s, k)
      BY <2>2
    <3>2. /\ k \in Kinds /\ k.kind = "UnexpectedExit" /\ k.failure = "lost" /\ k.wasReady
      BY DEF Kinds, FailureKinds
    <3> HIDE DEF t, k
    <3>3. Upset(W, Z, onBackendTerminated(s, k))
      BY <3>1
    <3> QED
      BY <1>4, <1>6, <1>7, <3>1, <3>2, <3>3, TerminatedKeeps
  <2> QED
    BY <2>1, <2>2
<1> HIDE DEF t
<1>9. Upset(W, D, t)
  BY DEF Upset
<1>10. t.upset = X
  BY <1>4, <1>8, <1>9
<1>11. Upset(W, V, t)
  BY <1>2, <1>10
<1>12. Inv(t, V) /\ Allowed(s, t)
  BY <1>8, <1>11
<1>13. Allowed(Now, t)
  BY <1>5, <1>12, AllowedAfter
<1> QED
  BY <1>1, <1>12, <1>13, BecomeKeeps DEF V

\* One message is taken from the pipe.
LEMMA TakenKeeps ==
    ASSUME NEW s, NEW U, Inv(s, U), s.out # <<>>
    PROVE  LET t == [s EXCEPT !.out = Tail(@)]
           IN /\ Inv(t, U) /\ Only(s, t, {"out"})
              /\ Head(s.out) \in Messages /\ Head(s.out) \in Elems(s.out)
<1> DEFINE q == Tail(s.out)
           t == [s EXCEPT !.out = q]
<1>0. IsState(s) /\ ~s.inStart /\ Held(s) /\ Queue(s) /\ Machine(s) /\ Printed(s) /\ Late(s, U)
      /\ Still(s, U) /\ Runs(s, U)
  BY DEF Inv
<1>1. /\ q \in Seq(Messages) /\ Head(s.out) \in Messages
      /\ Elems(s.out) = Elems(q) \cup {Head(s.out)}
  <2>1. s.out \in Seq(Messages)
    BY <1>0 DEF IsState
  <2> QED
    BY <2>1, ElemsTail
<1> HIDE DEF q
<1>2. IsState(t) /\ Only(s, t, {"out"}) /\ t.out = q
  BY <1>0, <1>1 DEF IsState, Only, Fields
<1>3. t = [s EXCEPT !.out = Tail(@)]
  BY DEF q
<1> HIDE DEF t
<1>4. /\ t.active = s.active /\ t.exhausted = s.exhausted /\ t.inStart = s.inStart
      /\ t.stopped = s.stopped /\ t.needing = s.needing /\ t.retained = s.retained
      /\ t.paused = s.paused /\ t.be = s.be /\ t.cmds = s.cmds /\ t.parked = s.parked
      /\ t.helper = s.helper /\ t.state = s.state /\ t.rec = s.rec /\ t.timers = s.timers
      /\ t.tunIp = s.tunIp
  BY <1>2 DEF Only, Fields
<1>5. Held(t) /\ Queue(t)
  BY <1>0, <1>4 DEF Held, Queue
<1>6. s.be.exists
  BY <1>0 DEF Machine, Dead
<1>7. Machine(t)
  BY <1>0, <1>4, <1>6 DEF Machine
<1>8. Printed(t)
  BY <1>0, <1>1, <1>2, <1>4 DEF Printed
<1>9. Late(t, U) /\ Still(t, U) /\ Runs(t, U)
  BY <1>0, <1>4 DEF Late, Still, Runs
<1> QED
  BY <1>0, <1>1, <1>2, <1>3, <1>4, <1>5, <1>7, <1>8, <1>9 DEF Inv

LEMMA ReceiveKeeps ==
    ASSUME VpnInv, NEW bindable \in BOOLEAN, Receive(bindable)
    PROVE  VpnInv' /\ Allowed(Now, Now')
<1> DEFINE X == IF Crashed THEN {"crash"} ELSE {}
           m == Head(out)
           a == [Now EXCEPT !.out = Tail(@)]
           s == [a EXCEPT !.upset = X]
           t == Handle(s, m, bindable)
           U == upsets
           V == upsets'
           W == U \cup X
           D == W \cup {"desync"}
<1>0. s = [Now EXCEPT !.out = Tail(@), !.upset = X]
  OBVIOUS
<1>1. Become(t) /\ over' \subseteq Jobs /\ out # <<>>
  BY <1>0 DEF Receive, VpnInv
<1>2. Upset(U \cup t.upset, V, t)
  BY <1>1, BecomeUpsets
<1>3. Inv(Now, U) /\ Now.out = out
  BY NowIs DEF VpnInv
<1>4. Inv(a, U) /\ Only(Now, a, {"out"}) /\ m \in Messages /\ m \in Elems(out)
  BY <1>1, <1>3, TakenKeeps
<1> HIDE DEF a, U, V, X
<1>5. Inv(s, W) /\ Only(a, s, {"upset"}) /\ s.upset = X
  BY <1>4, UpsetKnown
<1> HIDE DEF s
<1>6. /\ s.state = state /\ s.active = Now.active /\ s.paused = Now.paused
      /\ s.state = Now.state /\ s.be = backend /\ s.helper = Now.helper
  BY <1>4, <1>5, NowIs DEF Only, Fields
<1>8. s.state = "Stopping" /\ m.type = "CRASH" => "crash" \in W
  BY <1>6 DEF X, Crashed
<1> HIDE DEF m
<1>9. /\ m.type \in StartFailures => ~s.helper.running
      /\ m.type = "READY" => m.ip # 0
      /\ m.type \notin Terminal => s.helper.running
  <2>1. Printed(Now) /\ Now.out = out
    BY <1>3 DEF Inv
  <2> QED
    BY <1>4, <1>6, <2>1 DEF Printed
<1>10. s.be.exists
  <2>1. Machine(Now) /\ Now.be = backend
    BY <1>3, NowIs DEF Inv
  <2> QED
    BY <1>1, <1>3, <1>6, <2>1 DEF Machine, Dead
<1>11. ASSUME NEW Z, Upset(W, Z, t)
       PROVE  Inv(t, Z) /\ Allowed(s, t) /\ t.upset = s.upset
  <2> HIDE DEF W
  <2>1. Upset(W, Z, Handle(s, m, bindable))
    BY <1>11
  <2> QED
    BY <1>4, <1>5, <1>6, <1>8, <1>9, <1>10, <2>1, HandleKeeps
<1> HIDE DEF t
<1>12. Upset(W, D, t)
  BY DEF Upset
<1>13. t.upset = X
  BY <1>5, <1>11, <1>12
<1>14. Upset(W, V, t)
  BY <1>2, <1>13
<1>15. Inv(t, V) /\ Allowed(s, t)
  BY <1>11, <1>14
<1>16. Allowed(Now, t)
  BY <1>6, <1>15, AllowedAfter
<1> QED
  BY <1>1, <1>15, <1>16, BecomeKeeps DEF V

-----------------------------------------------------------------------------
(* The user and the jobs. *)

LEMMA StartByUserKeeps ==
    ASSUME VpnInv, NEW outcome \in Outcomes, StartByUser(outcome)
    PROVE  VpnInv' /\ Allowed(Now, Now')
<1> DEFINE s == Now
           a == [Now EXCEPT !.stopped = FALSE]
           t == start(a, outcome)
           U == upsets
           V == upsets'
<1>1. Become(t) /\ over' \subseteq Jobs
  BY DEF StartByUser, VpnInv
<1>2. Upset(U, V, t)
  BY <1>1, BecomeUpsets
<1>3. /\ Inv(s, U) /\ ~s.exhausted /\ s.state \in {"Disabled", "Failed", "LeaseBusy"}
  BY NowIs DEF StartByUser, Click, VpnInv
<1>a. a = [s EXCEPT !.stopped = FALSE]
  OBVIOUS
<1> HIDE DEF s, U, V, a
<1>4. IsState(s) /\ ~s.be.exists /\ Dead(s) /\ ~s.inStart /\ ~s.rec
  BY <1>3 DEF Inv, Machine
<1>b. IsState(a) /\ Only(s, a, {"stopped"}) /\ ~a.stopped
  BY <1>4, <1>a DEF IsState, Only, Fields
<1>c. /\ a.state = s.state /\ a.be = s.be /\ a.cmds = s.cmds /\ a.out = s.out
      /\ a.helper = s.helper /\ a.inStart = s.inStart /\ a.tunIp = s.tunIp
      /\ a.timers = s.timers /\ a.active = s.active /\ a.needing = s.needing
      /\ a.retained = s.retained
  BY <1>b DEF Only, Fields
<1>d. AtRest(a) /\ Dead(a) /\ ~a.inStart
  BY <1>3, <1>4, <1>c DEF AtRest, Dead
<1>5. CASE outcome = "ok"
  <2>1. /\ IsState(t) /\ Only(a, t, {"state", "be", "cmds", "out", "helper", "ok"})
        /\ t.state = "Starting" /\ t.ok
        /\ t.be = [NoBackend EXCEPT !.exists = TRUE]
        /\ t.helper = [NoHelper EXCEPT !.ip = a.helper.ip, !.alive = TRUE]
        /\ t.cmds = <<>> /\ t.out = <<>>
    BY <1>5, <1>b, <1>d, StartIs
  <2> HIDE DEF t
  <2>2. /\ Only(s, t, {"state", "stopped", "be", "cmds", "out", "helper", "ok", "attempts",
                       "id", "auto", "admission"})
        /\ t.stopped = a.stopped
    BY <1>b, <2>1 DEF Only, Fields
  <2>3. Launched(s, t)
    BY <1>c, <2>1 DEF Launched
  <2>4. Inv(t, V) /\ Allowed(s, t)
    BY <1>2, <1>3, <1>4, <1>b, <2>1, <2>2, <2>3, LaunchedKeeps
  <2> QED
    BY <1>1, <2>4, BecomeKeeps DEF s, V
<1>6. CASE outcome \in {"noConfig", "sync"}
  <2>1. /\ IsState(t)
        /\ Only(a, t, {"state", "retained", "timers", "tunIp", "needing", "auto", "reason",
                       "failedInStart", "inStart", "ok",
                       "be", "cmds", "out", "helper"})
        /\ t.state = "Failed" /\ Dead(t) /\ ~t.ok /\ ~t.inStart
        /\ t.tunIp \in {0, a.tunIp} /\ t.timers \subseteq a.timers
        /\ t.needing \in {0, a.needing}
        /\ \/ t.retained = a.retained
           \/ t.retained = a.retained \ {a.active} /\ a.needing = 0
    BY <1>6, <1>b, <1>d, StartFailsIs
  <2> HIDE DEF t
  <2>2. /\ Only(s, t, {"state", "retained", "timers", "tunIp", "needing", "auto", "reason", "rec",
                       "failedInStart", "inStart", "ok", "stopped", "admission", "attempts", "id",
                       "health", "exhausted", "paused", "be", "cmds", "out", "helper"})
        /\ t.rec = s.rec /\ t.exhausted = s.exhausted /\ t.paused = s.paused
        /\ t.stopped = a.stopped
    BY <1>b, <2>1 DEF Only, Fields
  <2>3. Inv(t, V) /\ Allowed(s, t)
    BY <1>2, <1>3, <1>4, <1>b, <1>c, <2>1, <2>2, NotLaunchedKeeps
  <2> QED
    BY <1>1, <2>3, BecomeKeeps DEF s, V
<1> QED
  BY <1>5, <1>6 DEF Outcomes

LEMMA DisconnectKeeps ==
    ASSUME VpnInv, disconnectByUser
    PROVE  VpnInv' /\ PauseKept(Now, Now')
<1> DEFINE s == Now
           p == IF activeJobsNeedingVpn > 0 /\ activeJob # NoJob
                THEN [s EXCEPT !.paused = "user"] ELSE s
           a == [p EXCEPT !.stopped = TRUE]
           t == stop(a)
           U == upsets
           V == upsets'
<1>1. Become(t) /\ over' \subseteq Jobs
  BY DEF disconnectByUser, VpnInv
<1>2. Upset(U, V, t)
  BY <1>1, BecomeUpsets
<1>3. /\ Inv(s, U) /\ ~s.exhausted /\ s.state \in {"Starting", "Connected", "Reconnecting"}
      /\ s.needing = activeJobsNeedingVpn /\ s.active = activeJob
  BY NowIs DEF disconnectByUser, Click, VpnInv
<1> HIDE DEF s, U, V
<1>0. IsState(s) /\ ~s.inStart /\ Held(s) /\ Queue(s) /\ Machine(s) /\ Printed(s) /\ Late(s, U)
      /\ Runs(s, U)
  BY <1>3 DEF Inv
<1>4. /\ IsState(a) /\ Only(s, a, {"paused", "stopped"}) /\ a.stopped
      /\ a.paused = IF s.needing > 0 /\ s.active # NoJob THEN "user" ELSE s.paused
  <2>1. /\ IsState(p) /\ Only(s, p, {"paused"})
        /\ p.paused = IF s.needing > 0 /\ s.active # NoJob THEN "user" ELSE s.paused
    BY <1>0, <1>3, ZenonT(90) DEF IsState, Only, Fields
  <2> HIDE DEF p
  <2>2. IsState(a) /\ Only(p, a, {"stopped"}) /\ a.stopped
    BY <2>1 DEF IsState, Only, Fields
  <2> HIDE DEF a
  <2> QED
    BY <2>1, <2>2 DEF Only, Fields
<1> HIDE DEF a
<1>5. /\ a.active = s.active /\ a.exhausted = s.exhausted /\ a.inStart = s.inStart
      /\ a.needing = s.needing /\ a.retained = s.retained
      /\ a.be = s.be /\ a.cmds = s.cmds /\ a.out = s.out /\ a.parked = s.parked
      /\ a.helper = s.helper /\ a.state = s.state /\ a.rec = s.rec /\ a.timers = s.timers
      /\ a.tunIp = s.tunIp
  BY <1>4 DEF Only, Fields
<1>6. Held(a) /\ Queue(a) /\ Machine(a) /\ Late(a, U)
  BY <1>0, <1>4, <1>5 DEF Held, Queue, Machine, Dead, Late
<1>7. Printed(a)
  BY <1>0, <1>5, TunnelStaysPrinted DEF TunnelStays
<1>8. /\ U = {} /\ a.active # NoJob => a.paused = "user"
      /\ U = {} /\ a.retained # {} => a.needing = 1
  BY <1>0, <1>4, <1>5 DEF Runs
<1>9. a.state \notin {"Disabled", "Stopping"} /\ ~a.exhausted /\ ~a.inStart
  BY <1>0, <1>3, <1>5
<1>10. Inv(t, V) /\ t.active = a.active /\ t.paused = a.paused /\ t.stopped = a.stopped
  BY <1>2, <1>4, <1>6, <1>7, <1>8, <1>9, StopKeeps
<1> HIDE DEF t
<1>11. PauseKept(s, t)
  BY <1>4, <1>10 DEF PauseKept
<1> QED
  BY <1>1, <1>10, <1>11, BecomeKeeps DEF s, V

\* The user has answered, and the recovery is taken up again or not.
LEMMA AnsweredKeeps ==
    ASSUME NEW s, NEW U, Inv(s, U), s.exhausted, NEW t, IsState(t),
           Only(s, t, {"attempts", "rec", "reason", "state", "health", "timers", "tunIp", "paused",
                       "exhausted", "stopped"}),
           ~t.exhausted, t.stopped => s.stopped, t.tunIp \in {0, s.tunIp}, t.timers \subseteq s.timers \cup {"recovery"},
           \/ t.state = "Reconnecting" /\ t.rec /\ Interrupted(s, t)
           \/ t.state = "Failed" /\ ~t.rec /\ t.paused = s.paused,
           NEW V, Upset(U, V, t)
    PROVE  Inv(t, V) /\ Allowed(s, t)
<1>0. IsState(s) /\ ~s.inStart /\ Held(s) /\ Queue(s) /\ Machine(s) /\ Still(s, U) /\ Runs(s, U)
  BY DEF Inv
<1>1. /\ t.active = s.active /\ t.parked = s.parked /\ t.needing = s.needing
      /\ t.retained = s.retained /\ t.be = s.be /\ t.cmds = s.cmds /\ t.out = s.out
      /\ t.helper = s.helper /\ t.inStart = s.inStart
  BY DEF Only, Fields
<1>2. s.state = "Failed" /\ ~s.be.exists /\ Dead(s)
  BY <1>0 DEF Machine
<1>3. Dead(t) /\ s.tunIp = 0 /\ "tunPoll" \notin s.timers
  <2>1. ~s.be.wasReady /\ Dead(t)
    BY <1>1, <1>2 DEF Dead, NoBackend
  <2> QED
    BY <1>0, <2>1 DEF Machine
<1>4. Machine(t) /\ Printed(t) /\ Late(t, V)
  BY <1>3, DeadTunnel
<1>5. Still(t, V)
  BY <1>0, <1>1 DEF Still, Upset
<1>6. JobStays(s, t, U)
  BY <1>0, <1>1, <1>2 DEF JobStays, Runs, Interrupted
<1>7. Held(t) /\ Queue(t) /\ Runs(t, V)
  BY <1>0, <1>6, StaysHeld
<1>8. Allowed(s, t)
  BY <1>1 DEF Allowed, PauseKept, Interrupted
<1> QED
  BY <1>0, <1>1, <1>4, <1>5, <1>7, <1>8 DEF Inv

LEMMA AnswerKeeps ==
    ASSUME VpnInv, NEW retry \in BOOLEAN, AnswerExhausted(retry)
    PROVE  VpnInv' /\ Allowed(Now, Now')
<1> DEFINE s == Now
           q == [s EXCEPT !.stopped = FALSE]
           a == IF retry THEN retryVpn(q) ELSE s
           t == [a EXCEPT !.exhausted = FALSE]
           U == upsets
           V == upsets'
           F == {"attempts", "rec", "reason", "state", "health", "timers", "tunIp", "paused",
                 "stopped"}
<1>1. Become(t) /\ over' \subseteq Jobs
  BY DEF AnswerExhausted, VpnInv
<1>2. Upset(U, V, t)
  BY <1>1, BecomeUpsets
<1>3. Inv(s, U) /\ s.exhausted
  BY NowIs DEF AnswerExhausted, VpnInv
<1> HIDE DEF s, U, V
<1>0. IsState(s) /\ s.state = "Failed" /\ ~s.rec /\ ~s.be.exists
  BY <1>3 DEF Inv, Machine
<1>4. /\ IsState(a) /\ Only(s, a, F) /\ (a.stopped => s.stopped)
      /\ a.tunIp \in {0, s.tunIp} /\ a.timers \subseteq s.timers \cup {"recovery"}
      /\ \/ a.state = "Reconnecting" /\ a.rec /\ Interrupted(s, a)
         \/ a.state = "Failed" /\ ~a.rec /\ a.paused = s.paused
  <2> DEFINE r == [q EXCEPT !.attempts = 0, !.rec = FALSE]
  <2>q. IsState(q) /\ Only(s, q, {"stopped"}) /\ ~q.stopped
    BY <1>0 DEF IsState, Only, Fields
  <2>o. a = s \/ a = retryVpn(q)
    OBVIOUS
  <2> HIDE DEF q, a
  <2>1. IsState(r) /\ Only(q, r, {"attempts", "rec"}) /\ ~r.rec
    <3>1. Only(q, r, {"attempts", "rec"}) /\ r = [f \in Fields |-> r[f]] /\ r.attempts = 0 /\ r.rec = FALSE
      BY <2>q DEF IsState, Only, Fields
    <3> HIDE DEF r
    <3>2. RecoveryMaxAttempts \in Nat
      BY VpnAssumption
    <3>0. r.attempts = 0 /\ r.rec = FALSE
      BY <3>1
    <3>3. WithinBudget(r.attempts) /\ r.attempts \in Nat /\ r.rec \in BOOLEAN
      <4>1. WithinBudget(0)
        BY <3>2 DEF WithinBudget
      <4>2. WithinBudget(r.attempts)
        BY ONLY <3>0, <4>1
      <4>3. r.attempts \in Nat
        BY <3>0
      <4>4. r.rec \in BOOLEAN
        BY <3>0
      <4> QED
        BY <4>2, <4>3, <4>4
    <3> QED
      BY <2>q, <3>1, <3>3 DEF IsState, Only, Fields
  <2>2. a = s \/ a = q \/ a = requestRecovery(r, IF r.reason = "none" THEN "lost" ELSE r.reason)
    <3>1. r.reason = q.reason
      BY <2>1 DEF Only, Fields
    <3> QED
      BY <2>o, <3>1 DEF retryVpn
  <2> HIDE DEF r
  <2>3. /\ r.state = s.state /\ r.be = s.be /\ r.tunIp = s.tunIp /\ r.timers = s.timers
        /\ r.paused = s.paused /\ r.active = s.active /\ r.stopped = q.stopped
        /\ q.state = s.state /\ q.tunIp = s.tunIp /\ q.timers = s.timers /\ q.rec = s.rec
        /\ q.paused = s.paused
    BY <2>q, <2>1 DEF Only, Fields
  <2>4. a = s \/ a = q \/ a = r \/ a = requestRecovery(r, "lost")
    BY <2>2 DEF requestRecovery
  <2>5. CASE a = s
    BY <1>0, <2>5 DEF Only
  <2>6. CASE a \in {q, r}
    BY <1>0, <2>q, <2>1, <2>3, <2>6 DEF Only
  <2>7. CASE a = requestRecovery(r, "lost")
    <3>1. ~(r.state = "Stopping" /\ r.be.exists)
      BY <1>0, <2>3
    <3>2. /\ IsState(a)
          /\ Only(r, a, {"rec", "reason", "state", "health", "timers", "tunIp", "paused"})
          /\ a.state = "Reconnecting" /\ a.rec /\ a.tunIp = 0
          /\ a.timers \subseteq (r.timers \ {"tunPoll", "autoDisconnect"}) \cup {"recovery"}
          /\ Interrupted(r, a)
      BY <2>1, <2>7, <3>1, RecoveryIs
    <3>3. Only(s, a, F) /\ a.stopped = r.stopped
      BY <2>q, <2>1, <3>2 DEF Only, Fields
    <3>4. Interrupted(s, a)
      BY <2>3, <3>2 DEF Interrupted
    <3> QED
      BY <2>q, <2>3, <3>2, <3>3, <3>4
  <2> QED
    BY <2>4, <2>5, <2>6, <2>7
<1> HIDE DEF a
<1>5. IsState(t) /\ Only(a, t, {"exhausted"}) /\ ~t.exhausted
  BY <1>4 DEF IsState, Only, Fields
<1> HIDE DEF t
<1>6. /\ Only(s, t, F \cup {"exhausted"})
      /\ t.state = a.state /\ t.rec = a.rec /\ t.paused = a.paused /\ t.tunIp = a.tunIp
      /\ t.timers = a.timers /\ t.stopped = a.stopped
  BY <1>4, <1>5 DEF Only, Fields
<1>7. Only(s, t, {"attempts", "rec", "reason", "state", "health", "timers", "tunIp", "paused",
                  "exhausted", "stopped"})
  BY <1>6 DEF Only
<1>8. \/ t.state = "Reconnecting" /\ t.rec /\ Interrupted(s, t)
      \/ t.state = "Failed" /\ ~t.rec /\ t.paused = s.paused
  BY <1>4, <1>6 DEF Interrupted
<1>9. Inv(t, V) /\ Allowed(s, t)
  BY <1>2, <1>3, <1>4, <1>5, <1>6, <1>7, <1>8, AnsweredKeeps
<1> QED
  BY <1>1, <1>9, BecomeKeeps DEF s, V

LEMMA SubmitKeeps ==
    ASSUME VpnInv, NEW j \in Jobs, NEW outcome \in Outcomes, SubmitJob(j, outcome)
    PROVE  VpnInv' /\ Allowed(Now, Now')
<1> DEFINE n == Now
           s == admitJob(n, outcome)
           q == Append(s.parked, j)
           p == [s EXCEPT !.parked = q]
           go == s.admission = "Proceed" /\ activeJob = NoJob
           t == IF go THEN Activate(s, j) ELSE p
           U == upsets
           V == upsets'
           D == U \cup {"desync"}
<1>1. Become(t) /\ over' \subseteq Jobs
  BY DEF SubmitJob, VpnInv
<1>2. Upset(U, V, t)
  BY <1>1, BecomeUpsets
<1>3. Inv(n, U) /\ n.active = activeJob /\ n.parked = parked
  BY NowIs DEF VpnInv
<1>4. j # n.active /\ j \notin Elems(n.parked)
  BY <1>3 DEF SubmitJob, Parked, Elems
<1> HIDE DEF n, U, V
<1>5. Upset(U, D, s)
  BY DEF Upset
<1> HIDE DEF D, s
<1>6. ASSUME NEW Z, Upset(U, Z, s)
      PROVE  /\ Inv(s, Z) /\ Allowed(n, s)
             /\ s.active = n.active /\ s.parked = n.parked /\ s.paused = n.paused
             /\ s.admission = "Proceed" => n.state = "Connected" /\ Only(n, s, {"admission"})
  <2>1. Upset(U, Z, admitJob(n, outcome))
    BY <1>6 DEF s
  <2> QED
    BY <1>3, <2>1, AdmitKeeps DEF s
<1>7. /\ IsState(s) /\ s.active = n.active /\ s.parked = n.parked /\ s.paused = n.paused
      /\ s.admission = "Proceed" => n.state = "Connected" /\ Only(n, s, {"admission"})
  BY <1>5, <1>6 DEF Inv
<1>8. CASE go
  <2>1. t = Activate(s, j)
    BY <1>8
  <2>2. s.state = "Connected" /\ s.needing = n.needing /\ s.retained = n.retained
    BY <1>7, <1>8 DEF Only, Fields
  <2>3. Upset(U, U, s)
    <3>1. Upset(U, U, n)
      BY <1>3, InvCounts
    <3> QED
      BY <2>2, <3>1 DEF Upset
  <2>4. Inv(s, U)
    BY <1>6, <2>3
  <2>5. s.active = NoJob /\ j \notin Elems(s.parked) /\ U \subseteq V
    BY <1>2, <1>3, <1>4, <1>7, <1>8 DEF Upset
  <2> HIDE DEF t
  <2>6. Inv(t, V) /\ t.state = "Connected" /\ t.active = j
    BY <2>1, <2>2, <2>4, <2>5, ActivateKeeps
  <2>7. Allowed(n, t)
    BY <1>4, <2>6 DEF Allowed, PauseKept
  <2> QED
    BY <1>1, <2>6, <2>7, BecomeKeeps DEF n, V
<1>9. CASE ~go
  <2>1. t = p
    BY <1>9
  <2>2. q \in Seq(Jobs) /\ IsInjectiveSeq(q) /\ s.active \notin Elems(q)
    <3>1. s.parked \in Seq(Jobs) /\ IsInjectiveSeq(n.parked) /\ n.active \notin Elems(n.parked)
      BY <1>3, <1>7 DEF Inv, IsState, Queue
    <3> QED
      BY <1>4, <1>7, <3>1, InjectiveAppend
  <2> HIDE DEF q, t
  <2>3. p.needing = s.needing /\ p.retained = s.retained
    BY <1>7 DEF IsState, Fields
  <2>4. Upset(U, V, s)
    BY <1>2, <2>1, <2>3 DEF Upset
  <2>5. Inv(s, V) /\ Allowed(n, s)
    BY <1>6, <2>4
  <2>6. Inv(p, V) /\ Only(s, p, {"parked"})
    BY <2>2, <2>5, QueueKeeps
  <2> HIDE DEF p
  <2>7. p.state = s.state /\ p.stopped = s.stopped /\ p.active = s.active /\ p.paused = s.paused
    BY <2>6 DEF Only, Fields
  <2>8. Inv(t, V) /\ Allowed(n, t)
    BY <2>1, <2>5, <2>6, <2>7 DEF Allowed, PauseKept
  <2> QED
    BY <1>1, <2>8, BecomeKeeps DEF n, V
<1> QED
  BY <1>8, <1>9

\* The active job waits for the tunnel, which is retained for it.
LEMMA WaitsKeeps ==
    ASSUME NEW s, NEW U, Inv(s, U), s.active # NoJob, s.state # "Stopping"
    PROVE  LET t == _retainVpnForJob([s EXCEPT !.paused = "vpn"], s.active)
           IN Inv(t, U) /\ t.state = s.state
<1> DEFINE j == s.active
           b == [s EXCEPT !.paused = "vpn"]
           t == _retainVpnForJob(b, j)
<1>0. IsState(s) /\ ~s.inStart /\ Held(s) /\ Queue(s) /\ Machine(s) /\ Printed(s) /\ Late(s, U)
      /\ Still(s, U) /\ Runs(s, U)
  BY DEF Inv
<1>n. j \in Jobs /\ s.needing \in Nat
  BY <1>0 DEF IsState
<1>1. IsState(b) /\ Only(s, b, {"paused"}) /\ b.paused = "vpn"
  BY <1>0 DEF IsState, Only, Fields
<1> HIDE DEF b
<1>2. b.retained = s.retained /\ b.needing = s.needing /\ b.timers = s.timers /\ b.helper = s.helper
  BY <1>1 DEF Only, Fields
<1>3. CASE j \in s.retained
  <2>1. t = b
    BY <1>2, <1>3 DEF _retainVpnForJob
  <2> HIDE DEF t
  <2>2. /\ t.active = s.active /\ t.parked = s.parked /\ t.exhausted = s.exhausted
        /\ t.stopped = s.stopped /\ t.inStart = s.inStart /\ t.tunIp = s.tunIp
        /\ t.be = s.be /\ t.state = s.state /\ t.rec = s.rec /\ t.cmds = s.cmds
        /\ t.out = s.out
    BY <1>1, <2>1 DEF Only, Fields
  <2>3. Held(t) /\ Queue(t)
    BY <1>0, <1>1, <1>2, <2>1, <2>2 DEF Held, Queue
  <2>4. Machine(t)
    BY <1>0, <1>2, <2>1, <2>2 DEF Machine, Dead
  <2>5. Printed(t)
    BY <1>0, <1>2, <2>1, <2>2, TunnelStaysPrinted DEF TunnelStays
  <2>6. Late(t, U) /\ Still(t, U)
    BY <1>0, <2>2 DEF Late, Still
  <2>7. Runs(t, U)
    BY <1>0, <1>1, <1>2, <1>3, <2>1, <2>2 DEF Runs
  <2> QED
    BY <1>0, <1>1, <2>1, <2>2, <2>3, <2>4, <2>5, <2>6, <2>7 DEF Inv, t, b
<1>4. CASE j \notin s.retained
  <2>1. s.retained = {} /\ s.needing = 0
    <3>1. s.retained = {}
      BY <1>0, <1>4 DEF Held
    <3> QED
      BY <1>0, <1>n, <3>1 DEF Held
  <2>2. /\ IsState(t) /\ Only(b, t, {"timers", "needing", "helper", "retained"})
        /\ t.needing = b.needing + 1 /\ t.retained = b.retained \cup {j}
        /\ t.timers = b.timers \ {"autoDisconnect"} /\ SameHelper(b, t)
        /\ ~b.be.exists => ~t.helper.active
    BY <1>1, <1>2, <1>4, <1>n, RetainIs
  <2> HIDE DEF t
  <2>3. /\ t.active = s.active /\ t.parked = s.parked /\ t.exhausted = s.exhausted
        /\ t.stopped = s.stopped /\ t.inStart = s.inStart /\ t.tunIp = s.tunIp
        /\ t.be = s.be /\ t.state = s.state /\ t.rec = s.rec /\ t.cmds = s.cmds
        /\ t.out = s.out /\ t.paused = "vpn" /\ b.be = s.be
    BY <1>1, <2>2 DEF Only, Fields
  <2>4. t.needing = 1 /\ t.retained = {j}
    BY <1>2, <2>1, <2>2
  <2>5. Held(t) /\ Queue(t)
    BY <1>0, <1>2, <2>2, <2>3, <2>4 DEF Held, Queue
  <2>6. SameHelper(s, t)
    BY <1>2, <2>2 DEF SameHelper
  <2>7. Machine(t)
    <3>1. ~s.be.exists => Dead(s) /\ ~t.helper.active
      BY <1>0, <2>2, <2>3 DEF Machine
    <3>2. ~s.be.exists => Dead(t)
      BY <1>0, <2>2, <2>3, <2>6, <3>1, DeadUnwatched
    <3> QED
      BY <1>0, <1>2, <2>2, <2>3, <3>2 DEF Machine
  <2>8. Printed(t)
    BY <1>0, <2>3, <2>6, SameHelperRuns, TunnelStaysPrinted DEF TunnelStays
  <2>9. Late(t, U) /\ Still(t, U)
    BY <1>0, <2>3 DEF Late, Still
  <2>10. Runs(t, U)
    BY <2>3, <2>4 DEF Runs
  <2> QED
    BY <1>0, <2>2, <2>3, <2>5, <2>7, <2>8, <2>9, <2>10 DEF Inv, t, b
<1> QED
  BY <1>3, <1>4

\* The user resumes a job in a tunnel that is there.
LEMMA GoesOnKeeps ==
    ASSUME NEW s, NEW U, Inv(s, U), s.active # NoJob, s.state = "Connected",
           NEW X, s.active \notin s.retained => X # {},
           NEW t, t = [s EXCEPT !.paused = "no", !.upset = X],
           NEW V, Upset(U \cup X, V, t)
    PROVE  Inv(t, V) /\ t.state = s.state
<1>0. IsState(s) /\ ~s.inStart /\ Held(s) /\ Queue(s) /\ Machine(s) /\ Printed(s) /\ Late(s, U)
      /\ Still(s, U) /\ Runs(s, U)
  BY DEF Inv
<1>1. IsState(t) /\ Only(s, t, {"paused", "upset"}) /\ t.paused = "no"
  BY <1>0 DEF IsState, Only, Fields
<1>2. /\ t.active = s.active /\ t.parked = s.parked /\ t.exhausted = s.exhausted
      /\ t.stopped = s.stopped /\ t.inStart = s.inStart /\ t.tunIp = s.tunIp
      /\ t.be = s.be /\ t.state = s.state /\ t.rec = s.rec /\ t.cmds = s.cmds
      /\ t.out = s.out /\ t.timers = s.timers /\ t.helper = s.helper
      /\ t.needing = s.needing /\ t.retained = s.retained
  BY <1>1 DEF Only, Fields
<1>3. Held(t) /\ Queue(t)
  BY <1>0, <1>1, <1>2 DEF Held, Queue
<1>4. Machine(t)
  BY <1>0, <1>2 DEF Machine, Dead
<1>5. Printed(t)
  BY <1>0, <1>2, TunnelStaysPrinted DEF TunnelStays
<1>6. U \subseteq V /\ (V = {} => U = {} /\ X = {})
  BY DEF Upset
<1>7. Late(t, V) /\ Still(t, V)
  BY <1>0, <1>2, <1>6 DEF Late, Still
<1>8. Runs(t, V)
  BY <1>0, <1>1, <1>2, <1>6 DEF Runs
<1> QED
  BY <1>0, <1>1, <1>2, <1>3, <1>4, <1>5, <1>7, <1>8 DEF Inv

LEMMA ResumeKeeps ==
    ASSUME VpnInv, NEW outcome \in Outcomes, ResumeJob(outcome)
    PROVE  VpnInv' /\ (state # "Stopping" => state' # "Stopping")
<1> DEFINE n == Now
           s == admitJob(n, outcome)
           X == IF activeJob \in retained THEN {} ELSE {"unretained"}
           g == [n EXCEPT !.paused = "no", !.upset = X]
           w == _retainVpnForJob([s EXCEPT !.paused = "vpn"], activeJob)
           U == upsets
           V == upsets'
           D == U \cup {"desync"}
<1>1. /\ over' \subseteq Jobs
      /\ \/ Become(g) /\ state = "Connected"
         \/ Become(w) /\ state # "Stopping" /\ s.admission = "Wait"
         \/ Become(s) /\ state # "Stopping"
         \/ Become(n)
  <2>1. over' \subseteq Jobs
    BY DEF ResumeJob, VpnInv
  <2>2. \/ Become(g) /\ state = "Connected"
        \/ Become(w) /\ state # "Stopping" /\ s.admission = "Wait"
        \/ Become(s) /\ state # "Stopping"
        \/ Become(n)
    <3>1. CASE state = "Connected" /\ health = "Healthy"
      BY <3>1 DEF ResumeJob
    <3>2. CASE ~(state = "Connected" /\ health = "Healthy") /\ paused = "user" /\ state # "Stopping"
      BY <3>2 DEF ResumeJob
    <3>3. CASE /\ ~(state = "Connected" /\ health = "Healthy")
               /\ ~(~(state = "Connected" /\ health = "Healthy") /\ paused = "user"
                    /\ state # "Stopping")
      BY <3>3 DEF ResumeJob
    <3> QED
      BY <3>1, <3>2, <3>3
  <2> QED
    BY <2>1, <2>2
<1>2. /\ Inv(n, U) /\ n.active = activeJob /\ n.state = state /\ n.retained = retained
      /\ n.active # NoJob
  BY NowIs DEF VpnInv, ResumeJob
<1>3. ASSUME NEW t, Become(t), Inv(t, V), state # "Stopping" => t.state # "Stopping"
      PROVE  VpnInv' /\ (state # "Stopping" => state' # "Stopping")
  <2>1. VpnInv'
    BY <1>1, <1>3, BecomeKeeps DEF V
  <2>2. state' = t.state
    BY <1>3 DEF Become
  <2> QED
    BY <1>3, <2>1, <2>2
<1>4. CASE Become(g) /\ state = "Connected"
  <2>1. Upset(upsets \cup g.upset, upsets', g)
    BY <1>4, BecomeUpsets
  <2>2. g.upset = X
    BY DEF Now
  <2>3. Upset(U \cup X, V, g)
    BY <2>1, <2>2
  <2>5. n.active \notin n.retained => X # {}
    BY <1>2
  <2> HIDE DEF n, U, V, X
  <2>6. Inv(g, V) /\ g.state = n.state
    BY <1>2, <1>4, <2>3, <2>5, GoesOnKeeps, ZenonT(90)
  <2> QED
    BY <1>2, <1>3, <1>4, <2>6
<1>5. CASE Become(n)
  <2>1. U \subseteq V
    BY <1>5 DEF Become
  <2> HIDE DEF n, U, V
  <2>2. Inv(n, V)
    BY <1>2, <2>1, InvUpset
  <2> QED
    BY <1>2, <1>3, <1>5, <2>2
<1>6. Become(w) \/ Become(s) => U \subseteq V
  BY DEF Become
<1>7. /\ Become(w) => Upset(U, V, w)
      /\ Become(s) => Upset(U, V, s)
  BY BecomeUpsets
<1>8. Upset(U, D, s)
  BY DEF Upset
<1> HIDE DEF n, U, V, D, s
<1>9. ASSUME NEW Z, Upset(U, Z, s)
      PROVE  /\ Inv(s, Z) /\ s.active = n.active
             /\ s.admission = "Wait" => s.retained = n.retained /\ s.needing = n.needing
             /\ s.state \in {n.state, "Starting", "Failed"}
  <2>1. Upset(U, Z, admitJob(n, outcome))
    BY <1>9 DEF s
  <2> QED
    BY <1>2, <2>1, AdmitKeeps DEF s
<1>10. CASE Become(s) /\ state # "Stopping"
  <2>1. Inv(s, V) /\ s.state \in {n.state, "Starting", "Failed"}
    BY <1>7, <1>9, <1>10
  <2>2. s.state # "Stopping"
    BY <1>2, <1>10, <2>1
  <2> QED
    BY <1>3, <1>10, <2>1, <2>2
<1>11. CASE Become(w) /\ state # "Stopping" /\ s.admission = "Wait"
  <2>1. /\ s.retained = n.retained /\ s.needing = n.needing /\ s.active = n.active
        /\ s.state \in {n.state, "Starting", "Failed"}
    BY <1>8, <1>9, <1>11
  <2>2. Upset(U, V, s)
    <3>1. Upset(U, V, n)
      <4>1. Upset(U, U, n)
        BY <1>2, InvCounts
      <4> QED
        BY <1>6, <1>11, <4>1 DEF Upset
    <3> QED
      BY <2>1, <3>1 DEF Upset
  <2>3. Inv(s, V) /\ s.active # NoJob /\ s.state # "Stopping"
    BY <1>2, <1>9, <1>11, <2>1, <2>2
  <2>4. w = _retainVpnForJob([s EXCEPT !.paused = "vpn"], s.active)
    BY <1>2, <2>1
  <2> HIDE DEF w
  <2>5. Inv(w, V) /\ w.state = s.state
    BY <2>3, <2>4, WaitsKeeps
  <2> QED
    BY <1>3, <1>11, <2>3, <2>5
<1> QED
  BY <1>1, <1>4, <1>5, <1>10, <1>11

\* The job ends that was the active one.
LEMMA LetGo ==
    ASSUME NEW s, NEW U, Inv(s, U), NEW t, IsState(t),
           Only(s, t, {"active", "paused", "retained", "needing", "helper"}),
           t.active = NoJob, t.paused = "no", t.retained = {}, t.needing = 0,
           SameHelper(s, t), ~s.be.exists => ~t.helper.active
    PROVE  Inv(t, U)
<1>0. IsState(s) /\ ~s.inStart /\ Held(s) /\ Queue(s) /\ Machine(s) /\ Printed(s) /\ Late(s, U)
      /\ Still(s, U) /\ Runs(s, U)
  BY DEF Inv
<1>1. /\ t.parked = s.parked /\ t.exhausted = s.exhausted
      /\ t.stopped = s.stopped /\ t.inStart = s.inStart /\ t.tunIp = s.tunIp
      /\ t.be = s.be /\ t.state = s.state /\ t.rec = s.rec /\ t.cmds = s.cmds
      /\ t.out = s.out /\ t.timers = s.timers
  BY DEF Only, Fields
<1>2. Held(t)
  BY DEF Held
<1>3. Queue(t)
  <2>1. s.parked \in Seq(Jobs) /\ NoJob \notin Jobs
    BY <1>0, VpnAssumption DEF IsState
  <2>2. NoJob \notin Elems(s.parked)
    BY <2>1 DEF Elems
  <2> QED
    BY <1>0, <1>1, <2>2 DEF Queue
<1>4. ~s.be.exists => Dead(t)
  BY <1>0, <1>1, DeadUnwatched DEF Machine
<1>5. Machine(t)
  BY <1>0, <1>1, <1>4 DEF Machine
<1>6. Printed(t)
  BY <1>0, <1>1, SameHelperRuns, TunnelStaysPrinted DEF TunnelStays
<1>7. Late(t, U) /\ Still(t, U) /\ Runs(t, U)
  BY <1>0, <1>1 DEF Late, Still, Runs
<1> QED
  BY <1>0, <1>1, <1>2, <1>3, <1>5, <1>6, <1>7 DEF Inv

\* The idle tunnel is watched by a timer.
LEMMA IdleKeeps ==
    ASSUME NEW s, NEW U, Inv(s, U), s.active = NoJob
    PROVE  LET t == StartTimer(s, "autoDisconnect")
           IN Inv(t, U) /\ Only(s, t, {"timers"})
<1> DEFINE t == StartTimer(s, "autoDisconnect")
<1>0. IsState(s) /\ ~s.inStart /\ Held(s) /\ Queue(s) /\ Machine(s) /\ Printed(s) /\ Late(s, U)
      /\ Still(s, U) /\ Runs(s, U)
  BY DEF Inv
<1>1. /\ IsState(t) /\ Only(s, t, {"timers"}) /\ t.timers = s.timers \cup {"autoDisconnect"}
  BY <1>0 DEF StartTimer, IsState, Only, Fields, Timers
<1> HIDE DEF t
<1>2. /\ t.active = s.active /\ t.parked = s.parked /\ t.exhausted = s.exhausted
      /\ t.stopped = s.stopped /\ t.inStart = s.inStart /\ t.tunIp = s.tunIp
      /\ t.be = s.be /\ t.state = s.state /\ t.rec = s.rec /\ t.cmds = s.cmds
      /\ t.out = s.out /\ t.helper = s.helper /\ t.paused = s.paused
      /\ t.needing = s.needing /\ t.retained = s.retained
  BY <1>1 DEF Only, Fields
<1>3. Held(t) /\ Queue(t)
  BY <1>0, <1>2 DEF Held, Queue
<1>4. Machine(t)
  BY <1>0, <1>1, <1>2 DEF Machine, Dead
<1>5. Printed(t)
  BY <1>0, <1>2, TunnelStaysPrinted DEF TunnelStays
<1>6. Late(t, U) /\ Still(t, U) /\ Runs(t, U)
  BY <1>0, <1>2 DEF Late, Still, Runs
<1> QED
  BY <1>0, <1>1, <1>2, <1>3, <1>4, <1>5, <1>6 DEF Inv, t

\* What releaseForJob() does once the job is let go of.
LEMMA IdleOrStopped ==
    ASSUME NEW s, NEW U, Inv(s, U), s.active = NoJob, s.retained = {}, s.needing = 0,
           NEW r,
           LET a == [s EXCEPT !.auto = FALSE]
           IN \/ r = stop(a) /\ (s.rec \/ s.state \in {"Reconnecting", "Connected"})
              \/ r = a \/ r = StartTimer(s, "autoDisconnect") \/ r = s
    PROVE  Inv(r, U) /\ r.active = NoJob /\ r.parked = s.parked /\ r.upset = s.upset
<1> DEFINE a == [s EXCEPT !.auto = FALSE]
           i == StartTimer(s, "autoDisconnect")
<1>0. IsState(s) /\ ~s.inStart
  BY DEF Inv
<1>1. IsState(a) /\ Only(s, a, {"auto"})
  BY <1>0 DEF IsState, Only, Fields
<1>2. \/ r = stop(a) /\ (s.rec \/ s.state \in {"Reconnecting", "Connected"})
      \/ r = a \/ r = i \/ r = s
  OBVIOUS
<1> HIDE DEF a
<1>3. /\ a.active = NoJob /\ a.parked = s.parked /\ a.upset = s.upset /\ ~a.inStart
      /\ a.retained = {} /\ a.needing = 0 /\ a.state = s.state /\ a.rec = s.rec
      /\ Only(s, a, {"inStart", "failedInStart", "ok", "admission", "upset", "auto"})
  BY <1>0, <1>1 DEF Only, Fields
<1>4. Inv(a, U)
  BY <1>1, <1>3, InvSame
<1>5. Inv(i, U) /\ i.active = s.active /\ i.parked = s.parked /\ i.upset = s.upset
  <2>1. Inv(i, U) /\ Only(s, i, {"timers"})
    BY IdleKeeps
  <2> HIDE DEF i
  <2> QED
    BY <2>1 DEF Only, Fields
<1> HIDE DEF i
<1>6. CASE r = stop(a) /\ (s.rec \/ s.state \in {"Reconnecting", "Connected"})
  <2>1. /\ IsState(a) /\ ~a.inStart /\ Held(a) /\ Queue(a) /\ Machine(a) /\ Printed(a)
        /\ Late(a, U)
    BY <1>4 DEF Inv
  <2>2. a.state \notin {"Disabled", "Stopping"} /\ ~a.exhausted
    BY <1>3, <1>6, <2>1 DEF Machine
  <2>3. stop(a).retained = {} /\ stop(a).needing = 0
    <3> DEFINE t == stop(a)
    <3>1. IF a.be.exists
          THEN Only(a, t, {"rec", "timers", "state", "be", "cmds"})
          ELSE t.needing = 0 /\ t.retained \in {a.retained, a.retained \ {a.active}}
      BY <2>1, <2>2, StopIs
    <3> HIDE DEF t
    <3>2. t.retained = {} /\ t.needing = 0
      BY <1>3, <3>1 DEF Only, Fields
    <3> QED
      BY <3>2 DEF t
  <2>4. Upset(U, U, stop(a))
    BY <2>3, FS_EmptySet DEF Upset
  <2>5. /\ U = {} /\ a.active # NoJob => a.paused = "user"
        /\ U = {} /\ a.retained # {} => a.needing = 1
    BY <1>3
  <2>6. /\ Inv(stop(a), U) /\ stop(a).upset = a.upset /\ stop(a).active = a.active
        /\ stop(a).parked = a.parked
    BY <2>1, <2>2, <2>4, <2>5, StopKeeps
  <2> QED
    BY <1>3, <1>6, <2>6
<1> QED
  BY <1>2, <1>3, <1>4, <1>5, <1>6

LEMMA ReleasedKeeps ==
    ASSUME NEW s, NEW U, Inv(s, U), s.active # NoJob
    PROVE  LET r == _releaseVpnForJob([s EXCEPT !.active = NoJob, !.paused = "no"], s.active)
           IN Inv(r, U) /\ r.active = NoJob /\ r.parked = s.parked /\ r.upset = s.upset
<1> DEFINE j == s.active
           b == [s EXCEPT !.active = NoJob, !.paused = "no"]
           c == [b EXCEPT !.retained = @ \ {j}]
           d == [c EXCEPT !.needing = 0]
           t == SetActive(d, FALSE)
           r == _releaseVpnForJob(b, j)
<1>0. /\ IsState(s) /\ s.retained \subseteq {j} /\ s.needing \in Nat /\ s.needing <= 1
      /\ (s.needing = 1 => s.retained # {}) /\ Machine(s)
  BY DEF Inv, Held, IsState
<1>1. IsState(b) /\ Only(s, b, {"active", "paused"}) /\ b.active = NoJob /\ b.paused = "no"
  BY <1>0 DEF IsState, Only, Fields
<1> HIDE DEF b
<1>2. /\ b.retained = s.retained /\ b.needing = s.needing /\ b.helper = s.helper
      /\ b.upset = s.upset /\ b.parked = s.parked
  BY <1>1 DEF Only, Fields
<1>3. CASE j \notin s.retained
  <2>1. r = b
    BY <1>2, <1>3 DEF _releaseVpnForJob
  <2> HIDE DEF r
  <2>2. b.retained = {} /\ b.needing = 0
    <3>1. s.retained = {}
      BY <1>0, <1>3
    <3>2. s.needing # 1
      BY <1>0, <3>1
    <3> QED
      BY <1>0, <1>2, <3>1, <3>2
  <2>3. SameHelper(s, b)
    <3>1. s.helper \in Helpers
      BY <1>0 DEF IsState
    <3>2. s.helper = [s.helper EXCEPT !.active = s.helper.active] /\ s.helper.active \in BOOLEAN
      BY <3>1 DEF Helpers
    <3> QED
      BY <1>2, <3>2 DEF SameHelper
  <2>4. ~s.be.exists => ~b.helper.active
    <3> SUFFICES ASSUME ~s.be.exists PROVE ~b.helper.active
      OBVIOUS
    <3>1. s.helper = [NoHelper EXCEPT !.ip = s.helper.ip]
      BY <1>0 DEF Machine, Dead
    <3>2. ~s.helper.active
      BY <3>1 DEF NoHelper
    <3> QED
      BY <1>2, <3>2
  <2>5. Only(s, b, {"active", "paused", "retained", "needing", "helper"})
    BY <1>1 DEF Only
  <2>6. Inv(b, U)
    BY <1>1, <2>2, <2>3, <2>4, <2>5, LetGo
  <2> QED
    BY <1>1, <1>2, <2>1, <2>6 DEF r, j, b
<1>4. CASE j \in s.retained
  <2>1. /\ IsState(c) /\ Only(b, c, {"retained"}) /\ c.retained = b.retained \ {j}
    BY <1>1 DEF IsState, Only, Fields
  <2>2. r = releaseForJob(c)
    BY <1>2, <1>4 DEF _releaseVpnForJob
  <2> HIDE DEF c, r
  <2>3. c.needing \in {0, 1} /\ c.retained = {} /\ c.state = b.state /\ c.rec = b.rec
    BY <1>0, <1>2, <2>1 DEF Only, Fields
  <2>4. IsState(d) /\ Only(c, d, {"needing"}) /\ d.needing = 0
    <3>1. Only(c, d, {"needing"}) /\ d = [f \in Fields |-> d[f]] /\ d.needing = 0
      BY <2>1 DEF IsState, Only, Fields
    <3> HIDE DEF d
    <3>2. d.needing \in Nat
      BY <3>1
    <3>3. IsState(c)
      BY <2>1
    <3> QED
      BY <3>1, <3>2, <3>3 DEF IsState, Only, Fields
  <2>5. LET n == IF c.needing > 0 THEN c.needing - 1 ELSE 0
        IN n = 0
    BY <2>3
  <2>6. \/ r = stop([t EXCEPT !.auto = FALSE]) /\ (c.rec \/ c.state \in {"Reconnecting", "Connected"})
        \/ r = [t EXCEPT !.auto = FALSE]
        \/ r = StartTimer(t, "autoDisconnect") \/ r = t
    BY <2>2, <2>5 DEF releaseForJob
  <2> HIDE DEF d
  <2>7. /\ IsState(t) /\ Only(d, t, {"helper"}) /\ SameHelper(d, t) /\ ~t.helper.active
    BY <2>4, SetActiveIs DEF SameHelper
  <2> HIDE DEF t
  <2>8. /\ Only(s, t, {"active", "paused", "retained", "needing", "helper"})
        /\ t.active = NoJob /\ t.paused = "no" /\ t.retained = {} /\ t.needing = 0
        /\ t.state = c.state /\ t.rec = c.rec /\ t.parked = s.parked /\ t.upset = s.upset
        /\ d.helper = s.helper
    BY <1>1, <1>2, <2>1, <2>3, <2>4, <2>7 DEF Only, Fields
  <2>9. SameHelper(s, t)
    BY <2>7, <2>8 DEF SameHelper
  <2>10. Inv(t, U)
    BY <2>7, <2>8, <2>9, LetGo
  <2>11. \/ r = stop([t EXCEPT !.auto = FALSE]) /\ (t.rec \/ t.state \in {"Reconnecting", "Connected"})
         \/ r = [t EXCEPT !.auto = FALSE]
         \/ r = StartTimer(t, "autoDisconnect") \/ r = t
    BY <2>6, <2>8
  <2>12. Inv(r, U) /\ r.active = NoJob /\ r.parked = t.parked /\ r.upset = t.upset
    BY <2>8, <2>10, <2>11, IdleOrStopped
  <2> QED
    BY <2>8, <2>12 DEF r, b, j
<1> QED
  BY <1>3, <1>4

LEMMA JobEndsKeeps ==
    ASSUME VpnInv, NEW outcome \in Outcomes, JobEnds(outcome)
    PROVE  VpnInv' /\ Allowed(Now, Now')
<1> DEFINE n == Now
           s == _releaseVpnForJob([n EXCEPT !.active = NoJob, !.paused = "no"], activeJob)
           t == admitJob(s, outcome)
           h == StartHead(t)
           U == upsets
           V == upsets'
           D == U \cup {"desync"}
<1>1. /\ Inv(n, U) /\ n.active = activeJob /\ n.parked = parked /\ n.active # NoJob
      /\ over \subseteq Jobs
  BY NowIs DEF VpnInv, JobEnds
<1>2. over' \subseteq Jobs
  <2>1. over' = over \cup {activeJob}
    BY DEF JobEnds
  <2>2. activeJob \in Jobs \cup {NoJob}
    BY <1>1 DEF Inv, IsState
  <2> QED
    BY <1>1, <2>1, <2>2
<1>3. \/ Become(s)
      \/ Become(h) /\ parked # <<>> /\ t.admission = "Proceed"
      \/ Become(t)
  <2>1. Become(IF parked = <<>> THEN s ELSE IF t.admission = "Proceed" THEN h ELSE t)
    BY DEF JobEnds
  <2> HIDE DEF s, t, h
  <2> QED
    BY <2>1
<1>4. /\ Become(s) => Upset(U, V, s)
      /\ Become(t) => Upset(U, V, t)
      /\ Become(h) => U \subseteq V
  BY BecomeUpsets DEF Upset
<1>5. ASSUME NEW x, Become(x), Inv(x, V), Allowed(n, x)
      PROVE  VpnInv' /\ Allowed(Now, Now')
  BY <1>2, <1>5, BecomeKeeps DEF n, V
<1>6. Upset(U, D, t)
  BY DEF Upset
<1> HIDE DEF n, U, V, D, t, h
<1>7. Inv(s, U) /\ s.active = NoJob /\ s.parked = parked
  <2>1. s = _releaseVpnForJob([n EXCEPT !.active = NoJob, !.paused = "no"], n.active)
    BY <1>1
  <2> HIDE DEF s
  <2> QED
    BY <1>1, <2>1, ReleasedKeeps
<1> HIDE DEF s
<1>8. ASSUME NEW Z, Upset(U, Z, t)
      PROVE  /\ Inv(t, Z) /\ t.active = NoJob /\ t.parked = parked
             /\ t.admission = "Proceed" => s.state = "Connected" /\ Only(s, t, {"admission"})
  <2>1. Upset(U, Z, admitJob(s, outcome))
    BY <1>8 DEF t
  <2> QED
    BY <1>7, <2>1, AdmitKeeps DEF t
<1>9. CASE Become(s)
  <2>1. Inv(s, V)
    BY <1>4, <1>7, <1>9, InvUpset DEF Upset
  <2>2. Allowed(n, s)
    BY <1>1, <1>7 DEF Allowed, PauseKept
  <2> QED
    BY <1>5, <1>9, <2>1, <2>2
<1>10. CASE Become(t)
  <2>1. Inv(t, V) /\ t.active = NoJob
    BY <1>4, <1>8, <1>10
  <2>2. Allowed(n, t)
    BY <1>1, <2>1 DEF Allowed, PauseKept
  <2> QED
    BY <1>5, <1>10, <2>1, <2>2
<1>11. CASE Become(h) /\ parked # <<>> /\ t.admission = "Proceed"
  <2>1. /\ t.active = NoJob /\ t.parked = parked
        /\ s.state = "Connected" /\ Only(s, t, {"admission"})
    BY <1>6, <1>8, <1>11
  <2>2. t.state = "Connected" /\ t.needing = s.needing /\ t.retained = s.retained
    BY <2>1 DEF Only, Fields
  <2>3. Upset(U, U, t)
    <3>1. Upset(U, U, s)
      BY <1>7, InvCounts
    <3> QED
      BY <2>2, <3>1 DEF Upset
  <2>4. Inv(t, U) /\ U \subseteq V /\ t.parked # <<>>
    BY <1>4, <1>8, <1>11, <2>1, <2>3
  <2>5. Inv(h, V) /\ h.state = "Connected" /\ h.active = Head(parked)
    BY <2>1, <2>2, <2>4, StartHeadKeeps DEF h
  <2>6. Head(parked) # activeJob
    <3>1. parked \in Seq(Jobs) /\ activeJob \notin Elems(parked)
      BY <1>1 DEF Inv, IsState, Queue
    <3> QED
      BY <1>11, <3>1, ElemsTail
  <2>7. Allowed(n, h)
    BY <1>1, <2>5, <2>6 DEF Allowed, PauseKept
  <2> QED
    BY <1>5, <1>11, <2>5, <2>7
<1> QED
  BY <1>3, <1>9, <1>10, <1>11

-----------------------------------------------------------------------------
(* The invariant, and what it says. *)

LEMMA InitHolds == Init => VpnInv
<1> SUFFICES ASSUME Init PROVE VpnInv
  OBVIOUS
<1> DEFINE s == Now
<1>1. s = [f \in Fields |-> s[f]]
  BY DEF Now, Fields
<1>2. /\ s.state = "Disabled" /\ s.health = "Healthy" /\ ~s.rec /\ s.rec = FALSE
      /\ s.reason = "none" /\ s.attempts = 0 /\ s.id = 0 /\ s.needing = 0 /\ s.auto = FALSE
      /\ s.timers = {} /\ s.tunIp = 0 /\ s.be = NoBackend /\ s.cmds = <<>> /\ s.out = <<>>
      /\ s.helper = NoHelper /\ s.active = NoJob /\ s.parked = <<>> /\ s.paused = "no"
      /\ s.retained = {} /\ s.exhausted = FALSE /\ s.stopped = FALSE /\ s.inStart = FALSE
      /\ s.ok = TRUE
  BY DEF Now, Init
<1>3. over = {} /\ upsets = {}
  BY DEF Init
<1>4. /\ NoBackend \in Backends /\ NoHelper \in Helpers /\ <<>> \in Seq(Nat)
      /\ <<>> \in Seq(Messages) /\ <<>> \in Seq(Jobs)
  BY DEF NoBackend, NoHelper, Backends, Helpers
<1> HIDE DEF s
<1>5. IsState(s)
  <2>1. RecoveryMaxAttempts \in Nat
    BY VpnAssumption
  <2>2. WithinBudget(0)
    BY <2>1 DEF WithinBudget
  <2>3. WithinBudget(s.attempts)
    BY ONLY <1>2, <2>2
  <2>4. /\ s.state \in States /\ s.health \in Healths /\ s.reason \in FailureKinds
        /\ s.paused \in {"no", "user", "vpn"} /\ s.timers \subseteq Timers
        /\ s.active \in Jobs \cup {NoJob} /\ s.retained \subseteq Jobs
    BY <1>2 DEF States, Healths, FailureKinds
  <2>5. /\ s.rec \in BOOLEAN /\ s.auto \in BOOLEAN /\ s.exhausted \in BOOLEAN
        /\ s.stopped \in BOOLEAN /\ s.inStart \in BOOLEAN /\ s.ok \in BOOLEAN
    BY <1>2
  <2>6. s.attempts \in Nat /\ s.id \in Nat /\ s.needing \in Nat /\ s.tunIp \in Nat
    BY <1>2
  <2>7. /\ s.be \in Backends /\ s.helper \in Helpers /\ s.cmds \in Seq(Nat)
        /\ s.out \in Seq(Messages) /\ s.parked \in Seq(Jobs)
    BY <1>2, <1>4
  <2> QED
    BY <1>1, <2>3, <2>4, <2>5, <2>6, <2>7 DEF IsState
<1>6. Dead(s)
  BY <1>2 DEF Dead, NoHelper
<1>7. Machine(s)
  BY <1>2, <1>6 DEF Machine, NoBackend
<1>8. Printed(s)
  <2>1. Elems(s.out) = {}
    BY <1>2, ElemsFew
  <2>2. ~s.be.wasReady /\ ~s.helper.alive
    BY <1>2 DEF NoBackend, NoHelper
  <2> QED
    BY <2>1, <2>2 DEF Printed
<1>9. Held(s)
  BY <1>2 DEF Held
<1>10. Queue(s)
  <2>1. IsInjectiveSeq(s.parked)
    BY <1>2 DEF IsInjectiveSeq
  <2> QED
    BY <1>2, <2>1, ElemsFew DEF Queue
<1>11. Late(s, {}) /\ Still(s, {}) /\ Runs(s, {})
  BY <1>2 DEF Late, Still, Runs, NoBackend
<1> QED
  BY <1>2, <1>3, <1>5, <1>7, <1>8, <1>9, <1>10, <1>11 DEF Inv, VpnInv, s

\* Neither property of a step is against this one.
LicitStep ==
    /\ state # "Stopping" /\ state' = "Stopping" => activeJob' = NoJob \/ disconnectByUser
    /\ \A j \in Jobs : activeJob = j /\ paused = "user" /\ activeJob' = j /\ paused' # "user"
          => \E o \in Outcomes : ResumeJob(o)

LEMMA AllowedIsLicit ==
    ASSUME Allowed(Now, Now') \/ (disconnectByUser /\ PauseKept(Now, Now'))
    PROVE  LicitStep
<1>1. /\ Now.state = state /\ Now.active = activeJob /\ Now.paused = paused
      /\ (Now').state = state' /\ (Now').active = activeJob' /\ (Now').paused = paused'
  BY NowIs, NowShape
<1>2. NoJob \notin Jobs
  BY VpnAssumption
<1>3. state # "Stopping" /\ state' = "Stopping" => activeJob' = NoJob \/ disconnectByUser
  BY <1>1 DEF Allowed
<1>4. PauseKept(Now, Now')
  BY DEF Allowed
<1> QED
  BY <1>1, <1>2, <1>3, <1>4 DEF PauseKept, LicitStep

LEMMA NextKeeps ==
    ASSUME VpnInv, Next
    PROVE  VpnInv' /\ LicitStep
<1>1. CASE \E j \in Jobs, o \in Outcomes : SubmitJob(j, o)
  BY <1>1, SubmitKeeps, AllowedIsLicit
<1>2. CASE \E o \in Outcomes : ResumeJob(o)
  <2>1. VpnInv' /\ (state # "Stopping" => state' # "Stopping")
    BY <1>2, ResumeKeeps
  <2> QED
    BY <1>2, <2>1 DEF LicitStep
<1>3. CASE \E o \in Outcomes : StartByUser(o)
  BY <1>3, StartByUserKeeps, AllowedIsLicit
<1>4. CASE \E o \in Outcomes : JobEnds(o)
  BY <1>4, JobEndsKeeps, AllowedIsLicit
<1>5. CASE disconnectByUser
  BY <1>5, DisconnectKeeps, AllowedIsLicit
<1>6. CASE \E retry \in BOOLEAN : AnswerExhausted(retry)
  BY <1>6, AnswerKeeps, AllowedIsLicit
<1>7. CASE \E o \in Outcomes : RecoveryTimeout(o)
  BY <1>7, RecoveryTimeoutKeeps, AllowedIsLicit
<1>8. CASE HealthyResetTimeout
  BY <1>8, HealthyResetKeeps, AllowedIsLicit
<1>9. CASE onAutoDisconnectTimeout
  BY <1>9, AutoDisconnectKeeps, AllowedIsLicit
<1>10. CASE \E b \in BOOLEAN : PollTunIp(b)
  BY <1>10, PollTunIpKeeps, AllowedIsLicit
<1>11. CASE HelperStarts
  BY <1>11, HelperStartsKeeps, AllowedIsLicit
<1>12. CASE HelperSuspects
  BY <1>12, HelperSuspectsKeeps, AllowedIsLicit
<1>13. CASE HelperGoesDown
  BY <1>13, HelperGoesDownKeeps, AllowedIsLicit
<1>14. CASE HelperCrashes
  BY <1>14, HelperCrashesKeeps, AllowedIsLicit
<1>15. CASE \E why \in {"busy", "lost", "other"} : HelperStartFails(why)
  BY <1>15, HelperStartFailsKeeps, AllowedIsLicit
<1>16. CASE \E b \in BOOLEAN : HelperHeals(b)
  BY <1>16, HelperHealsKeeps, AllowedIsLicit
<1>17. CASE \E b \in BOOLEAN : HelperReads(b)
  BY <1>17, HelperReadsKeeps, AllowedIsLicit
<1>18. CASE \E b \in BOOLEAN : Receive(b)
  BY <1>18, ReceiveKeeps, AllowedIsLicit
<1> QED
  BY <1>1, <1>2, <1>3, <1>4, <1>5, <1>6, <1>7, <1>8, <1>9, <1>10, <1>11, <1>12, <1>13, <1>14,
     <1>15, <1>16, <1>17, <1>18 DEF Next, User, Timeouts, Helper

LEMMA StutterKeeps ==
    ASSUME VpnInv, UNCHANGED vars
    PROVE  VpnInv'
<1>1. Now' = Now
  BY DEF Now, vars, managerVars, helperVars, jobVars
<1>2. upsets' = upsets /\ over' = over
  BY DEF vars, jobVars
<1> QED
  BY <1>1, <1>2 DEF VpnInv

\* The invariant that the theorems below draw on: whatever the jobs, the
\* protocol, the limit of attempts and the incidents are, the manager, its
\* backend, the pipes and the active job fit together as Inv() says after every
\* handler, however the handlers, the timers and the helper interleave.
THEOREM VpnInvariant == Spec => []VpnInv
<1>1. Init => VpnInv
  BY InitHolds
<1>2. VpnInv /\ [Next]_vars => VpnInv'
  BY NextKeeps, StutterKeeps
<1> QED
  BY <1>1, <1>2, PTL DEF Spec

\* Every variable of the manager, of the backend, of the pipes and of the jobs
\* keeps its type; the attempts stay within VPN_RECOVERY_MAX_ATTEMPTS and one
\* job at most is counted as needing the tunnel (retainForJob(),
\* releaseForJob()).
THEOREM TypeCorrect == Spec => []TypeOK
<1>1. VpnInv => TypeOK
  <2> SUFFICES ASSUME VpnInv PROVE TypeOK
    OBVIOUS
  <2> DEFINE s == Now
  <2>1. /\ s.state = state /\ s.health = health /\ s.rec = recoveryActive
        /\ s.reason = recoveryReason /\ s.attempts = recoveryAttempts
        /\ s.id = currentAttemptId /\ s.needing = activeJobsNeedingVpn
        /\ s.auto = autoStartedByJob /\ s.timers = timers /\ s.tunIp = tunIp
        /\ s.be = backend /\ s.cmds = cmds /\ s.helper = helper
        /\ s.active = activeJob /\ s.parked = parked /\ s.paused = paused
        /\ s.retained = retained /\ s.exhausted = exhausted /\ s.stopped = stoppedByUser
    BY DEF Now
  <2>2. IsState(s) /\ Held(s) /\ over \subseteq Jobs
    BY DEF VpnInv, Inv
  <2> HIDE DEF s
  <2>3. /\ state \in States /\ health \in Healths
        /\ recoveryActive \in BOOLEAN /\ recoveryReason \in FailureKinds
        /\ {recoveryAttempts, currentAttemptId, activeJobsNeedingVpn, tunIp} \subseteq Nat
    BY <2>1, <2>2 DEF IsState
  <2>4. RecoveryMaxAttempts > 0 => recoveryAttempts <= RecoveryMaxAttempts
    BY <2>1, <2>2 DEF IsState, WithinBudget
  <2>5. /\ activeJobsNeedingVpn <= 1 /\ autoStartedByJob \in BOOLEAN
        /\ timers \subseteq {"recovery", "healthyReset", "autoDisconnect", "tunPoll"}
    BY <2>1, <2>2 DEF IsState, Held, Timers
  <2>6. DOMAIN backend = DOMAIN NoBackend /\ DOMAIN helper = DOMAIN NoHelper
    <3>1. backend \in Backends /\ helper \in Helpers
      BY <2>1, <2>2 DEF IsState
    <3> QED
      BY <3>1 DEF Backends, Helpers, NoBackend, NoHelper
  <2>7. /\ cmds \in Seq(Nat) /\ activeJob \in Jobs \cup {NoJob} /\ parked \in Seq(Jobs)
        /\ paused \in {"no", "user", "vpn"} /\ retained \subseteq Jobs
        /\ {exhausted, stoppedByUser} \subseteq BOOLEAN
    BY <2>1, <2>2 DEF IsState
  <2> QED
    BY <2>2, <2>3, <2>4, <2>5, <2>6, <2>7 DEF TypeOK
<1> QED
  BY <1>1, VpnInvariant, PTL

\* After disconnectByUser() the tunnel is going, gone or failed until the user, a
\* retry or an admission asks for it again: no timer that still runs and no line
\* the helper printed before brings it back.
THEOREM UserStopHolds == Spec => []UserStopWins
<1>1. VpnInv => UserStopWins
  <2> SUFFICES ASSUME VpnInv, stoppedByUser, upsets \cap {"crash", "late"} = {}
               PROVE  state \in {"Stopping", "Disabled", "Failed", "LeaseBusy"}
    BY DEF UserStopWins
  <2>1. /\ IsState(Now) /\ Machine(Now) /\ Still(Now, upsets)
        /\ Now.state = state /\ Now.rec = recoveryActive /\ Now.stopped = stoppedByUser
    BY NowIs DEF VpnInv, Inv
  <2>2. state \in States
    BY <2>1 DEF IsState
  <2>3. ~recoveryActive /\ state \notin {"Starting", "Connected"}
    BY <2>1 DEF Still
  <2>4. state # "Reconnecting"
    BY <2>1, <2>3 DEF Machine
  <2> QED
    BY <2>2, <2>3, <2>4 DEF States
<1> QED
  BY <1>1, VpnInvariant, PTL

\* pause(VpnRecovery) reaches the active job before the manager leaves
\* Connected in any way, and it goes on only after _completeReady(): as long as
\* the manager counts it, a job that posts has a tunnel with an address.
THEOREM NoTunnelNoPosting == Spec => []JobPausedWithoutTunnel
<1>1. VpnInv => JobPausedWithoutTunnel
  <2> SUFFICES ASSUME VpnInv, activeJob # NoJob, paused = "no", upsets = {}
               PROVE  state = "Connected" /\ tunIp # 0
    BY DEF JobPausedWithoutTunnel
  <2>1. /\ Machine(Now) /\ Runs(Now, {})
        /\ Now.state = state /\ Now.active = activeJob /\ Now.paused = paused
        /\ Now.tunIp = tunIp
    BY NowIs DEF VpnInv, Inv
  <2>2. state = "Connected"
    BY <2>1 DEF Runs
  <2> QED
    BY <2>1, <2>2 DEF Machine
<1> QED
  BY <1>1, VpnInvariant, PTL

\* stop() is called by the user, by the idle timer and by releaseForJob(): the
\* last two only where no job is active.
THEOREM StopsOnlyForUser == Spec => OnlyUserStopsUnderJob
<1>1. VpnInv /\ [Next]_vars
        => [state # "Stopping" /\ state' = "Stopping"
              => activeJob' = NoJob \/ disconnectByUser]_vars
  BY NextKeeps DEF LicitStep
<1> QED
  BY <1>1, VpnInvariant, PTL DEF Spec, OnlyUserStopsUnderJob

\* A tunnel that returns resumes the jobs it interrupted, not the one the user
\* put on pause; nothing but NgPost::_resumeActiveJob() does.
THEOREM PauseIsTheUsers == Spec => UserPauseIsKept
<1>1. VpnInv /\ [Next]_vars
        => [\A j \in Jobs : activeJob = j /\ paused = "user" /\ activeJob' = j /\ paused' # "user"
              => \E o \in Outcomes : ResumeJob(o)]_vars
  BY NextKeeps DEF LicitStep
<1> QED
  BY <1>1, VpnInvariant, PTL DEF Spec, UserPauseIsKept

-----------------------------------------------------------------------------
(* What the tunnel is and what was said of it.  The messages of q are those *)
(* still to be heard.                                                       *)

Answers(m, n) == m.type \in {"READY", "RESTART_FAILED"} /\ m.attempt = n
Better(m) == m.type \in {"READY", "Healthy"}
Up(s) == s.helper.alive /\ s.helper.running

\* The last address said, and to be heeded by a manager at attempt n, is ip.
AddressSaid(q, n, ip) ==
    \E i \in 1..Len(q) : /\ q[i].type = "READY" /\ q[i].attempt \in {0, n} /\ q[i].ip = ip
                         /\ \A k \in (i + 1)..Len(q) : q[k].type # "READY"

\* Nothing better is said after a "Down".
DownSaid(q) ==
    \E i \in 1..Len(q) : q[i].type = "Down" /\ \A k \in (i + 1)..Len(q) : ~Better(q[k])

\* The end of a helper is told.
EndTold(s, q) ==
    s.be.exists /\ ~s.helper.alive => \E m \in Elems(q) : m.type \in Terminal

\* Until the end of the input, the commands are the last restarts, in order.
InOrder(s) ==
    IF s.be.stopRequested THEN s.helper.alive => EOF \in Elems(s.cmds)
    ELSE /\ Len(s.cmds) <= s.id
         /\ \A i \in 1..Len(s.cmds) : s.cmds[i] = s.id - Len(s.cmds) + i

\* What a start and a restart wait for is on its way.
StartAnswered(s, q) ==
    s.state = "Starting" /\ Up(s)
        => "tunPoll" \in s.timers \/ \E m \in Elems(q) : m.type = "READY" /\ m.attempt = 0

RestartAnswered(s, q) ==
    s.state = "Reconnecting"
        => \/ s.timers \cap {"recovery", "tunPoll"} # {}
           \/ /\ s.be.exists
              /\ \/ ~s.helper.alive \/ s.id \in Elems(s.cmds)
                 \/ \E m \in Elems(q) : Answers(m, s.id)

\* The address known is the one of the tunnel, or that one is still to come.
AddressTold(s, q) ==
    Up(s) /\ ~s.helper.gone /\ ~s.be.stopRequested
        => \/ s.cmds # <<>> \/ AddressSaid(q, s.id, s.helper.ip)
           \/ s.tunIp \in {0, s.helper.ip} /\ \A m \in Elems(q) : m.type # "READY"

\* A tunnel that is down is not thought to be healthy, or that is still to come.
DownTold(s, q) ==
    Up(s) /\ ~s.be.stopRequested /\ s.helper.health = "down"
        => \/ DownSaid(q)
           \/ /\ ~(s.state = "Connected" /\ s.health = "Healthy")
              /\ \A m \in Elems(q) : ~Better(m)

Heard(s, q) ==
    /\ EndTold(s, q) /\ InOrder(s) /\ StartAnswered(s, q) /\ RestartAnswered(s, q)
    /\ AddressTold(s, q) /\ DownTold(s, q)

\* The first message of a queue is the one looked for, or it comes later.
LEMMA SaidTail ==
    ASSUME NEW q \in Seq(Messages), q # <<>>
    PROVE  /\ \A n, ip : AddressSaid(q, n, ip)
                => \/ AddressSaid(Tail(q), n, ip)
                   \/ /\ Head(q).type = "READY" /\ Head(q).attempt \in {0, n} /\ Head(q).ip = ip
                      /\ \A m \in Elems(Tail(q)) : m.type # "READY"
           /\ DownSaid(q)
                => \/ DownSaid(Tail(q))
                   \/ Head(q).type = "Down" /\ \A m \in Elems(Tail(q)) : ~Better(m)
<1> DEFINE t == Tail(q)
<1>1. /\ Len(t) = Len(q) - 1 /\ Len(q) \in Nat /\ Len(q) > 0 /\ Head(q) = q[1]
      /\ \A i \in 1..Len(t) : t[i] = q[i + 1]
  OBVIOUS
<1> HIDE DEF t
<1>2. ASSUME NEW i \in 1..Len(q), i # 1
      PROVE  /\ i - 1 \in 1..Len(t) /\ t[i - 1] = q[i]
             /\ \A k \in (i - 1 + 1)..Len(t) : k + 1 \in (i + 1)..Len(q) /\ t[k] = q[k + 1]
  BY <1>1, <1>2
<1>3. \A k \in 1..Len(t) : k + 1 \in 2..Len(q) /\ t[k] = q[k + 1]
  BY <1>1
<1>4. ASSUME NEW n, NEW ip, AddressSaid(q, n, ip)
      PROVE  \/ AddressSaid(t, n, ip)
             \/ /\ q[1].type = "READY" /\ q[1].attempt \in {0, n} /\ q[1].ip = ip
                /\ \A m \in Elems(t) : m.type # "READY"
  <2>1. PICK i \in 1..Len(q) : /\ q[i].type = "READY" /\ q[i].attempt \in {0, n} /\ q[i].ip = ip
                               /\ \A k \in (i + 1)..Len(q) : q[k].type # "READY"
    BY <1>4 DEF AddressSaid
  <2>2. CASE i = 1
    BY <1>3, <2>1, <2>2 DEF Elems
  <2>3. CASE i # 1
    <3>1. /\ i - 1 \in 1..Len(t) /\ t[i - 1] = q[i]
          /\ \A k \in (i - 1 + 1)..Len(t) : k + 1 \in (i + 1)..Len(q) /\ t[k] = q[k + 1]
      BY <1>2, <2>3
    <3>2. \A k \in (i - 1 + 1)..Len(t) : t[k].type # "READY"
      BY <2>1, <3>1
    <3> QED
      BY <2>1, <3>1, <3>2 DEF AddressSaid
  <2> QED
    BY <2>2, <2>3
<1>5. ASSUME DownSaid(q)
      PROVE  DownSaid(t) \/ (q[1].type = "Down" /\ \A m \in Elems(t) : ~Better(m))
  <2>1. PICK i \in 1..Len(q) : /\ q[i].type = "Down"
                               /\ \A k \in (i + 1)..Len(q) : ~Better(q[k])
    BY <1>5 DEF DownSaid
  <2>2. CASE i = 1
    BY <1>3, <2>1, <2>2 DEF Elems
  <2>3. CASE i # 1
    <3>1. /\ i - 1 \in 1..Len(t) /\ t[i - 1] = q[i]
          /\ \A k \in (i - 1 + 1)..Len(t) : k + 1 \in (i + 1)..Len(q) /\ t[k] = q[k + 1]
      BY <1>2, <2>3
    <3>2. \A k \in (i - 1 + 1)..Len(t) : ~Better(t[k])
      BY <2>1, <3>1
    <3> QED
      BY <2>1, <3>1, <3>2 DEF DownSaid
  <2> QED
    BY <2>2, <2>3
<1> QED
  BY <1>1, <1>4, <1>5 DEF t

\* What is said in addition is heard last.
LEMMA SaidAfter ==
    ASSUME NEW q \in Seq(Messages), NEW r \in Seq(Messages)
    PROVE  /\ \A n, ip : \/ AddressSaid(r, n, ip)
                         \/ AddressSaid(q, n, ip) /\ \A m \in Elems(r) : m.type # "READY"
                => AddressSaid(q \o r, n, ip)
           /\ DownSaid(r) \/ (DownSaid(q) /\ \A m \in Elems(r) : ~Better(m))
                => DownSaid(q \o r)
<1> DEFINE c == q \o r
<1>1. /\ Len(c) = Len(q) + Len(r) /\ Len(q) \in Nat /\ Len(r) \in Nat
      /\ \A i \in 1..Len(q) : c[i] = q[i]
      /\ \A i \in 1..Len(r) : c[Len(q) + i] = r[i]
  OBVIOUS
<1> HIDE DEF c
<1>2. ASSUME NEW i \in 1..Len(r)
      PROVE  /\ Len(q) + i \in 1..Len(c) /\ c[Len(q) + i] = r[i]
             /\ \A k \in (Len(q) + i + 1)..Len(c) :
                   k - Len(q) \in (i + 1)..Len(r) /\ c[k] = r[k - Len(q)]
  <2>1. ASSUME NEW k \in (Len(q) + i + 1)..Len(c)
        PROVE  k - Len(q) \in (i + 1)..Len(r) /\ c[k] = r[k - Len(q)]
    <3>1. k - Len(q) \in (i + 1)..Len(r) /\ k - Len(q) \in 1..Len(r) /\ Len(q) + (k - Len(q)) = k
      BY <1>1
    <3> QED
      BY <1>1, <3>1
  <2> QED
    BY <1>1, <2>1
<1>3. ASSUME NEW i \in 1..Len(q)
      PROVE  /\ i \in 1..Len(c) /\ c[i] = q[i]
             /\ \A k \in (i + 1)..Len(c) :
                   \/ k \in (i + 1)..Len(q) /\ c[k] = q[k]
                   \/ c[k] \in Elems(r)
  <2>1. ASSUME NEW k \in (i + 1)..Len(c), k > Len(q)
        PROVE  c[k] \in Elems(r)
    <3>1. k - Len(q) \in 1..Len(r) /\ Len(q) + (k - Len(q)) = k
      BY <1>1, <2>1
    <3> QED
      BY <1>1, <3>1 DEF Elems
  <2> QED
    BY <1>1, <2>1
<1>4. ASSUME NEW n, NEW ip, AddressSaid(r, n, ip)
      PROVE  AddressSaid(c, n, ip)
  <2>1. PICK i \in 1..Len(r) : /\ r[i].type = "READY" /\ r[i].attempt \in {0, n} /\ r[i].ip = ip
                               /\ \A k \in (i + 1)..Len(r) : r[k].type # "READY"
    BY <1>4 DEF AddressSaid
  <2>2. \A k \in (Len(q) + i + 1)..Len(c) : c[k].type # "READY"
    BY <1>2, <2>1
  <2> QED
    BY <1>2, <2>1, <2>2 DEF AddressSaid
<1>5. ASSUME NEW n, NEW ip, AddressSaid(q, n, ip), \A m \in Elems(r) : m.type # "READY"
      PROVE  AddressSaid(c, n, ip)
  <2>1. PICK i \in 1..Len(q) : /\ q[i].type = "READY" /\ q[i].attempt \in {0, n} /\ q[i].ip = ip
                               /\ \A k \in (i + 1)..Len(q) : q[k].type # "READY"
    BY <1>5 DEF AddressSaid
  <2>2. \A k \in (i + 1)..Len(c) : c[k].type # "READY"
    BY <1>3, <1>5, <2>1
  <2> QED
    BY <1>3, <2>1, <2>2 DEF AddressSaid
<1>6. ASSUME DownSaid(r)
      PROVE  DownSaid(c)
  <2>1. PICK i \in 1..Len(r) : /\ r[i].type = "Down"
                               /\ \A k \in (i + 1)..Len(r) : ~Better(r[k])
    BY <1>6 DEF DownSaid
  <2>2. \A k \in (Len(q) + i + 1)..Len(c) : ~Better(c[k])
    BY <1>2, <2>1
  <2> QED
    BY <1>2, <2>1, <2>2 DEF DownSaid
<1>7. ASSUME DownSaid(q), \A m \in Elems(r) : ~Better(m)
      PROVE  DownSaid(c)
  <2>1. PICK i \in 1..Len(q) : /\ q[i].type = "Down"
                               /\ \A k \in (i + 1)..Len(q) : ~Better(q[k])
    BY <1>7 DEF DownSaid
  <2>2. \A k \in (i + 1)..Len(c) : ~Better(c[k])
    BY <1>3, <1>7, <2>1
  <2> QED
    BY <1>3, <2>1, <2>2 DEF DownSaid
<1>8. \A n, ip : \/ AddressSaid(r, n, ip)
                 \/ AddressSaid(q, n, ip) /\ \A m \in Elems(r) : m.type # "READY"
         => AddressSaid(c, n, ip)
  BY <1>4, <1>5
<1>9. DownSaid(r) \/ (DownSaid(q) /\ \A m \in Elems(r) : ~Better(m)) => DownSaid(c)
  BY <1>6, <1>7
<1> QED
  BY <1>8, <1>9 DEF c

\* The commands of s and of t: the same, or the end or a restart in addition.
CommandsGo(s, t) ==
    \/ t.cmds = s.cmds /\ t.id = s.id /\ t.be.stopRequested = s.be.stopRequested
    \/ t.cmds = Append(s.cmds, EOF) /\ t.id = s.id /\ t.be.stopRequested
    \/ /\ t.cmds = Append(s.cmds, t.id) /\ t.id = s.id + 1 /\ s.be.exists
       /\ t.be.stopRequested = s.be.stopRequested

\* The tunnel is as it was, and the manager thinks no better of it than it was
\* told; what it waits for is still to come.
Goes(s, t, q) ==
    /\ t.be.exists = s.be.exists /\ CommandsGo(s, t)
    /\ t.helper.alive = s.helper.alive /\ t.helper.running = s.helper.running
    /\ t.helper.ip = s.helper.ip /\ t.helper.gone = s.helper.gone
    /\ t.helper.health = s.helper.health
    /\ t.tunIp \in {0, s.tunIp} \/ \E m \in Elems(q) : m.type = "READY"
    /\ t.state = "Connected" /\ t.health = "Healthy"
          => \/ s.state = "Connected" /\ s.health = "Healthy"
             \/ s.helper.health # "down" \/ \E m \in Elems(q) : Better(m)
    /\ t.state = "Starting"
          => s.state = "Starting" /\ ("tunPoll" \in s.timers => "tunPoll" \in t.timers)
    /\ t.state = "Reconnecting"
          => \/ t.timers \cap {"recovery", "tunPoll"} # {}
             \/ t.cmds = Append(s.cmds, t.id) /\ s.be.exists
             \/ /\ s.state = "Reconnecting" /\ t.id = s.id
                /\ s.timers \cap {"recovery", "tunPoll"} = {}

LEMMA CommandsInOrder ==
    ASSUME NEW s, NEW t, IsState(s), CommandsGo(s, t), t.helper.alive = s.helper.alive,
           InOrder(s)
    PROVE  InOrder(t) /\ Elems(s.cmds) \subseteq Elems(t.cmds)
<1>1. s.cmds \in Seq(Nat) /\ s.id \in Nat /\ Len(s.cmds) \in Nat
  BY DEF IsState
<1>2. ASSUME NEW x, t.cmds = Append(s.cmds, x)
      PROVE  /\ Len(t.cmds) = Len(s.cmds) + 1 /\ t.cmds[Len(s.cmds) + 1] = x
             /\ \A i \in 1..Len(s.cmds) : i \in 1..Len(t.cmds) /\ t.cmds[i] = s.cmds[i]
  BY <1>1, <1>2
<1>3. CASE t.cmds = s.cmds /\ t.id = s.id /\ t.be.stopRequested = s.be.stopRequested
  BY <1>3 DEF InOrder
<1>4. CASE t.cmds = Append(s.cmds, EOF) /\ t.id = s.id /\ t.be.stopRequested
  <2>1. Elems(s.cmds) \subseteq Elems(t.cmds) /\ EOF \in Elems(t.cmds)
    BY <1>1, <1>2, <1>4 DEF Elems
  <2> QED
    BY <1>4, <2>1 DEF InOrder
<1>5. CASE /\ t.cmds = Append(s.cmds, t.id) /\ t.id = s.id + 1 /\ s.be.exists
           /\ t.be.stopRequested = s.be.stopRequested
  <2>1. Elems(s.cmds) \subseteq Elems(t.cmds)
    BY <1>1, <1>2, <1>5 DEF Elems
  <2>2. CASE s.be.stopRequested
    BY <1>5, <2>1, <2>2 DEF InOrder
  <2>3. CASE ~s.be.stopRequested
    <3>1. /\ Len(s.cmds) <= s.id
          /\ \A i \in 1..Len(s.cmds) : s.cmds[i] = s.id - Len(s.cmds) + i
      BY <2>3 DEF InOrder
    <3>2. Len(t.cmds) <= t.id
      BY <1>1, <1>2, <1>5, <3>1
    <3>3. \A i \in 1..Len(t.cmds) : t.cmds[i] = t.id - Len(t.cmds) + i
      <4>1. TAKE i \in 1..Len(t.cmds)
      <4>2. CASE i = Len(s.cmds) + 1
        BY <1>1, <1>2, <1>5, <4>2
      <4>3. CASE i \in 1..Len(s.cmds)
        BY <1>1, <1>2, <1>5, <3>1, <4>3
      <4> QED
        BY <1>1, <1>2, <1>5, <4>2, <4>3
    <3> QED
      BY <1>5, <2>1, <2>3, <3>2, <3>3 DEF InOrder
  <2> QED
    BY <2>2, <2>3
<1> QED
  BY <1>3, <1>4, <1>5 DEF CommandsGo

LEMMA GoesHeard ==
    ASSUME NEW s, NEW t, IsState(s), IsState(t), NEW q \in Seq(Messages), Heard(s, q),
           Goes(s, t, q)
    PROVE  Heard(t, q)
<1>1. EndTold(t, q)
  BY DEF Heard, EndTold, Goes
<1>2. InOrder(t) /\ Elems(s.cmds) \subseteq Elems(t.cmds)
  BY CommandsInOrder DEF Heard, Goes
<1>3. StartAnswered(t, q)
  BY DEF Heard, StartAnswered, Goes, Up
<1>4. s.cmds \in Seq(Nat) /\ \A x : t.cmds = Append(s.cmds, x) => x \in Elems(t.cmds) /\ t.cmds # <<>>
  <2>1. s.cmds \in Seq(Nat)
    BY DEF IsState
  <2>2. ASSUME NEW x, t.cmds = Append(s.cmds, x)
        PROVE  x \in Elems(t.cmds) /\ t.cmds # <<>>
    <3>1. Len(t.cmds) = Len(s.cmds) + 1 /\ Len(s.cmds) \in Nat /\ t.cmds[Len(s.cmds) + 1] = x
      BY <2>1, <2>2
    <3> QED
      BY <3>1 DEF Elems
  <2> QED
    BY <2>1, <2>2
<1>5. RestartAnswered(t, q)
  <2>1. CASE t.state = "Reconnecting" /\ t.cmds = Append(s.cmds, t.id) /\ s.be.exists
    BY <1>4, <2>1 DEF RestartAnswered, Goes
  <2>2. CASE /\ t.state = "Reconnecting" /\ s.state = "Reconnecting" /\ t.id = s.id
             /\ s.timers \cap {"recovery", "tunPoll"} = {}
    BY <1>2, <2>2 DEF Heard, RestartAnswered, Goes
  <2> QED
    BY <2>1, <2>2 DEF RestartAnswered, Goes
<1>6. AddressTold(t, q)
  <2>1. CASE t.cmds = s.cmds /\ t.id = s.id /\ t.be.stopRequested = s.be.stopRequested
    BY <2>1 DEF Heard, AddressTold, Goes, Up
  <2>2. CASE t.cmds = Append(s.cmds, t.id)
    BY <1>4, <2>2 DEF AddressTold
  <2>3. CASE t.be.stopRequested
    BY <2>3 DEF AddressTold
  <2> QED
    BY <2>1, <2>2, <2>3 DEF Goes, CommandsGo
<1>7. DownTold(t, q)
  <2>1. CASE t.be.stopRequested
    BY <2>1 DEF DownTold
  <2>2. CASE ~t.be.stopRequested /\ t.be.stopRequested = s.be.stopRequested
    BY <2>2 DEF Heard, DownTold, Goes, Up
  <2> QED
    BY <2>1, <2>2 DEF Goes, CommandsGo
<1> QED
  BY <1>1, <1>2, <1>3, <1>5, <1>6, <1>7 DEF Heard

\* What a state says to those who wait: nothing is missing.
Told(s) == Heard(s, s.out)

LEMMA DeadTold ==
    ASSUME NEW t, IsState(t), Dead(t), t.state = "Reconnecting" => "recovery" \in t.timers
    PROVE  Told(t)
<1>1. /\ ~t.be.exists /\ ~t.be.stopRequested /\ ~t.helper.alive
      /\ t.cmds = <<>> /\ t.id \in Nat
  BY DEF Dead, NoBackend, NoHelper, IsState
<1>2. InOrder(t)
  BY <1>1 DEF InOrder
<1> QED
  BY <1>1, <1>2 DEF Told, Heard, EndTold, StartAnswered, RestartAnswered, AddressTold, DownTold, Up

LEMMA LaunchedTold ==
    ASSUME NEW s, NEW t, IsState(t), Launched(s, t)
    PROVE  Told(t)
<1>1. /\ t.state = "Starting" /\ t.be.exists /\ ~t.be.stopRequested
      /\ t.helper.alive /\ ~t.helper.running /\ t.cmds = <<>> /\ t.id \in Nat
  BY DEF Launched, NoBackend, NoHelper, IsState
<1>2. InOrder(t)
  BY <1>1 DEF InOrder
<1> QED
  BY <1>1, <1>2 DEF Told, Heard, EndTold, StartAnswered, RestartAnswered, AddressTold, DownTold, Up

\* What the jobs do, and the manager counts, is nothing to the tunnel.
Counts == {"health", "rec", "reason", "attempts", "needing", "auto", "active", "parked", "paused",
           "retained", "exhausted", "stopped", "inStart", "failedInStart", "ok", "admission",
           "upset", "timers", "helper", "tunIp"}

LEMMA CountsTold ==
    ASSUME NEW s, NEW t, IsState(s), IsState(t), Told(s), Only(s, t, Counts),
           SameHelper(s, t), t.tunIp \in {0, s.tunIp}, t.health = "Healthy" => s.health = "Healthy",
           s.state = "Starting" /\ "tunPoll" \in s.timers => "tunPoll" \in t.timers,
           s.state = "Reconnecting" /\ s.timers \cap {"recovery", "tunPoll"} # {}
              => t.timers \cap {"recovery", "tunPoll"} # {}
    PROVE  Told(t)
<1>1. /\ t.be = s.be /\ t.cmds = s.cmds /\ t.id = s.id /\ t.out = s.out /\ t.state = s.state
  BY DEF Only, Fields, Counts
<1>2. Goes(s, t, s.out)
  BY <1>1, SameHelperRuns DEF Goes, CommandsGo
<1>3. s.out \in Seq(Messages)
  BY DEF IsState
<1> QED
  BY <1>1, <1>2, <1>3, GoesHeard DEF Told

LEMMA SameHelperSame ==
    ASSUME NEW s, NEW t, IsState(s), t.helper = s.helper
    PROVE  SameHelper(s, t)
<1>1. s.helper.active \in BOOLEAN /\ s.helper = [s.helper EXCEPT !.active = s.helper.active]
  BY DEF IsState, Helpers
<1> QED
  BY <1>1 DEF SameHelper

\* The end of the input is sent, or there is nobody to send it to.
LEMMA StopTold ==
    ASSUME NEW s, IsState(s), Machine(s), Told(s), s.state \notin {"Disabled", "Stopping"}
    PROVE  Told(stop(s))
<1> DEFINE t == stop(s)
<1>1. /\ IsState(t)
      /\ s.be.exists
           => /\ Only(s, t, {"rec", "timers", "state", "be", "cmds"}) /\ t.state = "Stopping"
              /\ t.be = [s.be EXCEPT !.stopRequested = TRUE] /\ t.cmds = Append(s.cmds, EOF)
      /\ ~s.be.exists
           => /\ t.state = "Disabled"
              /\ Only(s, t, {"rec", "timers", "tunIp", "health", "state", "retained", "auto",
                             "needing"})
  BY StopIs
<1> HIDE DEF t
<1>3. ASSUME s.be.exists
      PROVE  Told(t)
  <2>1. /\ t.be.exists /\ t.be.stopRequested /\ t.id = s.id /\ t.out = s.out
        /\ t.helper = s.helper /\ t.tunIp = s.tunIp /\ t.state = "Stopping"
        /\ s.out \in Seq(Messages)
    BY <1>1, <1>3 DEF IsState, Backends, Only, Fields
  <2>2. Goes(s, t, s.out)
    BY <1>1, <1>3, <2>1 DEF Goes, CommandsGo
  <2> QED
    BY <1>1, <2>1, <2>2, GoesHeard DEF Told
<1>4. ASSUME ~s.be.exists
      PROVE  Told(t)
  <2>1. /\ t.be = s.be /\ t.cmds = s.cmds /\ t.out = s.out /\ t.helper = s.helper
        /\ t.state = "Disabled"
    BY <1>1, <1>4 DEF Only, Fields
  <2>2. Dead(t)
    BY <1>4, <2>1 DEF Machine, Dead
  <2> QED
    BY <1>1, <2>1, <2>2, DeadTold
<1> QED
  BY <1>3, <1>4 DEF t

\* A start begins or has failed.
LEMMA StartBegins ==
    ASSUME NEW s, IsState(s), AtRest(s), Dead(s), ~s.inStart, NEW outcome \in Outcomes
    PROVE  LET t == start(s, outcome)
           IN /\ IsState(t) /\ t.rec = s.rec
              /\ \/ t.ok /\ Launched(s, t)
                 \/ ~t.ok /\ Dead(t) /\ t.state = "Failed"
<1> DEFINE t == start(s, outcome)
<1>1. CASE outcome = "ok"
  <2>1. /\ IsState(t) /\ Only(s, t, {"state", "be", "cmds", "out", "helper", "ok"})
        /\ t.ok /\ Launched(s, t)
    BY <1>1, StartIs DEF Launched
  <2> HIDE DEF t
  <2> QED
    BY <2>1 DEF t, Only, Fields
<1>2. CASE outcome \in {"noConfig", "sync"}
  <2>0. IsState(s) /\ AtRest(s) /\ Dead(s) /\ ~s.inStart /\ outcome \in {"noConfig", "sync"}
    BY <1>2
  <2>1. /\ IsState(t)
        /\ Only(s, t, {"state", "retained", "timers", "tunIp", "needing", "auto", "reason",
                       "failedInStart", "inStart", "ok",
                       "be", "cmds", "out", "helper"})
        /\ t.state = "Failed" /\ Dead(t) /\ ~t.ok
    BY ONLY <2>0, StartFailsIs
  <2> HIDE DEF t
  <2> QED
    BY <2>1 DEF t, Only, Fields
<1> QED
  BY <1>1, <1>2 DEF Outcomes

LEMMA StartTold ==
    ASSUME NEW s, IsState(s), AtRest(s), Dead(s), ~s.inStart, NEW outcome \in Outcomes
    PROVE  Told(start(s, outcome))
<1> DEFINE t == start(s, outcome)
<1>1. /\ IsState(t)
      /\ Launched(s, t) \/ (Dead(t) /\ t.state = "Failed")
  BY StartBegins
<1> HIDE DEF t
<1>2. Told(t)
  BY <1>1, LaunchedTold, DeadTold
<1> QED
  BY <1>2 DEF t

LEMMA AdmitTold ==
    ASSUME NEW s, IsState(s), ~s.inStart, Machine(s), Told(s), NEW outcome \in Outcomes
    PROVE  Told(admitJob(s, outcome))
<1> DEFINE t == admitJob(s, outcome)
           a == [s EXCEPT !.auto = TRUE, !.stopped = FALSE]
           u == start(a, outcome)
<1>1. CASE s.state # "Disabled"
  <2>1. PICK n \in {"Proceed", "Wait", "Blocked"} : t = [s EXCEPT !.admission = n]
    BY <1>1 DEF admitJob, _startForAdmittedJob
  <2>2. IsState(t) /\ Only(s, t, {"admission"})
    BY <2>1, ZenonT(90) DEF IsState, Only, Fields
  <2> HIDE DEF t
  <2>3. /\ Only(s, t, Counts) /\ t.helper = s.helper /\ t.tunIp = s.tunIp
        /\ t.timers = s.timers /\ t.health = s.health
    BY <2>2 DEF Only, Fields, Counts
  <2>4. Told(t)
    BY <2>2, <2>3, SameHelperSame, CountsTold
  <2> QED
    BY <2>4 DEF t
<1>2. CASE s.state = "Disabled"
  <2>1. \/ u.ok /\ t = [u EXCEPT !.admission = "Wait"]
        \/ ~u.ok /\ t = [u EXCEPT !.auto = FALSE, !.admission = "Blocked"]
    BY <1>2 DEF admitJob, _startForAdmittedJob
  <2>2. Dead(s)
    BY <1>2 DEF Machine
  <2>3. IsState(a) /\ Only(s, a, {"auto", "stopped"})
    BY DEF IsState, Only, Fields
  <2> HIDE DEF a, t
  <2>4. AtRest(a) /\ Dead(a) /\ ~a.inStart
    BY <1>2, <2>2, <2>3 DEF Only, Fields, AtRest, Dead
  <2>5. IsState(u) /\ (Launched(a, u) \/ (Dead(u) /\ u.state = "Failed"))
    BY <2>3, <2>4, StartBegins
  <2> HIDE DEF u
  <2>6. IsState(t) /\ Only(u, t, {"auto", "admission"})
    BY <2>1, <2>5, ZenonT(90) DEF IsState, Only, Fields
  <2>7. /\ t.be = u.be /\ t.helper = u.helper /\ t.cmds = u.cmds /\ t.out = u.out
        /\ t.state = u.state
    BY <2>6 DEF Only, Fields
  <2>8. Launched(a, t) \/ (Dead(t) /\ t.state = "Failed")
    BY <2>5, <2>7 DEF Launched, Dead
  <2>9. Told(t)
    BY <2>6, <2>8, LaunchedTold, DeadTold
  <2> QED
    BY <2>9 DEF t
<1> QED
  BY <1>1, <1>2

\* The restart that the recovery timer is for; s is the state without the timer.
LEMMA PerformRestartTold ==
    ASSUME NEW s, IsState(s), ~s.inStart, Machine(s), NEW r, IsState(r), Told(r),
           Only(r, s, {"timers"}), s.timers = r.timers \ {"recovery"}, NEW outcome \in Outcomes,
           IsState(_performExternalRestart(s, outcome))
    PROVE  Told(_performExternalRestart(s, outcome))
<1> DEFINE t == _performExternalRestart(s, outcome)
           a == [s EXCEPT !.attempts = @ + 1, !.id = @ + 1]
           x == _setState(a, "Reconnecting")
           u == start(x, outcome)
<1>0. /\ s.be = r.be /\ s.cmds = r.cmds /\ s.id = r.id /\ s.out = r.out /\ s.state = r.state
      /\ s.helper = r.helper /\ s.tunIp = r.tunIp /\ s.health = r.health /\ s.rec = r.rec
      /\ s.out \in Seq(Messages)
  BY DEF Only, Fields, IsState
<1>1. ASSUME ~s.rec
      PROVE  Told(t)
  <2>1. t = s
    BY <1>1 DEF _performExternalRestart
  <2>2. s.state # "Reconnecting"
    BY <1>1 DEF Machine
  <2> HIDE DEF t
  <2>3. Goes(r, s, s.out)
    BY <1>0, <2>2 DEF Goes, CommandsGo
  <2>4. Heard(s, s.out)
    BY <1>0, <2>3, GoesHeard DEF Told
  <2> QED
    BY <2>1, <2>4 DEF Told
<1>2. ASSUME s.rec, ~BudgetLeft(s)
      PROVE  Told(t)
  <2>1. t = _finishRecoveryExhausted(s)
    BY <1>2 DEF _performExternalRestart
  <2> HIDE DEF t
  <2>2. IsState(t) /\ t.state = "Failed" /\ Dead(t)
    BY <2>1, ExhaustedIs
  <2> QED
    BY <2>2, DeadTold
<1>3. ASSUME s.rec, BudgetLeft(s)
      PROVE  Told(t)
  <2>0. IsState(t)
    OBVIOUS
  <2>1. t = IF s.be.exists THEN [a EXCEPT !.cmds = Append(@, a.id)]
            ELSE IF u.ok \/ ~u.rec THEN u
            ELSE IF RecoveryMaxAttempts > 0 /\ u.attempts >= RecoveryMaxAttempts
                 THEN _finishRecoveryExhausted(u)
            ELSE _scheduleExternalRestart(u)
    BY <1>3 DEF _performExternalRestart
  <2>2. /\ Only(s, a, {"attempts", "id"}) /\ a.attempts = s.attempts + 1 /\ a.id = s.id + 1
        /\ a = [f \in Fields |-> a[f]]
    BY DEF IsState, Only, Fields
  <2> HIDE DEF t
  <2>3. ASSUME s.be.exists
        PROVE  Told(t)
    <3>1. /\ Only(a, t, {"cmds"}) /\ t.cmds = Append(a.cmds, a.id)
      BY <2>1, <2>2, <2>3, ZenonT(90) DEF Only, Fields
    <3> HIDE DEF a
    <3>2. /\ t.be = s.be /\ t.id = s.id + 1 /\ t.out = s.out /\ t.state = s.state
          /\ t.helper = s.helper /\ t.tunIp = s.tunIp /\ t.health = s.health
          /\ t.timers = s.timers /\ t.cmds = Append(s.cmds, t.id)
      BY <2>2, <3>1 DEF Only, Fields
    <3>3. Goes(r, t, s.out)
      BY <1>0, <2>3, <3>2 DEF Goes, CommandsGo
    <3>4. Heard(t, s.out)
      BY <1>0, <2>0, <3>3, GoesHeard DEF Told
    <3> QED
      BY <3>2, <3>4 DEF Told
  <2>4. ASSUME ~s.be.exists
        PROVE  Told(t)
    <3>1. IsState(a)
      <4> HIDE DEF a
      <4>1. s.attempts \in Nat /\ s.id \in Nat /\ RecoveryMaxAttempts \in Nat
        BY VpnAssumption DEF IsState
      <4>2. a.attempts \in Nat /\ a.id \in Nat /\ WithinBudget(a.attempts)
        BY <1>3, <2>2, <4>1 DEF BudgetLeft, WithinBudget
      <4> QED
        BY <2>2, <4>2 DEF IsState, Only, Fields
    <3> HIDE DEF a
    <3>2. IsState(x) /\ Only(a, x, {"state", "retained"}) /\ x.state = "Reconnecting"
      BY <3>1, SetStateIs DEF States
    <3> HIDE DEF x
    <3>a. /\ x.be = s.be /\ x.cmds = s.cmds /\ x.out = s.out /\ x.helper = s.helper
          /\ x.inStart = s.inStart
      BY <2>2, <3>2 DEF Only, Fields
    <3>b. Dead(s)
      BY <2>4 DEF Machine
    <3>3. AtRest(x) /\ Dead(x) /\ ~x.inStart
      BY <3>2, <3>a, <3>b DEF Dead, AtRest
    <3>4. /\ IsState(u)
          /\ \/ u.ok /\ Launched(x, u)
             \/ ~u.ok /\ Dead(u) /\ u.state = "Failed"
      BY <3>2, <3>3, StartBegins
    <3> HIDE DEF u
    <3>5. CASE t = u
      BY <3>4, <3>5, LaunchedTold, DeadTold
    <3>6. CASE t = _finishRecoveryExhausted(u)
      <4>1. IsState(t) /\ t.state = "Failed" /\ Dead(t)
        BY <3>4, <3>6, ExhaustedIs
      <4> QED
        BY <4>1, DeadTold
    <3>7. CASE ~u.ok /\ t = _scheduleExternalRestart(u)
      <4>1. IsState(t) /\ Only(u, t, {"state", "health", "timers"}) /\ "recovery" \in t.timers
        BY <3>4, <3>7, ScheduleIs
      <4>2. Dead(t)
        BY <3>4, <3>7, <4>1 DEF Dead, Only, Fields
      <4> QED
        BY <4>1, <4>2, DeadTold
    <3> QED
      BY <2>1, <2>4, <3>5, <3>6, <3>7
  <2>5. s.be.exists \in BOOLEAN
    BY DEF IsState, Backends
  <2> QED
    BY <2>3, <2>4, <2>5
<1>4. s.rec \in BOOLEAN
  BY DEF IsState
<1> QED
  BY <1>1, <1>2, <1>3, <1>4

-----------------------------------------------------------------------------
(* What is heard. *)

\* The first message of q is taken; t is the state once it is handled.
LEMMA HeardNext ==
    ASSUME NEW s, IsState(s), NEW t, IsState(t), NEW q \in Seq(Messages), q # <<>>,
           Heard(s, q), Goes(s, t, q), t.out = Tail(q), Head(q).type \notin Terminal,
           Head(q).type = "READY" /\ Head(q).attempt = 0 /\ t.state = "Starting"
              => "tunPoll" \in t.timers,
           Answers(Head(q), t.id) /\ t.state = "Reconnecting"
              => t.timers \cap {"recovery", "tunPoll"} # {},
           Head(q).type = "READY" /\ Head(q).attempt \in {0, t.id} /\ ~t.be.stopRequested
              => t.tunIp \in {0, Head(q).ip},
           Head(q).type = "Down" /\ ~t.be.stopRequested
              => ~(t.state = "Connected" /\ t.health = "Healthy")
    PROVE  Told(t)
<1> DEFINE m == Head(q)
           r == Tail(q)
<1>1. Heard(t, q)
  BY GoesHeard
<1>2. r \in Seq(Messages) /\ Elems(q) = Elems(r) \cup {m}
  BY ElemsTail
<1>3. /\ \A n, ip : AddressSaid(q, n, ip)
            => \/ AddressSaid(r, n, ip)
               \/ /\ m.type = "READY" /\ m.attempt \in {0, n} /\ m.ip = ip
                  /\ \A x \in Elems(r) : x.type # "READY"
      /\ DownSaid(q) => DownSaid(r) \/ (m.type = "Down" /\ \A x \in Elems(r) : ~Better(x))
  BY SaidTail
<1> HIDE DEF m, r
<1>4. EndTold(t, r)
  BY <1>1, <1>2 DEF m, Heard, EndTold
<1>5. InOrder(t)
  BY <1>1 DEF Heard
<1>6. StartAnswered(t, r)
  BY <1>1, <1>2 DEF m, Heard, StartAnswered
<1>7. RestartAnswered(t, r)
  BY <1>1, <1>2 DEF m, Heard, RestartAnswered
<1>8. AddressTold(t, r)
  BY <1>1, <1>2, <1>3 DEF m, Heard, AddressTold
<1>9. DownTold(t, r)
  BY <1>1, <1>2, <1>3 DEF m, Heard, DownTold
<1> QED
  BY <1>4, <1>5, <1>6, <1>7, <1>8, <1>9 DEF Told, Heard, r

\* What is said to a manager that stops, or of another restart, changes nothing.
LEMMA IgnoredTold ==
    ASSUME NEW s, IsState(s), Machine(s), NEW q \in Seq(Messages), q # <<>>,
           Heard(s, q), s.out = Tail(q), Head(q).type \notin Terminal,
           \/ s.state = "Stopping"
           \/ /\ Head(q).type = "READY" => Head(q).attempt \notin {0, s.id}
              /\ Answers(Head(q), s.id) => s.state # "Reconnecting"
              /\ Head(q).type = "Down" => ~(s.state = "Connected" /\ s.health = "Healthy")
    PROVE  Told(s)
<1>1. s.state = "Stopping" => s.be.stopRequested
  BY DEF Machine
<1>2. Goes(s, s, q)
  BY DEF Goes, CommandsGo
<1>3. Answers(Head(q), s.id) /\ s.state = "Reconnecting" => s.timers \cap {"recovery", "tunPoll"} # {}
  BY DEF Answers
<1> QED
  BY <1>1, <1>2, <1>3, HeardNext

\* A recovery has what it waits for: the timer.
LEMMA ReconnectingTold ==
    ASSUME NEW s, IsState(s), NEW t, IsState(t), NEW q \in Seq(Messages), q # <<>>,
           Heard(s, q), s.out = Tail(q), Head(q).type \notin Terminal \cup {"READY"},
           Only(s, t, {"rec", "reason", "attempts", "state", "health", "timers", "tunIp", "paused"}),
           t.state = "Reconnecting", "recovery" \in t.timers, t.tunIp \in {0, s.tunIp}
    PROVE  Told(t)
<1>1. /\ t.be = s.be /\ t.cmds = s.cmds /\ t.id = s.id /\ t.out = s.out /\ t.helper = s.helper
  BY DEF Only, Fields
<1>2. Goes(s, t, q)
  BY <1>1 DEF Goes, CommandsGo
<1> QED
  BY <1>1, <1>2, HeardNext

\* The tunnel is ready; a is the state with the address and without the timer.
LEMMA CompletedGoes ==
    ASSUME NEW s, IsState(s), NEW a, IsState(a), Only(s, a, {"tunIp", "timers", "upset"}),
           s.retained \subseteq {s.active}, NEW q,
           a.tunIp = s.tunIp \/ \E m \in Elems(q) : m.type = "READY",
           s.helper.health # "down" \/ \E m \in Elems(q) : Better(m)
    PROVE  LET t == _completeReady(a)
           IN /\ IsState(t) /\ Goes(s, t, q) /\ t.state = "Connected" /\ t.tunIp = a.tunIp
              /\ t.out = s.out /\ t.be = s.be /\ t.id = s.id
<1> DEFINE t == _completeReady(a)
<1>1. /\ a.be = s.be /\ a.cmds = s.cmds /\ a.id = s.id /\ a.out = s.out /\ a.helper = s.helper
      /\ a.retained = s.retained /\ a.active = s.active
  BY DEF Only, Fields
<1>2. a.retained \subseteq {a.active}
  BY <1>1
<1>3. /\ IsState(t)
      /\ Only(a, t, {"state", "health", "rec", "reason", "timers", "helper", "active",
                     "parked", "paused", "retained", "needing"})
      /\ t.state = "Connected" /\ SameHelper(a, t)
  BY <1>2, CompleteReadyIs
<1> HIDE DEF t
<1>4. /\ t.be = s.be /\ t.cmds = s.cmds /\ t.id = s.id /\ t.out = s.out /\ t.tunIp = a.tunIp
  BY <1>1, <1>3 DEF Only, Fields
<1>5. /\ t.helper.alive = s.helper.alive /\ t.helper.running = s.helper.running
      /\ t.helper.ip = s.helper.ip /\ t.helper.gone = s.helper.gone
      /\ t.helper.health = s.helper.health
  BY <1>1, <1>3, SameHelperRuns
<1>6. Goes(s, t, q)
  BY <1>3, <1>4, <1>5 DEF Goes, CommandsGo
<1> QED
  BY <1>3, <1>4, <1>6 DEF t

LEMMA ReadyTold ==
    ASSUME NEW s, IsState(s), Machine(s), s.retained \subseteq {s.active},
           NEW q \in Seq(Messages), q # <<>>, Heard(s, q), s.out = Tail(q),
           Head(q).type = "READY", Head(q).attempt \in {0, s.id}, NEW bindable \in BOOLEAN
    PROVE  Told(onBackendReady(s, Head(q).ip, bindable))
<1> DEFINE m == Head(q)
           a == [s EXCEPT !.tunIp = m.ip]
           b == StartTimer(a, "tunPoll")
           c == StopTimers(a, {"tunPoll"})
           t == onBackendReady(s, m.ip, bindable)
<1>1. t = IF s.state = "Stopping" THEN s ELSE IF bindable THEN _completeReady(c) ELSE b
  BY DEF onBackendReady
<1>2. m \in Messages /\ m \in Elems(q) /\ m.ip \in Nat
  <2>1. Head(q) \in Messages /\ Elems(q) = Elems(Tail(q)) \cup {Head(q)}
    BY ElemsTail
  <2> QED
    BY <2>1 DEF Messages
<1>3. IsState(a) /\ Only(s, a, {"tunIp"}) /\ a.tunIp = m.ip
  BY <1>2 DEF IsState, Only, Fields
<1>4. IsState(b) /\ Only(a, b, {"timers"}) /\ b.timers = a.timers \cup {"tunPoll"}
  <2> HIDE DEF a
  <2> QED
    BY <1>3 DEF StartTimer, IsState, Only, Fields, Timers
<1>d. IsState(c) /\ Only(a, c, {"timers"})
  <2> HIDE DEF a
  <2> QED
    BY <1>3 DEF StopTimers, IsState, Only, Fields
<1> HIDE DEF a, b, c, t
<1>5. ASSUME s.state = "Stopping"
      PROVE  Told(t)
  BY <1>1, <1>5, IgnoredTold DEF Terminal, StartFailures
<1>6. ASSUME s.state # "Stopping", bindable
      PROVE  Told(t)
  <2>1. t = _completeReady(c)
    BY <1>1, <1>6
  <2>2. \E x \in Elems(q) : x.type = "READY" /\ Better(x)
    BY <1>2 DEF Better
  <2>3. Only(s, c, {"tunIp", "timers", "upset"}) /\ c.tunIp = a.tunIp
    BY <1>3, <1>d DEF Only, Fields
  <2>4. /\ IsState(t) /\ Goes(s, t, q) /\ t.state = "Connected" /\ t.tunIp = c.tunIp
        /\ t.out = s.out
    BY <1>d, <2>1, <2>2, <2>3, CompletedGoes
  <2> QED
    BY <1>3, <2>3, <2>4, HeardNext DEF Terminal, StartFailures
<1>7. ASSUME s.state # "Stopping", ~bindable
      PROVE  Told(t)
  <2>1. t = b
    BY <1>1, <1>7
  <2>2. /\ t.be = s.be /\ t.cmds = s.cmds /\ t.id = s.id /\ t.out = s.out /\ t.helper = s.helper
        /\ t.state = s.state /\ t.health = s.health /\ "tunPoll" \in t.timers /\ t.tunIp = m.ip
    BY <1>3, <1>4, <2>1 DEF Only, Fields
  <2>3. Goes(s, t, q)
    BY <1>2, <2>2 DEF Goes, CommandsGo
  <2> QED
    BY <1>4, <2>1, <2>2, <2>3, HeardNext DEF Terminal, StartFailures
<1> QED
  BY <1>5, <1>6, <1>7 DEF t

\* That READY was printed is noted first.
LEMMA ReadyReceivedTold ==
    ASSUME NEW s, IsState(s), Machine(s), s.retained \subseteq {s.active}, s.be.exists,
           NEW q \in Seq(Messages), q # <<>>, Heard(s, q), s.out = Tail(q),
           Head(q).type = "READY", NEW bindable \in BOOLEAN
    PROVE  Told(Handle(s, Head(q), bindable))
<1> DEFINE m == Head(q)
           r == [s EXCEPT !.be.wasReady = TRUE]
           t == Handle(s, m, bindable)
<1>1. /\ m.attempt = 0 => t = onBackendReady(r, m.ip, bindable)
      /\ m.attempt # 0 => t = onBackendRestartReady(r, m.attempt, m.ip, bindable)
  BY DEF Handle
<1>2. /\ r.be = [s.be EXCEPT !.wasReady = TRUE] /\ Only(s, r, {"be"})
      /\ r = [f \in Fields |-> r[f]]
  BY DEF IsState, Only, Fields
<1> HIDE DEF r, t
<1>3. /\ r.be \in Backends /\ r.be.wasReady /\ r.be.exists = s.be.exists
      /\ r.be.stopRequested = s.be.stopRequested
  BY <1>2 DEF IsState, Backends
<1>4. IsState(r)
  BY <1>2, <1>3 DEF IsState, Only, Fields
<1>5. /\ r.state = s.state /\ r.health = s.health /\ r.rec = s.rec /\ r.id = s.id
      /\ r.timers = s.timers /\ r.tunIp = s.tunIp /\ r.cmds = s.cmds /\ r.out = s.out
      /\ r.helper = s.helper /\ r.active = s.active /\ r.retained = s.retained
      /\ r.exhausted = s.exhausted
  BY <1>2 DEF Only, Fields
<1>6. Machine(r) /\ r.retained \subseteq {r.active}
  BY <1>3, <1>5 DEF Machine
<1>7. Goes(s, r, q)
  BY <1>3, <1>5 DEF Goes, CommandsGo
<1>8. Heard(r, q)
  BY <1>4, <1>7, GoesHeard
<1>9. CASE m.attempt \in {0, r.id}
  <2>1. t = onBackendReady(r, m.ip, bindable)
    BY <1>1, <1>9 DEF onBackendRestartReady
  <2>2. Told(onBackendReady(r, m.ip, bindable))
    BY <1>4, <1>5, <1>6, <1>8, <1>9, ReadyTold
  <2> QED
    BY <2>1, <2>2 DEF t
<1>10. CASE m.attempt \notin {0, r.id}
  <2>1. t = r
    BY <1>1, <1>10 DEF onBackendRestartReady
  <2>2. ~Answers(m, r.id)
    BY <1>10 DEF Answers
  <2>3. Told(r)
    BY <1>4, <1>5, <1>6, <1>8, <1>10, <2>2, IgnoredTold DEF Terminal, StartFailures
  <2> QED
    BY <2>1, <2>3 DEF t
<1> QED
  BY <1>9, <1>10

LEMMA RestartFailedTold ==
    ASSUME NEW s, IsState(s), Machine(s), NEW q \in Seq(Messages), q # <<>>, Heard(s, q),
           s.out = Tail(q), Head(q).type = "RESTART_FAILED"
    PROVE  Told(onBackendRestartFailed(s, Head(q).attempt))
<1> DEFINE m == Head(q)
           a == [s EXCEPT !.reason = "lost"]
           t == onBackendRestartFailed(s, m.attempt)
<1>0. m.type \notin Terminal \cup {"READY"}
  BY DEF Terminal, StartFailures
<1>1. CASE m.attempt # s.id \/ ~s.rec
  <2>1. t = s
    BY <1>1 DEF onBackendRestartFailed
  <2>2. Answers(m, s.id) => s.state # "Reconnecting"
    BY <1>1 DEF Answers, Machine
  <2>3. Told(s)
    BY <1>0, <2>2, IgnoredTold
  <2> QED
    BY <2>1, <2>3
<1>2. CASE ~(m.attempt # s.id \/ ~s.rec)
  <2>1. t = _scheduleExternalRestart(a)
    BY <1>2 DEF onBackendRestartFailed
  <2>2. IsState(a) /\ Only(s, a, {"reason"})
    BY DEF IsState, Only, Fields, FailureKinds
  <2> HIDE DEF a, t
  <2>3. /\ IsState(t) /\ Only(a, t, {"state", "health", "timers"}) /\ t.state = "Reconnecting"
        /\ "recovery" \in t.timers
    BY <2>1, <2>2, ScheduleIs
  <2>4. /\ Only(s, t, {"rec", "reason", "attempts", "state", "health", "timers", "tunIp", "paused"})
        /\ t.tunIp = s.tunIp
    BY <2>2, <2>3 DEF Only, Fields
  <2>5. Told(t)
    BY <1>0, <2>3, <2>4, ReconnectingTold
  <2> QED
    BY <2>5 DEF t
<1> QED
  BY <1>1, <1>2

LEMMA RecoveringInternallyTold ==
    ASSUME NEW s, IsState(s), NEW q \in Seq(Messages), q # <<>>, Heard(s, q),
           s.out = Tail(q), Head(q).type = "RecoveringInternally", s.state # "Stopping"
    PROVE  Told(onRecoveringInternally(s))
<1> DEFINE r == [s EXCEPT !.attempts = @ + 1, !.rec = TRUE, !.reason = "lost"]
           a == _setHealth(r, "RecoveringInternally")
           b == _setState(a, "Reconnecting")
           c == vpnInterrupted(b)
           d == StartTimer(c, "recovery")
           t == onRecoveringInternally(s)
<1>0. Head(q).type \notin Terminal \cup {"READY", "RESTART_FAILED", "Down"}
  BY DEF Terminal, StartFailures
<1>1. t = IF s.rec /\ s.health = "RecoveringInternally" THEN s
          ELSE IF ~BudgetLeft(s) THEN _finishRecoveryExhausted(s) ELSE d
  BY DEF onRecoveringInternally
<1> HIDE DEF t
<1>2. ASSUME t = s
      PROVE  Told(t)
  <2>1. Goes(s, s, q)
    BY DEF Goes, CommandsGo
  <2> QED
    BY <1>0, <1>2, <2>1, HeardNext DEF Answers
<1>3. ASSUME t = _finishRecoveryExhausted(s)
      PROVE  Told(t)
  <2>1. IsState(t) /\ t.state = "Failed" /\ Dead(t)
    BY <1>3, ExhaustedIs
  <2> QED
    BY <2>1, DeadTold
<1>4. ASSUME BudgetLeft(s), t = d
      PROVE  Told(t)
  <2>1. s.attempts + 1 \in Nat /\ WithinBudget(s.attempts + 1)
    BY <1>4, VpnAssumption DEF IsState, BudgetLeft, WithinBudget
  <2>2. IsState(r) /\ Only(s, r, {"attempts", "rec", "reason"}) /\ r.rec
    <3>1. /\ Only(s, r, {"attempts", "rec", "reason"}) /\ r = [f \in Fields |-> r[f]]
          /\ r.rec = TRUE /\ r.attempts = s.attempts + 1 /\ r.reason = "lost"
      BY DEF IsState, Only, Fields
    <3> HIDE DEF r
    <3> QED
      BY <2>1, <3>1, ZenonT(90) DEF IsState, Only, Fields, FailureKinds
  <2> HIDE DEF r
  <2>3. IsState(a) /\ Only(r, a, {"health", "timers"})
    BY <2>2, SetHealthIs DEF Healths
  <2> HIDE DEF a
  <2>4. /\ IsState(b) /\ Only(a, b, {"state", "retained"}) /\ b.state = "Reconnecting"
        /\ b.retained = a.retained
    BY <2>3, SetStateIs DEF States
  <2> HIDE DEF b
  <2>5. IsState(c) /\ Only(b, c, {"paused"})
    BY <2>4, InterruptedIs
  <2> HIDE DEF c
  <2>6. IsState(d) /\ Only(c, d, {"timers"}) /\ d.timers = c.timers \cup {"recovery"}
    BY <2>5 DEF StartTimer, IsState, Only, Fields, Timers
  <2> HIDE DEF d
  <2>7. Only(s, b, {"rec", "reason", "attempts", "state", "health", "timers"})
    BY <2>2, <2>3, <2>4 DEF Only, Fields
  <2>8. /\ Only(s, d, {"rec", "reason", "attempts", "state", "health", "timers", "tunIp", "paused"})
        /\ d.state = "Reconnecting" /\ d.tunIp = s.tunIp
    BY <2>4, <2>5, <2>6, <2>7 DEF Only, Fields
  <2>9. Told(d)
    BY <1>0, <2>6, <2>8, ReconnectingTold
  <2> QED
    BY <1>4, <2>9
<1>5. Told(t)
  BY <1>1, <1>2, <1>3, <1>4
<1> QED
  BY <1>5 DEF t

LEMMA HealthChangedTold ==
    ASSUME NEW s, IsState(s), Machine(s), s.retained \subseteq {s.active},
           NEW q \in Seq(Messages), q # <<>>, Heard(s, q), s.out = Tail(q),
           Head(q).type \in Reports
    PROVE  Told(onBackendHealthChanged(s, Head(q).type))
<1> DEFINE h == Head(q).type
           t == onBackendHealthChanged(s, h)
<1>0. h \notin Terminal \cup {"READY", "RESTART_FAILED"}
  BY DEF Terminal, StartFailures, Reports
<1>1. CASE s.state = "Stopping"
  <2>1. t = s
    BY <1>1 DEF onBackendHealthChanged
  <2>2. Told(s)
    BY <1>0, <1>1, IgnoredTold
  <2> QED
    BY <2>1, <2>2
<1>2. CASE s.state # "Stopping" /\ h = "Healthy"
  <2>1. t = IF s.tunIp = 0 THEN s ELSE _completeReady(s)
    BY <1>2 DEF onBackendHealthChanged
  <2> HIDE DEF t
  <2>2. ASSUME t = s
        PROVE  Told(t)
    BY <1>0, <1>2, <2>2, IgnoredTold DEF Answers
  <2>3. ASSUME t = _completeReady(s)
        PROVE  Told(t)
    <3>1. Head(q) \in Elems(q)
      <4>1. Elems(q) = Elems(Tail(q)) \cup {Head(q)}
        BY ElemsTail
      <4> QED
        BY <4>1
    <3>2. Only(s, s, {"tunIp", "timers", "upset"}) /\ \E m \in Elems(q) : Better(m)
      BY <1>2, <3>1 DEF Only, Better
    <3>3. /\ IsState(t) /\ Goes(s, t, q) /\ t.state = "Connected" /\ t.out = s.out
      BY <2>3, <3>2, CompletedGoes
    <3> QED
      BY <1>0, <1>2, <3>3, HeardNext
  <2>4. Told(t)
    BY <2>1, <2>2, <2>3
  <2> QED
    BY <2>4 DEF t
<1>3. CASE s.state # "Stopping" /\ h = "Suspect"
  <2>1. t = _setHealth(s, "Suspect")
    BY <1>3 DEF onBackendHealthChanged
  <2> HIDE DEF t
  <2>2. /\ IsState(t) /\ Only(s, t, {"health", "timers"}) /\ t.health = "Suspect"
        /\ s.timers \ t.timers \subseteq {"healthyReset", "autoDisconnect"}
    BY <2>1, SetHealthIs DEF Healths
  <2>3. /\ t.be = s.be /\ t.cmds = s.cmds /\ t.id = s.id /\ t.out = s.out /\ t.helper = s.helper
        /\ t.tunIp = s.tunIp /\ t.state = s.state
    BY <2>2 DEF Only, Fields
  <2>4. Goes(s, t, q)
    BY <2>2, <2>3 DEF Goes, CommandsGo
  <2>5. Told(t)
    BY <1>0, <1>3, <2>2, <2>3, <2>4, HeardNext DEF Answers
  <2> QED
    BY <2>5 DEF t
<1>4. CASE s.state # "Stopping" /\ h = "RecoveringInternally"
  <2>1. t = onRecoveringInternally(s)
    BY <1>4 DEF onBackendHealthChanged
  <2>2. Told(onRecoveringInternally(s))
    BY <1>4, RecoveringInternallyTold
  <2> QED
    BY <2>1, <2>2
<1>5. CASE s.state # "Stopping" /\ h = "Down"
  <2> DEFINE a == [s EXCEPT !.reason = "lost"]
  <2>1. t = IF s.rec /\ s.health = "RecoveringInternally" THEN _scheduleExternalRestart(a)
            ELSE requestRecovery(s, "lost")
    BY <1>5 DEF onBackendHealthChanged
  <2>2. IsState(a) /\ Only(s, a, {"reason"})
    BY DEF IsState, Only, Fields, FailureKinds
  <2> HIDE DEF a, t
  <2>3. ASSUME s.rec, s.health = "RecoveringInternally"
        PROVE  Told(t)
    <3>1. /\ IsState(t) /\ Only(a, t, {"state", "health", "timers"}) /\ t.state = "Reconnecting"
          /\ "recovery" \in t.timers
      BY <2>1, <2>2, <2>3, ScheduleIs
    <3>2. /\ Only(s, t, {"rec", "reason", "attempts", "state", "health", "timers", "tunIp", "paused"})
          /\ t.tunIp = s.tunIp
      BY <2>2, <3>1 DEF Only, Fields
    <3> QED
      BY <1>0, <3>1, <3>2, ReconnectingTold
  <2>4. ASSUME ~s.rec
        PROVE  Told(t)
    <3>1. t = requestRecovery(s, "lost")
      BY <2>1, <2>4
    <3>2. /\ IsState(t)
          /\ Only(s, t, {"rec", "reason", "state", "health", "timers", "tunIp", "paused"})
          /\ t.state = "Reconnecting" /\ t.tunIp = 0 /\ "recovery" \in t.timers
      BY <1>5, <2>4, <3>1, RecoveryIs
    <3>3. Only(s, t, {"rec", "reason", "attempts", "state", "health", "timers", "tunIp", "paused"})
      BY <3>2 DEF Only
    <3> QED
      BY <1>0, <3>2, <3>3, ReconnectingTold
  <2>5. ASSUME s.rec, s.health # "RecoveringInternally"
        PROVE  Told(t)
    <3>1. t = s
      BY <2>1, <2>5 DEF requestRecovery
    <3>2. s.state # "Connected"
      BY <2>5 DEF Machine
    <3>3. Told(s)
      BY <1>0, <3>2, IgnoredTold DEF Answers
    <3> QED
      BY <3>1, <3>3
  <2>6. Told(t)
    BY <2>3, <2>4, <2>5 DEF IsState
  <2> QED
    BY <2>6 DEF t
<1> QED
  BY <1>1, <1>2, <1>3, <1>4, <1>5 DEF Reports

LEMMA TerminatedTold ==
    ASSUME NEW s, IsState(s), ~s.inStart, NEW k \in Kinds,
           k.kind = "UnexpectedExit" => k.failure = "lost"
    PROVE  Told(onBackendTerminated(s, k))
<1> DEFINE t == onBackendTerminated(s, k)
<1>1. /\ IsState(t) /\ Dead(t)
      /\ EndsRequested(s, k, t) \/ EndsRecovering(s, k, t) \/ EndsFailing(s, k, t)
  BY TerminatedIs
<1> HIDE DEF t
<1>2. t.state = "Reconnecting" => "recovery" \in t.timers
  BY <1>1 DEF EndsRequested, EndsRecovering, EndsFailing
<1>3. Told(t)
  BY <1>1, <1>2, DeadTold
<1> QED
  BY <1>3 DEF t

LEMMA TerminationIs ==
    ASSUME NEW m, m.type \in Terminal, backend.wasReady \in BOOLEAN
    PROVE  /\ Termination(m) \in Kinds
           /\ Termination(m).kind = "UnexpectedExit" => Termination(m).failure = "lost"
<1>1. CASE m.type \in StartFailures
  <2>1. Termination(m) = [kind |-> "StartFailure", failure |-> m.type, wasReady |-> FALSE]
    BY <1>1 DEF Termination, StartFailure, StartFailures
  <2> QED
    BY <1>1, <2>1 DEF Kinds, FailureKinds, StartFailures
<1>2. CASE m.type \notin StartFailures
  <2>1. \/ Termination(m) = [kind |-> "RequestedStop", failure |-> "none",
                             wasReady |-> backend.wasReady]
        \/ Termination(m) = [kind |-> "UnexpectedExit", failure |-> "lost", wasReady |-> TRUE]
        \/ Termination(m) = [kind |-> "StartFailure", failure |-> "other", wasReady |-> FALSE]
    BY <1>2 DEF Termination, StartFailure, StartFailures, Terminal
  <2>2. CASE Termination(m) = [kind |-> "RequestedStop", failure |-> "none",
                               wasReady |-> backend.wasReady]
    BY <2>2 DEF Kinds, FailureKinds
  <2>3. CASE Termination(m) = [kind |-> "UnexpectedExit", failure |-> "lost", wasReady |-> TRUE]
    BY <2>3 DEF Kinds, FailureKinds
  <2>4. CASE Termination(m) = [kind |-> "StartFailure", failure |-> "other", wasReady |-> FALSE]
    BY <2>4 DEF Kinds, FailureKinds
  <2> QED
    BY <2>1, <2>2, <2>3, <2>4
<1> QED
  BY <1>1, <1>2

LEMMA HandleTold ==
    ASSUME NEW s, IsState(s), ~s.inStart, Machine(s), s.retained \subseteq {s.active},
           s.be.exists, s.be = backend, NEW q \in Seq(Messages), q # <<>>, Heard(s, q),
           s.out = Tail(q), NEW bindable \in BOOLEAN
    PROVE  Told(Handle(s, Head(q), bindable))
<1> DEFINE m == Head(q)
           t == Handle(s, m, bindable)
<1>0. m.type \in Terminal \cup {"READY", "RESTART_FAILED"} \cup Reports
  <2>1. Head(q) \in Messages
    BY ElemsTail
  <2> QED
    BY <2>1 DEF Messages
<1>1. CASE m.type = "READY"
  BY <1>1, ReadyReceivedTold
<1>2. CASE m.type = "RESTART_FAILED"
  <2>1. t = onBackendRestartFailed(s, m.attempt)
    BY <1>2 DEF Handle
  <2>2. Told(onBackendRestartFailed(s, m.attempt))
    BY <1>2, RestartFailedTold
  <2> QED
    BY <2>1, <2>2
<1>3. CASE m.type \in Reports
  <2>1. t = onBackendHealthChanged(s, m.type)
    BY <1>3 DEF Handle, Reports
  <2>2. Told(onBackendHealthChanged(s, m.type))
    BY <1>3, HealthChangedTold
  <2> QED
    BY <2>1, <2>2
<1>4. CASE m.type \in Terminal
  <2>1. t = onBackendTerminated(s, Termination(m))
    BY <1>4 DEF Handle, Terminal, StartFailures
  <2>2. backend.wasReady \in BOOLEAN
    BY DEF IsState, Backends
  <2>3. Told(onBackendTerminated(s, Termination(m)))
    BY <1>4, <2>2, TerminationIs, TerminatedTold
  <2> QED
    BY <2>1, <2>3
<1> QED
  BY <1>0, <1>1, <1>2, <1>3, <1>4

-----------------------------------------------------------------------------
(* The steps keep what is told. *)

VpnTold == Told(Now)

LEMMA BecomeTold ==
    ASSUME NEW t, Become(t), Told(t)
    PROVE  VpnTold'
<1> DEFINE n == Now'
<1>1. /\ n.state = t.state /\ n.health = t.health /\ n.id = t.id /\ n.timers = t.timers
      /\ n.tunIp = t.tunIp /\ n.be = t.be /\ n.cmds = t.cmds /\ n.out = t.out
      /\ n.helper = t.helper
  BY NowShape DEF Become
<1>2. VpnTold' <=> Told(n)
  BY DEF VpnTold
<1> HIDE DEF n
<1>3. Heard(n, t.out)
  BY <1>1 DEF Told, Heard, EndTold, InOrder, StartAnswered, RestartAnswered, AddressTold,
              DownTold, Up
<1> QED
  BY <1>1, <1>2, <1>3 DEF Told

\* An upset more than there is, for a state on the way.
LEMMA OnTheWay ==
    ASSUME NEW U
    PROVE  \A t : Upset(U, U \cup {"desync"}, t)
BY DEF Upset

LEMMA NowIsTold ==
    ASSUME VpnInv, VpnTold
    PROVE  /\ Inv(Now, upsets) /\ IsState(Now) /\ ~Now.inStart /\ Machine(Now) /\ Told(Now)
           /\ Now.retained \subseteq {Now.active} /\ Now.out = out
BY NowIs DEF VpnInv, VpnTold, Inv, Held

LEMMA RecoveryTimeoutTold ==
    ASSUME VpnInv, VpnTold, NEW outcome \in Outcomes, RecoveryTimeout(outcome)
    PROVE  VpnTold'
<1> DEFINE n == Now
           s == StopTimers(n, {"recovery"})
           t == _performExternalRestart(s, outcome)
           U == upsets
           D == U \cup {"desync"}
<1>1. Become(t)
  BY DEF RecoveryTimeout
<1>2. Inv(n, U) /\ IsState(n) /\ Told(n)
  BY NowIsTold
<1> HIDE DEF n
<1>3. /\ Inv(s, U) /\ Only(n, s, {"timers"}) /\ s.timers = n.timers \ {"recovery"}
  BY <1>2, TimersKeep
<1> HIDE DEF s, U
<1>4. Inv(t, D)
  BY <1>3, OnTheWay, PerformRestartKeeps
<1>5. IsState(t) /\ IsState(s) /\ ~s.inStart /\ Machine(s)
  BY <1>3, <1>4 DEF Inv
<1>6. Told(t)
  BY <1>2, <1>3, <1>5, PerformRestartTold
<1> HIDE DEF t
<1> QED
  BY <1>1, <1>6, BecomeTold

LEMMA HealthyResetTold ==
    ASSUME VpnInv, VpnTold, HealthyResetTimeout
    PROVE  VpnTold'
<1> DEFINE n == Now
           s == StopTimers(n, {"healthyReset"})
           t == [s EXCEPT !.attempts = IF state = "Connected" /\ health = "Healthy" /\ ~recoveryActive
                                       THEN 0 ELSE @]
<1>1. Become(t)
  BY DEF HealthyResetTimeout
<1>2. IsState(n) /\ Told(n) /\ Inv(n, upsets)
  BY NowIsTold
<1> HIDE DEF n
<1>3. Inv(s, upsets) /\ Only(n, s, {"timers"}) /\ s.timers = n.timers \ {"healthyReset"}
  BY <1>2, TimersKeep
<1>4. IsState(s)
  BY <1>3 DEF Inv
<1> HIDE DEF s
<1>5. IsState(t) /\ Only(s, t, {"attempts"})
  <2>1. RecoveryMaxAttempts \in Nat
    BY VpnAssumption
  <2>2. /\ Only(s, t, {"attempts"}) /\ t = [f \in Fields |-> t[f]]
        /\ t.attempts \in {0, s.attempts}
    BY <1>4 DEF IsState, Only, Fields
  <2> HIDE DEF t
  <2>3. t.attempts \in Nat /\ WithinBudget(t.attempts)
    BY <1>4, <2>1, <2>2 DEF IsState, WithinBudget
  <2> QED
    BY <1>4, <2>2, <2>3 DEF IsState, Only, Fields
<1> HIDE DEF t
<1>6. /\ Only(n, t, Counts) /\ t.helper = n.helper /\ t.tunIp = n.tunIp /\ t.health = n.health
      /\ t.timers = n.timers \ {"healthyReset"}
  BY <1>3, <1>5 DEF Only, Fields, Counts
<1>7. Told(t)
  <2>1. SameHelper(n, t)
    BY <1>2, <1>6, SameHelperSame
  <2> QED
    BY <1>2, <1>5, <1>6, <2>1, CountsTold
<1> QED
  BY <1>1, <1>7, BecomeTold

LEMMA AutoDisconnectTold ==
    ASSUME VpnInv, VpnTold, onAutoDisconnectTimeout
    PROVE  VpnTold'
<1> DEFINE n == Now
           s == StopTimers(n, {"autoDisconnect"})
           a == [s EXCEPT !.auto = FALSE]
           t == IF Idle THEN stop(a) ELSE s
<1>1. Become(t)
  BY DEF onAutoDisconnectTimeout
<1>2. IsState(n) /\ Told(n) /\ Inv(n, upsets) /\ n.state = state /\ Machine(n)
  BY NowIsTold, NowIs
<1> HIDE DEF n
<1>3. Inv(s, upsets) /\ Only(n, s, {"timers"}) /\ s.timers = n.timers \ {"autoDisconnect"}
  BY <1>2, TimersKeep
<1>4. IsState(s)
  BY <1>3 DEF Inv
<1> HIDE DEF s
<1>5. IsState(a) /\ Only(s, a, {"auto"})
  BY <1>4 DEF IsState, Only, Fields
<1> HIDE DEF a
<1>6. ASSUME NEW x \in {s, a}
      PROVE  /\ Told(x) /\ x.state = n.state /\ IsState(x)
             /\ x.be = n.be /\ x.cmds = n.cmds /\ x.out = n.out /\ x.helper = n.helper
             /\ x.tunIp = n.tunIp /\ x.rec = n.rec /\ x.exhausted = n.exhausted
             /\ x.timers \subseteq n.timers
  <2>1. /\ Only(n, x, Counts) /\ IsState(x) /\ x.helper = n.helper /\ x.tunIp = n.tunIp
        /\ x.health = n.health /\ x.timers = n.timers \ {"autoDisconnect"}
    BY <1>3, <1>4, <1>5, <1>6 DEF Only, Fields, Counts
  <2>2. SameHelper(n, x)
    BY <1>2, <2>1, SameHelperSame
  <2>3. Told(x)
    BY <1>2, <2>1, <2>2, CountsTold
  <2>4. /\ x.be = n.be /\ x.cmds = n.cmds /\ x.out = n.out /\ x.rec = n.rec
        /\ x.exhausted = n.exhausted /\ x.state = n.state
    BY <1>3, <1>5, <1>6 DEF Only, Fields
  <2> QED
    BY <2>1, <2>3, <2>4
<1>7. ASSUME Idle
      PROVE  Told(stop(a))
  <2>1. a.state = "Connected" /\ Told(a)
    BY <1>2, <1>6, <1>7 DEF Idle
  <2>2. Machine(a)
    BY <1>2, <1>6 DEF Machine, Dead
  <2> QED
    BY <1>5, <2>1, <2>2, StopTold
<1>8. Told(t)
  BY <1>6, <1>7
<1> HIDE DEF t
<1> QED
  BY <1>1, <1>8, BecomeTold

LEMMA PollTunIpTold ==
    ASSUME VpnInv, VpnTold, NEW bindable \in BOOLEAN, PollTunIp(bindable)
    PROVE  VpnTold'
<1> DEFINE X == IF state = "Stopping" THEN {"late"} ELSE {}
           n == Now
           a == StopTimers(n, {"tunPoll"})
           s == [a EXCEPT !.upset = X]
           k == [kind |-> "UnexpectedExit", failure |-> "lost", wasReady |-> TRUE]
           t == IF bindable THEN _completeReady(s) ELSE onBackendTerminated(s, k)
<1>1. Become(t) /\ (bindable => helper.health # "down")
  BY DEF PollTunIp
<1>2. /\ IsState(n) /\ Told(n) /\ Inv(n, upsets) /\ n.helper = helper
      /\ n.retained \subseteq {n.active}
  BY NowIsTold, NowIs
<1> HIDE DEF n, X
<1>3. Inv(a, upsets) /\ Only(n, a, {"timers"})
  BY <1>2, TimersKeep
<1> HIDE DEF a
<1>4. Inv(s, upsets \cup X) /\ Only(a, s, {"upset"})
  BY <1>3, UpsetKnown
<1> HIDE DEF s
<1>5. IsState(s) /\ ~s.inStart /\ Only(n, s, {"tunIp", "timers", "upset"}) /\ s.tunIp = n.tunIp
  BY <1>3, <1>4 DEF Inv, Only, Fields
<1>6. ASSUME bindable
      PROVE  Told(_completeReady(s))
  <2> DEFINE x == _completeReady(s)
  <2>0. n.helper.health # "down"
    BY <1>1, <1>2, <1>6
  <2>1. IsState(x) /\ Goes(n, x, n.out) /\ x.out = n.out
    BY <1>2, <1>5, <2>0, CompletedGoes
  <2> HIDE DEF x
  <2>2. n.out \in Seq(Messages)
    BY <1>2 DEF IsState
  <2>3. Heard(x, n.out)
    BY <1>2, <2>1, <2>2, GoesHeard DEF Told
  <2>4. Told(x)
    BY <2>1, <2>3 DEF Told
  <2> QED
    BY <2>4 DEF x
<1>7. Told(onBackendTerminated(s, k))
  <2>1. k \in Kinds /\ (k.kind = "UnexpectedExit" => k.failure = "lost")
    BY DEF Kinds, FailureKinds
  <2> HIDE DEF k
  <2> QED
    BY <1>5, <2>1, TerminatedTold
<1>8. Told(t)
  BY <1>6, <1>7
<1> HIDE DEF t
<1> QED
  BY <1>1, <1>8, BecomeTold

LEMMA ReceiveTold ==
    ASSUME VpnInv, VpnTold, NEW bindable \in BOOLEAN, Receive(bindable)
    PROVE  VpnTold'
<1> DEFINE X == IF Crashed THEN {"crash"} ELSE {}
           n == Now
           a == [n EXCEPT !.out = Tail(@)]
           s == [a EXCEPT !.upset = X]
           t == Handle(s, Head(out), bindable)
<1>0. s = [n EXCEPT !.out = Tail(@), !.upset = X]
  OBVIOUS
<1>1. Become(t) /\ out # <<>>
  BY <1>0 DEF Receive
<1>2. /\ IsState(n) /\ Told(n) /\ Inv(n, upsets) /\ n.out = out /\ n.be = backend
      /\ n.retained \subseteq {n.active} /\ out \in Seq(Messages) /\ Machine(n)
  <2>1. /\ IsState(n) /\ Told(n) /\ Inv(n, upsets) /\ n.out = out /\ n.be = backend
        /\ n.retained \subseteq {n.active} /\ Machine(n)
    BY NowIsTold, NowIs
  <2> QED
    BY <2>1 DEF IsState
<1> HIDE DEF n, X
<1>3. Inv(a, upsets) /\ Only(n, a, {"out"}) /\ a.out = Tail(out)
  <2>1. Inv(a, upsets) /\ Only(n, a, {"out"})
    BY <1>1, <1>2, TakenKeeps
  <2>2. a.out = Tail(out)
    BY <1>2 DEF IsState, Fields
  <2> QED
    BY <2>1, <2>2
<1> HIDE DEF a
<1>4. Inv(s, upsets \cup X) /\ Only(a, s, {"upset"})
  BY <1>3, UpsetKnown
<1> HIDE DEF s
<1>5. /\ IsState(s) /\ ~s.inStart /\ Machine(s) /\ s.retained \subseteq {s.active}
  BY <1>4 DEF Inv, Held
<1>6. /\ s.be = backend /\ s.out = Tail(out) /\ s.helper = n.helper /\ s.cmds = n.cmds
      /\ s.id = n.id /\ s.tunIp = n.tunIp /\ s.timers = n.timers /\ s.state = n.state
      /\ s.health = n.health
  BY <1>2, <1>3, <1>4 DEF Only, Fields
<1>7. Heard(s, out)
  <2>1. Goes(n, s, out)
    BY <1>2, <1>6 DEF Goes, CommandsGo
  <2>2. Heard(n, out)
    BY <1>2 DEF Told
  <2> QED
    BY <1>2, <1>5, <2>1, <2>2, GoesHeard
<1>8. s.be.exists
  BY <1>1, <1>2, <1>6 DEF Machine, Dead
<1>9. Told(t)
  BY <1>1, <1>2, <1>5, <1>6, <1>7, <1>8, HandleTold
<1> HIDE DEF t
<1> QED
  BY <1>1, <1>9, BecomeTold

LEMMA StartByUserTold ==
    ASSUME VpnInv, VpnTold, NEW outcome \in Outcomes, StartByUser(outcome)
    PROVE  VpnTold'
<1> DEFINE n == Now
           a == [n EXCEPT !.stopped = FALSE]
           t == start(a, outcome)
<1>1. Become(t)
  BY DEF StartByUser
<1>2. IsState(n) /\ ~n.inStart /\ Machine(n) /\ n.state \in {"Disabled", "Failed", "LeaseBusy"}
  BY NowIsTold, NowIs DEF StartByUser
<1> HIDE DEF n
<1>3. IsState(a) /\ Only(n, a, {"stopped"})
  BY <1>2 DEF IsState, Only, Fields
<1> HIDE DEF a
<1>4. AtRest(a) /\ Dead(a) /\ ~a.inStart
  <2>1. Dead(n)
    BY <1>2 DEF Machine
  <2> QED
    BY <1>2, <1>3, <2>1 DEF Only, Fields, AtRest, Dead
<1>5. Told(t)
  BY <1>3, <1>4, StartTold
<1> HIDE DEF t
<1> QED
  BY <1>1, <1>5, BecomeTold

LEMMA DisconnectTold ==
    ASSUME VpnInv, VpnTold, disconnectByUser
    PROVE  VpnTold'
<1> DEFINE n == Now
           p == IF activeJobsNeedingVpn > 0 /\ activeJob # NoJob
                THEN [n EXCEPT !.paused = "user"] ELSE n
           a == [p EXCEPT !.stopped = TRUE]
           t == stop(a)
<1>1. Become(t)
  BY DEF disconnectByUser
<1>2. /\ IsState(n) /\ Told(n) /\ Machine(n)
      /\ n.state \in {"Starting", "Connected", "Reconnecting"}
  BY NowIsTold, NowIs DEF disconnectByUser
<1> HIDE DEF n
<1>3. IsState(a) /\ Only(n, a, {"paused", "stopped"})
  <2>1. IsState(p) /\ Only(n, p, {"paused"})
    BY <1>2, ZenonT(90) DEF IsState, Only, Fields
  <2> HIDE DEF p
  <2>2. IsState(a) /\ Only(p, a, {"stopped"})
    BY <2>1 DEF IsState, Only, Fields
  <2> HIDE DEF a
  <2> QED
    BY <2>1, <2>2 DEF Only, Fields
<1> HIDE DEF a
<1>4. /\ Only(n, a, Counts) /\ a.helper = n.helper /\ a.tunIp = n.tunIp /\ a.health = n.health
      /\ a.timers = n.timers /\ a.state = n.state /\ a.be = n.be /\ a.cmds = n.cmds
      /\ a.out = n.out /\ a.rec = n.rec /\ a.exhausted = n.exhausted
  BY <1>3 DEF Only, Fields, Counts
<1>5. Told(a)
  <2>1. SameHelper(n, a)
    BY <1>2, <1>4, SameHelperSame
  <2> QED
    BY <1>2, <1>3, <1>4, <2>1, CountsTold
<1>6. Machine(a)
  BY <1>2, <1>4 DEF Machine, Dead
<1>7. Told(t)
  BY <1>2, <1>3, <1>4, <1>5, <1>6, StopTold
<1> HIDE DEF t
<1> QED
  BY <1>1, <1>7, BecomeTold

LEMMA AnswerTold ==
    ASSUME VpnInv, VpnTold, NEW retry \in BOOLEAN, AnswerExhausted(retry)
    PROVE  VpnTold'
<1> DEFINE n == Now
           q == [n EXCEPT !.stopped = FALSE]
           r == [q EXCEPT !.attempts = 0, !.rec = FALSE]
           a == IF retry THEN retryVpn(q) ELSE n
           t == [a EXCEPT !.exhausted = FALSE]
<1>1. Become(t)
  BY DEF AnswerExhausted
<1>2. IsState(n) /\ Machine(n) /\ n.exhausted
  BY NowIsTold, NowIs DEF AnswerExhausted
<1> HIDE DEF n
<1>3. n.state = "Failed" /\ Dead(n)
  BY <1>2 DEF Machine
<1>q. IsState(q) /\ Only(n, q, {"stopped"})
  BY <1>2 DEF IsState, Only, Fields
<1>a. a = n \/ a = retryVpn(q)
  OBVIOUS
<1> HIDE DEF q, a
<1>4. IsState(r) /\ Only(q, r, {"attempts", "rec"}) /\ ~r.rec
  <2>1. /\ Only(q, r, {"attempts", "rec"}) /\ r = [f \in Fields |-> r[f]]
        /\ r.attempts = 0 /\ r.rec = FALSE
    BY <1>q DEF IsState, Only, Fields
  <2> HIDE DEF r
  <2>2. r.attempts = 0 /\ r.rec = FALSE
    BY <2>1
  <2>3. WithinBudget(0)
    BY VpnAssumption DEF WithinBudget
  <2>4. WithinBudget(r.attempts)
    BY ONLY <2>2, <2>3
  <2>5. r.attempts \in Nat
    BY <2>2
  <2>6. r.rec \in BOOLEAN
    BY <2>2
  <2> QED
    BY <1>q, <2>1, <2>2, <2>4, <2>5, <2>6 DEF IsState, Only, Fields
<1>5. a = n \/ a = q \/ a = r \/ a = requestRecovery(r, "lost")
  <2>1. r.reason = q.reason
    BY <1>4 DEF Only, Fields
  <2> QED
    BY <1>a, <2>1 DEF retryVpn, requestRecovery
<1> HIDE DEF r
<1>6. /\ IsState(a) /\ a.be = n.be /\ a.cmds = n.cmds /\ a.out = n.out /\ a.helper = n.helper
      /\ a.state = "Reconnecting" => "recovery" \in a.timers
  <2>1. r.state = n.state /\ ~(r.state = "Stopping" /\ r.be.exists)
    BY <1>3, <1>4, <1>q DEF Only, Fields
  <2>2. CASE a = n \/ a = q \/ a = r
    BY <1>2, <1>3, <1>4, <1>q, <2>2 DEF Only, Fields
  <2>3. CASE a = requestRecovery(r, "lost")
    <3>1. /\ IsState(a) /\ "recovery" \in a.timers
          /\ Only(r, a, {"rec", "reason", "state", "health", "timers", "tunIp", "paused"})
      BY <1>4, <2>1, <2>3, RecoveryIs
    <3> QED
      BY <1>4, <1>q, <3>1 DEF Only, Fields
  <2> QED
    BY <1>5, <2>2, <2>3
<1>7. IsState(t) /\ Only(a, t, {"exhausted"})
  BY <1>6 DEF IsState, Only, Fields
<1> HIDE DEF t
<1>8. /\ t.be = n.be /\ t.cmds = n.cmds /\ t.out = n.out /\ t.helper = n.helper
      /\ t.state = "Reconnecting" => "recovery" \in t.timers
  BY <1>6, <1>7 DEF Only, Fields
<1>9. Dead(t)
  BY <1>3, <1>8 DEF Dead
<1>10. Told(t)
  BY <1>7, <1>8, <1>9, DeadTold
<1> QED
  BY <1>1, <1>10, BecomeTold

\* A job starts, and retains the tunnel that is there.
LEMMA ActivateTold ==
    ASSUME NEW s, IsState(s), Told(s), NEW j \in Jobs, j \notin s.retained
    PROVE  Told(Activate(s, j))
<1> DEFINE t == Activate(s, j)
<1>1. /\ IsState(t)
      /\ Only(s, t, {"active", "paused", "timers", "needing", "helper", "retained"})
      /\ t.timers = s.timers \ {"autoDisconnect"} /\ SameHelper(s, t)
  BY ActivateIs
<1> HIDE DEF t
<1>2. Only(s, t, Counts) /\ t.tunIp = s.tunIp /\ t.health = s.health
  BY <1>1 DEF Only, Fields, Counts
<1>3. Told(t)
  BY <1>1, <1>2, CountsTold
<1> QED
  BY <1>3 DEF t

LEMMA QueueTold ==
    ASSUME NEW s, IsState(s), Told(s), NEW q \in Seq(Jobs)
    PROVE  LET t == [s EXCEPT !.parked = q]
           IN IsState(t) /\ Told(t) /\ Only(s, t, {"parked"})
<1> DEFINE t == [s EXCEPT !.parked = q]
<1>1. IsState(t) /\ Only(s, t, {"parked"})
  BY DEF IsState, Only, Fields
<1> HIDE DEF t
<1>2. /\ Only(s, t, Counts) /\ t.helper = s.helper /\ t.tunIp = s.tunIp /\ t.health = s.health
      /\ t.timers = s.timers
  BY <1>1 DEF Only, Fields, Counts
<1>3. Told(t)
  BY <1>1, <1>2, SameHelperSame, CountsTold
<1> QED
  BY <1>1, <1>3 DEF t

LEMMA SubmitTold ==
    ASSUME VpnInv, VpnTold, NEW j \in Jobs, NEW outcome \in Outcomes, SubmitJob(j, outcome)
    PROVE  VpnTold'
<1> DEFINE n == Now
           s == admitJob(n, outcome)
           q == Append(s.parked, j)
           go == s.admission = "Proceed" /\ activeJob = NoJob
           t == IF go THEN Activate(s, j) ELSE [s EXCEPT !.parked = q]
           D == upsets \cup {"desync"}
<1>1. Become(t)
  BY DEF SubmitJob
<1>2. /\ IsState(n) /\ Told(n) /\ Inv(n, upsets) /\ ~n.inStart /\ Machine(n)
      /\ n.retained \subseteq {n.active} /\ n.active = activeJob
  BY NowIsTold, NowIs
<1> HIDE DEF n
<1>3. Told(s)
  BY <1>2, AdmitTold
<1>4. /\ Inv(s, D) /\ s.active = n.active
      /\ s.admission = "Proceed" => Only(n, s, {"admission"})
  BY <1>2, OnTheWay, AdmitKeeps
<1> HIDE DEF s
<1>5. IsState(s) /\ s.parked \in Seq(Jobs)
  BY <1>4 DEF Inv, IsState
<1>6. ASSUME go
      PROVE  Told(Activate(s, j))
  <2>1. s.retained = n.retained
    BY <1>4, <1>6 DEF Only, Fields
  <2>2. j \notin s.retained
    BY <1>2, <1>6, <2>1, VpnAssumption
  <2> QED
    BY <1>3, <1>5, <2>2, ActivateTold
<1>7. q \in Seq(Jobs)
  BY <1>5
<1> HIDE DEF q
<1>8. Told([s EXCEPT !.parked = q])
  BY <1>3, <1>5, <1>7, QueueTold
<1>9. Told(t)
  BY <1>6, <1>8
<1> HIDE DEF t
<1> QED
  BY <1>1, <1>9, BecomeTold

\* What releaseForJob() does once the job is let go of.
LEMMA IdleOrStoppedTold ==
    ASSUME NEW s, NEW U, Inv(s, U), Told(s), NEW r,
           LET a == [s EXCEPT !.auto = FALSE]
           IN \/ r = stop(a) /\ (s.rec \/ s.state \in {"Reconnecting", "Connected"})
              \/ r = a \/ r = StartTimer(s, "autoDisconnect") \/ r = s
    PROVE  Told(r)
<1> DEFINE a == [s EXCEPT !.auto = FALSE]
           i == StartTimer(s, "autoDisconnect")
<1>0. IsState(s) /\ Machine(s)
  BY DEF Inv
<1>1. IsState(a) /\ Only(s, a, {"auto"})
  BY <1>0 DEF IsState, Only, Fields
<1>2. \/ r = stop(a) /\ (s.rec \/ s.state \in {"Reconnecting", "Connected"})
      \/ r = a \/ r = i \/ r = s
  OBVIOUS
<1>3. IsState(i) /\ Only(s, i, {"timers"}) /\ i.timers = s.timers \cup {"autoDisconnect"}
  BY <1>0 DEF StartTimer, IsState, Only, Fields, Timers
<1> HIDE DEF a, i
<1>4. ASSUME NEW t, IsState(t), Only(s, t, {"auto", "timers"}), s.timers \subseteq t.timers
      PROVE  Told(t)
  <2>1. /\ Only(s, t, Counts) /\ t.helper = s.helper /\ t.tunIp = s.tunIp /\ t.health = s.health
    BY <1>4 DEF Only, Fields, Counts
  <2>2. SameHelper(s, t)
    BY <1>0, <2>1, SameHelperSame
  <2>3. /\ "tunPoll" \in s.timers => "tunPoll" \in t.timers
        /\ s.timers \cap {"recovery", "tunPoll"} # {} => t.timers \cap {"recovery", "tunPoll"} # {}
    BY <1>4
  <2> QED
    BY <1>0, <1>4, <2>1, <2>2, <2>3, CountsTold
<1>5. Told(a) /\ Told(i)
  <2>1. Only(s, a, {"auto", "timers"}) /\ a.timers = s.timers /\ Only(s, i, {"auto", "timers"})
    BY <1>1, <1>3 DEF Only, Fields
  <2>2. Told(a)
    BY <1>1, <1>4, <2>1
  <2>3. Told(i)
    BY <1>3, <1>4, <2>1
  <2> QED
    BY <2>2, <2>3
<1>6. CASE r = stop(a) /\ (s.rec \/ s.state \in {"Reconnecting", "Connected"})
  <2>1. /\ a.state = s.state /\ a.be = s.be /\ a.rec = s.rec /\ a.cmds = s.cmds /\ a.out = s.out
        /\ a.timers = s.timers /\ a.helper = s.helper /\ a.tunIp = s.tunIp
        /\ a.exhausted = s.exhausted
    BY <1>1 DEF Only, Fields
  <2>2. Machine(a)
    BY <1>0, <2>1 DEF Machine, Dead
  <2>3. a.state \notin {"Disabled", "Stopping"}
    BY <1>0, <1>6, <2>1 DEF Machine
  <2> QED
    BY <1>1, <1>5, <1>6, <2>2, <2>3, StopTold
<1> QED
  BY <1>2, <1>5, <1>6

LEMMA ReleasedTold ==
    ASSUME NEW s, NEW U, Inv(s, U), Told(s), s.active # NoJob
    PROVE  Told(_releaseVpnForJob([s EXCEPT !.active = NoJob, !.paused = "no"], s.active))
<1> DEFINE j == s.active
           b == [s EXCEPT !.active = NoJob, !.paused = "no"]
           c == [b EXCEPT !.retained = @ \ {j}]
           d == [c EXCEPT !.needing = 0]
           t == SetActive(d, FALSE)
           r == _releaseVpnForJob(b, j)
<1>0. /\ IsState(s) /\ s.retained \subseteq {j} /\ s.needing \in Nat /\ s.needing <= 1
      /\ (s.needing = 1 => s.retained # {}) /\ Machine(s)
  BY DEF Inv, Held, IsState
<1>1. IsState(b) /\ Only(s, b, {"active", "paused"}) /\ b.active = NoJob /\ b.paused = "no"
  BY <1>0 DEF IsState, Only, Fields
<1> HIDE DEF b
<1>2. /\ b.retained = s.retained /\ b.needing = s.needing /\ b.helper = s.helper
  BY <1>1 DEF Only, Fields
<1>3. ASSUME NEW x, IsState(x), Only(s, x, {"active", "paused", "retained", "needing", "helper"}),
             SameHelper(s, x)
      PROVE  Told(x)
  <2>1. /\ Only(s, x, Counts) /\ x.tunIp = s.tunIp /\ x.health = s.health /\ x.timers = s.timers
    BY <1>3 DEF Only, Fields, Counts
  <2> QED
    BY <1>0, <1>3, <2>1, CountsTold
<1>4. ASSUME j \notin s.retained
      PROVE  Told(r)
  <2>1. r = b
    BY <1>2, <1>4 DEF _releaseVpnForJob
  <2> HIDE DEF r
  <2>2. SameHelper(s, b)
    BY <1>0, <1>2, SameHelperSame
  <2>3. Only(s, b, {"active", "paused", "retained", "needing", "helper"})
    BY <1>1 DEF Only
  <2>4. Told(b)
    BY <1>1, <1>3, <2>2, <2>3
  <2> QED
    BY <2>1, <2>4
<1>5. ASSUME j \in s.retained
      PROVE  Told(r)
  <2>1. /\ IsState(c) /\ Only(b, c, {"retained"}) /\ c.retained = b.retained \ {j}
    BY <1>1 DEF IsState, Only, Fields
  <2>2. r = releaseForJob(c)
    BY <1>2, <1>5 DEF _releaseVpnForJob
  <2> HIDE DEF c, r
  <2>3. c.needing \in {0, 1} /\ c.retained = {}
    BY <1>0, <1>2, <2>1 DEF Only, Fields
  <2>4. IsState(d) /\ Only(c, d, {"needing"}) /\ d.needing = 0
    <3>1. Only(c, d, {"needing"}) /\ d = [f \in Fields |-> d[f]] /\ d.needing = 0
      BY <2>1 DEF IsState, Only, Fields
    <3> HIDE DEF d
    <3>2. d.needing \in Nat
      BY <3>1
    <3>3. IsState(c)
      BY <2>1
    <3> QED
      BY <3>1, <3>2, <3>3 DEF IsState, Only, Fields
  <2>5. LET n == IF c.needing > 0 THEN c.needing - 1 ELSE 0
        IN n = 0
    BY <2>3
  <2>6. \/ r = stop([t EXCEPT !.auto = FALSE]) /\ (c.rec \/ c.state \in {"Reconnecting", "Connected"})
        \/ r = [t EXCEPT !.auto = FALSE]
        \/ r = StartTimer(t, "autoDisconnect") \/ r = t
    BY <2>2, <2>5 DEF releaseForJob
  <2> HIDE DEF d
  <2>7. /\ IsState(t) /\ Only(d, t, {"helper"}) /\ SameHelper(d, t) /\ ~t.helper.active
    BY <2>4, SetActiveIs DEF SameHelper
  <2> HIDE DEF t
  <2>8. /\ Only(s, t, {"active", "paused", "retained", "needing", "helper"})
        /\ t.active = NoJob /\ t.paused = "no" /\ t.retained = {} /\ t.needing = 0
        /\ t.state = c.state /\ t.rec = c.rec /\ d.helper = s.helper
    BY <1>1, <1>2, <2>1, <2>3, <2>4, <2>7 DEF Only, Fields
  <2>9. SameHelper(s, t)
    BY <2>7, <2>8 DEF SameHelper
  <2>10. Inv(t, U) /\ Told(t)
    <3>1. Inv(t, U)
      BY <2>7, <2>8, <2>9, LetGo
    <3> QED
      BY <1>3, <2>7, <2>8, <2>9, <3>1
  <2>11. \/ r = stop([t EXCEPT !.auto = FALSE]) /\ (t.rec \/ t.state \in {"Reconnecting", "Connected"})
         \/ r = [t EXCEPT !.auto = FALSE]
         \/ r = StartTimer(t, "autoDisconnect") \/ r = t
    BY <2>6, <2>8
  <2> QED
    BY <2>10, <2>11, IdleOrStoppedTold
<1> QED
  BY <1>4, <1>5 DEF r, b, j

\* The head of the queue becomes active.
LEMMA StartHeadTold ==
    ASSUME NEW s, NEW U, Inv(s, U), Told(s), s.active = NoJob, s.parked # <<>>
    PROVE  Told(StartHead(s))
<1> DEFINE a == [s EXCEPT !.parked = Tail(@)]
           q == Tail(s.parked)
           j == Head(s.parked)
<1>1. IsState(s) /\ s.retained = {}
  BY NobodyHolds DEF Inv
<1>2. q \in Seq(Jobs) /\ j \in Jobs
  BY <1>1, ElemsTail DEF IsState
<1>3. IsState(a) /\ Told(a) /\ Only(s, a, {"parked"})
  <2> HIDE DEF q
  <2>1. LET t == [s EXCEPT !.parked = q] IN IsState(t) /\ Told(t) /\ Only(s, t, {"parked"})
    BY <1>1, <1>2, QueueTold
  <2> QED
    BY <2>1 DEF q
<1>4. StartHead(s) = Activate(a, j)
  BY DEF StartHead
<1> HIDE DEF a, q, j
<1>5. j \notin a.retained
  BY <1>1, <1>3 DEF Only, Fields
<1> QED
  BY <1>2, <1>3, <1>4, <1>5, ActivateTold

LEMMA JobEndsTold ==
    ASSUME VpnInv, VpnTold, NEW outcome \in Outcomes, JobEnds(outcome)
    PROVE  VpnTold'
<1> DEFINE n == Now
           s == _releaseVpnForJob([n EXCEPT !.active = NoJob, !.paused = "no"], activeJob)
           t == admitJob(s, outcome)
           h == StartHead(t)
           D == upsets \cup {"desync"}
<1>1. /\ Inv(n, upsets) /\ Told(n) /\ n.active = activeJob /\ n.active # NoJob
      /\ n.parked = parked
  BY NowIs, NowIsTold DEF JobEnds
<1>2. Become(s) \/ (Become(h) /\ parked # <<>>) \/ Become(t)
  <2>1. Become(IF parked = <<>> THEN s ELSE IF t.admission = "Proceed" THEN h ELSE t)
    BY DEF JobEnds
  <2> HIDE DEF s, t, h
  <2> QED
    BY <2>1
<1> HIDE DEF n, t, h
<1>3. Inv(s, upsets) /\ s.active = NoJob /\ s.parked = parked /\ Told(s)
  <2>1. s = _releaseVpnForJob([n EXCEPT !.active = NoJob, !.paused = "no"], n.active)
    BY <1>1
  <2> HIDE DEF s
  <2> QED
    BY <1>1, <2>1, ReleasedKeeps, ReleasedTold
<1> HIDE DEF s
<1>4. Told(t)
  <2>1. IsState(s) /\ ~s.inStart /\ Machine(s)
    BY <1>3 DEF Inv
  <2> QED
    BY <1>3, <2>1, AdmitTold DEF t
<1>5. Inv(t, D) /\ t.active = NoJob /\ t.parked = parked
  <2>1. Upset(upsets, D, admitJob(s, outcome))
    BY OnTheWay
  <2> QED
    BY <1>3, <2>1, AdmitKeeps DEF t
<1>6. parked # <<>> => Told(h)
  <2>1. parked # <<>> => Told(StartHead(t))
    BY <1>4, <1>5, StartHeadTold
  <2> QED
    BY <2>1 DEF h
<1> QED
  BY <1>2, <1>3, <1>4, <1>6, BecomeTold

\* A job that waits retains the tunnel that is to come.
LEMMA RetainTold ==
    ASSUME NEW s, IsState(s), Told(s), NEW j \in Jobs
    PROVE  Told(_retainVpnForJob([s EXCEPT !.paused = "vpn"], j))
<1> DEFINE p == [s EXCEPT !.paused = "vpn"]
           w == _retainVpnForJob(p, j)
<1>1. IsState(p) /\ Only(s, p, {"paused"})
  BY DEF IsState, Only, Fields
<1> HIDE DEF p
<1>2. Told(p)
  <2>1. /\ Only(s, p, Counts) /\ p.helper = s.helper /\ p.tunIp = s.tunIp /\ p.health = s.health
        /\ p.timers = s.timers
    BY <1>1 DEF Only, Fields, Counts
  <2> QED
    BY <1>1, <2>1, SameHelperSame, CountsTold
<1>3. ASSUME j \in p.retained
      PROVE  Told(w)
  <2>1. w = p
    BY <1>3 DEF _retainVpnForJob
  <2> HIDE DEF w
  <2> QED
    BY <1>2, <2>1
<1>4. ASSUME j \notin p.retained
      PROVE  Told(w)
  <2>1. /\ IsState(w) /\ Only(p, w, {"timers", "needing", "helper", "retained"})
        /\ w.timers = p.timers \ {"autoDisconnect"} /\ SameHelper(p, w)
    BY <1>1, <1>4, RetainIs
  <2> HIDE DEF w
  <2>2. Only(p, w, Counts) /\ w.tunIp = p.tunIp /\ w.health = p.health
    BY <2>1 DEF Only, Fields, Counts
  <2> QED
    BY <1>1, <1>2, <2>1, <2>2, CountsTold
<1> QED
  BY <1>3, <1>4 DEF p, w

LEMMA ResumeTold ==
    ASSUME VpnInv, VpnTold, NEW outcome \in Outcomes, ResumeJob(outcome)
    PROVE  VpnTold'
<1> DEFINE n == Now
           s == admitJob(n, outcome)
           X == IF activeJob \in retained THEN {} ELSE {"unretained"}
           g == [n EXCEPT !.paused = "no", !.upset = X]
           w == _retainVpnForJob([s EXCEPT !.paused = "vpn"], activeJob)
           D == upsets \cup {"desync"}
<1>1. Become(g) \/ Become(w) \/ Become(s) \/ Become(n)
  <2>1. CASE state = "Connected" /\ health = "Healthy"
    BY <2>1 DEF ResumeJob
  <2>2. CASE ~(state = "Connected" /\ health = "Healthy") /\ paused = "user" /\ state # "Stopping"
    BY <2>2 DEF ResumeJob
  <2>3. CASE /\ ~(state = "Connected" /\ health = "Healthy")
             /\ ~(~(state = "Connected" /\ health = "Healthy") /\ paused = "user"
                  /\ state # "Stopping")
    BY <2>3 DEF ResumeJob
  <2> QED
    BY <2>1, <2>2, <2>3
<1>2. /\ IsState(n) /\ Told(n) /\ Inv(n, upsets) /\ ~n.inStart /\ Machine(n)
      /\ n.active = activeJob /\ activeJob # NoJob
  BY NowIsTold, NowIs DEF ResumeJob
<1>3. activeJob \in Jobs
  BY <1>2 DEF IsState
<1> HIDE DEF n, X
<1>4. Told(g)
  <2>1. IsState(g) /\ Only(n, g, {"paused", "upset"})
    BY <1>2 DEF IsState, Only, Fields
  <2> HIDE DEF g
  <2>2. /\ Only(n, g, Counts) /\ g.helper = n.helper /\ g.tunIp = n.tunIp /\ g.health = n.health
        /\ g.timers = n.timers
    BY <2>1 DEF Only, Fields, Counts
  <2> QED
    BY <1>2, <2>1, <2>2, SameHelperSame, CountsTold
<1>5. Told(s) /\ IsState(s)
  <2>1. Told(s)
    BY <1>2, AdmitTold
  <2>2. Inv(s, D)
    BY <1>2, OnTheWay, AdmitKeeps
  <2> HIDE DEF s
  <2> QED
    BY <2>1, <2>2 DEF Inv
<1> HIDE DEF s
<1>6. Told(w)
  BY <1>3, <1>5, RetainTold
<1> HIDE DEF g, w
<1> QED
  BY <1>1, <1>2, <1>4, <1>5, <1>6, BecomeTold

-----------------------------------------------------------------------------
(* What the helper does, it says. *)

LEMMA HelperTold ==
    ASSUME VpnInv, VpnTold, HelperStep, helper.alive, NEW ms, ms \in Seq(Messages), Say(ms),
           ~helper'.alive => \E m \in Elems(ms) : m.type \in Terminal,
           InOrder(Now'),
           helper'.alive /\ helper'.running
              => helper.running \/ \E m \in Elems(ms) : m.type = "READY" /\ m.attempt = 0,
           helper'.alive /\ currentAttemptId \in Elems(cmds)
              => \/ currentAttemptId \in Elems(cmds')
                 \/ \E m \in Elems(ms) : Answers(m, currentAttemptId),
           helper'.alive /\ helper'.running /\ ~helper'.gone /\ ~backend.stopRequested
              => \/ cmds' # <<>> \/ AddressSaid(ms, currentAttemptId, helper'.ip)
                 \/ /\ helper.running /\ ~helper.gone /\ helper'.ip = helper.ip /\ cmds' = cmds
                    /\ \A m \in Elems(ms) : m.type # "READY",
           helper'.alive /\ helper'.running /\ helper'.health = "down" /\ ~backend.stopRequested
              => \/ DownSaid(ms)
                 \/ /\ helper.running /\ helper.health = "down"
                    /\ \A m \in Elems(ms) : ~Better(m)
    PROVE  VpnTold'
<1> DEFINE n == Now
           p == Now'
           c == out \o ms
<1>1. /\ n.state = state /\ n.health = health /\ n.timers = timers /\ n.tunIp = tunIp
      /\ n.id = currentAttemptId /\ n.be = backend /\ n.helper = helper /\ n.cmds = cmds
      /\ n.out = out
  BY DEF Now
<1>2. /\ p.state = state /\ p.health = health /\ p.timers = timers /\ p.tunIp = tunIp
      /\ p.id = currentAttemptId /\ p.be = backend /\ p.helper = helper' /\ p.cmds = cmds'
      /\ p.out = c
  <2>1. /\ p.state = state' /\ p.health = health' /\ p.timers = timers' /\ p.tunIp = tunIp'
        /\ p.id = currentAttemptId' /\ p.be = backend' /\ p.helper = helper' /\ p.cmds = cmds'
        /\ p.out = out'
    BY NowShape
  <2> QED
    BY <2>1 DEF HelperStep, managerVars, Say
<1>3. VpnTold' <=> Told(p)
  BY DEF VpnTold
<1>4. Heard(n, out)
  BY NowIsTold, <1>1 DEF Told
<1>5. out \in Seq(Messages)
  BY HelperTypes
<1>6. Elems(c) = Elems(out) \cup Elems(ms)
  BY <1>5, ElemsConcat
<1>7. /\ \A k, ip : \/ AddressSaid(ms, k, ip)
                    \/ AddressSaid(out, k, ip) /\ \A m \in Elems(ms) : m.type # "READY"
             => AddressSaid(c, k, ip)
      /\ DownSaid(ms) \/ (DownSaid(out) /\ \A m \in Elems(ms) : ~Better(m)) => DownSaid(c)
  BY <1>5, SaidAfter
<1>8. InOrder(p)
  OBVIOUS
<1> HIDE DEF n, p, c
<1>9. EndTold(p, c)
  BY <1>2, <1>6 DEF EndTold
<1>10. StartAnswered(p, c)
  BY <1>1, <1>2, <1>4, <1>6 DEF Heard, StartAnswered, Up
<1>11. RestartAnswered(p, c)
  BY <1>1, <1>2, <1>4, <1>6 DEF Heard, RestartAnswered
<1>12. AddressTold(p, c)
  <2> SUFFICES ASSUME Up(p), ~p.helper.gone, ~p.be.stopRequested, cmds' = <<>>
               PROVE  \/ AddressSaid(c, currentAttemptId, helper'.ip)
                      \/ tunIp \in {0, helper'.ip} /\ \A m \in Elems(c) : m.type # "READY"
    BY <1>2 DEF AddressTold
  <2>1. CASE AddressSaid(ms, currentAttemptId, helper'.ip)
    BY <1>7, <2>1
  <2>2. CASE /\ helper.running /\ ~helper.gone /\ helper'.ip = helper.ip /\ cmds' = cmds
             /\ \A m \in Elems(ms) : m.type # "READY"
    <3>1. \/ AddressSaid(out, currentAttemptId, helper.ip)
          \/ tunIp \in {0, helper.ip} /\ \A m \in Elems(out) : m.type # "READY"
      BY <1>1, <1>2, <1>4, <2>2 DEF Heard, AddressTold, Up
    <3> QED
      BY <1>6, <1>7, <2>2, <3>1
  <2> QED
    BY <1>2, <2>1, <2>2 DEF Up
<1>13. DownTold(p, c)
  <2> SUFFICES ASSUME Up(p), p.helper.health = "down", ~p.be.stopRequested
               PROVE  \/ DownSaid(c)
                      \/ /\ ~(state = "Connected" /\ health = "Healthy")
                         /\ \A m \in Elems(c) : ~Better(m)
    BY <1>2 DEF DownTold
  <2>1. CASE DownSaid(ms)
    BY <1>7, <2>1
  <2>2. CASE /\ helper.running /\ helper.health = "down"
             /\ \A m \in Elems(ms) : ~Better(m)
    <3>1. \/ DownSaid(out)
          \/ /\ ~(state = "Connected" /\ health = "Healthy")
             /\ \A m \in Elems(out) : ~Better(m)
      BY <1>1, <1>2, <1>4, <2>2 DEF Heard, DownTold, Up
    <3> QED
      BY <1>6, <1>7, <2>2, <3>1
  <2> QED
    BY <1>2, <2>1, <2>2 DEF Up
<1> QED
  BY <1>2, <1>3, <1>8, <1>9, <1>10, <1>11, <1>12, <1>13 DEF Told, Heard

\* A helper that goes on leaves the commands in order.
LEMMA StaysInOrder ==
    ASSUME VpnInv, VpnTold, HelperStep, helper.alive, cmds' = cmds
    PROVE  InOrder(Now')
<1> DEFINE n == Now
           p == Now'
<1>1. /\ n.id = currentAttemptId /\ n.be = backend /\ n.helper = helper /\ n.cmds = cmds
  BY DEF Now
<1>2. /\ p.id = currentAttemptId /\ p.be = backend /\ p.helper = helper' /\ p.cmds = cmds
  <2>1. p.id = currentAttemptId' /\ p.be = backend' /\ p.helper = helper' /\ p.cmds = cmds'
    BY NowShape
  <2> QED
    BY <2>1 DEF HelperStep, managerVars
<1>3. InOrder(n)
  BY NowIsTold DEF Told, Heard
<1> HIDE DEF n, p
<1>4. InOrder(p)
  BY <1>1, <1>2, <1>3 DEF InOrder
<1> QED
  BY <1>4 DEF p

LEMMA HelperStartsTold ==
    ASSUME VpnInv, VpnTold, HelperStarts
    PROVE  VpnTold'
<1> DEFINE ip == helper.ip + 1
           ms == <<Ready(0, ip)>>
<1>1. /\ HelperStep /\ helper.alive /\ Say(ms) /\ cmds' = cmds
      /\ helper'.alive /\ helper'.ip = ip /\ helper'.health = "healthy"
  BY HelperTypes DEF HelperStarts, Helpers
<1>2. ip \in Nat /\ currentAttemptId \in Nat
  BY NowIsTold, HelperTypes DEF Now, IsState
<1>3. /\ ms \in Seq(Messages) /\ Elems(ms) = {Ready(0, ip)}
      /\ Ready(0, ip).type = "READY" /\ Ready(0, ip).attempt = 0
  <2>1. Ready(0, ip) \in Messages
    BY HelperTypes
  <2> QED
    BY <2>1, SeqFew DEF Ready
<1>4. AddressSaid(ms, currentAttemptId, ip)
  <2>1. Len(ms) = 1 /\ ms[1] = Ready(0, ip)
    OBVIOUS
  <2> QED
    BY <2>1 DEF AddressSaid, Ready
<1>5. InOrder(Now')
  BY <1>1, StaysInOrder
<1> HIDE DEF ms, ip
<1> QED
  BY <1>1, <1>3, <1>4, <1>5, HelperTold

\* A helper that ends.
LEMMA EndsTold ==
    ASSUME VpnInv, VpnTold, HelperStep, helper.alive, cmds' = cmds, ~helper'.alive,
           NEW ms, ms \in Seq(Messages), Say(ms), \E m \in Elems(ms) : m.type \in Terminal
    PROVE  VpnTold'
<1>1. InOrder(Now')
  BY StaysInOrder
<1> QED
  BY <1>1, HelperTold

LEMMA HelperStartFailsTold ==
    ASSUME VpnInv, VpnTold, NEW why \in {"busy", "lost", "other"}, HelperStartFails(why)
    PROVE  VpnTold'
<1> DEFINE ms == <<Message(why), Message("EXIT")>>
<1>1. ~helper'.alive
  BY HelperTypes DEF HelperStartFails, Helpers, MayDie
<1>2. Elems(ms) = {Message(why), Message("EXIT")} /\ ms \in Seq(Messages)
  <2>1. Message(why) \in Messages /\ Message("EXIT") \in Messages
    BY HelperTypes DEF Terminal, StartFailures
  <2> QED
    BY <2>1, SeqFew
<1>3. HelperStep /\ UNCHANGED cmds /\ helper.alive /\ Say(ms)
  BY DEF HelperStartFails
<1> HIDE DEF ms
<1>4. \E m \in Elems(ms) : m.type \in Terminal
  BY <1>2 DEF Message, Terminal
<1> QED
  BY <1>1, <1>2, <1>3, <1>4, EndsTold

LEMMA HelperCrashesTold ==
    ASSUME VpnInv, VpnTold, HelperCrashes
    PROVE  VpnTold'
<1> DEFINE ms == <<Message("CRASH")>>
<1>1. ~helper'.alive
  BY HelperTypes DEF HelperCrashes, Helpers, MayDie
<1>2. ms \in Seq(Messages) /\ Elems(ms) = {Message("CRASH")}
  <2>1. Message("CRASH") \in Messages
    BY HelperTypes DEF Terminal
  <2> QED
    BY <2>1, SeqFew
<1>3. HelperStep /\ UNCHANGED cmds /\ helper.alive /\ Say(ms)
  BY DEF HelperCrashes
<1> HIDE DEF ms
<1>4. \E m \in Elems(ms) : m.type \in Terminal
  BY <1>2 DEF Message, Terminal
<1> QED
  BY <1>1, <1>2, <1>3, <1>4, EndsTold

\* A helper that runs goes on, with its address, and reports.
LEMMA ReportTold ==
    ASSUME VpnInv, VpnTold, HelperStep, helper.alive, helper.running, cmds' = cmds,
           helper'.alive, helper'.gone = helper.gone, helper'.ip = helper.ip,
           NEW x \in Reports, Say(<<Message(x)>>), helper'.health = "down" => x = "Down"
    PROVE  VpnTold'
<1> DEFINE ms == <<Message(x)>>
<1>1. ms \in Seq(Messages) /\ Elems(ms) = {Message(x)} /\ Message(x).type = x
  <2>1. Message(x) \in Messages
    BY HelperTypes
  <2> QED
    BY <2>1, SeqFew DEF Message
<1>2. x = "Down" => DownSaid(ms)
  <2>1. Len(ms) = 1 /\ ms[1] = Message(x)
    OBVIOUS
  <2> QED
    BY <1>1, <2>1 DEF DownSaid
<1>3. InOrder(Now') /\ Say(ms)
  BY StaysInOrder
<1> HIDE DEF ms
<1>4. \A m \in Elems(ms) : m.type # "READY"
  BY <1>1 DEF Reports
<1> QED
  BY <1>1, <1>2, <1>3, <1>4, HelperTold

LEMMA HelperSuspectsTold ==
    ASSUME VpnInv, VpnTold, HelperSuspects
    PROVE  VpnTold'
<1> DEFINE x == IF protocol = "openvpn" THEN "RecoveringInternally" ELSE "Suspect"
<1>1. x \in Reports
  BY DEF Reports
<1>2. Say(<<Message(x)>>)
  BY DEF HelperSuspects
<1> HIDE DEF x
<1>3. /\ helper'.alive /\ helper'.gone = helper.gone /\ helper'.ip = helper.ip
      /\ helper'.health = "suspect"
  BY HelperTypes DEF HelperSuspects, Watched, Helpers
<1> QED
  BY <1>1, <1>2, <1>3, ReportTold DEF HelperSuspects, Watched

LEMMA HelperGoesDownTold ==
    ASSUME VpnInv, VpnTold, HelperGoesDown
    PROVE  VpnTold'
<1>1. helper'.alive /\ helper'.gone = helper.gone /\ helper'.ip = helper.ip
  BY HelperTypes DEF HelperGoesDown, Watched, Helpers
<1>2. cmds' = cmds /\ HelperStep /\ helper.alive /\ helper.running /\ Say(<<Message("Down")>>)
  BY DEF HelperGoesDown, Watched
<1> QED
  BY <1>1, <1>2, ReportTold DEF Reports

LEMMA HelperHealsTold ==
    ASSUME VpnInv, VpnTold, NEW moved \in BOOLEAN, HelperHeals(moved)
    PROVE  VpnTold'
<1> DEFINE ip == helper.ip + 1
           a == Ready(0, ip)
           b == Message("Healthy")
           ms == <<a>> \o <<b>>
<1>1. /\ helper'.alive /\ helper'.gone = helper.gone /\ helper'.health = "healthy"
      /\ helper'.ip = IF moved THEN ip ELSE helper.ip
  BY HelperTypes DEF HelperHeals, Watched, Helpers
<1>2. cmds' = cmds /\ HelperStep /\ helper.alive /\ helper.running
  BY DEF HelperHeals, Watched
<1>3. CASE moved
  <2>1. a \in Messages /\ b \in Messages
    BY HelperTypes DEF Reports
  <2>2. /\ a.type = "READY" /\ a.attempt = 0 /\ a.ip = ip /\ b.type = "Healthy"
    BY DEF Ready, Message
  <2>3. Say(<<a>> \o <<b>>)
    BY <1>3 DEF HelperHeals
  <2> HIDE DEF a, b, ip
  <2>4. /\ <<a>> \in Seq(Messages) /\ Elems(<<a>>) = {a}
        /\ <<b>> \in Seq(Messages) /\ Elems(<<b>>) = {b}
    BY <2>1, SeqFew
  <2>5. ms \in Seq(Messages) /\ Elems(ms) = {a, b} /\ Len(ms) = 2 /\ ms[1] = a /\ ms[2] = b
    <3>1. ms \in Seq(Messages) /\ Len(ms) = 2 /\ ms[1] = a /\ ms[2] = b
      BY <2>1
    <3>2. ASSUME NEW q \in Seq(Messages), NEW r \in Seq(Messages)
          PROVE  Elems(q \o r) = Elems(q) \cup Elems(r)
      BY ElemsConcat
    <3>3. Elems(ms) = Elems(<<a>>) \cup Elems(<<b>>)
      BY ONLY <2>4, <3>2 DEF ms
    <3> QED
      BY <2>4, <3>1, <3>3
  <2>6. Say(ms) /\ InOrder(Now')
    BY <1>2, <2>3, StaysInOrder
  <2> HIDE DEF ms
  <2>7. AddressSaid(ms, currentAttemptId, ip)
    BY <2>2, <2>5 DEF AddressSaid
  <2> QED
    BY <1>1, <1>2, <1>3, <2>2, <2>5, <2>6, <2>7, HelperTold
<1>4. CASE ~moved
  <2>1. Say(<<>> \o <<Message("Healthy")>>)
    BY <1>4 DEF HelperHeals
  <2>2. Message("Healthy") \in Messages
    BY HelperTypes DEF Reports
  <2>3. <<>> \o <<Message("Healthy")>> = <<Message("Healthy")>>
    BY <2>2
  <2> QED
    BY <1>1, <1>2, <1>4, <2>1, <2>3, ReportTold DEF Reports
<1> QED
  BY <1>3, <1>4

\* The first command is read; the others stay in order.
LEMMA ReadInOrder ==
    ASSUME VpnInv, VpnTold, HelperStep, helper.alive, cmds # <<>>, cmds' = Tail(cmds),
           Head(cmds) # EOF \/ ~helper'.alive
    PROVE  /\ InOrder(Now')
           /\ cmds' = <<>> /\ ~backend.stopRequested => Head(cmds) = currentAttemptId
<1> DEFINE n == Now
           p == Now'
           id == currentAttemptId
           q == Tail(cmds)
<1>1. /\ n.id = id /\ n.be = backend /\ n.helper = helper /\ n.cmds = cmds
  BY DEF Now
<1>2. /\ p.id = id /\ p.be = backend /\ p.helper = helper' /\ p.cmds = q
  <2>1. p.id = currentAttemptId' /\ p.be = backend' /\ p.helper = helper' /\ p.cmds = cmds'
    BY NowShape
  <2> QED
    BY <2>1 DEF HelperStep, managerVars
<1>3. InOrder(n) /\ cmds \in Seq(Nat) /\ id \in Nat
  <2>1. InOrder(n)
    BY NowIsTold DEF Told, Heard
  <2>2. n.cmds \in Seq(Nat) /\ n.id \in Nat
    BY NowIsTold DEF IsState
  <2> QED
    BY <1>1, <2>1, <2>2
<1>4. /\ Len(q) = Len(cmds) - 1 /\ Len(q) \in Nat /\ Head(cmds) = cmds[1]
      /\ \A i \in 1..Len(q) : q[i] = cmds[i + 1]
      /\ Elems(cmds) = Elems(q) \cup {Head(cmds)}
  <2>1. Elems(cmds) = Elems(q) \cup {Head(cmds)}
    BY <1>3, ElemsTail
  <2> QED
    BY <1>3, <2>1
<1> HIDE DEF n, p, q
<1>5. ASSUME backend.stopRequested
      PROVE  InOrder(p)
  BY <1>1, <1>2, <1>3, <1>4, <1>5 DEF InOrder
<1>6. ASSUME ~backend.stopRequested
      PROVE  /\ InOrder(p)
             /\ q = <<>> => Head(cmds) = id
  <2>1. Len(cmds) <= id /\ \A i \in 1..Len(cmds) : cmds[i] = id - Len(cmds) + i
    BY <1>1, <1>3, <1>6 DEF InOrder
  <2>2. /\ Len(q) <= id
        /\ \A i \in 1..Len(q) : q[i] = id - Len(q) + i
    <3>1. ASSUME NEW i \in 1..Len(q)
          PROVE  q[i] = id - Len(q) + i
      <4>1. i + 1 \in 1..Len(cmds) /\ q[i] = cmds[i + 1]
        BY <1>4
      <4>2. cmds[i + 1] = id - Len(cmds) + (i + 1)
        BY <2>1, <4>1
      <4> QED
        BY <1>3, <1>4, <4>1, <4>2
    <3> QED
      BY <1>3, <1>4, <2>1, <3>1
  <2>3. InOrder(p)
    BY <1>2, <1>6, <2>2 DEF InOrder
  <2>4. ASSUME q = <<>>
        PROVE  Head(cmds) = id
    <3>1. Len(cmds) = 1
      BY <1>4, <2>4
    <3>2. cmds[1] = id - Len(cmds) + 1
      BY <2>1, <3>1
    <3> QED
      BY <1>3, <1>4, <3>1, <3>2
  <2> QED
    BY <2>3, <2>4
<1> QED
  BY <1>5, <1>6 DEF p, q

LEMMA HelperReadsTold ==
    ASSUME VpnInv, VpnTold, NEW ok \in BOOLEAN, HelperReads(ok)
    PROVE  VpnTold'
<1> DEFINE c == Head(cmds)
           ip == helper.ip + 1
           e == Message("EXIT")
           r == Ready(c, ip)
           f == [Message("RESTART_FAILED") EXCEPT !.attempt = c]
<1>1. HelperStep /\ helper.alive /\ helper.running /\ cmds # <<>> /\ cmds' = Tail(cmds)
  BY DEF HelperReads
<1>2. /\ c \in Nat /\ e \in Messages /\ r \in Messages /\ f \in Messages
      /\ Elems(cmds) = Elems(cmds') \cup {c}
  <2>1. c \in Nat /\ Elems(cmds) = Elems(cmds') \cup {c}
    BY <1>1, HelperTypes, ElemsTail
  <2> QED
    BY <2>1, HelperTypes DEF Terminal
<1>3. /\ e.type = "EXIT" /\ r.type = "READY" /\ r.attempt = c /\ r.ip = ip
      /\ f.type = "RESTART_FAILED" /\ f.attempt = c
  BY DEF Message, Ready
<1>4. ASSUME NEW m \in Messages
      PROVE  /\ <<m>> \in Seq(Messages) /\ Elems(<<m>>) = {m} /\ Len(<<m>>) = 1
             /\ <<m>>[1] = m
  BY <1>4, SeqFew
<1>5. CASE c = EOF
  <2>1. ~helper'.alive /\ Say(<<e>>)
    BY <1>5, HelperTypes DEF HelperReads, MayDie, Helpers
  <2> DEFINE ms == <<e>>
  <2>2. ms \in Seq(Messages) /\ Elems(ms) = {e} /\ Say(ms)
    BY <1>2, <1>4, <2>1
  <2> HIDE DEF ms, e
  <2>3. \E m \in Elems(ms) : m.type \in Terminal
    BY <1>3, <2>2 DEF Terminal
  <2>4. InOrder(Now')
    BY <1>1, <2>1, ReadInOrder
  <2> QED
    BY <1>1, <2>1, <2>2, <2>3, <2>4, HelperTold
<1>6. CASE c # EOF /\ ok
  <2>1. /\ helper'.alive /\ helper'.ip = ip /\ helper'.health = "healthy" /\ Say(<<r>>)
    BY <1>1, <1>6, HelperTypes DEF HelperReads, Helpers
  <2> DEFINE ms == <<r>>
  <2>2. /\ ms \in Seq(Messages) /\ Elems(ms) = {r} /\ Say(ms) /\ Len(ms) = 1 /\ ms[1] = r
    BY <1>2, <1>4, <2>1
  <2>3. InOrder(Now') /\ (cmds' = <<>> /\ ~backend.stopRequested => c = currentAttemptId)
    BY <1>1, <1>6, ReadInOrder
  <2> HIDE DEF ms, r, ip, c
  <2>4. c = currentAttemptId => /\ AddressSaid(ms, currentAttemptId, ip)
                                /\ \E m \in Elems(ms) : Answers(m, currentAttemptId)
    BY <1>3, <2>2 DEF AddressSaid, Answers
  <2> QED
    BY <1>1, <1>2, <2>1, <2>2, <2>3, <2>4, HelperTold
<1>7. CASE c # EOF /\ ~ok
  <2>1. helper'.alive /\ helper'.gone /\ helper'.health = helper.health /\ Say(<<f>>)
    BY <1>1, <1>7, HelperTypes DEF HelperReads, Helpers
  <2> DEFINE ms == <<f>>
  <2>2. /\ ms \in Seq(Messages) /\ Elems(ms) = {f} /\ Say(ms)
    BY <1>2, <1>4, <2>1
  <2>3. InOrder(Now')
    BY <1>1, <1>7, ReadInOrder
  <2> HIDE DEF ms, f, c
  <2>4. c = currentAttemptId => \E m \in Elems(ms) : Answers(m, currentAttemptId)
    BY <1>3, <2>2 DEF Answers
  <2>5. \A m \in Elems(ms) : ~Better(m)
    BY <1>3, <2>2 DEF Better
  <2> QED
    BY <1>1, <1>2, <2>1, <2>2, <2>3, <2>4, <2>5, HelperTold
<1> QED
  BY <1>5, <1>6, <1>7

-----------------------------------------------------------------------------
(* What is told stays so, and what the properties draw from it. *)

LEMMA InitTold == Init => VpnTold
<1> SUFFICES ASSUME Init PROVE VpnTold
  OBVIOUS
<1>1. IsState(Now) /\ Machine(Now)
  BY InitHolds DEF VpnInv, Inv
<1>2. Now.state = "Disabled" /\ ~Now.be.exists
  BY DEF Now, Init, NoBackend
<1> QED
  BY <1>1, <1>2, DeadTold DEF Machine, VpnTold

LEMMA NextTold ==
    ASSUME VpnInv, VpnTold, Next
    PROVE  VpnTold'
<1>1. CASE \E j \in Jobs, o \in Outcomes : SubmitJob(j, o)
  BY <1>1, SubmitTold
<1>2. CASE \E o \in Outcomes : ResumeJob(o)
  BY <1>2, ResumeTold
<1>3. CASE \E o \in Outcomes : StartByUser(o)
  BY <1>3, StartByUserTold
<1>4. CASE \E o \in Outcomes : JobEnds(o)
  BY <1>4, JobEndsTold
<1>5. CASE disconnectByUser
  BY <1>5, DisconnectTold
<1>6. CASE \E retry \in BOOLEAN : AnswerExhausted(retry)
  BY <1>6, AnswerTold
<1>7. CASE \E o \in Outcomes : RecoveryTimeout(o)
  BY <1>7, RecoveryTimeoutTold
<1>8. CASE HealthyResetTimeout
  BY <1>8, HealthyResetTold
<1>9. CASE onAutoDisconnectTimeout
  BY <1>9, AutoDisconnectTold
<1>10. CASE \E b \in BOOLEAN : PollTunIp(b)
  BY <1>10, PollTunIpTold
<1>11. CASE HelperStarts
  BY <1>11, HelperStartsTold
<1>12. CASE HelperSuspects
  BY <1>12, HelperSuspectsTold
<1>13. CASE HelperGoesDown
  BY <1>13, HelperGoesDownTold
<1>14. CASE HelperCrashes
  BY <1>14, HelperCrashesTold
<1>15. CASE \E why \in {"busy", "lost", "other"} : HelperStartFails(why)
  BY <1>15, HelperStartFailsTold
<1>16. CASE \E b \in BOOLEAN : HelperHeals(b)
  BY <1>16, HelperHealsTold
<1>17. CASE \E b \in BOOLEAN : HelperReads(b)
  BY <1>17, HelperReadsTold
<1>18. CASE \E b \in BOOLEAN : Receive(b)
  BY <1>18, ReceiveTold
<1> QED
  BY <1>1, <1>2, <1>3, <1>4, <1>5, <1>6, <1>7, <1>8, <1>9, <1>10, <1>11, <1>12, <1>13, <1>14,
     <1>15, <1>16, <1>17, <1>18 DEF Next, User, Timeouts, Helper

\* The manager, its backend and the helper agree on what is still to be said:
\* whatever one waits for is running, on its way to the other, or on its way
\* back, after every handler and every step of the helper.
THEOREM ToldInvariant == Spec => [](VpnInv /\ VpnTold)
<1>1. Init => VpnInv /\ VpnTold
  BY InitHolds, InitTold
<1>2. VpnInv /\ VpnTold /\ [Next]_vars => (VpnInv /\ VpnTold)'
  <2>1. ASSUME VpnInv, VpnTold, Next PROVE (VpnInv /\ VpnTold)'
    BY <2>1, NextKeeps, NextTold
  <2>2. ASSUME VpnInv, VpnTold, UNCHANGED vars PROVE (VpnInv /\ VpnTold)'
    <3>1. Now' = Now
      BY <2>2 DEF Now, vars, managerVars, helperVars, jobVars
    <3> QED
      BY <2>2, <3>1, StutterKeeps DEF VpnTold
  <2> QED
    BY <2>1, <2>2
<1> QED
  BY <1>1, <1>2, PTL DEF Spec

\* What Told() says of the variables.
LEMMA VariablesTold ==
    ASSUME VpnInv, VpnTold
    PROVE  /\ cmds \in Seq(Nat) /\ out \in Seq(Messages) /\ currentAttemptId \in Nat
           /\ helper \in Helpers /\ tunIp \in Nat
           /\ state \in {"Starting", "Connected", "Stopping"} => backend.exists
           /\ state = "Stopping" => backend.stopRequested
           /\ state = "Connected" => tunIp # 0 /\ helper.running
           /\ backend.exists /\ ~helper.alive => \E m \in Elems(out) : m.type \in Terminal
           /\ backend.stopRequested /\ helper.alive => EOF \in Elems(cmds)
           /\ state = "Starting" /\ helper.alive /\ helper.running
                => "tunPoll" \in timers \/ \E m \in Elems(out) : m.type = "READY"
           /\ state = "Reconnecting" =>
                \/ timers \cap {"recovery", "tunPoll"} # {}
                \/ /\ backend.exists
                   /\ \/ ~helper.alive \/ currentAttemptId \in Elems(cmds)
                      \/ Elems(out) # {}
           /\ helper.alive /\ helper.running /\ ~helper.gone /\ ~backend.stopRequested
                /\ cmds = <<>> /\ out = <<>> => tunIp \in {0, helper.ip}
           /\ helper.alive /\ helper.running /\ ~backend.stopRequested /\ out = <<>>
                /\ helper.health = "down" => ~(state = "Connected" /\ health = "Healthy")
<1> DEFINE s == Now
<1>1. /\ s.state = state /\ s.health = health /\ s.timers = timers /\ s.tunIp = tunIp
      /\ s.id = currentAttemptId /\ s.be = backend /\ s.helper = helper /\ s.cmds = cmds
      /\ s.out = out
  BY DEF Now
<1>2. IsState(s) /\ Machine(s) /\ Printed(s) /\ Heard(s, out)
  BY NowIsTold, <1>1 DEF Inv, Told
<1> HIDE DEF s
<1>3. /\ cmds \in Seq(Nat) /\ out \in Seq(Messages) /\ currentAttemptId \in Nat
      /\ helper \in Helpers /\ tunIp \in Nat
  BY <1>1, <1>2 DEF IsState
<1>4. /\ state \in {"Starting", "Connected", "Stopping"} => backend.exists
      /\ state = "Stopping" => backend.stopRequested
      /\ state = "Connected" => tunIp # 0 /\ helper.running
  BY <1>1, <1>2 DEF Machine, Printed
<1>5. /\ backend.exists /\ ~helper.alive => \E m \in Elems(out) : m.type \in Terminal
      /\ backend.stopRequested /\ helper.alive => EOF \in Elems(cmds)
      /\ state = "Starting" /\ helper.alive /\ helper.running
           => "tunPoll" \in timers \/ \E m \in Elems(out) : m.type = "READY"
  BY <1>1, <1>2 DEF Heard, EndTold, InOrder, StartAnswered, Up
<1>6. state = "Reconnecting" =>
        \/ timers \cap {"recovery", "tunPoll"} # {}
        \/ /\ backend.exists
           /\ \/ ~helper.alive \/ currentAttemptId \in Elems(cmds)
              \/ Elems(out) # {}
  BY <1>1, <1>2 DEF Heard, RestartAnswered
<1>7. out = <<>> => /\ \A n, ip : ~AddressSaid(out, n, ip)
                    /\ ~DownSaid(out)
  BY DEF AddressSaid, DownSaid
<1>8. helper.alive /\ helper.running /\ ~helper.gone /\ ~backend.stopRequested
        /\ cmds = <<>> /\ out = <<>> => tunIp \in {0, helper.ip}
  BY <1>1, <1>2, <1>7 DEF Heard, AddressTold, Up
<1>9. helper.alive /\ helper.running /\ ~backend.stopRequested /\ out = <<>>
        /\ helper.health = "down" => ~(state = "Connected" /\ health = "Healthy")
  BY <1>1, <1>2, <1>7 DEF Heard, DownTold, Up
<1> QED
  BY <1>3, <1>4, <1>5, <1>6, <1>8, <1>9

\* A tunnel that the manager shows as Connected and Healthy, with nothing left
\* to read on either side, is up and has the address that the jobs bind to,
\* however the answers of RESTART, the READY of a reconnection and the reports
\* of health overtook one another (onBackendReady(), onBackendRestartReady(),
\* onBackendHealthChanged()).
THEOREM ConnectedHolds == Spec => []ConnectedIsTrue
<1>1. VpnInv /\ VpnTold => ConnectedIsTrue
  <2> SUFFICES ASSUME VpnInv, VpnTold, state = "Connected", health = "Healthy", out = <<>>,
                      cmds = <<>>
               PROVE  /\ helper.alive /\ helper.running /\ helper.health # "down"
                      /\ tunIp = helper.ip \/ helper.gone
    BY DEF ConnectedIsTrue
  <2>1. Elems(out) = {} /\ Elems(cmds) = {}
    BY ElemsFew
  <2>2. helper.alive
    BY <2>1, VariablesTold
  <2>3. ~backend.stopRequested
    BY <2>1, <2>2, VariablesTold
  <2>4. helper.running /\ tunIp # 0
    BY VariablesTold
  <2>5. helper.health # "down"
    BY <2>2, <2>3, <2>4, VariablesTold
  <2>6. tunIp = helper.ip \/ helper.gone
    BY <2>2, <2>3, <2>4, VariablesTold
  <2> QED
    BY <2>2, <2>4, <2>5, <2>6
<1> QED
  BY <1>1, ToldInvariant, PTL

\* The manager is never left in Starting, Reconnecting or Stopping with nothing
\* under way that ends it: a RESTART has its answer, an end of the input its
\* exit, a start its READY or its failure, whatever the helper does.
THEOREM ChangeHolds == Spec => []ChangeIsComing
<1>1. VpnInv /\ VpnTold => ChangeIsComing
  <2> SUFFICES ASSUME VpnInv, VpnTold, state \in {"Starting", "Reconnecting", "Stopping"},
                      timers \cap {"recovery", "tunPoll"} = {}, out = <<>>
               PROVE  helper.alive /\ (cmds # <<>> \/ ~helper.running)
    BY DEF ChangeIsComing
  <2>1. Elems(out) = {} /\ Elems(<<>>) = {}
    BY ElemsFew
  <2>2. backend.exists
    BY VariablesTold
  <2>3. helper.alive
    BY <2>1, <2>2, VariablesTold
  <2>4. CASE state = "Starting"
    BY <2>1, <2>3, <2>4, VariablesTold
  <2>5. CASE state = "Reconnecting"
    <3>1. currentAttemptId \in Elems(cmds)
      BY <2>1, <2>3, <2>5, VariablesTold
    <3> QED
      BY <2>1, <2>3, <3>1
  <2>6. CASE state = "Stopping"
    <3>1. EOF \in Elems(cmds)
      BY <2>3, <2>6, VariablesTold
    <3> QED
      BY <2>1, <2>3, <3>1
  <2> QED
    BY <2>4, <2>5, <2>6
<1> QED
  BY <1>1, ToldInvariant, PTL
=============================================================================
