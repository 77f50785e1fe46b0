--------------------------- MODULE JobQueueProofs ---------------------------
(***************************************************************************)
(* Proofs about JobQueue.                                                  *)
(***************************************************************************)
EXTENDS JobQueue, NaturalsInduction, WellFoundedInduction, TLAPS

-----------------------------------------------------------------------------
(* Sequences. *)

\* A property (a set P of numbers) that holds of 0 and passes from each number
\* to the next holds up to n.
LEMMA UpTo ==
    ASSUME NEW n \in Nat, NEW P, 0 \in P,
           \A i \in 1..n : i - 1 \in P => i \in P
    PROVE  \A i \in 0..n : i \in P
<1> DEFINE T == {i \in 0..n : i \notin P}
<1> SUFFICES ASSUME T # {} PROVE FALSE
  OBVIOUS
<1>1. T \subseteq Nat
  OBVIOUS
<1>2. PICK i \in T : \A k \in T : ~(<<k, i>> \in OpToRel(<, Nat))
  BY <1>1, NatLessThanWellFounded, WFMin, Zenon
<1>3. i \in 1..n /\ i \notin P
  OBVIOUS
<1>4. i - 1 \in 0..n /\ i - 1 < i
  BY <1>3
<1>5. i - 1 \in T
  BY <1>3, <1>4
<1>6. <<i - 1, i>> \in OpToRel(<, Nat)
  BY <1>3, <1>4 DEF OpToRel
<1> QED
  BY <1>2, <1>5, <1>6

\* What Without() keeps of the first n elements of q.
Kept(q, S, n, f) ==
    f = [i \in 0..n |-> IF i = 0 THEN <<>>
                        ELSE IF q[i] \in S THEN f[i - 1] ELSE Append(f[i - 1], q[i])]

LEMMA KeptExists ==
    ASSUME NEW X, NEW q \in Seq(X), NEW S
    PROVE  \E f : Kept(q, S, Len(q), f)
<1> DEFINE P == {n \in 0..Len(q) : \E f : Kept(q, S, n, f)}
<1>0. Len(q) \in Nat
  OBVIOUS
<1>1. 0 \in P
  <2>1. Kept(q, S, 0, [i \in 0..0 |-> <<>>])
    BY DEF Kept
  <2> QED
    BY <2>1, <1>0
<1>2. ASSUME NEW n \in 1..Len(q), n - 1 \in P
      PROVE  n \in P
  <2>1. PICK f : Kept(q, S, n - 1, f)
    BY <1>2
  <2> DEFINE g == [i \in 0..n |-> IF i < n THEN f[i]
                                  ELSE IF q[n] \in S THEN f[n - 1] ELSE Append(f[n - 1], q[n])]
  <2>2. \A i \in 0..(n - 1) : f[i] = (IF i = 0 THEN <<>>
                        ELSE IF q[i] \in S THEN f[i - 1] ELSE Append(f[i - 1], q[i]))
    BY <2>1 DEF Kept
  <2>3. \A i \in 0..n : g[i] = (IF i = 0 THEN <<>>
                        ELSE IF q[i] \in S THEN g[i - 1] ELSE Append(g[i - 1], q[i]))
    BY <2>2, <1>0
  <2>4. Kept(q, S, n, g)
    BY <2>3 DEF Kept
  <2> QED
    BY <2>4
<1> HIDE DEF P
<1>3. Len(q) \in P
  BY <1>0, <1>1, <1>2, UpTo, SMTT(90)
<1> QED
  BY <1>3 DEF P

IsInjectiveSeq(q) == \A i, k \in 1..Len(q) : q[i] = q[k] => i = k

\* r is what is kept of the first n elements of q: those that are not in S, all
\* of them, each once if q holds it once, the first one still first.
IsKept(q, S, n, r) ==
    /\ \A k \in 1..Len(r) : r[k] \notin S /\ \E i \in 1..n : q[i] = r[k]
    /\ \A i \in 1..n : q[i] \notin S => \E k \in 1..Len(r) : r[k] = q[i]
    /\ IsInjectiveSeq(q) => IsInjectiveSeq(r)
    /\ n > 0 /\ q[1] \notin S => Len(r) > 0 /\ r[1] = q[1]

\* Each step of Without() keeps what is to be kept.
LEMMA IsKeptStep ==
    ASSUME NEW X, NEW q \in Seq(X), NEW S, NEW n \in 1..Len(q), NEW g \in Seq(X),
           IsKept(q, S, n - 1, g)
    PROVE  IsKept(q, S, n, IF q[n] \in S THEN g ELSE Append(g, q[n]))
<1>0. /\ \A k \in 1..Len(g) : g[k] \notin S /\ \E i \in 1..(n - 1) : q[i] = g[k]
      /\ \A i \in 1..(n - 1) : q[i] \notin S => \E k \in 1..Len(g) : g[k] = q[i]
      /\ IsInjectiveSeq(q) => IsInjectiveSeq(g)
      /\ n - 1 > 0 /\ q[1] \notin S => Len(g) > 0 /\ g[1] = q[1]
  BY DEF IsKept
<1>1. CASE q[n] \in S
  <2>1. \A k \in 1..Len(g) : g[k] \notin S /\ \E i \in 1..n : q[i] = g[k]
    BY <1>0
  <2>2. \A i \in 1..n : q[i] \notin S => \E k \in 1..Len(g) : g[k] = q[i]
    BY <1>0, <1>1
  <2>3. n > 0 /\ q[1] \notin S => Len(g) > 0 /\ g[1] = q[1]
    BY <1>0, <1>1
  <2> QED
    BY <1>0, <1>1, <2>1, <2>2, <2>3 DEF IsKept
<1>2. CASE q[n] \notin S
  <2> DEFINE h == Append(g, q[n])
  <2>1. /\ Len(h) = Len(g) + 1 /\ h[Len(g) + 1] = q[n]
        /\ \A k \in 1..Len(g) : h[k] = g[k]
        /\ Len(g) \in Nat
    OBVIOUS
  <2> HIDE DEF h
  <2>2. \A k \in 1..Len(h) : h[k] \notin S /\ \E i \in 1..n : q[i] = h[k]
    <3>1. ASSUME NEW k \in 1..Len(h)
          PROVE  h[k] \notin S /\ \E i \in 1..n : q[i] = h[k]
      <4>1. CASE k = Len(g) + 1
        BY <1>2, <2>1, <4>1
      <4>2. CASE k \in 1..Len(g)
        <5>1. h[k] = g[k] /\ g[k] \notin S
          BY <1>0, <2>1, <4>2
        <5>2. PICK i \in 1..(n - 1) : q[i] = g[k]
          BY <1>0, <4>2
        <5>3. i \in 1..n
          OBVIOUS
        <5> QED
          BY <5>1, <5>2, <5>3
      <4> QED
        BY <2>1, <4>1, <4>2
    <3> QED
      BY <3>1
  <2>3. \A i \in 1..n : q[i] \notin S => \E k \in 1..Len(h) : h[k] = q[i]
    <3>1. ASSUME NEW i \in 1..n, q[i] \notin S
          PROVE  \E k \in 1..Len(h) : h[k] = q[i]
      <4>1. CASE i = n
        BY <2>1, <4>1
      <4>2. CASE i \in 1..(n - 1)
        <5>1. PICK k \in 1..Len(g) : g[k] = q[i]
          BY <1>0, <3>1, <4>2
        <5> QED
          BY <2>1, <5>1
      <4> QED
        BY <4>1, <4>2
    <3> QED
      BY <3>1
  <2>4. ASSUME IsInjectiveSeq(q)
        PROVE  IsInjectiveSeq(h)
    <3>1. \A k \in 1..Len(g) : g[k] # q[n]
      BY <1>0, <2>4 DEF IsInjectiveSeq
    <3>2. \A i, k \in 1..Len(g) : g[i] = g[k] => i = k
      BY <1>0, <2>4 DEF IsInjectiveSeq
    <3>3. \A i, k \in 1..Len(h) : h[i] = h[k] => i = k
      BY <2>1, <3>1, <3>2, SMTT(90)
    <3> QED
      BY <3>3 DEF IsInjectiveSeq
  <2>5. q[1] \notin S => Len(h) > 0 /\ h[1] = q[1]
    <3>1. CASE n = 1
      <4>1. Len(g) = 0
        BY <1>0, <2>1, <3>1
      <4> QED
        BY <2>1, <3>1, <4>1
    <3>2. CASE n # 1
      BY <1>0, <2>1, <3>2
    <3> QED
      BY <3>1, <3>2
  <2>6. IsKept(q, S, n, h)
    BY <2>2, <2>3, <2>4, <2>5 DEF IsKept
  <2> QED
    BY <1>2, <2>6 DEF h
<1> QED
  BY <1>1, <1>2

\* What Without() returns.
LEMMA WithoutProperties ==
    ASSUME NEW X, NEW q \in Seq(X), NEW S
    PROVE  Without(q, S) \in Seq(X) /\ IsKept(q, S, Len(q), Without(q, S))
<1> DEFINE f == CHOOSE f : Kept(q, S, Len(q), f)
<1>1. Kept(q, S, Len(q), f)
  BY KeptExists
<1>2. Without(q, S) = f[Len(q)]
  BY DEF Without, Kept
<1> HIDE DEF f
<1>0. Len(q) \in Nat
  OBVIOUS
<1>8. \A i \in 0..Len(q) : f[i] = (IF i = 0 THEN <<>>
                        ELSE IF q[i] \in S THEN f[i - 1] ELSE Append(f[i - 1], q[i]))
  BY <1>1 DEF Kept
<1>3. f[0] = <<>>
  BY <1>0, <1>8
<1>4. \A i \in 1..Len(q) : f[i] = (IF q[i] \in S THEN f[i - 1] ELSE Append(f[i - 1], q[i]))
  BY <1>0, <1>8
<1> DEFINE P == {i \in 0..Len(q) : f[i] \in Seq(X) /\ IsKept(q, S, i, f[i])}
<1>5. 0 \in P
  <2>1. <<>> \in Seq(X) /\ Len(<<>>) = 0
    OBVIOUS
  <2>2. IsKept(q, S, 0, <<>>)
    BY <2>1 DEF IsKept, IsInjectiveSeq
  <2>3. f[0] \in Seq(X) /\ IsKept(q, S, 0, f[0])
    BY <1>3, <2>1, <2>2, Zenon
  <2> QED
    BY <1>0, <2>3
<1>6. ASSUME NEW i \in 1..Len(q), i - 1 \in P
      PROVE  i \in P
  <2>1. f[i - 1] \in Seq(X) /\ IsKept(q, S, i - 1, f[i - 1]) /\ q[i] \in X
    BY <1>6
  <2>2. f[i] \in Seq(X)
    <3>1. CASE q[i] \in S
      BY <1>4, <2>1, <3>1
    <3>2. CASE q[i] \notin S
      <4>1. f[i] = Append(f[i - 1], q[i])
        BY <1>4, <3>2
      <4> QED
        BY <2>1, <4>1
    <3> QED
      BY <3>1, <3>2
  <2>3. IsKept(q, S, i, f[i])
    BY <1>4, <2>1, IsKeptStep
  <2> QED
    BY <2>2, <2>3
<1> HIDE DEF P
<1>7. Len(q) \in P
  BY <1>0, <1>5, <1>6, UpTo, SMTT(90)
<1> QED
  BY <1>2, <1>7 DEF P

-----------------------------------------------------------------------------
(* The inductive invariant, of the records the handlers work on. *)

Elems(q) == {q[i] : i \in 1..Len(q)}

QState ==
    [active : Jobs \cup {NoJob}, pending : Seq(Jobs), packing : Jobs \cup {NoJob},
     paused : BOOLEAN, canceling : BOOLEAN,
     stage : [Jobs -> Stages], packed : SUBSET Jobs, canceled : SUBSET Jobs,
     tools : SUBSET Jobs, armed : BOOLEAN, ended : BOOLEAN,
     recheck : BOOLEAN, proc : BOOLEAN, cmds : SUBSET Jobs,
     tunnel : BOOLEAN, events : Seq(Event), word : {"none", "good", "stop"},
     upsets : SUBSET {"monitoring", "parked", "overtaken"}]

Submitted == {"waiting", "packing", "packed", "posting", "ended"}
Stopped(s, j) == HasEnded(s, j) /\ j \in s.canceled

\* Of a job: everything but the two events that are about none.
JobEvent(e) == e.type \notin {"recheck", "idle"}

\* NoJobLost, of a record.
Placed(s) ==
    /\ \A j \in Jobs : s.stage[j] \in Submitted <=> (s.active = j \/ j \in Elems(s.pending))
    /\ IsInjectiveSeq(s.pending)
    /\ s.active \notin Elems(s.pending)
    /\ \A j \in Jobs : s.stage[j] = "posting" => s.active = j

\* The job packed ahead is the head of the queue; or it was deleted with the
\* monitoring, and nothing speaks of it any more.
Ahead(s) ==
    /\ preparePacking \/ s.packing = NoJob
    /\ s.packing # NoJob =>
         \/ s.pending # <<>> /\ Head(s.pending) = s.packing
         \/ /\ s.stage[s.packing] = "deleted" /\ "monitoring" \in s.upsets
            /\ \A e \in Elems(s.events) : JobEvent(e) => e.job # s.packing

\* A job that waits and is not packed ahead was not started.
Untouched(s) ==
    \A j \in Elems(s.pending) : (j # s.packing \/ j \notin HasPacking) =>
        /\ s.stage[j] = "waiting" \/ Stopped(s, j)
        /\ j \notin s.packed
        /\ \A e \in Elems(s.events) : e.type = "start" => e.job # j

\* Where a tool runs, and what is packed.
Tools(s) ==
    /\ \A j \in s.tools : s.stage[j] = "packing"
    /\ \A j \in Jobs : s.stage[j] = "packing" => j \in HasPacking
    /\ \A j \in s.packed : s.stage[j] \notin {"new", "asking", "waiting", "packing"}
    /\ \A j \in Elems(s.pending) : j \in s.packed => s.stage[j] = "packed" \/ Stopped(s, j)

\* What an event that is posted says of its job.
Started(s, e) ==
    \/ s.stage[e.job] = "waiting" /\ (e.job \in HasPacking \/ e.job = s.active)
    \/ Stopped(s, e.job)

EventOK(s, e) ==
    /\ e.type = "start" => Started(s, e)
    /\ e.type = "stop" => e.job \in s.canceled /\ s.stage[e.job] \notin {"new", "asking"}
    /\ e.type = "toolEnded" =>
         e.job \notin s.tools /\ (s.stage[e.job] = "packing" \/ Stopped(s, e.job))
    /\ e.type = "transferEnded" => s.stage[e.job] = "posting" \/ HasEnded(s, e.job)
    /\ e.type = "packingDone" => e.job \in s.packed \/ s.stage[e.job] = "deleted"
    /\ e.type = "finished" => s.stage[e.job] = "ended"

EventsOK(s) == \A e \in Elems(s.events) : EventOK(s, e)

\* No job has two starts, two ends of its tool or two ends on their way.
Once == {"start", "toolEnded", "finished"}
Single(q) ==
    \A i, k \in 1..Len(q) :
        q[i].type \in Once /\ q[k].type = q[i].type /\ q[k].job = q[i].job
            => k = i

\* The active job is not to be packed any more when the next one is.
Idles(s) ==
    \/ s.active = NoJob \/ s.active \notin HasPacking
    \/ s.active \in s.packed \/ s.stage[s.active] = "ended"
OneAhead(s) ==
    "overtaken" \notin s.upsets /\ s.packing # NoJob =>
        s.stage[s.packing] = "deleted" \/ Idles(s)

Safe(s) ==
    /\ s \in QState
    /\ Placed(s) /\ Ahead(s) /\ Untouched(s) /\ Tools(s)
    /\ EventsOK(s) /\ Single(s.events) /\ OneAhead(s)
-----------------------------------------------------------------------------
(* The elements of a sequence, and what keeps events single. *)

LEMMA ElemsIn ==
    ASSUME NEW X, NEW q \in Seq(X)
    PROVE  Elems(q) \subseteq X
BY DEF Elems

LEMMA ElemsAppend ==
    ASSUME NEW X, NEW q \in Seq(X), NEW x \in X
    PROVE  Append(q, x) \in Seq(X) /\ Elems(Append(q, x)) = Elems(q) \cup {x}
<1> DEFINE r == Append(q, x)
<1>1. /\ r \in Seq(X) /\ Len(r) = Len(q) + 1
      /\ r[Len(q) + 1] = x /\ Len(q) \in Nat
      /\ \A i \in 1..Len(q) : r[i] = q[i]
  OBVIOUS
<1> HIDE DEF r
<1>2. ASSUME NEW y PROVE y \in Elems(r) <=> y \in Elems(q) \cup {x}
  BY <1>1 DEF Elems
<1> QED
  BY <1>1, <1>2 DEF r

LEMMA ElemsTail ==
    ASSUME NEW X, NEW q \in Seq(X), q # <<>>
    PROVE  /\ Tail(q) \in Seq(X) /\ Head(q) \in X
           /\ Elems(q) = Elems(Tail(q)) \cup {Head(q)}
           /\ IsInjectiveSeq(q) => IsInjectiveSeq(Tail(q)) /\ Head(q) \notin Elems(Tail(q))
<1>1. /\ Tail(q) \in Seq(X) /\ Len(Tail(q)) = Len(q) - 1 /\ Len(q) \in Nat /\ Len(q) > 0
      /\ \A i \in 1..Len(Tail(q)) : Tail(q)[i] = q[i + 1]
      /\ Head(q) = q[1] /\ Head(q) \in X
  OBVIOUS
<1> DEFINE t == Tail(q)
<1> HIDE DEF t
<1>2. ASSUME NEW y PROVE y \in Elems(q) <=> y \in Elems(t) \cup {q[1]}
  <2>1. ASSUME NEW i \in 1..Len(q) PROVE q[i] \in Elems(t) \cup {q[1]}
    <3>1. CASE i = 1
      BY <3>1
    <3>2. CASE i # 1
      <4>1. i - 1 \in 1..Len(t) /\ t[i - 1] = q[i]
        BY <1>1, <3>2 DEF t
      <4> QED
        BY <4>1 DEF Elems
    <3> QED
      BY <3>1, <3>2
  <2>2. ASSUME NEW i \in 1..Len(t) PROVE t[i] \in Elems(q)
    BY <1>1 DEF Elems, t
  <2>3. q[1] \in Elems(q)
    BY <1>1 DEF Elems
  <2> QED
    BY <2>1, <2>2, <2>3 DEF Elems
<1>3. ASSUME IsInjectiveSeq(q)
      PROVE  IsInjectiveSeq(t) /\ q[1] \notin Elems(t)
  BY <1>1, <1>3 DEF IsInjectiveSeq, Elems, t
<1> QED
  BY <1>1, <1>2, <1>3 DEF t

LEMMA ElemsEmpty == Elems(<<>>) = {}
BY DEF Elems

LEMMA ElemsNone ==
    ASSUME NEW X, NEW q \in Seq(X)
    PROVE  q = <<>> <=> Elems(q) = {}
<1>1. q = <<>> <=> Len(q) = 0
  OBVIOUS
<1>2. Len(q) = 0 <=> Elems(q) = {}
  <2>1. Len(q) \in Nat
    OBVIOUS
  <2>2. ASSUME Len(q) # 0 PROVE q[1] \in Elems(q)
    BY <2>1, <2>2 DEF Elems
  <2>3. ASSUME Len(q) = 0 PROVE Elems(q) = {}
    BY <2>3 DEF Elems
  <2> QED
    BY <2>2, <2>3
<1> QED
  BY <1>1, <1>2

LEMMA ElemsConcat ==
    ASSUME NEW X, NEW q \in Seq(X), NEW r \in Seq(X)
    PROVE  q \o r \in Seq(X) /\ Elems(q \o r) = Elems(q) \cup Elems(r)
<1> DEFINE c == q \o r
<1>1. /\ c \in Seq(X) /\ Len(c) = Len(q) + Len(r) /\ Len(q) \in Nat /\ Len(r) \in Nat
      /\ \A i \in 1..Len(q) : c[i] = q[i]
      /\ \A i \in 1..Len(r) : c[Len(q) + i] = r[i]
  OBVIOUS
<1> HIDE DEF c
<1>2. ASSUME NEW i \in 1..Len(c) PROVE c[i] \in Elems(q) \cup Elems(r)
  <2>1. CASE i \in 1..Len(q)
    BY <1>1, <2>1 DEF Elems
  <2>2. CASE i \notin 1..Len(q)
    <3>1. i - Len(q) \in 1..Len(r) /\ c[i] = r[i - Len(q)]
      BY <1>1, <2>2
    <3> QED
      BY <3>1 DEF Elems
  <2> QED
    BY <2>1, <2>2
<1>3. ASSUME NEW i \in 1..Len(q) PROVE q[i] \in Elems(c)
  BY <1>1 DEF Elems
<1>4. ASSUME NEW i \in 1..Len(r) PROVE r[i] \in Elems(c)
  <2>1. Len(q) + i \in 1..Len(c) /\ c[Len(q) + i] = r[i]
    BY <1>1
  <2> QED
    BY <2>1 DEF Elems
<1>5. Elems(c) = Elems(q) \cup Elems(r)
  BY <1>2, <1>3, <1>4 DEF Elems
<1> QED
  BY <1>1, <1>5 DEF c

LEMMA ElemsWithout ==
    ASSUME NEW X, NEW q \in Seq(X), NEW S
    PROVE  /\ Without(q, S) \in Seq(X)
           /\ Elems(Without(q, S)) = Elems(q) \ S
           /\ IsInjectiveSeq(q) => IsInjectiveSeq(Without(q, S))
           /\ q # <<>> /\ Head(q) \notin S
                => Without(q, S) # <<>> /\ Head(Without(q, S)) = Head(q)
<1> DEFINE r == Without(q, S)
<1>1. r \in Seq(X) /\ IsKept(q, S, Len(q), r)
  BY WithoutProperties
<1> HIDE DEF r
<1>2. Elems(r) = Elems(q) \ S
  <2>1. ASSUME NEW k \in 1..Len(r) PROVE r[k] \in Elems(q) \ S
    BY <1>1 DEF IsKept, Elems
  <2>2. ASSUME NEW i \in 1..Len(q), q[i] \notin S PROVE q[i] \in Elems(r)
    BY <1>1, <2>2 DEF IsKept, Elems
  <2> QED
    BY <2>1, <2>2 DEF Elems
<1>3. Len(q) > 0 /\ q[1] \notin S => Len(r) > 0 /\ r[1] = q[1]
  BY <1>1 DEF IsKept
<1>4. q # <<>> => Len(q) > 0 /\ Head(q) = q[1]
  OBVIOUS
<1>5. Len(r) > 0 => r # <<>> /\ Head(r) = r[1]
  BY <1>1
<1> QED
  BY <1>1, <1>2, <1>3, <1>4, <1>5 DEF r, IsKept

LEMMA EventJob ==
    ASSUME NEW e \in Event
    PROVE  JobEvent(e) => e.job \in Jobs
BY DEF Event, JobEvent

LEMMA SignalIsEvent ==
    ASSUME NEW t \in {"start", "stop", "packingDone", "finished"}, NEW j \in Jobs
    PROVE  Signal(t, j) \in Event /\ Signal(t, j).type = t /\ Signal(t, j).job = j
BY DEF Signal, Event

LEMMA SingleAppend ==
    ASSUME NEW q \in Seq(Event), NEW e \in Event, Single(q),
           e.type \in Once
              => \A f \in Elems(q) : f.type = e.type => f.job # e.job
    PROVE  Single(Append(q, e))
<1> DEFINE r == Append(q, e)
<1>1. /\ Len(r) = Len(q) + 1 /\ r[Len(q) + 1] = e /\ Len(q) \in Nat
      /\ \A i \in 1..Len(q) : r[i] = q[i]
  OBVIOUS
<1> HIDE DEF r
<1>2. \A i \in 1..Len(q) : q[i] \in Elems(q)
  BY DEF Elems
<1> SUFFICES ASSUME NEW i \in 1..Len(r), NEW k \in 1..Len(r),
                    r[i].type \in Once,
                    r[k].type = r[i].type, r[k].job = r[i].job
             PROVE  k = i
  BY DEF Single, r
<1>3. CASE i \in 1..Len(q) /\ k \in 1..Len(q)
  BY <1>1, <1>3 DEF Single
<1>4. CASE i \in 1..Len(q) /\ k \notin 1..Len(q)
  <2>1. k = Len(q) + 1
    BY <1>1, <1>4
  <2> QED
    BY <1>1, <1>2, <1>4, <2>1
<1>5. CASE i \notin 1..Len(q) /\ k \in 1..Len(q)
  <2>1. i = Len(q) + 1
    BY <1>1, <1>5
  <2> QED
    BY <1>1, <1>2, <1>5, <2>1
<1>6. CASE i \notin 1..Len(q) /\ k \notin 1..Len(q)
  BY <1>1, <1>6
<1> QED
  BY <1>3, <1>4, <1>5, <1>6

LEMMA SingleTail ==
    ASSUME NEW q \in Seq(Event), Single(q), q # <<>>
    PROVE  /\ Single(Tail(q))
           /\ Head(q).type \in Once
                => \A f \in Elems(Tail(q)) : f.type = Head(q).type => f.job # Head(q).job
<1> DEFINE t == Tail(q)
<1>1. /\ Len(t) = Len(q) - 1 /\ Len(q) \in Nat /\ Len(q) > 0 /\ Head(q) = q[1]
      /\ \A i \in 1..Len(t) : t[i] = q[i + 1]
  OBVIOUS
<1> HIDE DEF t
<1>2. \A i \in 1..Len(t) : i + 1 \in 1..Len(q) /\ t[i] = q[i + 1]
  BY <1>1
<1>3. Single(t)
  <2>1. \A i, k \in 1..Len(t) : i + 1 = k + 1 => i = k
    BY <1>1
  <2> QED
    BY <1>2, <2>1, ZenonT(90) DEF Single
<1>4. ASSUME q[1].type \in Once, NEW i \in 1..Len(t), t[i].type = q[1].type
      PROVE  t[i].job # q[1].job
  <2>1. 1 \in 1..Len(q) /\ i + 1 # 1
    BY <1>1
  <2> QED
    BY <1>2, <1>4, <2>1 DEF Single
<1> QED
  BY <1>1, <1>3, <1>4 DEF t, Elems

LEMMA SingleConcat ==
    ASSUME NEW q \in Seq(Event), NEW r \in Seq(Event), Single(q),
           \A e \in Elems(r) : e.type \notin Once
    PROVE  Single(q \o r)
<1> DEFINE c == q \o r
<1>1. /\ Len(c) = Len(q) + Len(r) /\ Len(q) \in Nat /\ Len(r) \in Nat
      /\ \A i \in 1..Len(q) : c[i] = q[i]
      /\ \A i \in 1..Len(r) : c[Len(q) + i] = r[i]
  OBVIOUS
<1> HIDE DEF c
<1>2. ASSUME NEW i \in 1..Len(c), c[i].type \in Once
      PROVE  i \in 1..Len(q)
  <2>1. SUFFICES ASSUME i \notin 1..Len(q) PROVE FALSE
    OBVIOUS
  <2>2. i - Len(q) \in 1..Len(r) /\ c[i] = r[i - Len(q)]
    BY <1>1, <2>1
  <2> QED
    BY <1>2, <2>2 DEF Elems
<1> SUFFICES ASSUME NEW i \in 1..Len(c), NEW k \in 1..Len(c),
                    c[i].type \in Once,
                    c[k].type = c[i].type, c[k].job = c[i].job
             PROVE  k = i
  BY DEF Single, c
<1>3. i \in 1..Len(q) /\ k \in 1..Len(q)
  BY <1>2
<1> QED
  BY <1>1, <1>3 DEF Single

\* Emit() only lengthens the events.
LEMMA EmitFields ==
    ASSUME NEW s \in QState, NEW e \in Event
    PROVE  /\ Emit(s, e) \in QState
           /\ Elems(Emit(s, e).events) = Elems(s.events) \cup {e}
           /\ Emit(s, e) = [s EXCEPT !.events = Append(s.events, e)]
<1>1. s.events \in Seq(Event)
  BY DEF QState
<1>2. Append(s.events, e) \in Seq(Event) /\ Elems(Append(s.events, e)) = Elems(s.events) \cup {e}
  BY <1>1, ElemsAppend
<1> HIDE DEF Elems
<1> QED
  BY <1>2 DEF QState, Emit
-----------------------------------------------------------------------------
(* What the handlers of one job do. *)

Fin(j) == Signal("finished", j)
Pd(j) == Signal("packingDone", j)

\* The events of t are those of s and E, none of them a start or an end of a tool.
Adds(s, t, E) ==
    /\ Elems(t.events) = Elems(s.events) \cup E
    /\ Single(s.events) /\ (\A e \in E : e.type = "finished" => e \notin Elems(s.events))
         => Single(t.events)

Frame(s, t) ==
    /\ t.active = s.active /\ t.pending = s.pending /\ t.packing = s.packing
    /\ t.paused = s.paused /\ t.canceling = s.canceling /\ t.canceled = s.canceled
    /\ t.armed = s.armed /\ t.recheck = s.recheck /\ t.proc = s.proc
    /\ t.tunnel = s.tunnel /\ t.upsets = s.upsets

\* A job that has ended says nothing more.
Silent(s, t, j) ==
    /\ HasEnded(s, j)
    /\ t.stage = s.stage /\ t.packed = s.packed /\ t.tools = s.tools
    /\ Adds(s, t, {})

\* A job ends: its files are not opened, or it is over before.
Ends(s, t, j) ==
    /\ s.stage[j] \in {"waiting", "packing", "packed", "posting"}
    /\ t.stage = [s.stage EXCEPT ![j] = "ended"] /\ t.tools = s.tools
    /\ j \in s.canceled \/ s.stage[j] # "packed" \/ s.active = j
    /\ \/ t.packed = s.packed /\ Adds(s, t, {Fin(j)})
       \/ /\ t.packed = s.packed \cup {j} /\ j \notin s.canceled /\ s.active = j
          /\ Adds(s, t, {Fin(j)}) \/ Adds(s, t, {Fin(j), Pd(j)})

Packs(s, t, j) ==
    /\ s.stage[j] = "waiting" /\ j \in HasPacking /\ j \notin s.canceled
    /\ t.stage = [s.stage EXCEPT ![j] = "packing"] /\ t.tools = s.tools \cup {j}
    /\ t.packed = s.packed /\ Adds(s, t, {})

Packed(s, t, j) ==
    /\ s.stage[j] = "packing" /\ j \notin s.canceled /\ s.active # j
    /\ t.stage = [s.stage EXCEPT ![j] = "packed"] /\ t.tools = s.tools
    /\ t.packed = s.packed \cup {j} /\ Adds(s, t, {Pd(j)})

Posts(s, t, j) ==
    /\ s.stage[j] \in {"waiting", "packing", "packed"} /\ j \notin s.canceled /\ s.active = j
    /\ t.stage = [s.stage EXCEPT ![j] = "posting"] /\ t.tools = s.tools
    /\ t.packed = s.packed \cup {j}
    /\ Adds(s, t, {}) \/ Adds(s, t, {Pd(j)})

Even(s, t) == t.cmds = s.cmds /\ t.word = s.word /\ t.ended = s.ended

\* A job that was stopped takes back what made the shutdown due, and only a
\* transfer that ends well makes it due.
Dues(s, t, j) ==
    /\ s.cmds \subseteq t.cmds
    /\ \/ j \in s.canceled /\ t.ended = FALSE /\ t.word = s.word
       \/ /\ j \notin s.canceled \/ HasEnded(s, j)
          /\ t.ended = s.ended /\ t.word = s.word
       \/ /\ j \notin s.canceled /\ s.stage[j] = "posting"
          /\ t.ended = TRUE /\ t.word = "good"

JobStep(s, t, j) ==
    /\ t \in QState /\ Frame(s, t) /\ Dues(s, t, j)
    /\ Silent(s, t, j) \/ Ends(s, t, j) \/ Packs(s, t, j) \/ Packed(s, t, j) \/ Posts(s, t, j)

\* Nothing else is to happen to the job in hand.
Free(s, j) ==
    /\ \A e \in Elems(s.events) : e.type \in {"start", "toolEnded"} => e.job # j
    /\ j \in Elems(s.pending) => j = s.packing /\ j \in HasPacking
InHand(s, j) == j \notin s.tools /\ (j \in s.canceled \/ Free(s, j))

LEMMA EmitAdds ==
    ASSUME NEW s \in QState, NEW e \in Event, e.type \notin {"start", "toolEnded"}
    PROVE  Adds(s, Emit(s, e), {e})
<1>1. s.events \in Seq(Event)
  BY DEF QState
<1>2. Emit(s, e).events = Append(s.events, e)
  BY DEF Emit, QState
<1>3. ASSUME Single(s.events), e.type = "finished" => e \notin Elems(s.events)
      PROVE  Single(Append(s.events, e))
  <2>1. ASSUME NEW f \in Elems(s.events), e.type = "finished", f.type = e.type, f.job = e.job
        PROVE  f = e
    <3>1. f \in Event
      BY <1>1, <2>1, ElemsIn
    <3> QED
      BY <2>1, <3>1 DEF Event
  <2>2. e.type \in Once => \A f \in Elems(s.events) : f.type = e.type => f.job # e.job
    BY <1>3, <2>1 DEF Once
  <2> QED
    BY <1>1, <1>3, <2>2, SingleAppend
<1> QED
  BY <1>2, <1>3, EmitFields DEF Adds

EndDue(s, j, good) ==
    IF j \in s.canceled THEN FALSE ELSE IF s.armed /\ good THEN TRUE ELSE s.ended

LEMMA PostingJobEnded ==
    ASSUME NEW s \in QState, NEW j \in Jobs, NEW good \in BOOLEAN
    PROVE  /\ _onPostingJobEnded(s, j, good) = [s EXCEPT !.ended = EndDue(s, j, good)]
           /\ EndDue(s, j, good) \in BOOLEAN
<1>1. s = [s EXCEPT !.ended = s.ended] /\ s.ended \in BOOLEAN
  BY DEF QState
<1> QED
  BY <1>1 DEF _onPostingJobEnded, _resetShutdownCompletion, EndDue

LEMMA FinishFields ==
    ASSUME NEW s \in QState, NEW j \in Jobs, NEW good \in BOOLEAN
    PROVE  LET t == Finish(s, j, good)
           IN  /\ t \in QState /\ Frame(s, t)
               /\ t.stage = [s.stage EXCEPT ![j] = "ended"]
               /\ t.tools = s.tools /\ t.packed = s.packed
               /\ Adds(s, t, {Fin(j)})
               /\ s.cmds \subseteq t.cmds /\ t.word = s.word /\ t.ended = EndDue(s, j, good)
               /\ ~good => Dues(s, t, j)
<1> DEFINE u == [s EXCEPT !.stage[j] = "ended",
                          !.cmds = IF s.stage[j] = "posting" THEN @ \cup ({j} \cap HasCommand)
                                   ELSE @]
<1>1. /\ u \in QState /\ Frame(s, u) /\ u.events = s.events
      /\ u.stage = [s.stage EXCEPT ![j] = "ended"]
      /\ u.tools = s.tools /\ u.packed = s.packed
      /\ s.cmds \subseteq u.cmds /\ u.word = s.word /\ u.ended = s.ended
  BY JobQueueAssumption DEF QState, Frame, Stages
<1>2. Finish(s, j, good) = Emit(_onPostingJobEnded(u, j, good), Fin(j))
  BY DEF Finish, Fin
<1> HIDE DEF u
<1> DEFINE x == EndDue(u, j, good)
           v == [u EXCEPT !.ended = x]
<1>3. _onPostingJobEnded(u, j, good) = v /\ x \in BOOLEAN
  BY <1>1, PostingJobEnded
<1>9. x = EndDue(s, j, good)
  BY <1>1 DEF EndDue, Frame
<1> HIDE DEF x
<1>4. /\ v \in QState /\ Frame(u, v) /\ v.events = u.events
      /\ v.stage = u.stage /\ v.tools = u.tools /\ v.packed = u.packed
      /\ v.cmds = u.cmds /\ v.word = u.word /\ v.ended = x
  BY <1>1, <1>3 DEF QState, Frame
<1> HIDE DEF v
<1>5. Fin(j) \in Event /\ Fin(j).type = "finished"
  BY SignalIsEvent DEF Fin
<1> DEFINE w == Emit(v, Fin(j))
<1>6. w \in QState /\ Adds(v, w, {Fin(j)})
  BY <1>4, <1>5, EmitFields, EmitAdds
<1>7. /\ Frame(v, w) /\ w.stage = v.stage /\ w.tools = v.tools /\ w.packed = v.packed
      /\ w.cmds = v.cmds /\ w.word = v.word /\ w.ended = v.ended
  BY <1>4 DEF Emit, Frame, QState
<1>8. Finish(s, j, good) = w
  BY <1>2, <1>3
<1> HIDE DEF w
<1>10. s.cmds \subseteq w.cmds /\ w.word = s.word /\ w.ended = EndDue(s, j, good)
  BY <1>1, <1>4, <1>7, <1>9
<1>11. ~good => Dues(s, w, j)
  BY <1>10 DEF Dues, EndDue
<1> QED
  BY <1>1, <1>4, <1>6, <1>7, <1>8, <1>10, <1>11 DEF Frame, Adds

\* A job that was stopped ends, once.
LEMMA FinishIfCanceledStep ==
    ASSUME NEW s \in QState, NEW j \in Jobs, j \in s.canceled,
           s.stage[j] \notin {"new", "asking"}
    PROVE  JobStep(s, _finishIfCanceled(s, j), j)
<1> DEFINE t == _finishIfCanceled(s, j)
<1> SUFFICES JobStep(s, t, j)
  OBVIOUS
<1>0. s.stage[j] \in Stages
  BY DEF QState
<1>1. CASE HasEnded(s, j)
  <2>1. t = s
    BY <1>1 DEF _finishIfCanceled
  <2> HIDE DEF t
  <2> QED
    BY <1>1, <2>1 DEF JobStep, Silent, Frame, Adds, Dues
<1>2. CASE ~HasEnded(s, j)
  <2>1. t = Finish(s, j, FALSE)
    BY <1>2 DEF _finishIfCanceled
  <2> HIDE DEF t
  <2>2. /\ t \in QState /\ Frame(s, t)
        /\ t.stage = [s.stage EXCEPT ![j] = "ended"]
        /\ t.tools = s.tools /\ t.packed = s.packed
        /\ Adds(s, t, {Fin(j)}) /\ Dues(s, t, j)
    BY <2>1, FinishFields
  <2>3. s.stage[j] \in {"waiting", "packing", "packed", "posting"}
    BY <1>0, <1>2 DEF Stages, HasEnded
  <2> QED
    BY <2>2, <2>3 DEF JobStep, Ends, Dues, Even
<1> QED
  BY <1>1, <1>2

\* The files of the active job are opened, or it ends.
LEMMA PostFilesStep ==
    ASSUME NEW s \in QState, NEW j \in Jobs, NEW fails \in BOOLEAN,
           s.active = j, s.stage[j] = "packed" \/ Stopped(s, j), j \in s.packed \/ Stopped(s, j)
    PROVE  JobStep(s, _postFiles(s, j, fails), j)
<1> DEFINE t == _postFiles(s, j, fails)
<1> SUFFICES JobStep(s, t, j)
  OBVIOUS
<1>1. CASE j \in s.canceled
  <2>1. t = _finishIfCanceled(s, j)
    BY <1>1 DEF _postFiles
  <2> HIDE DEF t
  <2>2. s.stage[j] \notin {"new", "asking"}
    BY DEF Stopped, HasEnded
  <2> QED
    BY <1>1, <2>1, <2>2, FinishIfCanceledStep
<1>2. CASE j \notin s.canceled /\ fails /\ j \in MayFail
  <2>1. t = Finish(s, j, FALSE)
    BY <1>2 DEF _postFiles
  <2> HIDE DEF t
  <2>2. /\ t \in QState /\ Frame(s, t)
        /\ t.stage = [s.stage EXCEPT ![j] = "ended"]
        /\ t.tools = s.tools /\ t.packed = s.packed
        /\ Adds(s, t, {Fin(j)}) /\ Dues(s, t, j)
    BY <2>1, FinishFields
  <2> QED
    BY <1>2, <2>2 DEF JobStep, Ends, Stopped, Dues, Even
<1>3. CASE j \notin s.canceled /\ ~(fails /\ j \in MayFail)
  <2>1. t = [s EXCEPT !.stage[j] = "posting"]
    BY <1>3 DEF _postFiles
  <2> HIDE DEF t
  <2>2. /\ t \in QState /\ Frame(s, t) /\ t.events = s.events
        /\ t.stage = [s.stage EXCEPT ![j] = "posting"] /\ t.tools = s.tools
        /\ t.packed = s.packed
        /\ Even(s, t)
    BY <2>1 DEF QState, Frame, Stages, Even
  <2>3. t.packed = s.packed \cup {j}
    BY <1>3, <2>2 DEF Stopped
  <2> QED
    BY <1>3, <2>2, <2>3 DEF JobStep, Posts, Adds, Stopped, Dues, Even
<1> QED
  BY <1>1, <1>2, <1>3

\* startPosting() reaches the job.
LEMMA StartPostingStep ==
    ASSUME NEW s \in QState, NEW j \in Jobs, NEW fails \in BOOLEAN,
           (s.stage[j] = "waiting" /\ (j \in HasPacking \/ j = s.active)) \/ Stopped(s, j)
    PROVE  JobStep(s, onStartPosting(s, j, fails), j)
<1> DEFINE t == onStartPosting(s, j, fails)
<1> SUFFICES JobStep(s, t, j)
  OBVIOUS
<1>1. CASE j \in s.canceled
  <2>1. t = _finishIfCanceled(s, j)
    BY <1>1 DEF onStartPosting
  <2> HIDE DEF t
  <2>2. s.stage[j] \notin {"new", "asking"}
    BY DEF Stopped, HasEnded
  <2> QED
    BY <1>1, <2>1, <2>2, FinishIfCanceledStep
<1>2. CASE j \notin s.canceled /\ j \notin HasPacking
  <2> DEFINE u == [s EXCEPT !.packed = @ \cup {j}]
  <2>1. t = _postFiles(u, j, fails)
    BY <1>2 DEF onStartPosting
  <2> HIDE DEF t
  <2>2. /\ u \in QState /\ Frame(s, u) /\ u.events = s.events
        /\ u.stage = s.stage /\ u.tools = s.tools /\ u.packed = s.packed \cup {j}
        /\ Even(s, u)
    BY DEF QState, Frame, Even
  <2> HIDE DEF u
  <2>3. s.stage[j] = "waiting" /\ s.active = j /\ j \notin u.canceled
    BY <1>2, <2>2 DEF Stopped, Frame
  <2>4. CASE fails /\ j \in MayFail
    <3>1. t = Finish(u, j, FALSE)
      BY <2>1, <2>3, <2>4 DEF _postFiles
    <3> HIDE DEF t
    <3>2. /\ t \in QState /\ Frame(u, t)
          /\ t.stage = [u.stage EXCEPT ![j] = "ended"]
          /\ t.tools = u.tools /\ t.packed = u.packed
          /\ Adds(u, t, {Fin(j)}) /\ Dues(u, t, j)
      BY <2>2, <3>1, FinishFields
    <3> QED
      BY <1>2, <2>2, <2>3, <3>2 DEF JobStep, Ends, Frame, Adds, Dues, Even
  <2>5. CASE ~(fails /\ j \in MayFail)
    <3>1. t = [u EXCEPT !.stage[j] = "posting"]
      BY <2>1, <2>3, <2>5 DEF _postFiles
    <3> HIDE DEF t
    <3>2. /\ t \in QState /\ Frame(u, t) /\ t.events = u.events
          /\ t.stage = [u.stage EXCEPT ![j] = "posting"] /\ t.tools = u.tools
          /\ t.packed = u.packed
          /\ Even(u, t)
      BY <2>2, <3>1 DEF QState, Frame, Stages, Even
    <3> QED
      BY <1>2, <2>2, <2>3, <3>2 DEF JobStep, Posts, Frame, Adds, Dues, Even
  <2> QED
    BY <2>4, <2>5
<1>3. CASE j \notin s.canceled /\ j \in HasPacking /\ fails /\ j \in MayFail
  <2>1. t = Finish(s, j, FALSE)
    BY <1>3 DEF onStartPosting
  <2> HIDE DEF t
  <2>2. /\ t \in QState /\ Frame(s, t)
        /\ t.stage = [s.stage EXCEPT ![j] = "ended"]
        /\ t.tools = s.tools /\ t.packed = s.packed
        /\ Adds(s, t, {Fin(j)}) /\ Dues(s, t, j)
    BY <2>1, FinishFields
  <2> QED
    BY <1>3, <2>2 DEF JobStep, Ends, Stopped, Dues, Even
<1>4. CASE j \notin s.canceled /\ j \in HasPacking /\ ~(fails /\ j \in MayFail)
  <2>1. t = [s EXCEPT !.stage[j] = "packing", !.tools = @ \cup {j}]
    BY <1>4 DEF onStartPosting
  <2> HIDE DEF t
  <2>2. /\ t \in QState /\ Frame(s, t) /\ t.events = s.events
        /\ t.stage = [s.stage EXCEPT ![j] = "packing"] /\ t.tools = s.tools \cup {j}
        /\ t.packed = s.packed
        /\ Even(s, t)
    BY <2>1 DEF QState, Frame, Stages, Even
  <2> QED
    BY <1>4, <2>2 DEF JobStep, Packs, Adds, Stopped, Dues, Even
<1> QED
  BY <1>1, <1>2, <1>3, <1>4

\* The tool of the job has ended.
LEMMA ToolEndedStep ==
    ASSUME NEW s \in QState, NEW j \in Jobs, NEW ok \in BOOLEAN, NEW fails \in BOOLEAN,
           s.stage[j] = "packing" \/ Stopped(s, j)
    PROVE  JobStep(s, onToolEnded(s, j, ok, fails), j)
<1> DEFINE t == onToolEnded(s, j, ok, fails)
<1> SUFFICES JobStep(s, t, j)
  OBVIOUS
<1>1. CASE j \in s.canceled
  <2>1. t = _finishIfCanceled(s, j)
    BY <1>1 DEF onToolEnded
  <2> HIDE DEF t
  <2>2. s.stage[j] \notin {"new", "asking"}
    BY DEF Stopped, HasEnded
  <2> QED
    BY <1>1, <2>1, <2>2, FinishIfCanceledStep
<1>2. CASE j \notin s.canceled /\ ~ok
  <2>1. t = Finish(s, j, FALSE)
    BY <1>2 DEF onToolEnded
  <2> HIDE DEF t
  <2>2. /\ t \in QState /\ Frame(s, t)
        /\ t.stage = [s.stage EXCEPT ![j] = "ended"]
        /\ t.tools = s.tools /\ t.packed = s.packed
        /\ Adds(s, t, {Fin(j)}) /\ Dues(s, t, j)
    BY <2>1, FinishFields
  <2> QED
    BY <1>2, <2>2 DEF JobStep, Ends, Stopped, Dues, Even
<1>3. CASE j \notin s.canceled /\ ok
  <2> DEFINE u == [s EXCEPT !.packed = @ \cup {j}, !.stage[j] = "packed"]
             v == IF j = s.active THEN _postFiles(u, j, fails) ELSE u
  <2>1. t = Emit(v, Pd(j))
    BY <1>3 DEF onToolEnded, Pd
  <2> HIDE DEF t
  <2>2. /\ u \in QState /\ Frame(s, u) /\ u.events = s.events
        /\ u.stage = [s.stage EXCEPT ![j] = "packed"] /\ u.tools = s.tools
        /\ u.packed = s.packed \cup {j}
        /\ Even(s, u)
    BY DEF QState, Frame, Stages, Even
  <2> HIDE DEF u
  <2>3. s.stage[j] = "packing" /\ j \notin u.canceled
    BY <1>3, <2>2 DEF Stopped, Frame
  <2>4. Pd(j) \in Event /\ Pd(j).type = "packingDone"
    BY SignalIsEvent DEF Pd
  <2>5. ASSUME v \in QState
        PROVE  /\ t \in QState /\ Frame(v, t) /\ Adds(v, t, {Pd(j)})
               /\ t.stage = v.stage /\ t.tools = v.tools /\ t.packed = v.packed
               /\ Even(v, t)
    <3> HIDE DEF v
    <3>1. t \in QState /\ Adds(v, t, {Pd(j)})
      BY <2>1, <2>4, <2>5, EmitFields, EmitAdds
    <3>2. Frame(v, t) /\ t.stage = v.stage /\ t.tools = v.tools /\ t.packed = v.packed /\ Even(v, t)
      BY <2>1, <2>5 DEF Emit, Frame, QState, Even
    <3> QED
      BY <3>1, <3>2
  <2>6. CASE j # s.active
    <3>1. v = u
      BY <2>6
    <3> HIDE DEF v
    <3> QED
      BY <1>3, <2>2, <2>3, <2>5, <2>6, <3>1 DEF JobStep, Packed, Frame, Adds, Dues, Even
  <2>7. CASE j = s.active /\ fails /\ j \in MayFail
    <3>1. v = Finish(u, j, FALSE)
      BY <2>3, <2>7 DEF _postFiles
    <3> HIDE DEF v
    <3>2. /\ v \in QState /\ Frame(u, v)
          /\ v.stage = [u.stage EXCEPT ![j] = "ended"]
          /\ v.tools = u.tools /\ v.packed = u.packed
          /\ Adds(u, v, {Fin(j)}) /\ Dues(u, v, j)
      BY <2>2, <3>1, FinishFields
    <3>3. Adds(s, t, {Fin(j), Pd(j)})
      <4>1. Elems(u.events) = Elems(s.events) /\ Pd(j).type # "finished"
        BY <2>2, <2>4
      <4> QED
        BY <2>2, <2>5, <3>2, <4>1 DEF Adds
    <3>4. t.stage = [s.stage EXCEPT ![j] = "ended"]
      BY <2>2, <2>5, <3>2 DEF QState
    <3> QED
      BY <1>3, <2>2, <2>3, <2>5, <2>7, <3>2, <3>3, <3>4 DEF JobStep, Ends, Frame, Dues, Even
  <2>8. CASE j = s.active /\ ~(fails /\ j \in MayFail)
    <3>1. v = [u EXCEPT !.stage[j] = "posting"]
      BY <2>3, <2>8 DEF _postFiles
    <3> HIDE DEF v
    <3>2. /\ v \in QState /\ Frame(u, v) /\ v.events = u.events
          /\ v.stage = [u.stage EXCEPT ![j] = "posting"] /\ v.tools = u.tools
          /\ v.packed = u.packed
          /\ Even(u, v)
      BY <2>2, <3>1 DEF QState, Frame, Stages, Even
    <3>3. Adds(s, t, {Pd(j)})
      BY <2>2, <2>5, <3>2 DEF Adds
    <3>4. t.stage = [s.stage EXCEPT ![j] = "posting"]
      BY <2>2, <2>5, <3>2 DEF QState
    <3> QED
      BY <1>3, <2>2, <2>3, <2>5, <2>8, <3>2, <3>3, <3>4 DEF JobStep, Posts, Frame, Dues, Even
  <2> QED
    BY <2>6, <2>7, <2>8
<1> QED
  BY <1>1, <1>2, <1>3

\* The slot of stopPosting() runs.
LEMMA StopPostingStep ==
    ASSUME NEW s \in QState, NEW j \in Jobs, j \in s.canceled,
           s.stage[j] \notin {"new", "asking"}
    PROVE  \/ onStopPosting(s, j) = s
           \/ j \notin s.tools /\ JobStep(s, onStopPosting(s, j), j)
BY FinishIfCanceledStep DEF onStopPosting

\* The transfer of the job has ended.
LEMMA TransferEndedStep ==
    ASSUME NEW s \in QState, NEW j \in Jobs, NEW good \in BOOLEAN,
           s.stage[j] = "posting" \/ HasEnded(s, j)
    PROVE  \/ onTransferEnded(s, j, good) = s
           \/ s.stage[j] = "posting" /\ JobStep(s, onTransferEnded(s, j, good), j)
<1> DEFINE t == onTransferEnded(s, j, good)
<1>1. CASE HasEnded(s, j)
  BY <1>1 DEF onTransferEnded
<1>2. CASE ~HasEnded(s, j)
  <2> DEFINE u == Finish(s, j, good)
             w == IF s.armed /\ good /\ j \notin s.canceled THEN "good" ELSE u.word
  <2>1. /\ u \in QState /\ Frame(s, u)
        /\ u.stage = [s.stage EXCEPT ![j] = "ended"]
        /\ u.tools = s.tools /\ u.packed = s.packed
        /\ Adds(s, u, {Fin(j)})
        /\ s.cmds \subseteq u.cmds /\ u.word = s.word /\ u.ended = EndDue(s, j, good)
    BY FinishFields
  <2>2. t = [u EXCEPT !.word = w]
    BY <1>2 DEF onTransferEnded
  <2> HIDE DEF u, t
  <2>3. w \in {"none", "good", "stop"}
    BY <2>1 DEF QState
  <2>7. w = IF s.armed /\ good /\ j \notin s.canceled THEN "good" ELSE s.word
    BY <2>1
  <2> HIDE DEF w
  <2>4. /\ t \in QState /\ Frame(u, t) /\ t.events = u.events
        /\ t.stage = u.stage /\ t.tools = u.tools /\ t.packed = u.packed
        /\ t.cmds = u.cmds /\ t.ended = u.ended /\ t.word = w
    BY <2>1, <2>2, <2>3 DEF QState, Frame, Even
  <2>5. s.stage[j] = "posting"
    BY <1>2
  <2>8. Dues(s, t, j)
    BY <2>1, <2>4, <2>5, <2>7 DEF Dues, EndDue
  <2>6. JobStep(s, t, j)
    BY <2>1, <2>4, <2>5, <2>8 DEF JobStep, Ends, Frame, Adds
  <2> QED
    BY <2>5, <2>6 DEF t
<1> QED
  BY <1>1, <1>2

\* What a step of one job adds to the events, and does to the stages.
LEMMA JobStepMoves ==
    ASSUME NEW s \in QState, NEW j \in Jobs, NEW t, JobStep(s, t, j)
    PROVE  /\ t \in QState /\ Frame(s, t)
           /\ \A e \in Elems(t.events) : \/ e \in Elems(s.events)
                                         \/ e = Fin(j) /\ t.stage[j] = "ended"
                                         \/ e = Pd(j) /\ j \in t.packed /\ t.stage[j] # "deleted"
           /\ Elems(s.events) \subseteq Elems(t.events)
           /\ Single(s.events) /\ (HasEnded(s, j) \/ Fin(j) \notin Elems(s.events))
                => Single(t.events)
           /\ t.stage \in [Jobs -> Stages] /\ s.stage \in [Jobs -> Stages]
           /\ \A k \in Jobs : k # j =>
                 /\ t.stage[k] = s.stage[k] /\ (k \in t.packed <=> k \in s.packed)
                 /\ (k \in t.tools <=> k \in s.tools)
           /\ s.packed \subseteq t.packed
<1>1. t \in QState /\ Frame(s, t)
  BY DEF JobStep
<1>2. t.stage \in [Jobs -> Stages] /\ s.stage \in [Jobs -> Stages]
  BY <1>1 DEF QState
<1>8. Pd(j).type # "finished"
  BY SignalIsEvent DEF Pd
<1>3. CASE Silent(s, t, j)
  BY <1>1, <1>2, <1>3 DEF Silent, Adds
<1>4. CASE Ends(s, t, j)
  BY <1>1, <1>2, <1>4, <1>8 DEF Ends, Adds, HasEnded
<1>5. CASE Packs(s, t, j)
  BY <1>1, <1>2, <1>5 DEF Packs, Adds
<1>6. CASE Packed(s, t, j)
  BY <1>1, <1>2, <1>6, <1>8 DEF Packed, Adds
<1>7. CASE Posts(s, t, j)
  BY <1>1, <1>2, <1>7, <1>8 DEF Posts, Adds
<1> QED
  BY <1>3, <1>4, <1>5, <1>6, <1>7 DEF JobStep

\* A step of the job in hand keeps the invariant.
LEMMA JobStepSafe ==
    ASSUME NEW s, Safe(s), NEW j \in Jobs, NEW t, JobStep(s, t, j),
           HasEnded(s, j) \/ InHand(s, j)
    PROVE  Safe(t)
<1>1. /\ s \in QState /\ Placed(s) /\ Ahead(s) /\ Untouched(s) /\ Tools(s)
      /\ EventsOK(s) /\ Single(s.events) /\ OneAhead(s)
  BY DEF Safe
<1>2. /\ t \in QState /\ Frame(s, t)
      /\ \A e \in Elems(t.events) : \/ e \in Elems(s.events)
                                    \/ e = Fin(j) /\ t.stage[j] = "ended"
                                    \/ e = Pd(j) /\ j \in t.packed /\ t.stage[j] # "deleted"
      /\ t.stage \in [Jobs -> Stages] /\ s.stage \in [Jobs -> Stages]
      /\ \A k \in Jobs : k # j => /\ t.stage[k] = s.stage[k] /\ (k \in t.packed <=> k \in s.packed)
                                  /\ (k \in t.tools <=> k \in s.tools)
      /\ s.packed \subseteq t.packed
  BY <1>1, JobStepMoves
<1>3. /\ Fin(j).type = "finished" /\ Fin(j).job = j
      /\ Pd(j).type = "packingDone" /\ Pd(j).job = j
  BY DEF Fin, Pd, Signal
<1>4. /\ s.packed \subseteq Jobs /\ s.tools \subseteq Jobs /\ t.packed \subseteq Jobs
      /\ t.tools \subseteq Jobs /\ s.canceled \subseteq Jobs
      /\ s.active \in Jobs \cup {NoJob} /\ s.packing \in Jobs \cup {NoJob}
      /\ s.pending \in Seq(Jobs) /\ s.events \in Seq(Event)
  <2>1. s \in QState /\ t \in QState
    BY <1>1, <1>2
  <2> QED
    BY <2>1 DEF QState
<1>5. Elems(s.pending) \subseteq Jobs /\ Elems(s.events) \subseteq Event
  BY <1>4, ElemsIn
<1>6. \A e \in Elems(s.events) : JobEvent(e) => e.job \in Jobs
  BY <1>5, EventJob
<1>7. Silent(s, t, j) \/ Ends(s, t, j) \/ Packs(s, t, j) \/ Packed(s, t, j) \/ Posts(s, t, j)
  BY DEF JobStep
<1>8. /\ t.stage[j] = s.stage[j] \/ s.stage[j] \in {"waiting", "packing", "packed", "posting"}
      /\ t.stage[j] \in Submitted <=> s.stage[j] \in Submitted
      /\ t.stage[j] = "posting" => s.stage[j] = "posting" \/ s.active = j
  BY <1>2, <1>7 DEF Silent, Ends, Packs, Packed, Posts, Submitted
<1>9. /\ t.active = s.active /\ t.pending = s.pending /\ t.packing = s.packing
      /\ t.canceled = s.canceled /\ t.upsets = s.upsets
  BY <1>2 DEF Frame
<1>10. Placed(t)
  <2>1. \A k \in Jobs : t.stage[k] \in Submitted <=> (t.active = k \/ k \in Elems(t.pending))
    <3>1. \A k \in Jobs : t.stage[k] \in Submitted <=> s.stage[k] \in Submitted
      BY <1>2, <1>8
    <3> QED
      BY <1>1, <1>9, <3>1 DEF Placed
  <2>2. \A k \in Jobs : t.stage[k] = "posting" => t.active = k
    <3>1. \A k \in Jobs : t.stage[k] = "posting" => s.stage[k] = "posting" \/ s.active = k
      BY <1>2, <1>8
    <3> QED
      BY <1>1, <1>9, <3>1 DEF Placed
  <2> QED
    BY <1>1, <1>9, <2>1, <2>2 DEF Placed
<1>11. Ahead(t)
  <2>1. s.packing = j => (t.stage[j] = "deleted" <=> s.stage[j] = "deleted")
    BY <1>8, <1>7, <1>2 DEF Silent, Ends, Packs, Packed, Posts
  <2>2. ASSUME s.packing # NoJob, ~(s.pending # <<>> /\ Head(s.pending) = s.packing)
        PROVE  \A e \in Elems(t.events) : JobEvent(e) => e.job # s.packing
    <3>1. s.stage[s.packing] = "deleted"
          /\ \A e \in Elems(s.events) : JobEvent(e) => e.job # s.packing
      BY <1>1, <2>2 DEF Ahead
    <3> QED
      BY <1>2, <1>3, <2>1, <3>1
  <2>3. s.packing # NoJob => (t.stage[s.packing] = "deleted" <=> s.stage[s.packing] = "deleted")
    BY <1>2, <1>4, <2>1
  <2> QED
    BY <1>1, <1>9, <2>2, <2>3 DEF Ahead
<1>12. Single(t.events)
  <2>1. HasEnded(s, j) \/ Fin(j) \notin Elems(s.events)
    <3>1. Fin(j).type = "finished" /\ Fin(j).job = j
      BY SignalIsEvent DEF Fin
    <3> QED
      BY <1>1, <3>1 DEF EventsOK, EventOK, HasEnded
  <2> QED
    BY <1>1, <2>1, JobStepMoves
<1>13. OneAhead(t)
  BY <1>1, <1>2, <1>4, <1>7 DEF OneAhead, Idles, Frame, Silent, Ends, Packs, Packed, Posts

\* Where j was in hand, nothing else is to come of it.
<1>14. t.stage[j] # s.stage[j] => InHand(s, j)
  BY <1>8 DEF HasEnded
<1>15. Untouched(t)
  <2> SUFFICES ASSUME NEW k \in Elems(s.pending), k # s.packing \/ k \notin HasPacking
               PROVE  /\ t.stage[k] = "waiting" \/ Stopped(t, k)
                      /\ k \notin t.packed
                      /\ \A e \in Elems(t.events) : e.type = "start" => e.job # k
    BY <1>9 DEF Untouched
  <2>1. /\ s.stage[k] = "waiting" \/ Stopped(s, k)
        /\ k \notin s.packed
        /\ \A e \in Elems(s.events) : e.type = "start" => e.job # k
    BY <1>1 DEF Untouched
  <2>2. \A e \in Elems(t.events) : e.type = "start" => e.job # k
    BY <1>2, <1>3, <2>1
  <2>3. CASE k # j
    BY <1>2, <1>5, <1>9, <2>1, <2>2, <2>3 DEF Stopped, HasEnded
  <2>4. CASE k = j
    <3>1. s.active # j
      BY <1>1, <2>4 DEF Placed
    <3>2. CASE t.stage[j] = s.stage[j]
      <4>1. t.packed = s.packed
        BY <1>2, <1>7, <3>2, <2>4, <2>1 DEF Silent, Ends, Packs, Packed, Posts
      <4> QED
        BY <1>9, <2>1, <2>2, <2>4, <3>2, <4>1 DEF Stopped, HasEnded
    <3>3. CASE t.stage[j] # s.stage[j]
      <4>1. j \in s.canceled
        BY <1>14, <2>4, <3>3 DEF InHand, Free
      <4>2. t.stage[j] = "ended" /\ t.packed = s.packed
        BY <1>2, <1>7, <3>1, <3>3, <4>1 DEF Silent, Ends, Packs, Packed, Posts
      <4> QED
        BY <1>9, <2>1, <2>2, <2>4, <4>1, <4>2 DEF Stopped, HasEnded
    <3> QED
      BY <3>2, <3>3
  <2> QED
    BY <2>3, <2>4
<1>16. Tools(t)
  <2>1. ASSUME NEW k \in t.tools PROVE t.stage[k] = "packing"
    <3>1. CASE k # j
      BY <1>1, <1>2, <1>4, <2>1, <3>1 DEF Tools
    <3>2. CASE k = j
      <4>1. CASE t.stage[j] = s.stage[j]
        <5>1. t.tools = s.tools
          BY <1>7, <4>1, <1>2 DEF Silent, Ends, Packs, Packed, Posts
        <5> QED
          BY <1>1, <3>2, <4>1, <5>1 DEF Tools
      <4>2. CASE t.stage[j] # s.stage[j]
        BY <1>2, <1>7, <1>14, <3>2, <4>2 DEF InHand, Silent, Ends, Packs, Packed, Posts
      <4> QED
        BY <4>1, <4>2
    <3> QED
      BY <3>1, <3>2
  <2>2. ASSUME NEW k \in Jobs, t.stage[k] = "packing" PROVE k \in HasPacking
    <3>1. CASE k # j
      BY <1>1, <1>2, <2>2, <3>1 DEF Tools
    <3>2. CASE k = j
      BY <1>1, <1>2, <1>7, <2>2, <3>2 DEF Tools, Silent, Ends, Packs, Packed, Posts
    <3> QED
      BY <3>1, <3>2
  <2>3. ASSUME NEW k \in t.packed
        PROVE  t.stage[k] \notin {"new", "asking", "waiting", "packing"}
    <3>1. CASE k # j
      BY <1>1, <1>2, <1>4, <3>1 DEF Tools
    <3>2. CASE k = j
      BY <1>1, <1>2, <1>7, <2>3, <3>2 DEF Tools, Silent, Ends, Packs, Packed, Posts
    <3> QED
      BY <3>1, <3>2
  <2>4. ASSUME NEW k \in Elems(s.pending), k \in t.packed
        PROVE  t.stage[k] = "packed" \/ Stopped(t, k)
    <3>1. CASE k # j
      BY <1>1, <1>2, <1>5, <1>9, <2>4, <3>1 DEF Tools, Stopped, HasEnded
    <3>2. CASE k = j
      <4>1. s.active # j
        BY <1>1, <3>2 DEF Placed
      <4>2. j \in s.packed => s.stage[j] = "packed" \/ Stopped(s, j)
        BY <1>1, <3>2 DEF Tools
      <4>3. j \notin s.packed => t.stage[j] = "packed"
        BY <1>2, <1>7, <2>4, <3>2, <4>1 DEF Silent, Ends, Packs, Packed, Posts
      <4>4. CASE j \in s.packed
        BY <1>2, <1>7, <1>9, <3>2, <4>1, <4>2, <4>4
           DEF Silent, Ends, Packs, Packed, Posts, Stopped, HasEnded
      <4> QED
        BY <3>2, <4>3, <4>4
    <3> QED
      BY <3>1, <3>2
  <2> QED
    BY <1>9, <2>1, <2>2, <2>3, <2>4 DEF Tools
<1>17. EventsOK(t)
  <2> SUFFICES ASSUME NEW e \in Elems(t.events)
               PROVE  EventOK(t, e)
    BY DEF EventsOK
  <2>1. CASE e = Fin(j) /\ t.stage[j] = "ended"
    BY <1>3, <2>1 DEF EventOK, HasEnded
  <2>2. CASE e = Pd(j) /\ j \in t.packed
    BY <1>3, <2>2 DEF EventOK
  <2>3. CASE e \in Elems(s.events) /\ ~JobEvent(e)
    BY <2>3 DEF EventOK, JobEvent
  <2>4. CASE e \in Elems(s.events) /\ JobEvent(e) /\ e.job # j
    <3>1. EventOK(s, e) /\ e.job \in Jobs
      BY <1>1, <1>6, <2>4 DEF EventsOK
    <3>2. t.stage[e.job] = s.stage[e.job] /\ (e.job \in t.tools <=> e.job \in s.tools)
          /\ (e.job \in t.packed <=> e.job \in s.packed)
      BY <1>2, <2>4, <3>1
    <3> QED
      BY <1>9, <3>1, <3>2 DEF EventOK, Started, Stopped, HasEnded
  <2>5. CASE e \in Elems(s.events) /\ JobEvent(e) /\ e.job = j
    <3>1. EventOK(s, e)
      BY <1>1, <2>5 DEF EventsOK
    <3>2. CASE t.stage[j] = s.stage[j]
      <4>1. t.packed = s.packed /\ t.tools = s.tools
        BY <1>2, <1>7, <3>2 DEF Silent, Ends, Packs, Packed, Posts
      <4> QED
        BY <1>9, <2>5, <3>1, <3>2, <4>1 DEF EventOK, Started, Stopped, HasEnded
    <3>3. CASE t.stage[j] # s.stage[j]
      <4>1. e.type \in {"start", "toolEnded"} => t.stage[j] = "ended" /\ j \in s.canceled
        BY <1>2, <1>7, <1>14, <2>5, <3>3 DEF InHand, Free, Silent, Ends, Packs, Packed, Posts
      <4>2. e.type = "toolEnded" => j \notin t.tools
        BY <1>7, <1>14, <3>3, <4>1, <1>2 DEF InHand, Silent, Ends, Packs, Packed, Posts
      <4>3. e.type = "stop" => j \in s.canceled /\ t.stage[j] \notin {"new", "asking"}
        BY <1>2, <1>7, <2>5, <3>1, <3>3 DEF EventOK, Silent, Ends, Packs, Packed, Posts
      <4>4. e.type = "transferEnded" => t.stage[j] = "posting" \/ HasEnded(t, j)
        BY <1>2, <1>7, <2>5, <3>1, <3>3 DEF EventOK, HasEnded, Silent, Ends, Packs, Packed, Posts
      <4>5. e.type = "packingDone" => j \in t.packed
        BY <1>2, <1>8, <2>5, <3>1, <3>3 DEF EventOK
      <4>6. e.type # "finished"
        BY <1>8, <2>5, <3>1, <3>3 DEF EventOK, HasEnded
      <4> QED
        BY <1>9, <2>5, <4>1, <4>2, <4>3, <4>4, <4>5, <4>6 DEF EventOK, Started, Stopped, HasEnded
    <3> QED
      BY <3>2, <3>3
  <2> QED
    BY <1>2, <2>1, <2>2, <2>3, <2>4, <2>5
<1> QED
  BY <1>2, <1>1, <1>10, <1>11, <1>12, <1>13, <1>15, <1>16, <1>17 DEF Safe
-----------------------------------------------------------------------------
(* What the handlers of the queue do on the way from one state to the next.  *)

AtWork == {"waiting", "packing", "packed", "posting"}

\* What makes the shutdown due came after the last stop; or that stop is of a job
\* whose end will take it back.
Earned(s) ==
    s.ended => s.word = "good" \/ \E j \in Jobs : j \in s.canceled /\ s.stage[j] \in AtWork

\* The flags stay, jobs only go forward, none that was stopped is started, and
\* events are only added.
Goes(s, t) ==
    /\ t.canceled = s.canceled /\ t.canceling = s.canceling /\ t.paused = s.paused
    /\ t.armed = s.armed /\ t.recheck = s.recheck /\ t.proc = s.proc
    /\ t.tunnel = s.tunnel /\ t.upsets = s.upsets
    /\ hasPostingJobs(s) => hasPostingJobs(t)
    /\ Elems(s.events) \subseteq Elems(t.events)
    /\ \A j \in Jobs : t.stage[j] # s.stage[j] =>
          /\ s.stage[j] \in AtWork /\ t.stage[j] \in {"packing", "packed", "posting", "ended"}
          /\ t.stage[j] \in {"packing", "posting"} => j \notin s.canceled
          /\ t.stage[j] = "ended" => Fin(j) \in Elems(t.events)
    /\ s.cmds \subseteq t.cmds
    /\ Earned(s) => Earned(t)
    /\ t.ended = TRUE => s.ended = TRUE \/ hasPostingJobs(t)

LEMMA GoesOn ==
    ASSUME NEW s, NEW t, NEW r, Goes(s, t), Goes(t, r)
    PROVE  Goes(s, r)
<1>1. ASSUME NEW j \in Jobs, r.stage[j] # s.stage[j]
      PROVE  /\ s.stage[j] \in AtWork /\ r.stage[j] \in {"packing", "packed", "posting", "ended"}
             /\ r.stage[j] \in {"packing", "posting"} => j \notin s.canceled
             /\ r.stage[j] = "ended" => Fin(j) \in Elems(r.events)
  <2>1. CASE r.stage[j] = t.stage[j]
    BY <1>1, <2>1 DEF Goes
  <2>2. CASE r.stage[j] # t.stage[j] /\ t.stage[j] = s.stage[j]
    BY <1>1, <2>2 DEF Goes
  <2>3. CASE r.stage[j] # t.stage[j] /\ t.stage[j] # s.stage[j]
    BY <1>1, <2>3 DEF Goes
  <2> QED
    BY <2>1, <2>2, <2>3
<1>2. r.ended = TRUE => s.ended = TRUE \/ hasPostingJobs(r)
  BY DEF Goes
<1> QED
  BY <1>1, <1>2 DEF Goes

LEMMA JobStepGoes ==
    ASSUME NEW s, Safe(s), NEW j \in Jobs, NEW t, JobStep(s, t, j)
    PROVE  Goes(s, t)
<1>1. s \in QState /\ Placed(s)
  BY DEF Safe
<1>2. /\ t \in QState /\ Frame(s, t) /\ Elems(s.events) \subseteq Elems(t.events)
      /\ \A k \in Jobs : k # j => t.stage[k] = s.stage[k]
  BY <1>1, JobStepMoves
<1>3. hasPostingJobs(s) <=> hasPostingJobs(t)
  BY <1>2 DEF Frame, hasPostingJobs
<1>4. Silent(s, t, j) \/ Ends(s, t, j) \/ Packs(s, t, j) \/ Packed(s, t, j) \/ Posts(s, t, j)
  BY DEF JobStep
<1>5. t.stage[j] # s.stage[j] =>
        /\ s.stage[j] \in AtWork /\ t.stage[j] \in {"packing", "packed", "posting", "ended"}
        /\ t.stage[j] \in {"packing", "posting"} => j \notin s.canceled
        /\ t.stage[j] = "ended" => Fin(j) \in Elems(t.events)
  <2>1. s.stage \in [Jobs -> Stages]
    BY <1>1 DEF QState
  <2> QED
    BY <1>4, <2>1 DEF Silent, Ends, Packs, Packed, Posts, AtWork, Adds
<1>6. Dues(s, t, j)
  BY DEF JobStep
<1>7. s.stage[j] = "posting" => hasPostingJobs(s)
  BY <1>1, JobQueueAssumption DEF Placed, hasPostingJobs
<1>8. t.ended = TRUE => s.ended = TRUE \/ hasPostingJobs(t)
  BY <1>3, <1>6, <1>7 DEF Dues
<1>9. Earned(s) => Earned(t)
  <2> SUFFICES ASSUME Earned(s), t.ended, t.word # "good"
               PROVE  \E k \in Jobs : k \in t.canceled /\ t.stage[k] \in AtWork
    BY DEF Earned
  <2>1. j \notin s.canceled \/ HasEnded(s, j)
    BY <1>6 DEF Dues
  <2>3. t.ended = s.ended /\ t.word = s.word
    BY <1>6 DEF Dues
  <2>2. PICK k \in Jobs : k \in s.canceled /\ s.stage[k] \in AtWork
    BY <2>3 DEF Earned
  <2>4. k # j
    BY <2>1, <2>2 DEF HasEnded, AtWork
  <2> QED
    BY <1>2, <2>2, <2>4 DEF Frame
<1> QED
  BY <1>2, <1>3, <1>5, <1>6, <1>8, <1>9 DEF Goes, Frame, Dues

\* A job that was not started may be told to.
LEMMA EmitStart ==
    ASSUME NEW s, Safe(s), NEW j \in Jobs,
           (s.stage[j] = "waiting" /\ (j \in HasPacking \/ j = s.active)) \/ Stopped(s, j),
           \A e \in Elems(s.events) : e.type = "start" => e.job # j,
           j = s.active \/ (s.pending # <<>> /\ j = Head(s.pending) /\ j = s.packing /\ j \in HasPacking)
    PROVE  Safe(Emit(s, Signal("start", j))) /\ Goes(s, Emit(s, Signal("start", j)))
<1> DEFINE e0 == Signal("start", j)
           t == Emit(s, e0)
<1> SUFFICES Safe(t) /\ Goes(s, t)
  OBVIOUS
<1>1. /\ s \in QState /\ Placed(s) /\ Ahead(s) /\ Untouched(s) /\ Tools(s)
      /\ EventsOK(s) /\ Single(s.events) /\ OneAhead(s)
  BY DEF Safe
<1>2. e0 \in Event /\ e0.type = "start" /\ e0.job = j
  BY SignalIsEvent
<1> HIDE DEF e0
<1>3. t \in QState /\ Elems(t.events) = Elems(s.events) \cup {e0}
  BY <1>1, <1>2, EmitFields
<1>4. /\ Frame(s, t) /\ Even(s, t) /\ t.stage = s.stage /\ t.packed = s.packed /\ t.tools = s.tools
      /\ t.events = Append(s.events, e0)
  BY <1>1, <1>2 DEF Emit, QState, Frame, Even
<1> HIDE DEF t
<1>5. Single(t.events)
  <2>1. s.events \in Seq(Event)
    BY <1>1 DEF QState
  <2> QED
    BY <1>1, <1>2, <1>4, <2>1, SingleAppend
<1>6. Placed(t) /\ Tools(t) /\ OneAhead(t)
  BY <1>1, <1>4 DEF Placed, Tools, OneAhead, Idles, Stopped, HasEnded, Frame
<1>7. j # NoJob
  BY JobQueueAssumption
<1>8. s.packing # NoJob /\ ~(s.pending # <<>> /\ Head(s.pending) = s.packing) => j # s.packing
  <2>1. SUFFICES ASSUME j = s.active, j = s.packing, s.stage[s.packing] = "deleted" PROVE FALSE
    BY <1>1 DEF Ahead
  <2> QED
    BY <1>1, <2>1 DEF Placed, Submitted
<1>9. Ahead(t)
  BY <1>1, <1>2, <1>3, <1>4, <1>8 DEF Ahead, Frame
<1>10. Untouched(t)
  <2> SUFFICES ASSUME NEW k \in Elems(s.pending), k # s.packing \/ k \notin HasPacking
               PROVE  /\ s.stage[k] = "waiting" \/ Stopped(s, k)
                      /\ k \notin s.packed
                      /\ \A e \in Elems(t.events) : e.type = "start" => e.job # k
    BY <1>4 DEF Untouched, Frame, Stopped, HasEnded
  <2>1. k # j
    BY <1>1 DEF Placed
  <2> QED
    BY <1>1, <1>2, <1>3, <2>1 DEF Untouched
<1>11. EventsOK(t)
  <2>1. EventOK(t, e0)
    BY <1>2, <1>4 DEF EventOK, Started, Stopped, HasEnded, Frame
  <2>2. ASSUME NEW e \in Elems(s.events) PROVE EventOK(t, e)
    <3>1. EventOK(s, e)
      BY <1>1 DEF EventsOK
    <3> QED
      BY <1>4, <3>1 DEF EventOK, Started, Stopped, HasEnded, Frame
  <2> QED
    BY <1>3, <2>1, <2>2 DEF EventsOK
<1>12. Goes(s, t)
  BY <1>3, <1>4 DEF Goes, Frame, Even, Earned, hasPostingJobs
<1> QED
  BY <1>3, <1>5, <1>6, <1>9, <1>10, <1>11, <1>12 DEF Safe

\* The next job is packed ahead.
LEMMA PrepareNext ==
    ASSUME NEW s, Safe(s), preparePacking, s.packing = NoJob, Idles(s) \/ "overtaken" \in s.upsets
    PROVE  Safe(_prepareNextPacking(s)) /\ Goes(s, _prepareNextPacking(s))
<1>0. Goes(s, s)
  BY DEF Goes
<1>1. CASE s.paused \/ s.canceling \/ s.pending = <<>>
  BY <1>0, <1>1 DEF _prepareNextPacking
<1>2. CASE ~(s.paused \/ s.canceling \/ s.pending = <<>>)
  <2>1. /\ s \in QState /\ Placed(s) /\ Ahead(s) /\ Untouched(s) /\ Tools(s)
        /\ EventsOK(s) /\ Single(s.events) /\ OneAhead(s)
    BY DEF Safe
  <2> DEFINE j == Head(s.pending)
             t == [s EXCEPT !.packing = j]
  <2>2. _prepareNextPacking(s) = IF j \in HasPacking THEN Emit(t, Signal("start", j)) ELSE t
    BY <1>2 DEF _prepareNextPacking
  <2>3. j \in Jobs /\ j \in Elems(s.pending)
    <3>1. s.pending \in Seq(Jobs) /\ s.pending # <<>>
      BY <1>2, <2>1 DEF QState
    <3> QED
      BY <3>1, ElemsTail
  <2>4. j # NoJob
    BY <2>3, JobQueueAssumption
  <2>5. /\ s.stage[j] = "waiting" \/ Stopped(s, j)
        /\ \A e \in Elems(s.events) : e.type = "start" => e.job # j
    BY <2>1, <2>3, <2>4 DEF Untouched
  <2>6. /\ t \in QState /\ t.packing = j /\ t.active = s.active /\ t.pending = s.pending
        /\ t.paused = s.paused /\ t.canceling = s.canceling /\ t.canceled = s.canceled
        /\ t.armed = s.armed /\ t.recheck = s.recheck /\ t.proc = s.proc
        /\ t.tunnel = s.tunnel /\ t.upsets = s.upsets /\ Even(s, t)
        /\ t.stage = s.stage /\ t.packed = s.packed /\ t.tools = s.tools /\ t.events = s.events
    BY <2>1, <2>3 DEF QState, Even
  <2> HIDE DEF t
  <2>7. Goes(s, t)
    BY <2>6 DEF Goes, Even, Earned, hasPostingJobs
  <2>8. Placed(t) /\ Tools(t) /\ EventsOK(t) /\ Single(t.events)
    BY <2>1, <2>6 DEF Placed, Tools, EventsOK, EventOK, Started, Stopped, HasEnded
  <2>9. Ahead(t)
    BY <1>2, <2>6 DEF Ahead
  <2>10. Untouched(t)
    BY <2>1, <2>4, <2>6, JobQueueAssumption, ElemsIn DEF Untouched, Stopped, HasEnded
  <2>11. OneAhead(t)
    BY <2>1, <2>6 DEF OneAhead, Idles
  <2>12. Safe(t)
    BY <2>6, <2>8, <2>9, <2>10, <2>11 DEF Safe
  <2>13. CASE j \in HasPacking
    <3>1. /\ t.stage[j] = "waiting" \/ Stopped(t, j)
          /\ \A e \in Elems(t.events) : e.type = "start" => e.job # j
      BY <2>5, <2>6 DEF Stopped, HasEnded
    <3>2. t.pending # <<>> /\ j = Head(t.pending) /\ j = t.packing
      BY <1>2, <2>6
    <3> HIDE DEF j
    <3>3. Safe(Emit(t, Signal("start", j))) /\ Goes(t, Emit(t, Signal("start", j)))
      BY <2>3, <2>12, <2>13, <3>1, <3>2, EmitStart
    <3> QED
      BY <2>2, <2>7, <2>13, <3>3, GoesOn
  <2>14. CASE j \notin HasPacking
    BY <2>2, <2>7, <2>12, <2>14
  <2> QED
    BY <2>13, <2>14
<1> QED
  BY <1>1, <1>2

\* The head of the queue becomes the active job; if it was packed ahead, no job
\* is any more.
LEMMA HeadActive ==
    ASSUME NEW s, Safe(s), s.active = NoJob, s.pending # <<>>, NEW p,
           p = NoJob \/ (p = s.packing /\ p # Head(s.pending))
    PROVE  LET j == Head(s.pending)
               t == [s EXCEPT !.active = j, !.pending = Tail(s.pending), !.packing = p]
           IN  /\ Safe(t) /\ Goes(s, t) /\ j \in Elems(s.pending) /\ j \in Jobs
               /\ t.active = j /\ t.packing = p /\ t.stage = s.stage /\ t.packed = s.packed
               /\ t.canceled = s.canceled /\ t.events = s.events /\ t.upsets = s.upsets
<1> DEFINE j == Head(s.pending)
           t == [s EXCEPT !.active = j, !.pending = Tail(s.pending), !.packing = p]
<1>1. /\ s \in QState /\ Placed(s) /\ Ahead(s) /\ Untouched(s) /\ Tools(s)
      /\ EventsOK(s) /\ Single(s.events) /\ OneAhead(s)
  BY DEF Safe
<1>2. s.pending \in Seq(Jobs)
  BY <1>1 DEF QState
<1>3. /\ Tail(s.pending) \in Seq(Jobs) /\ j \in Jobs
      /\ Elems(s.pending) = Elems(Tail(s.pending)) \cup {j}
      /\ IsInjectiveSeq(Tail(s.pending)) /\ j \notin Elems(Tail(s.pending))
  BY <1>1, <1>2, ElemsTail DEF Placed
<1>4. /\ t \in QState /\ t.active = j /\ t.packing = p /\ t.pending = Tail(s.pending)
      /\ t.paused = s.paused /\ t.canceling = s.canceling /\ t.canceled = s.canceled
      /\ t.armed = s.armed /\ t.recheck = s.recheck /\ t.proc = s.proc
      /\ t.tunnel = s.tunnel /\ t.upsets = s.upsets /\ Even(s, t)
      /\ t.stage = s.stage /\ t.packed = s.packed /\ t.tools = s.tools /\ t.events = s.events
  BY <1>1, <1>3 DEF QState, Even
<1> HIDE DEF t
<1>5. j # NoJob /\ s.active \notin Jobs
  BY <1>3, JobQueueAssumption
<1> HIDE DEF j
<1>6. Placed(t)
  <2>1. \A k \in Jobs : (t.active = k \/ k \in Elems(t.pending)) <=> (s.active = k \/ k \in Elems(s.pending))
    BY <1>3, <1>4, <1>5
  <2> QED
    BY <1>1, <1>3, <1>4, <1>5, <2>1 DEF Placed

\* A job that is packed ahead and not the head was deleted.
<1>7. p # NoJob => s.stage[p] = "deleted" /\ "monitoring" \in s.upsets
                   /\ \A e \in Elems(s.events) : JobEvent(e) => e.job # p
  BY <1>1 DEF Ahead, j
<1>8. Ahead(t)
  BY <1>1, <1>4, <1>7 DEF Ahead
<1>9. Untouched(t)
  <2> SUFFICES ASSUME NEW k \in Elems(t.pending)
               PROVE  /\ s.stage[k] = "waiting" \/ Stopped(s, k)
                      /\ k \notin s.packed
                      /\ \A e \in Elems(s.events) : e.type = "start" => e.job # k
    BY <1>4 DEF Untouched, Stopped, HasEnded
  <2>1. k \in Elems(s.pending) /\ k # j /\ k \in Jobs
    BY <1>2, <1>3, <1>4, ElemsIn
  <2>2. k # s.packing
    <3>1. SUFFICES ASSUME k = s.packing PROVE FALSE
      OBVIOUS
    <3>2. s.stage[k] = "deleted"
      BY <1>1, <2>1, <3>1, JobQueueAssumption DEF Ahead, j
    <3> QED
      BY <1>1, <2>1, <3>2 DEF Placed, Submitted
  <2> QED
    BY <1>1, <2>1, <2>2 DEF Untouched
<1>10. Tools(t)
  BY <1>1, <1>3, <1>4 DEF Tools, Stopped, HasEnded
<1>11. EventsOK(t)
  <2>1. ASSUME NEW e \in Elems(s.events) PROVE EventOK(t, e)
    <3>1. EventOK(s, e) /\ e \in Event
      <4>1. s.events \in Seq(Event)
        BY <1>1 DEF QState
      <4> QED
        BY <1>1, <4>1, ElemsIn DEF EventsOK
    <3>2. e.type = "start" => e.job # s.active
      BY <1>5, <3>1, EventJob DEF JobEvent
    <3> QED
      BY <1>4, <3>1, <3>2 DEF EventOK, Started, Stopped, HasEnded
  <2> QED
    BY <1>4, <2>1 DEF EventsOK
<1>12. Single(t.events) /\ OneAhead(t)
  BY <1>1, <1>4, <1>7 DEF OneAhead
<1>13. Goes(s, t)
  BY <1>3, <1>4, <1>5 DEF Goes, Even, Earned, hasPostingJobs
<1>14. Safe(t)
  BY <1>4, <1>6, <1>8, <1>9, <1>10, <1>11, <1>12 DEF Safe
<1> QED
  BY <1>3, <1>4, <1>13, <1>14 DEF j, t

\* The active job has its files opened: it is packed, or was stopped.
LEMMA PostFilesSafe ==
    ASSUME NEW s, Safe(s), NEW j \in Jobs, NEW fails \in BOOLEAN, s.active = j,
           s.stage[j] = "packed" \/ Stopped(s, j), j \in s.packed
    PROVE  LET t == _postFiles(s, j, fails)
           IN  /\ Safe(t) /\ Goes(s, t)
               /\ t.active = j /\ t.packing = s.packing /\ t.pending = s.pending /\ j \in t.packed
<1> DEFINE t == _postFiles(s, j, fails)
<1>1. s \in QState /\ Placed(s) /\ Tools(s) /\ EventsOK(s)
  BY DEF Safe
<1>2. JobStep(s, t, j)
  BY <1>1, PostFilesStep
<1>3. HasEnded(s, j) \/ InHand(s, j)
  <2>1. CASE HasEnded(s, j)
    BY <2>1
  <2>2. CASE s.stage[j] = "packed"
    BY <1>1, <2>2 DEF InHand, Free, Placed, Tools, EventsOK, EventOK, Started, Stopped, HasEnded
  <2> QED
    BY <2>1, <2>2 DEF Stopped
<1> HIDE DEF t
<1>4. Safe(t) /\ Goes(s, t)
  BY <1>2, <1>3, JobStepSafe, JobStepGoes
<1>5. Frame(s, t) /\ s.packed \subseteq t.packed
  BY <1>1, <1>2, JobStepMoves
<1> QED
  BY <1>4, <1>5 DEF Frame, t

\* The next job starts, whether it was packed ahead or not.
LEMMA StartNext ==
    ASSUME NEW s, Safe(s), NEW fails \in BOOLEAN
    PROVE  /\ Safe(_startNextPostingJob(s, fails))
           /\ Goes(s, _startNextPostingJob(s, fails))
<1> DEFINE j == Head(s.pending)
           t == [s EXCEPT !.active = j, !.pending = Tail(@)]
           u == [t EXCEPT !.packing = NoJob]
           r == _startNextPostingJob(s, fails)
<1> SUFFICES Safe(r) /\ Goes(s, r)
  OBVIOUS
<1>0. Goes(s, s)
  BY DEF Goes
<1>1. CASE \/ s.active # NoJob \/ s.paused \/ s.canceling \/ s.pending = <<>>
           \/ ~Proceeds(s, j)
  BY <1>0, <1>1 DEF _startNextPostingJob
<1>2. CASE ~(\/ s.active # NoJob \/ s.paused \/ s.canceling \/ s.pending = <<>>
             \/ ~Proceeds(s, j))
  <2>1. s \in QState /\ Placed(s) /\ Ahead(s) /\ Untouched(s) /\ Tools(s) /\ s.pending \in Seq(Jobs)
    BY DEF Safe, QState
  <2>2. j \in Jobs /\ j \in Elems(s.pending) /\ j # NoJob
    BY <1>2, <2>1, ElemsTail, JobQueueAssumption
  <2>3. r = CASE ~preparePacking -> Emit(t, Signal("start", j))
              [] preparePacking /\ s.packing = j /\ j \in s.packed ->
                    _prepareNextPacking(_postFiles(u, j, fails))
              [] preparePacking /\ s.packing = j /\ j \notin s.packed /\ j \notin HasPacking ->
                    _prepareNextPacking(Emit(u, Signal("start", j)))
              [] preparePacking /\ s.packing = j /\ j \notin s.packed /\ j \in HasPacking -> u
              [] preparePacking /\ s.packing = NoJob -> StartUnprepared(t, j)
              [] OTHER -> t
    BY <1>2 DEF _startNextPostingJob
  <2> HIDE DEF r
  <2>4. u = [s EXCEPT !.active = j, !.pending = Tail(s.pending), !.packing = NoJob]
    BY <2>1 DEF QState
  <2>5. t = [s EXCEPT !.active = j, !.pending = Tail(s.pending), !.packing = s.packing]
    BY <2>1 DEF QState
  <2> HIDE DEF u, t
  <2>6. /\ Safe(u) /\ Goes(s, u) /\ u.active = j /\ u.packing = NoJob
        /\ u.stage = s.stage /\ u.packed = s.packed /\ u.canceled = s.canceled
        /\ u.events = s.events
    <3>1. s.active = NoJob /\ s.pending # <<>>
      BY <1>2
    <3> DEFINE p == NoJob
    <3>2. p = NoJob \/ (p = s.packing /\ p # Head(s.pending))
      OBVIOUS
    <3>3. u = [s EXCEPT !.active = Head(s.pending), !.pending = Tail(s.pending), !.packing = p]
      BY <2>4
    <3> HIDE DEF p
    <3>4. /\ Safe(u) /\ Goes(s, u) /\ u.active = j /\ u.packing = p
          /\ u.stage = s.stage /\ u.packed = s.packed /\ u.canceled = s.canceled
          /\ u.events = s.events
      BY <3>1, <3>2, <3>3, HeadActive, ZenonT(90)
    <3> QED
      BY <3>4 DEF p
  <2>7. s.packing # j =>
        /\ Safe(t) /\ Goes(s, t) /\ t.active = j /\ t.packing = s.packing
        /\ t.stage = s.stage /\ t.packed = s.packed /\ t.canceled = s.canceled
        /\ t.events = s.events
    BY <1>2, <2>5, HeadActive, ZenonT(90)
  <2>8. s.packing # j \/ j \notin HasPacking =>
        /\ s.stage[j] = "waiting" \/ Stopped(s, j)
        /\ \A e \in Elems(s.events) : e.type = "start" => e.job # j
    BY <2>1, <2>2 DEF Untouched
  <2>9. j \in s.packed => s.stage[j] = "packed" \/ Stopped(s, j)
    BY <2>1, <2>2 DEF Tools
  <2> HIDE DEF j
  \* The start of j, in u or t.
  <2>10. ASSUME NEW x, Safe(x), Goes(s, x), x.active = j, s.packing # j \/ j \notin HasPacking,
                x.stage = s.stage, x.canceled = s.canceled, x.events = s.events
         PROVE  LET y == Emit(x, Signal("start", j))
                IN  Safe(y) /\ Goes(s, y) /\ y.active = j /\ y.packing = x.packing
    <3>1. Safe(Emit(x, Signal("start", j))) /\ Goes(x, Emit(x, Signal("start", j)))
      BY <2>2, <2>8, <2>10, EmitStart DEF Stopped, HasEnded
    <3>2. x \in QState
      BY <2>10 DEF Safe
    <3>3. Emit(x, Signal("start", j)).active = j /\ Emit(x, Signal("start", j)).packing = x.packing
      BY <2>10, <3>2 DEF Emit, QState
    <3> QED
      BY <2>10, <3>1, <3>3, GoesOn
  <2>11. CASE ~preparePacking
    <3>1. s.packing = NoJob
      BY <2>1, <2>11 DEF Ahead
    <3>2. r = Emit(t, Signal("start", j))
      BY <2>3, <2>11
    <3> QED
      BY <2>2, <2>7, <2>10, <3>1, <3>2
  <2>12. CASE preparePacking /\ s.packing = j /\ j \in s.packed
    <3> DEFINE v == _postFiles(u, j, fails)
    <3>1. r = _prepareNextPacking(v)
      BY <2>2, <2>3, <2>12
    <3>2. u.stage[j] = "packed" \/ Stopped(u, j)
      BY <2>6, <2>9, <2>12 DEF Stopped, HasEnded
    <3>3. Safe(v) /\ Goes(u, v) /\ v.active = j /\ v.packing = NoJob /\ j \in v.packed
      BY <2>2, <2>6, <2>12, <3>2, PostFilesSafe
    <3> HIDE DEF v
    <3>4. Safe(_prepareNextPacking(v)) /\ Goes(v, _prepareNextPacking(v))
      BY <2>12, <3>3, PrepareNext DEF Idles
    <3> QED
      BY <2>6, <3>1, <3>3, <3>4, GoesOn
  <2>13. CASE preparePacking /\ s.packing = j /\ j \notin s.packed /\ j \notin HasPacking
    <3> DEFINE v == Emit(u, Signal("start", j))
    <3>1. r = _prepareNextPacking(v)
      BY <2>2, <2>3, <2>13
    <3>2. Safe(v) /\ Goes(s, v) /\ v.active = j /\ v.packing = NoJob
      BY <2>6, <2>10, <2>13
    <3> HIDE DEF v
    <3>3. Safe(_prepareNextPacking(v)) /\ Goes(v, _prepareNextPacking(v))
      BY <2>13, <3>2, PrepareNext DEF Idles
    <3> QED
      BY <3>1, <3>2, <3>3, GoesOn
  <2>14. CASE preparePacking /\ s.packing = j /\ j \notin s.packed /\ j \in HasPacking
    BY <2>2, <2>3, <2>6, <2>14
  <2>15. CASE preparePacking /\ s.packing = NoJob
    <3> DEFINE v == Emit(t, Signal("start", j))
    <3>1. r = StartUnprepared(t, j)
      BY <2>2, <2>3, <2>15
    <3>2. r = IF j \in HasPacking THEN v ELSE _prepareNextPacking(v)
      BY <3>1 DEF StartUnprepared
    <3>3. Safe(v) /\ Goes(s, v) /\ v.active = j /\ v.packing = NoJob
      BY <2>2, <2>7, <2>10, <2>15
    <3> HIDE DEF v
    <3>4. CASE j \in HasPacking
      BY <3>2, <3>3, <3>4
    <3>5. CASE j \notin HasPacking
      <4>1. Safe(_prepareNextPacking(v)) /\ Goes(v, _prepareNextPacking(v))
        BY <2>15, <3>3, <3>5, PrepareNext DEF Idles
      <4> QED
        BY <3>2, <3>3, <3>5, <4>1, GoesOn
    <3> QED
      BY <3>4, <3>5
  <2>16. CASE preparePacking /\ s.packing # j /\ s.packing # NoJob
    <3>1. r = t
      BY <2>3, <2>16
    <3> QED
      BY <2>7, <2>16, <3>1
  <2> QED
    BY <2>11, <2>12, <2>13, <2>14, <2>15, <2>16
<1> QED
  BY <1>1, <1>2

\* A job was packed: the next one is.
LEMMA PackingDone ==
    ASSUME NEW s, Safe(s), NEW j \in Jobs, NEW fails \in BOOLEAN,
           j \in s.packed \/ s.stage[j] = "deleted"
    PROVE  Safe(onPackingDone(s, j, fails)) /\ Goes(s, onPackingDone(s, j, fails))
<1>0. Goes(s, s)
  BY DEF Goes
<1>1. CASE ~(preparePacking /\ j = s.active /\ s.packing = NoJob)
  BY <1>0, <1>1 DEF onPackingDone
<1>2. CASE preparePacking /\ j = s.active /\ s.packing = NoJob
  <2> DEFINE v == IF s.stage[j] = "packed" THEN _postFiles(s, j, fails) ELSE s
  <2>1. onPackingDone(s, j, fails) = _prepareNextPacking(v)
    BY <1>2 DEF onPackingDone
  <2>2. j \in s.packed
    BY <1>2 DEF Safe, Placed, Submitted
  <2>3. Safe(v) /\ Goes(s, v) /\ v.active = j /\ v.packing = NoJob /\ j \in v.packed
    <3>1. CASE s.stage[j] = "packed"
      BY <1>2, <2>2, <3>1, PostFilesSafe
    <3>2. CASE s.stage[j] # "packed"
      BY <1>0, <1>2, <2>2, <3>2
    <3> QED
      BY <3>1, <3>2
  <2> HIDE DEF v
  <2>4. Safe(_prepareNextPacking(v)) /\ Goes(v, _prepareNextPacking(v))
    BY <1>2, <2>3, PrepareNext DEF Idles
  <2> QED
    BY <2>1, <2>3, <2>4, GoesOn
<1> QED
  BY <1>1, <1>2
-----------------------------------------------------------------------------
(* The end of a job, and what touches no job.                               *)

\* Flags, and jobs that are asked to stop, disturb nothing.
LEMMA FlagsSafe ==
    ASSUME NEW s, Safe(s), NEW t \in QState,
           t.active = s.active, t.pending = s.pending, t.packing = s.packing,
           t.stage = s.stage, t.packed = s.packed, t.tools = s.tools, t.events = s.events,
           s.canceled \subseteq t.canceled, s.upsets \subseteq t.upsets
    PROVE  Safe(t)
<1>1. /\ s \in QState /\ Placed(s) /\ Ahead(s) /\ Untouched(s) /\ Tools(s)
      /\ EventsOK(s) /\ Single(s.events) /\ OneAhead(s)
  BY DEF Safe
<1>2. Placed(t) /\ Ahead(t) /\ Untouched(t) /\ Tools(t) /\ Single(t.events) /\ OneAhead(t)
  BY <1>1 DEF Placed, Ahead, Untouched, Tools, OneAhead, Idles, Stopped, HasEnded
<1>3. EventsOK(t)
  BY <1>1 DEF EventsOK, EventOK, Started, Stopped, HasEnded
<1> QED
  BY <1>2, <1>3 DEF Safe

\* An event that neither starts a job nor ends it.
LEMMA EmitSafe ==
    ASSUME NEW s, Safe(s), NEW e0 \in Event, EventOK(s, e0),
           e0.type \notin {"start", "finished"},
           e0.type = "toolEnded" =>
              \A e \in Elems(s.events) : e.type = "toolEnded" => e.job # e0.job,
           JobEvent(e0) => s.stage[e0.job] # "deleted"
    PROVE  Safe(Emit(s, e0))
<1> DEFINE t == Emit(s, e0)
<1>1. /\ s \in QState /\ Placed(s) /\ Ahead(s) /\ Untouched(s) /\ Tools(s)
      /\ EventsOK(s) /\ Single(s.events) /\ OneAhead(s)
  BY DEF Safe
<1>3. t \in QState /\ Elems(t.events) = Elems(s.events) \cup {e0}
  BY <1>1, EmitFields
<1>4. /\ Frame(s, t) /\ t.stage = s.stage /\ t.packed = s.packed /\ t.tools = s.tools
      /\ t.events = Append(s.events, e0)
  BY <1>1 DEF Emit, QState, Frame
<1> HIDE DEF t
<1>5. Single(t.events)
  <2>1. s.events \in Seq(Event)
    BY <1>1 DEF QState
  <2>2. e0.type \in Once => \A f \in Elems(s.events) : f.type = e0.type => f.job # e0.job
    BY DEF Once
  <2> QED
    BY <1>1, <1>4, <2>1, <2>2, SingleAppend
<1>6. Placed(t) /\ Tools(t) /\ OneAhead(t)
  BY <1>1, <1>4 DEF Placed, Tools, OneAhead, Idles, Stopped, HasEnded, Frame
<1>7. Ahead(t)
  BY <1>1, <1>3, <1>4 DEF Ahead, Frame
<1>8. Untouched(t)
  BY <1>1, <1>3, <1>4 DEF Untouched, Frame, Stopped, HasEnded
<1>9. EventsOK(t)
  BY <1>1, <1>3, <1>4 DEF EventsOK, EventOK, Started, Stopped, HasEnded, Frame
<1> QED
  BY <1>3, <1>5, <1>6, <1>7, <1>8, <1>9 DEF Safe, t

\* A job that has ended, or was never submitted, is deleted.
\* The end of the job is not on its way (any more).
Heard(s, j) == \A e \in Elems(s.events) : e.type = "finished" => e.job # j

LEMMA JobGone ==
    ASSUME NEW s, Safe(s), NEW j \in Jobs, HasEnded(s, j) \/ s.stage[j] \in {"new", "asking"},
           Heard(s, j), NEW t \in QState,
           t.stage = [s.stage EXCEPT ![j] = "deleted"], t.packed = s.packed \ {j},
           t.tools = s.tools, t.canceled = s.canceled, t.events = s.events,
           s.upsets \subseteq t.upsets,
           t.active = IF s.active = j THEN NoJob ELSE s.active,
           Elems(t.pending) = Elems(s.pending) \ {j}, IsInjectiveSeq(t.pending),
           t.packing = s.packing \/ (t.packing = NoJob /\ s.packing = j),
           Ahead(t)
    PROVE  Safe(t)
<1>1. /\ s \in QState /\ Placed(s) /\ Ahead(s) /\ Untouched(s) /\ Tools(s)
      /\ EventsOK(s) /\ Single(s.events) /\ OneAhead(s)
  BY DEF Safe
<1>2. /\ s.pending \in Seq(Jobs) /\ s.events \in Seq(Event) /\ s.stage \in [Jobs -> Stages]
      /\ s.tools \subseteq Jobs /\ s.packed \subseteq Jobs
      /\ s.active \in Jobs \cup {NoJob} /\ s.packing \in Jobs \cup {NoJob}
  BY <1>1 DEF QState
<1>3. Elems(s.pending) \subseteq Jobs /\ Elems(s.events) \subseteq Event
  BY <1>2, ElemsIn
<1>4. \A k \in Jobs : k # j => t.stage[k] = s.stage[k]
  BY <1>2
<1>5. t.stage[j] = "deleted"
  BY <1>2
<1>6. NoJob \notin Jobs
  BY JobQueueAssumption
<1>7. Placed(t)
  <2>1. \A k \in Jobs : t.stage[k] \in Submitted <=> (t.active = k \/ k \in Elems(t.pending))
    <3>1. ASSUME NEW k \in Jobs, k # j
          PROVE  t.stage[k] \in Submitted <=> (t.active = k \/ k \in Elems(t.pending))
      BY <1>1, <1>4, <1>6, <3>1 DEF Placed
    <3>2. t.stage[j] \notin Submitted /\ t.active # j /\ j \notin Elems(t.pending)
      BY <1>5, <1>6 DEF Submitted
    <3> QED
      BY <3>1, <3>2
  <2>2. t.active \notin Elems(t.pending)
    BY <1>1, <1>3, <1>6 DEF Placed
  <2>3. \A k \in Jobs : t.stage[k] = "posting" => t.active = k
    BY <1>1, <1>4, <1>5 DEF Placed, HasEnded
  <2> QED
    BY <2>1, <2>2, <2>3 DEF Placed
<1>8. Untouched(t)
  <2> SUFFICES ASSUME NEW k \in Elems(t.pending), k # t.packing \/ k \notin HasPacking
               PROVE  /\ t.stage[k] = "waiting" \/ Stopped(t, k)
                      /\ k \notin t.packed
                      /\ \A e \in Elems(s.events) : e.type = "start" => e.job # k
    BY DEF Untouched
  <2>1. k \in Elems(s.pending) /\ k \in Jobs /\ k # j
    BY <1>3
  <2>2. k # s.packing \/ k \notin HasPacking
    BY <2>1
  <2> QED
    BY <1>1, <1>4, <2>1, <2>2 DEF Untouched, Stopped, HasEnded
<1>9. Tools(t)
  <2>1. j \notin s.tools
    BY <1>1 DEF Tools, HasEnded
  <2>2. \A k \in t.tools : t.stage[k] = "packing"
    BY <1>1, <1>2, <1>4, <2>1 DEF Tools
  <2>3. \A k \in Jobs : t.stage[k] = "packing" => k \in HasPacking
    BY <1>1, <1>4, <1>5 DEF Tools
  <2>4. \A k \in t.packed : t.stage[k] \notin {"new", "asking", "waiting", "packing"}
    BY <1>1, <1>2, <1>4 DEF Tools
  <2>5. \A k \in Elems(t.pending) : k \in t.packed => t.stage[k] = "packed" \/ Stopped(t, k)
    BY <1>1, <1>3, <1>4 DEF Tools, Stopped, HasEnded
  <2> QED
    BY <2>2, <2>3, <2>4, <2>5 DEF Tools
<1>10. EventsOK(t)
  <2> SUFFICES ASSUME NEW e \in Elems(s.events)
               PROVE  EventOK(t, e)
    BY DEF EventsOK
  <2>1. EventOK(s, e) /\ (JobEvent(e) => e.job \in Jobs)
    BY <1>1, <1>3, EventJob DEF EventsOK
  <2>2. CASE ~JobEvent(e)
    BY <2>2 DEF EventOK, JobEvent
  <2>3. CASE JobEvent(e) /\ e.job # j
    <3>1. t.stage[e.job] = s.stage[e.job] /\ (e.job \in t.packed <=> e.job \in s.packed)
          /\ (e.job = s.active => e.job = t.active)
      BY <1>4, <2>1, <2>3
    <3> QED
      BY <2>1, <3>1 DEF EventOK, Started, Stopped, HasEnded
  <2>4. CASE JobEvent(e) /\ e.job = j
    <3>1. e.type = "toolEnded" => j \notin t.tools
      BY <2>1, <2>4 DEF EventOK
    <3>2. e.type \in {"start", "toolEnded", "stop"} => j \in s.canceled
      BY <2>1, <2>4 DEF EventOK, Started, Stopped, HasEnded
    <3>3. e.type # "finished"
      BY <2>4 DEF Heard
    <3> QED
      BY <1>5, <2>4, <3>1, <3>2, <3>3 DEF EventOK, Started, Stopped, HasEnded
  <2> QED
    BY <2>2, <2>3, <2>4
<1>11. OneAhead(t)
  <2> SUFFICES ASSUME "overtaken" \notin t.upsets, t.packing # NoJob, t.stage[t.packing] # "deleted"
               PROVE  Idles(t)
    BY DEF OneAhead
  <2>1. t.packing = s.packing /\ s.packing \in Jobs /\ s.packing # j
    BY <1>2, <1>5
  <2>2. Idles(s)
    BY <1>1, <1>4, <2>1 DEF OneAhead
  <2>3. CASE s.active = j
    BY <2>3 DEF Idles
  <2>4. CASE s.active # j
    BY <1>2, <1>4, <2>2, <2>4 DEF Idles
  <2> QED
    BY <2>3, <2>4
<1>12. Single(t.events)
  BY <1>1
<1> QED
  BY <1>7, <1>8, <1>9, <1>10, <1>11, <1>12 DEF Safe
-----------------------------------------------------------------------------
(* What else the handlers keep, and what none of them does.                  *)

\* A job that has ended has told the queue so.
EndedTold(s, S) == \A j \in Jobs \ S : s.stage[j] = "ended" => Fin(j) \in Elems(s.events)

\* The flag of the re-check tells that it is posted.
Rechecked(s) == s.recheck => \E e \in Elems(s.events) : e.type = "recheck"

\* The conditions of the shutdown, but for the tabs.
Due(s) ==
    /\ s.armed /\ s.ended /\ ~s.proc /\ ~hasPostingJobs(s)
    /\ shutdownHolds(s) = {} /\ s.cmds = {}
Wakes(s) == \E e \in Elems(s.events) : e.type \in {"recheck", "idle"}
Coming(s) == Due(s) /\ "parked" \notin s.upsets => unsubmitted \/ Wakes(s)

Left(s) == s.canceling /\ "monitoring" \notin s.upsets => hasPostingJobs(s)

\* S: the jobs whose end is in hand.
Sound(s, S) == Safe(s) /\ EndedTold(s, S) /\ Earned(s) /\ Rechecked(s) /\ Coming(s)

\* The computer may be shut down.
Over(s) ==
    /\ \A j \in Jobs : s.stage[j] \in {"new", "deleted"}
    /\ s.cmds = {} /\ ~unsubmitted /\ s.word = "good"

\* What no handler does, but to the jobs of E: to bring in a job that was not
\* submitted, to bring one back, or to start one that was stopped.
Lawful(s, t, E) ==
    /\ s.canceled \subseteq t.canceled
    /\ \A j \in Jobs \ E :
         /\ s.stage[j] \in {"new", "asking", "deleted"} => t.stage[j] = s.stage[j]
         /\ t.stage[j] \in {"new", "asking"} => t.stage[j] = s.stage[j]
         /\ t.stage[j] \in {"packing", "posting"} => t.stage[j] = s.stage[j] \/ j \notin s.canceled
    /\ t.proc => s.proc \/ Over(t)

LEMMA GoesSound ==
    ASSUME NEW S, NEW s, Sound(s, S), NEW t, Safe(t), Goes(s, t)
    PROVE  Sound(t, S) /\ (Left(s) => Left(t))
<1>1. EndedTold(t, S)
  BY DEF Sound, EndedTold, Goes
<1>2. Earned(t) /\ Rechecked(t)
  BY DEF Sound, Earned, Rechecked, Goes
<1>3. Coming(t)
  <2> SUFFICES ASSUME Due(t), "parked" \notin t.upsets, ~unsubmitted PROVE Wakes(t)
    BY DEF Coming
  <2>1. s.armed /\ s.ended /\ ~s.proc /\ ~hasPostingJobs(s) /\ "parked" \notin s.upsets
    <3>1. t.ended = TRUE
      BY DEF Due, Safe, QState
    <3> QED
      BY <3>1 DEF Due, Goes
  <2>2. shutdownHolds(s) = {}
    <3>1. ASSUME NEW j \in Jobs, s.stage[j] = "asking" PROVE FALSE
      <4>1. t.stage[j] = "asking"
        BY <3>1 DEF Goes, AtWork
      <4> QED
        BY <4>1 DEF Due, shutdownHolds
    <3> QED
      BY <3>1 DEF shutdownHolds
  <2>3. s.cmds = {}
    BY DEF Due, Goes
  <2> QED
    BY <2>1, <2>2, <2>3 DEF Sound, Coming, Due, Wakes, Goes
<1>4. Left(s) => Left(t)
  BY DEF Left, Goes
<1> QED
  BY <1>1, <1>2, <1>3, <1>4 DEF Sound

LEMMA GoesLawful ==
    ASSUME NEW E, NEW s, NEW u, Lawful(s, u, E), u.proc = s.proc, NEW t, Goes(u, t)
    PROVE  Lawful(s, t, E) /\ t.proc = s.proc
<1>1. t.canceled = u.canceled /\ t.proc = u.proc
  BY DEF Goes
<1>2. ASSUME NEW j \in Jobs \ E, s.stage[j] \in {"new", "asking", "deleted"}
      PROVE  t.stage[j] = s.stage[j]
  BY <1>2 DEF Lawful, Goes, AtWork
<1>4. ASSUME NEW j \in Jobs \ E, t.stage[j] \in {"new", "asking"}
      PROVE  t.stage[j] = s.stage[j]
  BY <1>4 DEF Lawful, Goes
<1>3. ASSUME NEW j \in Jobs \ E, t.stage[j] \in {"packing", "posting"}
      PROVE  t.stage[j] = s.stage[j] \/ j \notin s.canceled
  <2>1. CASE t.stage[j] = u.stage[j]
    BY <1>3, <2>1 DEF Lawful
  <2>2. CASE t.stage[j] # u.stage[j]
    BY <1>3, <2>2 DEF Lawful, Goes
  <2> QED
    BY <2>1, <2>2
<1> QED
  BY <1>1, <1>2, <1>3, <1>4 DEF Lawful

\* The shutdown starts, or something holds it.
LEMMA MaybeFinish ==
    ASSUME NEW s, Safe(s), Earned(s)
    PROVE  LET t == maybeFinishApplication(s)
           IN  /\ Safe(t) /\ Earned(t) /\ Coming(t)
               /\ t.proc => s.proc \/ Over(t)
               /\ t.stage = s.stage /\ t.events = s.events /\ t.recheck = s.recheck
               /\ t.canceled = s.canceled /\ t.upsets = s.upsets /\ t.canceling = s.canceling
               /\ hasPostingJobs(t) = hasPostingJobs(s)
<1> DEFINE t == maybeFinishApplication(s)
<1>1. CASE Due(s) /\ ~unsubmitted
  <2>1. s \in QState
    BY DEF Safe
  <2>2. t = [[s EXCEPT !.ended = FALSE] EXCEPT !.armed = FALSE, !.proc = TRUE]
    BY <1>1 DEF maybeFinishApplication, _resetShutdownCompletion, Due
  <2> HIDE DEF t
  <2>3. /\ t \in QState /\ t.ended = FALSE /\ t.armed = FALSE /\ t.proc = TRUE
        /\ t.active = s.active /\ t.pending = s.pending /\ t.packing = s.packing
        /\ t.stage = s.stage /\ t.packed = s.packed /\ t.tools = s.tools /\ t.events = s.events
        /\ t.canceled = s.canceled /\ t.upsets = s.upsets /\ t.canceling = s.canceling
        /\ t.recheck = s.recheck /\ t.word = s.word /\ t.cmds = s.cmds
    BY <2>1, <2>2 DEF QState
  <2>4. Safe(t)
    BY <2>3, FlagsSafe
  <2>5. ASSUME NEW j \in Jobs PROVE s.stage[j] \in {"new", "deleted"}
    <3>1. s.active = NoJob /\ s.pending = <<>>
      BY <1>1 DEF Due, hasPostingJobs
    <3>2. s.stage[j] \notin Submitted
      BY <3>1, JobQueueAssumption, ElemsEmpty DEF Safe, Placed
    <3>3. s.stage[j] # "asking"
      BY <1>1 DEF Due, shutdownHolds
    <3>4. s.stage[j] \in Stages
      BY <2>1 DEF QState
    <3> QED
      BY <3>2, <3>3, <3>4 DEF Stages, Submitted
  <2>6. s.word = "good"
    BY <1>1, <2>5 DEF Earned, AtWork, Due
  <2>7. Over(t)
    BY <1>1, <2>3, <2>5, <2>6 DEF Over, Due
  <2>8. Earned(t) /\ Coming(t) /\ hasPostingJobs(t) = hasPostingJobs(s)
    BY <2>3 DEF Earned, Coming, Due, hasPostingJobs
  <2> QED
    BY <2>3, <2>4, <2>7, <2>8 DEF t
<1>2. CASE ~(Due(s) /\ ~unsubmitted)
  <2>1. t = s
    BY <1>2 DEF maybeFinishApplication, Due
  <2>2. Coming(s)
    BY <1>2 DEF Coming
  <2> QED
    BY <2>1, <2>2
<1> QED
  BY <1>1, <1>2

\* When nothing is left the pause and the cancellation are lifted.
LEMMA AtRestSound ==
    ASSUME NEW S, NEW s, Sound(s, S)
    PROVE  LET t == AtRest(s)
           IN  /\ Sound(t, S) /\ Left(t)
               /\ t.canceled = s.canceled /\ t.stage = s.stage /\ t.proc = s.proc
               /\ t.cmds = s.cmds /\ t.word = s.word
<1> DEFINE t == AtRest(s)
<1>1. CASE hasPostingJobs(s)
  BY <1>1 DEF AtRest, Left
<1>2. CASE ~hasPostingJobs(s)
  <2>1. s \in QState
    BY DEF Sound, Safe
  <2>2. t = [s EXCEPT !.paused = FALSE, !.canceling = FALSE]
    BY <1>2 DEF AtRest
  <2> HIDE DEF t
  <2>3. /\ t \in QState /\ t.canceling = FALSE
        /\ t.active = s.active /\ t.pending = s.pending /\ t.packing = s.packing
        /\ t.stage = s.stage /\ t.packed = s.packed /\ t.tools = s.tools /\ t.events = s.events
        /\ t.canceled = s.canceled /\ t.upsets = s.upsets /\ t.recheck = s.recheck
        /\ t.word = s.word /\ t.cmds = s.cmds /\ t.armed = s.armed /\ t.ended = s.ended
        /\ t.proc = s.proc
    BY <2>1, <2>2 DEF QState
  <2>4. Safe(t)
    BY <2>3, FlagsSafe DEF Sound
  <2>5. EndedTold(t, S) /\ Earned(t) /\ Rechecked(t)
    BY <2>3 DEF Sound, EndedTold, Earned, Rechecked
  <2>6. Coming(t)
    BY <2>3 DEF Sound, Coming, Due, Wakes, hasPostingJobs, shutdownHolds
  <2> QED
    BY <2>3, <2>4, <2>5, <2>6 DEF Sound, Left, t
<1> QED
  BY <1>1, <1>2

\* What becomes of the rest when a job is deleted.
LEMMA GoneSound ==
    ASSUME NEW j \in Jobs, NEW s, Sound(s, {j}), NEW t, Safe(t),
           t.stage = [s.stage EXCEPT ![j] = "deleted"],
           HasEnded(s, j) \/ s.stage[j] \in {"new", "asking"},
           t.canceled = s.canceled, t.events = s.events, t.recheck = s.recheck,
           t.word = s.word, t.ended = s.ended, t.proc = s.proc
    PROVE  /\ EndedTold(t, {}) /\ Earned(t) /\ Rechecked(t)
           /\ Lawful(s, t, {j})
           /\ HasEnded(s, j) => Lawful(s, t, {})
<1>1. s.stage \in [Jobs -> Stages]
  BY DEF Sound, Safe, QState
<1>2. t.stage[j] = "deleted" /\ \A k \in Jobs : k # j => t.stage[k] = s.stage[k]
  BY <1>1
<1>3. EndedTold(t, {})
  BY <1>2 DEF Sound, EndedTold
<1>4. Earned(t)
  BY <1>2 DEF Sound, Earned, HasEnded, AtWork
<1>5. Rechecked(t)
  BY DEF Sound, Rechecked
<1>6. Lawful(s, t, {j})
  BY <1>2 DEF Lawful
<1>7. HasEnded(s, j) => Lawful(s, t, {})
  BY <1>2 DEF Lawful, HasEnded
<1> QED
  BY <1>3, <1>4, <1>5, <1>6, <1>7

\* The active job has ended and is deleted.
LEMMA ActiveGone ==
    ASSUME NEW j \in Jobs, NEW s, Safe(s), HasEnded(s, j), Heard(s, j), s.active = j,
           NEW u \in QState, u.stage = [s.stage EXCEPT ![j] = "deleted"],
           u.packed = s.packed \ {j}, u.active = NoJob,
           u.pending = s.pending, u.packing = s.packing, u.tools = s.tools,
           u.events = s.events, u.canceled = s.canceled, u.upsets = s.upsets
    PROVE  Safe(u)
<1>1. s \in QState /\ Placed(s) /\ Ahead(s)
  BY DEF Safe
<1>2. j \notin Elems(s.pending) /\ IsInjectiveSeq(s.pending)
  BY <1>1 DEF Placed
<1>3. s.packing # j
  <2> SUFFICES ASSUME s.packing = j, s.stage[j] = "deleted" PROVE FALSE
    <3>1. s.pending # <<>> /\ Head(s.pending) = s.packing => s.packing \in Elems(s.pending)
      <4>1. s.pending \in Seq(Jobs)
        BY <1>1 DEF QState
      <4> QED
        BY <4>1, ElemsTail
    <3> QED
      BY <1>1, <1>2, <3>1, JobQueueAssumption DEF Ahead
  <2> QED
    BY <1>1 DEF Placed, Submitted
<1>4. Ahead(u)
  <2>1. s.packing # NoJob => u.stage[s.packing] = s.stage[s.packing]
    BY <1>1, <1>3 DEF QState
  <2> QED
    BY <1>1, <2>1 DEF Ahead
<1>5. Elems(u.pending) = Elems(s.pending) \ {j}
  BY <1>2
<1>6. /\ HasEnded(s, j) \/ s.stage[j] \in {"new", "asking"}
      /\ s.upsets \subseteq u.upsets /\ IsInjectiveSeq(u.pending)
      /\ u.active = IF s.active = j THEN NoJob ELSE s.active
      /\ u.packing = s.packing \/ (u.packing = NoJob /\ s.packing = j)
  BY <1>2
<1> HIDE DEF Elems, IsInjectiveSeq, HasEnded
<1> QED
  BY <1>1, <1>4, <1>5, <1>6, JobGone

\* The active job has ended.
LEMMA ActiveFinishedSound ==
    ASSUME NEW j \in Jobs, NEW s, Sound(s, {j}), HasEnded(s, j), Heard(s, j), s.active = j,
           NEW fails \in BOOLEAN
    PROVE  LET t == ActiveFinished(s, j, fails)
           IN  Sound(t, {}) /\ Lawful(s, t, {})
<1> DEFINE u == [Delete(s, j) EXCEPT !.active = NoJob]
<1>1. s \in QState /\ Placed(s) /\ Ahead(s) /\ Safe(s)
  BY DEF Sound, Safe
<1>2. ActiveFinished(s, j, fails) =
        IF s.pending # <<>> THEN _startNextPostingJob(u, fails) ELSE maybeFinishApplication(u)
  BY DEF ActiveFinished
<1>3. u = [s EXCEPT !.stage[j] = "deleted", !.packed = s.packed \ {j}, !.active = NoJob]
  BY <1>1 DEF Delete, QState
<1> HIDE DEF u
<1>4. /\ u \in QState /\ u.stage = [s.stage EXCEPT ![j] = "deleted"]
      /\ u.packed = s.packed \ {j} /\ u.active = NoJob
      /\ u.pending = s.pending /\ u.packing = s.packing
      /\ u.tools = s.tools /\ u.events = s.events
      /\ u.canceled = s.canceled /\ u.upsets = s.upsets /\ u.recheck = s.recheck
      /\ u.word = s.word /\ u.cmds = s.cmds /\ u.armed = s.armed /\ u.ended = s.ended
      /\ u.proc = s.proc
  BY <1>1, <1>3 DEF QState, Stages
<1>5. Safe(u)
  BY <1>1, <1>4, ActiveGone
<1>6. EndedTold(u, {}) /\ Earned(u) /\ Rechecked(u) /\ Lawful(s, u, {})
  BY <1>4, <1>5, GoneSound
<1>7. CASE s.pending # <<>>
  <2>1. Sound(u, {})
    BY <1>4, <1>5, <1>6, <1>7 DEF Sound, Coming, Due, hasPostingJobs
  <2> DEFINE t == _startNextPostingJob(u, fails)
  <2>2. Safe(t) /\ Goes(u, t)
    BY <1>5, StartNext
  <2> HIDE DEF t
  <2>3. Sound(t, {})
    BY <2>1, <2>2, GoesSound
  <2>4. Lawful(s, t, {})
    BY <1>4, <1>6, <2>2, GoesLawful
  <2> QED
    BY <1>2, <1>7, <2>3, <2>4 DEF t
<1>8. CASE s.pending = <<>>
  <2> DEFINE t == maybeFinishApplication(u)
  <2>1. /\ Safe(t) /\ Earned(t) /\ Coming(t)
        /\ t.proc => u.proc \/ Over(t)
        /\ t.stage = u.stage /\ t.events = u.events /\ t.recheck = u.recheck
        /\ t.canceled = u.canceled
    BY <1>5, <1>6, MaybeFinish
  <2> HIDE DEF t
  <2>2. Sound(t, {})
    BY <1>6, <2>1 DEF Sound, EndedTold, Rechecked
  <2>3. Lawful(s, t, {})
    BY <1>4, <1>6, <2>1 DEF Lawful
  <2> QED
    BY <1>2, <1>8, <2>2, <2>3 DEF t
<1> QED
  BY <1>7, <1>8

\* The job that was packed ahead has ended before its turn.
LEMMA PackedAheadSound ==
    ASSUME NEW j \in Jobs, NEW s, Sound(s, {j}), HasEnded(s, j), Heard(s, j), s.active # j,
           preparePacking, s.packing = j, s.pending # <<>>, Head(s.pending) = j,
           s.active = NoJob => "parked" \in s.upsets
    PROVE  LET t == PackedAheadFinished(s, j)
           IN  Sound(t, {}) /\ Lawful(s, t, {})
<1> DEFINE u == [Delete(s, j) EXCEPT !.packing = NoJob, !.pending = Tail(@)]
<1>1. s \in QState /\ Placed(s) /\ Ahead(s) /\ Safe(s) /\ OneAhead(s) /\ s.pending \in Seq(Jobs)
  BY DEF Sound, Safe, QState
<1>2. PackedAheadFinished(s, j) = _prepareNextPacking(u)
  BY DEF PackedAheadFinished
<1>3. u = [s EXCEPT !.stage[j] = "deleted", !.packed = s.packed \ {j},
                    !.packing = NoJob, !.pending = Tail(s.pending)]
  BY <1>1 DEF Delete, QState
<1> HIDE DEF u
<1>9. /\ Tail(s.pending) \in Seq(Jobs) /\ Elems(Tail(s.pending)) = Elems(s.pending) \ {j}
      /\ IsInjectiveSeq(Tail(s.pending))
  BY <1>1, ElemsTail DEF Placed
<1>4. /\ u \in QState /\ u.stage = [s.stage EXCEPT ![j] = "deleted"]
      /\ u.packed = s.packed \ {j} /\ u.active = s.active
      /\ u.pending = Tail(s.pending) /\ u.packing = NoJob
      /\ u.tools = s.tools /\ u.events = s.events
      /\ u.canceled = s.canceled /\ u.upsets = s.upsets /\ u.recheck = s.recheck
      /\ u.word = s.word /\ u.cmds = s.cmds /\ u.armed = s.armed /\ u.ended = s.ended
      /\ u.proc = s.proc
  BY <1>1, <1>3, <1>9 DEF QState, Stages
<1>5. Safe(u)
  <2>1. Ahead(u)
    BY <1>1, <1>4 DEF Ahead
  <2>2. u.active = IF s.active = j THEN NoJob ELSE s.active
    BY <1>4
  <2>3. u.packing = s.packing \/ (u.packing = NoJob /\ s.packing = j)
    BY <1>4
  <2>4. Elems(u.pending) = Elems(s.pending) \ {j} /\ IsInjectiveSeq(u.pending)
    BY <1>4, <1>9
  <2>5. HasEnded(s, j) \/ s.stage[j] \in {"new", "asking"}
    OBVIOUS
  <2>6. s.upsets \subseteq u.upsets
    BY <1>4
  <2> HIDE DEF Elems, IsInjectiveSeq
  <2> QED
    BY <1>1, <1>4, <2>1, <2>2, <2>3, <2>4, <2>5, <2>6, JobGone
<1>6. EndedTold(u, {}) /\ Earned(u) /\ Rechecked(u) /\ Lawful(s, u, {})
  <2>1. HasEnded(s, j) \/ s.stage[j] \in {"new", "asking"}
    OBVIOUS
  <2>2. /\ EndedTold(u, {}) /\ Earned(u) /\ Rechecked(u)
        /\ HasEnded(s, j) => Lawful(s, u, {})
    BY <1>4, <1>5, <2>1, GoneSound
  <2> QED
    BY <2>2
<1>7. Sound(u, {})
  BY <1>4, <1>5, <1>6 DEF Sound, Coming, Due, hasPostingJobs
<1>8. Idles(u) \/ "overtaken" \in u.upsets
  <2>1. SUFFICES ASSUME "overtaken" \notin s.upsets PROVE Idles(u)
    BY <1>4
  <2>2. s.stage[j] # "deleted"
    BY <1>1, ElemsTail DEF Placed, Submitted
  <2>3. Idles(s)
    BY <1>1, <2>1, <2>2, JobQueueAssumption DEF OneAhead
  <2>4. s.active \in Jobs => u.stage[s.active] = s.stage[s.active]
    BY <1>1, <1>4 DEF QState
  <2> QED
    BY <1>1, <1>4, <2>3, <2>4 DEF Idles, QState
<1> DEFINE t == _prepareNextPacking(u)
<1>10. Safe(t) /\ Goes(u, t)
  BY <1>4, <1>5, <1>8, PrepareNext
<1> HIDE DEF t
<1>11. Sound(t, {})
  BY <1>7, <1>10, GoesSound
<1>12. Lawful(s, t, {})
  BY <1>4, <1>6, <1>10, GoesLawful
<1> QED
  BY <1>2, <1>11, <1>12 DEF t

\* A job that waits has ended, or one that is deleted already.
LEMMA WaitingSound ==
    ASSUME NEW j \in Jobs, NEW s, Sound(s, {j}), HasEnded(s, j), Heard(s, j), s.active # j,
           ~preparePacking \/ s.packing # j,
           s.active = NoJob /\ j \in Elems(s.pending) => "parked" \in s.upsets
    PROVE  LET t == WaitingFinished(s, j)
           IN  Sound(t, {}) /\ Lawful(s, t, {})
<1> DEFINE t == WaitingFinished(s, j)
<1>1. s \in QState /\ Placed(s) /\ Ahead(s) /\ Safe(s) /\ s.pending \in Seq(Jobs)
  BY DEF Sound, Safe, QState
<1>2. t = [s EXCEPT !.stage[j] = "deleted", !.packed = s.packed \ {j},
                    !.pending = Without(s.pending, {j})]
  BY <1>1 DEF Delete, QState, WaitingFinished
<1> HIDE DEF t
<1>3. /\ Without(s.pending, {j}) \in Seq(Jobs)
      /\ Elems(Without(s.pending, {j})) = Elems(s.pending) \ {j}
      /\ IsInjectiveSeq(Without(s.pending, {j}))
      /\ s.pending # <<>> /\ Head(s.pending) # j
           => Without(s.pending, {j}) # <<>> /\ Head(Without(s.pending, {j})) = Head(s.pending)
  BY <1>1, ElemsWithout DEF Placed
<1>4. /\ t \in QState /\ t.stage = [s.stage EXCEPT ![j] = "deleted"]
      /\ t.packed = s.packed \ {j} /\ t.active = s.active
      /\ t.pending = Without(s.pending, {j}) /\ t.packing = s.packing
      /\ t.tools = s.tools /\ t.events = s.events
      /\ t.canceled = s.canceled /\ t.upsets = s.upsets /\ t.recheck = s.recheck
      /\ t.word = s.word /\ t.cmds = s.cmds /\ t.armed = s.armed /\ t.ended = s.ended
      /\ t.proc = s.proc
  BY <1>1, <1>2, <1>3 DEF QState, Stages
<1>5. Ahead(t)
  <2>1. s.packing # NoJob => s.packing # j /\ s.packing \in Jobs
    BY <1>1 DEF Ahead, QState
  <2>2. s.packing # NoJob => t.stage[s.packing] = s.stage[s.packing]
    BY <1>1, <1>4, <2>1 DEF QState
  <2> QED
    BY <1>1, <1>3, <1>4, <2>1, <2>2 DEF Ahead
<1>6. Safe(t)
  <2>1. /\ t.active = IF s.active = j THEN NoJob ELSE s.active
        /\ Elems(t.pending) = Elems(s.pending) \ {j} /\ IsInjectiveSeq(t.pending)
        /\ t.packing = s.packing \/ (t.packing = NoJob /\ s.packing = j)
    BY <1>3, <1>4
  <2>2. s.upsets \subseteq t.upsets
    BY <1>4
  <2> QED
    BY <1>1, <1>4, <1>5, <2>1, <2>2, JobGone, ZenonT(90)
<1>7. EndedTold(t, {}) /\ Earned(t) /\ Rechecked(t) /\ Lawful(s, t, {})
  <2>1. HasEnded(s, j) \/ s.stage[j] \in {"new", "asking"}
    OBVIOUS
  <2>2. /\ EndedTold(t, {}) /\ Earned(t) /\ Rechecked(t)
        /\ HasEnded(s, j) => Lawful(s, t, {})
    BY <1>4, <1>6, <2>1, GoneSound
  <2> QED
    BY <2>2
<1>8. Coming(t)
  <2> SUFFICES ASSUME Due(t), "parked" \notin t.upsets PROVE unsubmitted \/ Wakes(t)
    BY DEF Coming
  <2>1. j \notin Elems(s.pending)
    BY <1>4 DEF Due, hasPostingJobs
  <2>2. s.pending = <<>>
    <3>1. Elems(t.pending) = {}
      BY <1>4, ElemsEmpty DEF Due, hasPostingJobs
    <3>2. Elems(s.pending) = {}
      BY <1>3, <1>4, <2>1, <3>1
    <3> QED
      BY <1>1, <3>2, ElemsNone
  <2>3. shutdownHolds(s) = {}
    <3>1. \A k \in Jobs : s.stage[k] = "asking" => t.stage[k] = "asking"
      BY <1>1, <1>4 DEF HasEnded, QState
    <3> QED
      BY <3>1 DEF Due, shutdownHolds
  <2> QED
    BY <1>4, <2>2, <2>3 DEF Sound, Coming, Due, Wakes, hasPostingJobs
<1> QED
  BY <1>6, <1>7, <1>8 DEF Sound, t

\* The end of a job, as the queue handles it.
LEMMA JobFinished ==
    ASSUME NEW j \in Jobs, NEW s, Sound(s, {j}), HasEnded(s, j), Heard(s, j), s.pending = pendingJobs,
           s.packing = j => s.pending # <<>> /\ Head(s.pending) = j,
           NEW fails \in BOOLEAN
    PROVE  LET t == onPostingJobFinished(s, j, fails)
           IN  Sound(t, {}) /\ Left(t) /\ Lawful(s, t, {})
<1> DEFINE w == [s EXCEPT !.upsets =
                   IF s.active = NoJob /\ IsPending(j) THEN @ \cup {"parked"} ELSE @]
           u == IF j = s.active THEN ActiveFinished(s, j, fails)
                ELSE IF preparePacking /\ j = s.packing THEN PackedAheadFinished(w, j)
                ELSE WaitingFinished(w, j)
           t == AtRest(u)
<1>1. onPostingJobFinished(s, j, fails) = t
  BY DEF onPostingJobFinished
<1>2. Sound(u, {}) /\ Lawful(s, u, {})
  <2>1. CASE j = s.active
    BY <2>1, ActiveFinishedSound
  <2>2. CASE j # s.active
    <3>1. s \in QState /\ Safe(s) /\ (IsPending(j) <=> j \in Elems(s.pending))
      BY DEF Sound, Safe, IsPending, Elems
    <3>2. /\ w \in QState /\ w.active = s.active /\ w.pending = s.pending /\ w.packing = s.packing
          /\ w.stage = s.stage /\ w.packed = s.packed /\ w.tools = s.tools /\ w.events = s.events
          /\ w.canceled = s.canceled /\ s.upsets \subseteq w.upsets /\ w.recheck = s.recheck
          /\ w.word = s.word /\ w.cmds = s.cmds /\ w.armed = s.armed /\ w.ended = s.ended
          /\ w.proc = s.proc
      BY <3>1 DEF QState
    <3>3. s.active = NoJob /\ j \in Elems(s.pending) => "parked" \in w.upsets
      BY <3>1 DEF QState
    <3> HIDE DEF w
    <3>4. Safe(w)
      BY <3>1, <3>2, FlagsSafe
    <3>5. EndedTold(w, {j}) /\ Earned(w) /\ Rechecked(w) /\ HasEnded(w, j) /\ Heard(w, j)
      BY <3>2 DEF Sound, EndedTold, Earned, Rechecked, HasEnded, Heard
    <3>6. Coming(w)
      BY <3>2 DEF Sound, Coming, Due, Wakes, hasPostingJobs, shutdownHolds
    <3>7. Sound(w, {j})
      BY <3>4, <3>5, <3>6 DEF Sound
    <3>8. Lawful(w, u, {}) => Lawful(s, u, {})
      BY <3>2 DEF Lawful
    <3>9. CASE preparePacking /\ j = s.packing
      <4>1. u = PackedAheadFinished(w, j)
        BY <2>2, <3>9
      <4>2. j \in Elems(s.pending)
        <5>1. s.pending \in Seq(Jobs) /\ s.pending # <<>> /\ Head(s.pending) = j
          BY <3>1, <3>9 DEF QState
        <5> QED
          BY <5>1, ElemsTail
      <4>3. w.active = NoJob => "parked" \in w.upsets
        BY <3>2, <3>3, <4>2
      <4> QED
        BY <2>2, <3>2, <3>5, <3>7, <3>8, <3>9, <4>1, <4>3, PackedAheadSound
    <3>10. CASE ~(preparePacking /\ j = s.packing)
      <4>1. u = WaitingFinished(w, j)
        BY <2>2, <3>10
      <4>2. w.active = NoJob /\ j \in Elems(w.pending) => "parked" \in w.upsets
        BY <3>2, <3>3
      <4> QED
        BY <2>2, <3>2, <3>5, <3>7, <3>8, <3>10, <4>1, <4>2, WaitingSound
    <3> QED
      BY <3>9, <3>10
  <2> QED
    BY <2>1, <2>2
<1> HIDE DEF u
<1>3. /\ Sound(t, {}) /\ Left(t) /\ t.canceled = u.canceled /\ t.stage = u.stage
      /\ t.proc = u.proc /\ t.cmds = u.cmds /\ t.word = u.word
  BY <1>2, AtRestSound
<1> HIDE DEF t
<1>4. Lawful(s, t, {})
  BY <1>2, <1>3 DEF Lawful, Over
<1> QED
  BY <1>1, <1>3, <1>4
-----------------------------------------------------------------------------
(* The admission of a job.                                                   *)

LEMMA Recheck ==
    ASSUME NEW s, Safe(s), EndedTold(s, {}), Earned(s), Rechecked(s)
    PROVE  LET t == requestShutdownRecheck(s)
           IN  /\ Sound(t, {}) /\ (t.armed => Wakes(t))
               /\ t.stage = s.stage /\ t.canceled = s.canceled /\ t.proc = s.proc
               /\ t.canceling = s.canceling /\ t.upsets = s.upsets
               /\ t.active = s.active /\ t.pending = s.pending
               /\ t.word = s.word /\ t.cmds = s.cmds
<1> DEFINE t == requestShutdownRecheck(s)
<1>1. CASE s.armed /\ ~s.recheck
  <2> DEFINE u == [s EXCEPT !.recheck = TRUE]
             e0 == [type |-> "recheck"]
  <2>1. t = Emit(u, e0)
    BY <1>1 DEF requestShutdownRecheck
  <2> HIDE DEF t
  <2>2. /\ u \in QState /\ u.active = s.active /\ u.pending = s.pending /\ u.packing = s.packing
        /\ u.stage = s.stage /\ u.packed = s.packed /\ u.tools = s.tools /\ u.events = s.events
        /\ u.canceled = s.canceled /\ u.upsets = s.upsets /\ u.canceling = s.canceling
        /\ u.word = s.word /\ u.cmds = s.cmds /\ u.armed = s.armed /\ u.ended = s.ended
        /\ u.proc = s.proc
    BY DEF Safe, QState
  <2> HIDE DEF u
  <2>3. Safe(u)
    BY <2>2, FlagsSafe
  <2>4. e0 \in Event /\ e0.type = "recheck"
    BY DEF Event
  <2> HIDE DEF e0
  <2>5. Safe(t)
    <3>1. EventOK(u, e0) /\ ~JobEvent(e0)
      BY <2>4 DEF EventOK, JobEvent
    <3> QED
      BY <2>1, <2>3, <2>4, <3>1, EmitSafe
  <2>6. /\ Elems(t.events) = Elems(u.events) \cup {e0}
        /\ t = [u EXCEPT !.events = Append(u.events, e0)]
    BY <2>1, <2>2, <2>4, EmitFields
  <2>7. /\ t.active = u.active /\ t.pending = u.pending /\ t.stage = u.stage
        /\ t.canceled = u.canceled /\ t.upsets = u.upsets /\ t.canceling = u.canceling
        /\ t.word = u.word /\ t.armed = u.armed /\ t.ended = u.ended /\ t.proc = u.proc
        /\ t.cmds = u.cmds
    BY <2>2, <2>6 DEF QState
  <2>8. Wakes(t) /\ Rechecked(t) /\ Coming(t)
    BY <2>4, <2>6 DEF Wakes, Rechecked, Coming
  <2>9. EndedTold(t, {}) /\ Earned(t)
    BY <2>2, <2>6, <2>7 DEF EndedTold, Earned
  <2> QED
    BY <2>2, <2>5, <2>7, <2>8, <2>9 DEF Sound, t
<1>2. CASE ~(s.armed /\ ~s.recheck)
  <2>1. t = s
    BY <1>2 DEF requestShutdownRecheck
  <2>2. s.armed => Wakes(s)
    BY <1>2 DEF Rechecked, Wakes
  <2>3. Coming(s)
    BY <2>2 DEF Coming, Due
  <2> QED
    BY <2>1, <2>2, <2>3 DEF Sound
<1> QED
  BY <1>1, <1>2

\* Nothing speaks of a job that was not submitted.
LEMMA Unheard ==
    ASSUME NEW s, Safe(s), NEW j \in Jobs, s.stage[j] \in {"new", "asking"}
    PROVE  /\ s.active # j /\ s.packing # j /\ j \notin Elems(s.pending)
           /\ j \notin s.packed /\ j \notin s.tools
           /\ \A e \in Elems(s.events) : JobEvent(e) => e.job # j
<1>1. /\ s \in QState /\ Placed(s) /\ Ahead(s) /\ Tools(s) /\ EventsOK(s)
      /\ s.pending \in Seq(Jobs) /\ s.events \in Seq(Event)
  BY DEF Safe, QState
<1>2. s.active # j /\ j \notin Elems(s.pending)
  BY <1>1 DEF Placed, Submitted
<1>3. s.packing # j
  <2>1. s.pending # <<>> => Head(s.pending) \in Elems(s.pending)
    BY <1>1, ElemsTail
  <2> QED
    BY <1>1, <1>2, <2>1, JobQueueAssumption DEF Ahead
<1>4. j \notin s.packed /\ j \notin s.tools
  BY <1>1 DEF Tools
<1>5. ASSUME NEW e \in Elems(s.events), JobEvent(e), e.job = j PROVE FALSE
  <2>1. e \in Event
    BY <1>1, ElemsIn
  <2>2. EventOK(s, e)
    BY <1>1 DEF EventsOK
  <2>3. e.type \in {"start", "stop", "toolEnded", "transferEnded", "packingDone", "finished"}
    BY <1>5, <2>1 DEF JobEvent, Event
  <2> QED
    BY <1>4, <1>5, <2>2, <2>3 DEF EventOK, Started, Stopped, HasEnded
<1> QED
  BY <1>2, <1>3, <1>4, <1>5

\* A job that is not admitted is deleted.
LEMMA Discarded ==
    ASSUME NEW j \in Jobs, NEW s, Sound(s, {}), Left(s), s.stage[j] \in {"new", "asking"}
    PROVE  LET t == _discardUnstartedJob(s, j)
           IN  Sound(t, {}) /\ Left(t) /\ Lawful(s, t, {j}) /\ t.stage[j] = "deleted"
<1> DEFINE u == Delete(s, j)
           t == requestShutdownRecheck(u)
<1>1. /\ Safe(s) /\ s \in QState /\ Placed(s) /\ Ahead(s)
      /\ s.active # j /\ s.packing # j /\ j \notin Elems(s.pending)
  BY Unheard DEF Sound, Safe
<1>2. _discardUnstartedJob(s, j) = t
  BY DEF _discardUnstartedJob
<1>3. u = [s EXCEPT !.stage[j] = "deleted", !.packed = s.packed \ {j}]
  BY <1>1 DEF Delete, QState
<1> HIDE DEF u
<1>4. /\ u \in QState /\ u.stage = [s.stage EXCEPT ![j] = "deleted"]
      /\ u.packed = s.packed \ {j} /\ u.active = s.active
      /\ u.pending = s.pending /\ u.packing = s.packing
      /\ u.tools = s.tools /\ u.events = s.events /\ u.canceling = s.canceling
      /\ u.canceled = s.canceled /\ u.upsets = s.upsets /\ u.recheck = s.recheck
      /\ u.word = s.word /\ u.armed = s.armed /\ u.ended = s.ended /\ u.proc = s.proc
  BY <1>1, <1>3 DEF QState, Stages
<1>5. Safe(u)
  <2>1. Ahead(u)
    <3>1. s.packing # NoJob => u.stage[s.packing] = s.stage[s.packing]
      BY <1>1, <1>4 DEF QState
    <3> QED
      BY <1>1, <1>4, <3>1 DEF Ahead
  <2>2. Elems(u.pending) = Elems(s.pending) \ {j} /\ IsInjectiveSeq(u.pending)
    BY <1>1, <1>4 DEF Placed
  <2>3. Heard(s, j)
    BY <1>1, Unheard DEF Heard, JobEvent
  <2> HIDE DEF Elems, IsInjectiveSeq
  <2> QED
    BY <1>1, <1>4, <2>1, <2>2, <2>3, JobGone
<1>6. Sound(s, {j})
  BY DEF Sound, EndedTold
<1>7. EndedTold(u, {}) /\ Earned(u) /\ Rechecked(u) /\ Lawful(s, u, {j})
  BY <1>4, <1>5, <1>6, GoneSound
<1>8. /\ Sound(t, {}) /\ t.stage = u.stage /\ t.canceled = u.canceled /\ t.proc = u.proc
      /\ t.canceling = u.canceling /\ t.upsets = u.upsets
      /\ t.active = u.active /\ t.pending = u.pending
  BY <1>5, <1>7, Recheck
<1> HIDE DEF t
<1>9. Left(t)
  BY <1>4, <1>8 DEF Left, hasPostingJobs
<1>10. Lawful(s, t, {j})
  BY <1>4, <1>7, <1>8 DEF Lawful
<1>11. t.stage[j] = "deleted"
  BY <1>1, <1>4, <1>8 DEF QState
<1> QED
  BY <1>2, <1>8, <1>9, <1>10, <1>11

\* A job is admitted to the end of the queue.
LEMMA Queued ==
    ASSUME NEW j \in Jobs, NEW s, Sound(s, {}), s.stage[j] \in {"new", "asking"}
    PROVE  LET u == [s EXCEPT !.stage[j] = "waiting", !.pending = Append(s.pending, j)]
           IN  /\ Sound(u, {}) /\ Left(u) /\ Lawful(s, u, {j}) /\ u.proc = s.proc
               /\ u.active = s.active /\ u.packing = s.packing
               /\ s.active \in Jobs => u.stage[s.active] = s.stage[s.active]
               /\ u.packed = s.packed
<1> DEFINE u == [s EXCEPT !.stage[j] = "waiting", !.pending = Append(s.pending, j)]
<1>1. /\ s \in QState /\ Placed(s) /\ Ahead(s) /\ Untouched(s) /\ Tools(s)
      /\ EventsOK(s) /\ Single(s.events) /\ OneAhead(s) /\ Safe(s)
      /\ s.pending \in Seq(Jobs) /\ s.events \in Seq(Event)
  BY DEF Sound, Safe, QState
<1>2. /\ s.active # j /\ s.packing # j /\ j \notin Elems(s.pending)
      /\ j \notin s.packed /\ j \notin s.tools
      /\ \A e \in Elems(s.events) : JobEvent(e) => e.job # j
  BY <1>1, Unheard
<1>3. /\ Append(s.pending, j) \in Seq(Jobs) /\ Append(s.pending, j) # <<>>
      /\ Elems(Append(s.pending, j)) = Elems(s.pending) \cup {j}
      /\ s.pending # <<>> => Head(Append(s.pending, j)) = Head(s.pending)
  BY <1>1, ElemsAppend
<1>4. IsInjectiveSeq(Append(s.pending, j))
  <2>1. \A i \in 1..Len(s.pending) : s.pending[i] # j
    BY <1>2 DEF Elems
  <2> QED
    BY <1>1, <2>1 DEF Placed, IsInjectiveSeq
<1>5. /\ u \in QState /\ u.stage = [s.stage EXCEPT ![j] = "waiting"]
      /\ u.pending = Append(s.pending, j) /\ u.active = s.active /\ u.packing = s.packing
      /\ u.packed = s.packed /\ u.tools = s.tools /\ u.events = s.events
      /\ u.canceling = s.canceling /\ u.canceled = s.canceled /\ u.upsets = s.upsets
      /\ u.recheck = s.recheck /\ u.word = s.word /\ u.armed = s.armed
      /\ u.ended = s.ended /\ u.proc = s.proc
  BY <1>1, <1>3 DEF QState, Stages
<1> HIDE DEF u
<1>6. u.stage[j] = "waiting" /\ \A k \in Jobs : k # j => u.stage[k] = s.stage[k]
  BY <1>1, <1>5 DEF QState
<1>7. Placed(u)
  <2>1. ASSUME NEW k \in Jobs
        PROVE  u.stage[k] \in Submitted <=> (u.active = k \/ k \in Elems(u.pending))
    <3>1. CASE k = j
      BY <1>3, <1>5, <1>6, <3>1 DEF Submitted
    <3>2. CASE k # j
      BY <1>1, <1>3, <1>5, <1>6, <3>2 DEF Placed
    <3> QED
      BY <3>1, <3>2
  <2>2. u.active \notin Elems(u.pending)
    BY <1>1, <1>2, <1>3, <1>5 DEF Placed
  <2>3. \A k \in Jobs : u.stage[k] = "posting" => u.active = k
    BY <1>1, <1>5, <1>6 DEF Placed
  <2> HIDE DEF Elems, IsInjectiveSeq
  <2> QED
    BY <1>4, <1>5, <2>1, <2>2, <2>3 DEF Placed
<1>8. Ahead(u)
  <2>1. s.packing # NoJob => u.stage[s.packing] = s.stage[s.packing]
    BY <1>1, <1>2, <1>6 DEF QState
  <2> QED
    BY <1>1, <1>3, <1>5, <2>1 DEF Ahead
<1>9. Untouched(u)
  <2> SUFFICES ASSUME NEW k \in Elems(u.pending), k # s.packing \/ k \notin HasPacking
               PROVE  /\ u.stage[k] = "waiting" \/ Stopped(u, k)
                      /\ k \notin s.packed
                      /\ \A e \in Elems(s.events) : e.type = "start" => e.job # k
    BY <1>5 DEF Untouched
  <2>1. CASE k = j
    BY <1>2, <1>6, <2>1 DEF JobEvent
  <2>2. CASE k # j
    <3>1. k \in Elems(s.pending) /\ k \in Jobs
      BY <1>1, <1>3, <1>5, <2>2, ElemsIn
    <3> QED
      BY <1>1, <1>5, <1>6, <2>2, <3>1 DEF Untouched, Stopped, HasEnded
  <2> QED
    BY <2>1, <2>2
<1>10. Tools(u)
  <2>1. \A k \in u.tools : u.stage[k] = "packing"
    BY <1>1, <1>2, <1>5, <1>6 DEF Tools, QState
  <2>2. \A k \in Jobs : u.stage[k] = "packing" => k \in HasPacking
    BY <1>1, <1>6 DEF Tools
  <2>3. \A k \in u.packed : u.stage[k] \notin {"new", "asking", "waiting", "packing"}
    BY <1>1, <1>2, <1>5, <1>6 DEF Tools, QState
  <2>4. \A k \in Elems(u.pending) : k \in u.packed => u.stage[k] = "packed" \/ Stopped(u, k)
    <3>1. ASSUME NEW k \in Elems(s.pending), k \in s.packed, k # j
          PROVE  u.stage[k] = "packed" \/ Stopped(u, k)
      BY <1>1, <1>5, <1>6, <3>1 DEF Tools, Stopped, HasEnded, QState
    <3> QED
      BY <1>2, <1>3, <1>5, <3>1
  <2> QED
    BY <2>1, <2>2, <2>3, <2>4 DEF Tools
<1>11. EventsOK(u)
  <2> SUFFICES ASSUME NEW e \in Elems(s.events) PROVE EventOK(u, e)
    BY <1>5 DEF EventsOK
  <2>1. EventOK(s, e) /\ (JobEvent(e) => e.job \in Jobs /\ e.job # j)
    BY <1>1, <1>2, ElemsIn, EventJob DEF EventsOK
  <2>2. JobEvent(e) => u.stage[e.job] = s.stage[e.job]
    BY <1>6, <2>1
  <2> QED
    BY <1>5, <2>1, <2>2 DEF EventOK, Started, Stopped, HasEnded, JobEvent
<1>12. OneAhead(u)
  <2>1. s.active \in Jobs => u.stage[s.active] = s.stage[s.active]
    BY <1>2, <1>6
  <2>2. s.packing \in Jobs => u.stage[s.packing] = s.stage[s.packing]
    BY <1>2, <1>6
  <2> QED
    BY <1>1, <1>5, <2>1, <2>2 DEF OneAhead, Idles, QState
<1>13. Safe(u)
  BY <1>1, <1>5, <1>7, <1>8, <1>9, <1>10, <1>11, <1>12 DEF Safe
<1>14. EndedTold(u, {}) /\ Rechecked(u) /\ Earned(u)
  <2>1. EndedTold(u, {}) /\ Rechecked(u)
    BY <1>5, <1>6 DEF Sound, EndedTold, Rechecked
  <2>2. Earned(u)
    <3> SUFFICES ASSUME u.ended, u.word # "good"
                 PROVE  \E k \in Jobs : k \in u.canceled /\ u.stage[k] \in AtWork
      BY DEF Earned
    <3>1. PICK k \in Jobs : k \in s.canceled /\ s.stage[k] \in AtWork
      BY <1>5 DEF Sound, Earned
    <3> QED
      BY <1>5, <1>6, <3>1 DEF AtWork
  <2> QED
    BY <2>1, <2>2
<1>15. Coming(u) /\ Left(u)
  BY <1>3, <1>5 DEF Coming, Due, Left, hasPostingJobs
<1>16. Lawful(s, u, {j})
  BY <1>5, <1>6 DEF Lawful
<1>17. s.active \in Jobs => u.stage[s.active] = s.stage[s.active]
  BY <1>2, <1>6
<1> QED
  BY <1>5, <1>13, <1>14, <1>15, <1>16, <1>17 DEF Sound, u

\* A job is admitted and starts at once.
LEMMA AdmittedActive ==
    ASSUME NEW j \in Jobs, NEW s, Sound(s, {}), s.stage[j] \in {"new", "asking"},
           s.active = NoJob,
           NEW u, u = [s EXCEPT !.stage[j] = "waiting", !.active = j, !.upsets = Overtaken(s)]
    PROVE  LET t == Emit(u, Signal("start", j))
           IN  Sound(t, {}) /\ Left(t) /\ Lawful(s, t, {j})
<1>1. /\ s \in QState /\ Placed(s) /\ Ahead(s) /\ Untouched(s) /\ Tools(s)
      /\ EventsOK(s) /\ Single(s.events) /\ OneAhead(s) /\ Safe(s)
      /\ s.pending \in Seq(Jobs) /\ s.events \in Seq(Event)
  BY DEF Sound, Safe, QState
<1>2. /\ s.packing # j /\ j \notin Elems(s.pending)
      /\ j \notin s.packed /\ j \notin s.tools
      /\ \A e \in Elems(s.events) : JobEvent(e) => e.job # j
  BY <1>1, Unheard
<1>3. s.upsets \subseteq Overtaken(s) /\ (s.packing # NoJob => "overtaken" \in Overtaken(s))
      /\ Overtaken(s) \subseteq {"monitoring", "parked", "overtaken"}
  BY <1>1 DEF Overtaken, QState
<1> HIDE DEF Overtaken
<1>5. /\ u \in QState /\ u.stage = [s.stage EXCEPT ![j] = "waiting"]
      /\ u.pending = s.pending /\ u.active = j /\ u.packing = s.packing
      /\ u.packed = s.packed /\ u.tools = s.tools /\ u.events = s.events
      /\ u.canceling = s.canceling /\ u.canceled = s.canceled /\ u.upsets = Overtaken(s)
      /\ u.recheck = s.recheck /\ u.word = s.word /\ u.armed = s.armed
      /\ u.ended = s.ended /\ u.proc = s.proc
  BY <1>1, <1>3 DEF QState, Stages
<1>6. u.stage[j] = "waiting" /\ \A k \in Jobs : k # j => u.stage[k] = s.stage[k]
  BY <1>1, <1>5 DEF QState
<1>7. Placed(u)
  <2>1. ASSUME NEW k \in Jobs
        PROVE  u.stage[k] \in Submitted <=> (u.active = k \/ k \in Elems(u.pending))
    <3>1. CASE k = j
      BY <1>5, <1>6, <3>1 DEF Submitted
    <3>2. CASE k # j
      BY <1>1, <1>5, <1>6, <3>2, JobQueueAssumption DEF Placed
    <3> QED
      BY <3>1, <3>2
  <2>3. \A k \in Jobs : u.stage[k] = "posting" => u.active = k
    BY <1>1, <1>5, <1>6, JobQueueAssumption DEF Placed
  <2> HIDE DEF Elems, IsInjectiveSeq
  <2> QED
    BY <1>1, <1>2, <1>5, <2>1, <2>3 DEF Placed
<1>8. Ahead(u)
  <2>1. s.packing # NoJob => u.stage[s.packing] = s.stage[s.packing]
    BY <1>1, <1>2, <1>6 DEF QState
  <2> QED
    BY <1>1, <1>3, <1>5, <2>1 DEF Ahead
<1>9. Untouched(u)
  <2> SUFFICES ASSUME NEW k \in Elems(s.pending), k # s.packing \/ k \notin HasPacking
               PROVE  /\ u.stage[k] = "waiting" \/ Stopped(u, k)
                      /\ k \notin s.packed
                      /\ \A e \in Elems(s.events) : e.type = "start" => e.job # k
    BY <1>5 DEF Untouched
  <2>1. k # j /\ k \in Jobs
    BY <1>1, <1>2, ElemsIn
  <2> QED
    BY <1>1, <1>5, <1>6, <2>1 DEF Untouched, Stopped, HasEnded
<1>10. Tools(u)
  <2>1. \A k \in u.tools : u.stage[k] = "packing"
    BY <1>1, <1>2, <1>5, <1>6 DEF Tools, QState
  <2>2. \A k \in Jobs : u.stage[k] = "packing" => k \in HasPacking
    BY <1>1, <1>6 DEF Tools
  <2>3. \A k \in u.packed : u.stage[k] \notin {"new", "asking", "waiting", "packing"}
    BY <1>1, <1>2, <1>5, <1>6 DEF Tools, QState
  <2>4. \A k \in Elems(u.pending) : k \in u.packed => u.stage[k] = "packed" \/ Stopped(u, k)
    BY <1>1, <1>2, <1>5, <1>6 DEF Tools, Stopped, HasEnded, QState
  <2> QED
    BY <2>1, <2>2, <2>3, <2>4 DEF Tools
<1>11. EventsOK(u)
  <2> SUFFICES ASSUME NEW e \in Elems(s.events) PROVE EventOK(u, e)
    BY <1>5 DEF EventsOK
  <2>1. EventOK(s, e) /\ (JobEvent(e) => e.job \in Jobs /\ e.job # j)
    BY <1>1, <1>2, ElemsIn, EventJob DEF EventsOK
  <2>2. JobEvent(e) => u.stage[e.job] = s.stage[e.job] /\ e.job # s.active
    BY <1>6, <2>1, JobQueueAssumption
  <2> QED
    BY <1>5, <2>1, <2>2 DEF EventOK, Started, Stopped, HasEnded, JobEvent
<1>12. OneAhead(u)
  BY <1>3, <1>5 DEF OneAhead
<1>13. Safe(u)
  BY <1>1, <1>5, <1>7, <1>8, <1>9, <1>10, <1>11, <1>12 DEF Safe
<1>14. EndedTold(u, {}) /\ Rechecked(u) /\ Earned(u)
  <2>1. EndedTold(u, {}) /\ Rechecked(u)
    BY <1>5, <1>6 DEF Sound, EndedTold, Rechecked
  <2>2. Earned(u)
    <3> SUFFICES ASSUME u.ended, u.word # "good"
                 PROVE  \E k \in Jobs : k \in u.canceled /\ u.stage[k] \in AtWork
      BY DEF Earned
    <3>1. PICK k \in Jobs : k \in s.canceled /\ s.stage[k] \in AtWork
      BY <1>5 DEF Sound, Earned
    <3> QED
      BY <1>5, <1>6, <3>1 DEF AtWork
  <2> QED
    BY <2>1, <2>2
<1>15. Coming(u) /\ Left(u)
  BY <1>5, JobQueueAssumption DEF Coming, Due, Left, hasPostingJobs
<1>16. Lawful(s, u, {j})
  BY <1>5, <1>6 DEF Lawful
<1>17. Sound(u, {})
  BY <1>13, <1>14, <1>15 DEF Sound
<1> DEFINE t == Emit(u, Signal("start", j))
<1>18. Safe(t) /\ Goes(u, t)
  BY <1>2, <1>5, <1>6, <1>13, EmitStart DEF JobEvent
<1> HIDE DEF t
<1>19. Sound(t, {}) /\ Left(t)
  BY <1>15, <1>17, <1>18, GoesSound
<1>20. Lawful(s, t, {j})
  BY <1>5, <1>16, <1>18, GoesLawful
<1> QED
  BY <1>19, <1>20 DEF t

\* A job is admitted.
LEMMA Admitted ==
    ASSUME NEW j \in Jobs, NEW s, Sound(s, {}), s.stage[j] \in {"new", "asking"}
    PROVE  LET t == Admit(s, j)
           IN  Sound(t, {}) /\ Left(t) /\ Lawful(s, t, {j})
<1> DEFINE q == [[s EXCEPT !.stage[j] = "waiting"] EXCEPT !.pending = Append(@, j)]
           o == [[s EXCEPT !.stage[j] = "waiting"] EXCEPT !.active = j, !.upsets = Overtaken(s)]
           n == CASE ~Proceeds(s, j) -> q
                  [] Proceeds(s, j) /\ (s.active # NoJob \/ s.paused) ->
                        IF preparePacking /\ s.active # NoJob /\ s.active \in s.packed
                              /\ s.packing = NoJob
                        THEN _prepareNextPacking(q) ELSE q
                  [] OTHER -> Emit(o, Signal("start", j))
           t == requestShutdownRecheck(n)
<1>1. Admit(s, j) = t
  BY DEF Admit
<1>2. s \in QState /\ Safe(s)
  BY DEF Sound, Safe
<1>3. q = [s EXCEPT !.stage[j] = "waiting", !.pending = Append(s.pending, j)]
  BY <1>2 DEF QState
<1>4. o = [s EXCEPT !.stage[j] = "waiting", !.active = j, !.upsets = Overtaken(s)]
  BY <1>2 DEF QState
<1> HIDE DEF q, o
<1>5. Sound(n, {}) /\ Left(n) /\ Lawful(s, n, {j})
  <2>1. /\ Sound(q, {}) /\ Left(q) /\ Lawful(s, q, {j}) /\ q.proc = s.proc
        /\ q.active = s.active /\ q.packing = s.packing
        /\ s.active \in Jobs => q.stage[s.active] = s.stage[s.active]
        /\ q.packed = s.packed
    BY <1>3, Queued
  <2>2. CASE n = q
    BY <2>1, <2>2
  <2>3. CASE n = _prepareNextPacking(q) /\ preparePacking /\ s.active \in s.packed /\ s.packing = NoJob
    <3> DEFINE r == _prepareNextPacking(q)
    <3>1. Safe(q) /\ Idles(q)
      BY <2>1, <2>3 DEF Sound, Idles
    <3>2. Safe(r) /\ Goes(q, r)
      BY <2>1, <2>3, <3>1, PrepareNext
    <3> HIDE DEF r
    <3>3. Sound(r, {}) /\ Left(r)
      BY <2>1, <3>2, GoesSound
    <3>4. Lawful(s, r, {j})
      BY <2>1, <3>2, GoesLawful
    <3> QED
      BY <2>3, <3>3, <3>4 DEF r
  <2>4. CASE n = Emit(o, Signal("start", j)) /\ s.active = NoJob
    BY <1>4, <2>4, AdmittedActive
  <2> QED
    BY <2>2, <2>3, <2>4
<1> HIDE DEF n
<1>6. /\ Sound(t, {}) /\ t.stage = n.stage /\ t.canceled = n.canceled /\ t.proc = n.proc
      /\ t.canceling = n.canceling /\ t.upsets = n.upsets
      /\ t.active = n.active /\ t.pending = n.pending
      /\ t.word = n.word /\ t.cmds = n.cmds
  BY <1>5, Recheck DEF Sound
<1> HIDE DEF t
<1>7. Left(t)
  BY <1>5, <1>6 DEF Left, hasPostingJobs
<1>8. Lawful(s, t, {j})
  BY <1>5, <1>6 DEF Lawful, Over
<1> QED
  BY <1>1, <1>6, <1>7, <1>8
-----------------------------------------------------------------------------
(* The cancellations.                                                        *)

\* A job is asked to stop.
LEMMA StopAsked ==
    ASSUME NEW j \in Jobs, NEW s, Safe(s), EndedTold(s, {}), Rechecked(s), Left(s),
           s.stage[j] \in AtWork
    PROVE  LET t == [stopPosting(s, j) EXCEPT !.word = "stop"]
           IN  /\ Sound(t, {}) /\ Left(t) /\ Lawful(s, t, {})
               /\ t.stage = s.stage /\ t.proc = s.proc
<1> DEFINE u == [s EXCEPT !.canceled = s.canceled \cup {j}]
           e0 == Signal("stop", j)
           v == Emit(u, e0)
           t == [v EXCEPT !.word = "stop"]
<1>1. s \in QState /\ Placed(s)
  BY DEF Safe
<1>2. [stopPosting(s, j) EXCEPT !.word = "stop"] = t
  BY DEF stopPosting
<1>3. /\ u \in QState /\ u.active = s.active /\ u.pending = s.pending /\ u.packing = s.packing
      /\ u.stage = s.stage /\ u.packed = s.packed /\ u.tools = s.tools /\ u.events = s.events
      /\ u.canceled = s.canceled \cup {j} /\ u.upsets = s.upsets /\ u.canceling = s.canceling
      /\ u.recheck = s.recheck /\ u.proc = s.proc
  BY <1>1 DEF QState
<1> HIDE DEF u
<1>4. Safe(u)
  BY <1>3, FlagsSafe
<1>5. e0 \in Event /\ e0.type = "stop" /\ e0.job = j
  BY SignalIsEvent
<1> HIDE DEF e0
<1>6. EventOK(u, e0)
  BY <1>3, <1>5 DEF EventOK, AtWork
<1>7. Safe(v)
  BY <1>3, <1>4, <1>5, <1>6, EmitSafe DEF AtWork
<1>8. Elems(v.events) = Elems(u.events) \cup {e0} /\ v = [u EXCEPT !.events = Append(u.events, e0)]
  BY <1>3, <1>5, EmitFields
<1>9. v \in QState
  BY <1>7 DEF Safe
<1> HIDE DEF v
<1>10. /\ t \in QState /\ t.active = s.active /\ t.pending = s.pending /\ t.packing = s.packing
       /\ t.stage = s.stage /\ t.packed = s.packed /\ t.tools = s.tools /\ t.events = v.events
       /\ t.canceled = s.canceled \cup {j} /\ t.upsets = s.upsets /\ t.canceling = s.canceling
       /\ t.recheck = s.recheck /\ t.proc = s.proc /\ t.word = "stop"
       /\ v.active = s.active /\ v.pending = s.pending /\ v.packing = s.packing
       /\ v.stage = s.stage /\ v.packed = s.packed /\ v.tools = s.tools
       /\ v.canceled = s.canceled \cup {j} /\ v.upsets = s.upsets
  BY <1>3, <1>8, <1>9, ZenonT(90) DEF QState
<1> HIDE DEF t
<1>11. Safe(t)
  BY <1>7, <1>10, FlagsSafe
<1>12. EndedTold(t, {}) /\ Rechecked(t) /\ Earned(t)
  BY <1>3, <1>8, <1>10 DEF EndedTold, Rechecked, Earned
<1>13. hasPostingJobs(t) /\ Left(t)
  <2>1. s.active = j \/ j \in Elems(s.pending)
    BY <1>1 DEF Placed, AtWork, Submitted
  <2>2. hasPostingJobs(s)
    BY <2>1, ElemsEmpty, JobQueueAssumption DEF hasPostingJobs
  <2> QED
    BY <1>10, <2>2 DEF hasPostingJobs, Left
<1>14. Coming(t) /\ Lawful(s, t, {})
  BY <1>10, <1>13 DEF Coming, Due, Lawful
<1> QED
  BY <1>2, <1>10, <1>11, <1>12, <1>13, <1>14 DEF Sound

\* Every job that is in the queue is asked to stop.
LEMMA AllAsked ==
    ASSUME NEW s, Safe(s), EndedTold(s, {}), Rechecked(s), hasPostingJobs(s),
           NEW jobs \in Seq(Jobs),
           \A j \in Elems(jobs) : s.stage[j] \in Submitted,
           NEW asked, asked = Without(jobs, s.canceled),
           NEW t \in QState,
           t.events = s.events \o [i \in 1..Len(asked) |-> Signal("stop", asked[i])],
           t.canceled = s.canceled \cup Elems(jobs), t.ended = FALSE,
           t.active = s.active, t.pending = s.pending, t.packing = s.packing,
           t.stage = s.stage, t.packed = s.packed, t.tools = s.tools,
           t.upsets = s.upsets, t.recheck = s.recheck, t.proc = s.proc
    PROVE  Sound(t, {}) /\ Left(t) /\ Lawful(s, t, {})
<1>1. /\ s \in QState /\ Placed(s) /\ Ahead(s) /\ Untouched(s) /\ Tools(s)
      /\ EventsOK(s) /\ Single(s.events) /\ OneAhead(s) /\ s.events \in Seq(Event)
  BY DEF Safe, QState
<1> DEFINE r == [i \in 1..Len(asked) |-> Signal("stop", asked[i])]
<1>2. asked \in Seq(Jobs) /\ Elems(asked) = Elems(jobs) \ s.canceled
  BY ElemsWithout
<1>3. r \in Seq(Event) /\ \A e \in Elems(r) : e.type = "stop" /\ e.job \in Elems(jobs) /\ e.job \in Jobs
  <2>1. ASSUME NEW i \in 1..Len(asked)
        PROVE  /\ Signal("stop", asked[i]) \in Event /\ Signal("stop", asked[i]).type = "stop"
               /\ Signal("stop", asked[i]).job = asked[i]
               /\ asked[i] \in Jobs /\ asked[i] \in Elems(jobs)
    <3>1. asked[i] \in Jobs
      BY <1>2
    <3>2. asked[i] \in Elems(asked)
      BY DEF Elems
    <3> QED
      BY <1>2, <3>1, <3>2, SignalIsEvent
  <2>2. Len(asked) \in Nat
    BY <1>2
  <2>3. r \in Seq(Event) /\ Len(r) = Len(asked)
    BY <2>1, <2>2
  <2>4. \A i \in 1..Len(r) : r[i] = Signal("stop", asked[i])
    BY <2>3
  <2> HIDE DEF r
  <2>5. ASSUME NEW e \in Elems(r)
        PROVE  e.type = "stop" /\ e.job \in Elems(jobs) /\ e.job \in Jobs
    <3>1. PICK i \in 1..Len(r) : e = r[i]
      BY DEF Elems
    <3> QED
      BY <2>1, <2>3, <2>4, <3>1
  <2> QED
    BY <2>3, <2>5
<1>4. t.events = s.events \o r
  OBVIOUS
<1> HIDE DEF r
<1>5. Elems(t.events) = Elems(s.events) \cup Elems(r) /\ Single(t.events)
  <2>1. \A e \in Elems(r) : e.type \notin Once
    BY <1>3 DEF Once
  <2>2. Single(s.events \o r)
    BY <1>1, <1>3, <2>1, SingleConcat
  <2>3. Elems(s.events \o r) = Elems(s.events) \cup Elems(r)
    BY <1>1, <1>3, ElemsConcat
  <2> QED
    BY <1>4, <2>2, <2>3
<1>6. Placed(t) /\ Tools(t) /\ OneAhead(t)
  BY <1>1 DEF Placed, Tools, OneAhead, Idles, Stopped, HasEnded
<1>7. Ahead(t)
  <2>1. \A e \in Elems(r) : s.stage[e.job] # "deleted"
    BY <1>3 DEF Submitted
  <2> QED
    BY <1>1, <1>5, <2>1 DEF Ahead
<1>8. Untouched(t)
  BY <1>1, <1>3, <1>5 DEF Untouched, Stopped, HasEnded
<1>9. EventsOK(t)
  <2>1. ASSUME NEW e \in Elems(s.events) PROVE EventOK(t, e)
    <3>1. EventOK(s, e)
      BY <1>1 DEF EventsOK
    <3> QED
      BY <3>1 DEF EventOK, Started, Stopped, HasEnded
  <2>2. ASSUME NEW e \in Elems(r) PROVE EventOK(t, e)
    <3>1. e.type = "stop" /\ e.job \in t.canceled /\ t.stage[e.job] \in Submitted
      BY <1>3
    <3> QED
      BY <3>1 DEF EventOK, Submitted
  <2> QED
    BY <1>5, <2>1, <2>2 DEF EventsOK
<1>10. Safe(t)
  BY <1>5, <1>6, <1>7, <1>8, <1>9 DEF Safe
<1>11. EndedTold(t, {}) /\ Rechecked(t) /\ Earned(t)
  BY <1>5 DEF EndedTold, Rechecked, Earned
<1>12. Coming(t) /\ Left(t) /\ Lawful(s, t, {})
  BY DEF Coming, Due, Left, Lawful, hasPostingJobs
<1> QED
  BY <1>10, <1>11, <1>12 DEF Sound

\* t is s after the jobs gone were taken from the queue and deleted.
Closes(s, gone, t) ==
    /\ t.pending = Without(s.pending, gone)
    /\ t.stage = [j \in Jobs |-> IF j \in gone THEN "deleted" ELSE s.stage[j]]
    /\ t.tools = s.tools \ gone /\ t.upsets = s.upsets \cup {"monitoring"}
    /\ t.active = s.active /\ t.packing = s.packing /\ t.packed = s.packed
    /\ t.events = s.events /\ t.canceled = s.canceled /\ t.canceling = s.canceling
    /\ t.recheck = s.recheck /\ t.proc = s.proc /\ t.armed = s.armed /\ t.cmds = s.cmds
    /\ (gone = {} => t.ended = s.ended /\ t.word = s.word)
    /\ (gone # {} => t.ended = FALSE /\ t.word = "stop")

\* The jobs of the monitoring that wait are deleted, with what they run.
LEMMA MonitoringClosed ==
    ASSUME NEW s, Safe(s), Earned(s), Rechecked(s), EndedTold(s, {}), Coming(s), s.events = <<>>,
           NEW gone, gone = Monitored \cap Elems(s.pending),
           NEW t \in QState, Closes(s, gone, t)
    PROVE  /\ Sound(t, {}) /\ Left(t) /\ Lawful(s, t, {}) /\ t.proc = s.proc
           /\ t.active \in Jobs => t.stage[t.active] \in AtWork
<1>0. /\ t.pending = Without(s.pending, gone)
      /\ t.stage = [j \in Jobs |-> IF j \in gone THEN "deleted" ELSE s.stage[j]]
      /\ t.tools = s.tools \ gone /\ t.upsets = s.upsets \cup {"monitoring"}
      /\ t.active = s.active /\ t.packing = s.packing /\ t.packed = s.packed
      /\ t.events = s.events /\ t.canceled = s.canceled /\ t.canceling = s.canceling
      /\ t.recheck = s.recheck /\ t.proc = s.proc /\ t.armed = s.armed /\ t.cmds = s.cmds
      /\ (gone = {} => t.ended = s.ended /\ t.word = s.word)
      /\ (gone # {} => t.ended = FALSE /\ t.word = "stop")
  BY DEF Closes
<1>1. /\ s \in QState /\ Placed(s) /\ Ahead(s) /\ Untouched(s) /\ Tools(s)
      /\ EventsOK(s) /\ Single(s.events) /\ OneAhead(s) /\ s.pending \in Seq(Jobs)
      /\ s.packed \subseteq Jobs /\ s.tools \subseteq Jobs
      /\ s.packing \in Jobs \cup {NoJob} /\ s.active \in Jobs \cup {NoJob}
      /\ s.stage \in [Jobs -> Stages]
  BY DEF Safe, QState
<1>2. Elems(s.events) = {} /\ Elems(s.pending) \subseteq Jobs
  BY <1>0, <1>1, ElemsEmpty, ElemsIn
<1>3. /\ Elems(t.pending) = Elems(s.pending) \ gone
      /\ IsInjectiveSeq(t.pending)
      /\ s.pending # <<>> /\ Head(s.pending) \notin gone
            => t.pending # <<>> /\ Head(t.pending) = Head(s.pending)
  <2>1. s.pending \in Seq(Jobs) /\ IsInjectiveSeq(s.pending) /\ t.pending = Without(s.pending, gone)
    BY <1>0, <1>1 DEF Placed
  <2>2. /\ Elems(Without(s.pending, gone)) = Elems(s.pending) \ gone
        /\ IsInjectiveSeq(Without(s.pending, gone))
    BY <2>1, ElemsWithout
  <2>3. s.pending # <<>> /\ Head(s.pending) \notin gone
            => /\ Without(s.pending, gone) # <<>>
               /\ Head(Without(s.pending, gone)) = Head(s.pending)
    BY <2>1, ElemsWithout
  <2> QED
    BY <2>1, <2>2, <2>3
<1>4. /\ \A j \in Jobs : j \in gone => t.stage[j] = "deleted"
      /\ \A j \in Jobs : j \notin gone => t.stage[j] = s.stage[j]
  BY <1>0
<1> HIDE DEF Elems, IsInjectiveSeq
<1>5. Placed(t)
  <2>1. ASSUME NEW j \in Jobs
        PROVE  /\ t.stage[j] \in Submitted <=> (t.active = j \/ j \in Elems(t.pending))
               /\ t.stage[j] = "posting" => t.active = j
    <3>1. CASE j \in gone
      <4>1. t.stage[j] = "deleted" /\ j \notin Elems(t.pending)
        BY <1>0, <1>3, <1>4, <3>1
      <4>2. t.active # j
        BY <1>0, <1>1, <3>1 DEF Placed
      <4> QED
        BY <1>0, <4>1, <4>2 DEF Submitted
    <3>2. CASE j \notin gone
      <4>1. t.stage[j] = s.stage[j] /\ t.active = s.active
            /\ (j \in Elems(t.pending) <=> j \in Elems(s.pending))
        BY <1>0, <1>3, <1>4, <3>2
      <4>2. /\ s.stage[j] \in Submitted <=> (s.active = j \/ j \in Elems(s.pending))
            /\ s.stage[j] = "posting" => s.active = j
        BY <1>1 DEF Placed
      <4> QED
        BY <4>1, <4>2
    <3> QED
      BY <1>0, <3>1, <3>2
  <2>2. t.active \notin Elems(t.pending)
    BY <1>0, <1>1, <1>3 DEF Placed
  <2> QED
    BY <1>0, <1>3, <2>1, <2>2 DEF Placed
<1>6. Ahead(t)
  <2> SUFFICES ASSUME s.packing # NoJob, ~(t.pending # <<>> /\ Head(t.pending) = s.packing)
               PROVE  t.stage[s.packing] = "deleted"
    BY <1>0, <1>1, <1>2 DEF Ahead
  <2>1. CASE s.pending # <<>> /\ Head(s.pending) = s.packing
    BY <1>0, <1>1, <1>3, <1>4, <2>1
  <2>2. CASE s.stage[s.packing] = "deleted"
    BY <1>0, <1>1, <1>4, <2>2
  <2> QED
    BY <1>0, <1>1, <2>1, <2>2 DEF Ahead
<1>7. Untouched(t)
  <2> SUFFICES ASSUME NEW j \in Elems(t.pending), j # s.packing \/ j \notin HasPacking
               PROVE  (t.stage[j] = "waiting" \/ Stopped(t, j)) /\ j \notin s.packed
    BY <1>0, <1>2 DEF Untouched
  <2>1. j \in Elems(s.pending) /\ j \in Jobs /\ j \notin gone
    BY <1>0, <1>2, <1>3
  <2> QED
    BY <1>0, <1>1, <1>4, <2>1 DEF Untouched, Stopped, HasEnded
<1>8. Tools(t)
  <2>1. \A j \in t.tools : t.stage[j] = "packing"
    BY <1>0, <1>1, <1>4 DEF Tools
  <2>2. \A j \in Jobs : t.stage[j] = "packing" => j \in HasPacking
    BY <1>0, <1>1, <1>4 DEF Tools
  <2>3. \A j \in t.packed : t.stage[j] \notin {"new", "asking", "waiting", "packing"}
    BY <1>0, <1>1, <1>4 DEF Tools
  <2>4. \A j \in Elems(t.pending) : j \in t.packed => t.stage[j] = "packed" \/ Stopped(t, j)
    BY <1>0, <1>1, <1>2, <1>3, <1>4 DEF Tools, Stopped, HasEnded
  <2> QED
    BY <1>0, <2>1, <2>2, <2>3, <2>4 DEF Tools
<1>9. EventsOK(t) /\ Single(t.events)
  BY <1>0, <1>1, <1>2 DEF EventsOK
<1>15. s.active \notin gone
  BY <1>0, <1>1 DEF Placed
<1>10. OneAhead(t)
  BY <1>0, <1>1, <1>4, <1>15 DEF OneAhead, Idles
<1>11. Safe(t)
  BY <1>5, <1>6, <1>7, <1>8, <1>9, <1>10 DEF Safe
<1>12. EndedTold(t, {}) /\ Rechecked(t)
  BY <1>0, <1>4 DEF EndedTold, Rechecked
<1>13. Earned(t) /\ Coming(t)
  <2>1. CASE gone = {}
    <3>1. t.stage = s.stage
      BY <1>0, <1>1, <2>1
    <3>2. hasPostingJobs(t) <=> hasPostingJobs(s)
      <4>1. t.pending = <<>> <=> Elems(t.pending) = {}
        BY ElemsNone DEF QState
      <4>2. s.pending = <<>> <=> Elems(s.pending) = {}
        BY <1>0, <1>1, ElemsNone
      <4> QED
        BY <1>0, <1>3, <2>1, <4>1, <4>2 DEF hasPostingJobs
    <3> QED
      BY <1>0, <2>1, <3>1, <3>2 DEF Earned, Coming, Due, Wakes, shutdownHolds
  <2>2. CASE gone # {}
    BY <1>0, <2>2 DEF Earned, Coming, Due
  <2> QED
    BY <1>0, <2>1, <2>2
<1>14. Left(t)
  BY <1>0 DEF Left
<1>16. Lawful(s, t, {})
  <2>1. \A j \in Jobs : s.stage[j] \in {"new", "asking", "deleted"} => j \notin gone
    BY <1>0, <1>1 DEF Placed, Submitted
  <2> QED
    BY <1>0, <1>4, <2>1 DEF Lawful
<1>17. ASSUME t.active \in Jobs PROVE t.stage[t.active] \in AtWork
  <2>1. s.stage[s.active] \in Submitted
    BY <1>0, <1>1, <1>17 DEF Placed
  <2>2. s.stage[s.active] # "ended"
    BY <1>0, <1>2, <1>17 DEF EndedTold
  <2> QED
    BY <1>0, <1>4, <1>15, <1>17, <2>1, <2>2 DEF Submitted, AtWork
<1> QED
  BY <1>0, <1>11, <1>12, <1>13, <1>14, <1>16, <1>17 DEF Sound
-----------------------------------------------------------------------------
(* What comes from the environment and from the event loop.                  *)

\* A safe event more is a way on.
LEMMA EmitSound ==
    ASSUME NEW s, Sound(s, {}), Left(s), NEW e0 \in Event, NEW t, t = Emit(s, e0), Safe(t)
    PROVE  Sound(t, {}) /\ Left(t) /\ Lawful(s, t, {})
<1>1. s \in QState
  BY DEF Sound, Safe
<1>2. Elems(t.events) = Elems(s.events) \cup {e0} /\ t = [s EXCEPT !.events = Append(s.events, e0)]
  BY <1>1, EmitFields
<1>3. Goes(s, t)
  <2>1. /\ t.active = s.active /\ t.pending = s.pending /\ t.stage = s.stage
        /\ t.canceled = s.canceled /\ t.canceling = s.canceling /\ t.paused = s.paused
        /\ t.armed = s.armed /\ t.recheck = s.recheck /\ t.proc = s.proc
        /\ t.tunnel = s.tunnel /\ t.upsets = s.upsets /\ t.cmds = s.cmds
        /\ t.ended = s.ended /\ t.word = s.word
    BY <1>1, <1>2 DEF QState
  <2> QED
    BY <1>2, <2>1 DEF Goes, Earned, hasPostingJobs
<1>4. Lawful(s, s, {}) /\ s.proc = s.proc
  BY DEF Lawful
<1> QED
  BY <1>3, <1>4, GoesSound, GoesLawful

\* The process of a tool ends.
LEMMA ToolGone ==
    ASSUME NEW s, Sound(s, {}), Left(s), NEW j \in s.tools, NEW ok \in BOOLEAN
    PROVE  LET t == Emit([s EXCEPT !.tools = @ \ {j}], [type |-> "toolEnded", job |-> j, ok |-> ok])
           IN  Sound(t, {}) /\ Left(t) /\ Lawful(s, t, {})
<1> DEFINE u == [s EXCEPT !.tools = @ \ {j}]
           e0 == [type |-> "toolEnded", job |-> j, ok |-> ok]
           t == Emit(u, e0)
<1>1. /\ s \in QState /\ Placed(s) /\ Ahead(s) /\ Untouched(s) /\ Tools(s)
      /\ EventsOK(s) /\ Single(s.events) /\ OneAhead(s) /\ j \in Jobs
  BY DEF Sound, Safe, QState
<1>2. /\ u \in QState /\ u.active = s.active /\ u.pending = s.pending /\ u.packing = s.packing
      /\ u.stage = s.stage /\ u.packed = s.packed /\ u.tools = s.tools \ {j}
      /\ u.canceled = s.canceled /\ u.canceling = s.canceling /\ u.events = s.events
      /\ u.armed = s.armed /\ u.recheck = s.recheck /\ u.proc = s.proc
      /\ u.upsets = s.upsets /\ u.cmds = s.cmds /\ u.ended = s.ended /\ u.word = s.word
  BY <1>1 DEF QState
<1> HIDE DEF u
<1>3. e0 \in Event /\ e0.type = "toolEnded" /\ e0.job = j
  BY <1>1 DEF Event
<1> HIDE DEF e0
<1>4. Safe(u)
  <2>1. Placed(u) /\ Ahead(u) /\ Untouched(u) /\ OneAhead(u)
    BY <1>1, <1>2 DEF Placed, Ahead, Untouched, OneAhead, Idles, Stopped, HasEnded
  <2>2. Tools(u)
    BY <1>1, <1>2 DEF Tools, Stopped, HasEnded
  <2>3. EventsOK(u)
    <3>1. ASSUME NEW e \in Elems(s.events), EventOK(s, e) PROVE EventOK(u, e)
      BY <1>2, <3>1 DEF EventOK, Started, Stopped, HasEnded
    <3> QED
      BY <1>1, <1>2, <3>1 DEF EventsOK
  <2> QED
    BY <1>1, <1>2, <2>1, <2>2, <2>3 DEF Safe
<1>5. Sound(u, {}) /\ Left(u) /\ Lawful(s, u, {})
  BY <1>2, <1>4 DEF Sound, EndedTold, Earned, Rechecked, Coming, Due, Wakes, Left, Lawful,
                    hasPostingJobs, shutdownHolds
<1>6. s.stage[j] = "packing"
  BY <1>1 DEF Tools
<1>7. EventOK(u, e0)
  BY <1>2, <1>3, <1>6 DEF EventOK
<1>8. \A e \in Elems(s.events) : e.type = "toolEnded" => e.job # j
  BY <1>1 DEF EventsOK, EventOK
<1>9. Safe(t)
  BY <1>2, <1>3, <1>4, <1>6, <1>7, <1>8, EmitSafe
<1> HIDE DEF t
<1>10. Sound(t, {}) /\ Left(t) /\ Lawful(u, t, {})
  BY <1>3, <1>5, <1>9, EmitSound DEF t
<1>11. Lawful(s, t, {})
  BY <1>2, <1>10 DEF Lawful
<1> QED
  BY <1>10, <1>11 DEF t, u, e0

\* A transfer has ended.
LEMMA TransferTold ==
    ASSUME NEW s, Sound(s, {}), Left(s), NEW j \in Jobs, s.stage[j] = "posting",
           NEW good \in BOOLEAN
    PROVE  LET t == Emit(s, [type |-> "transferEnded", job |-> j, ok |-> good])
           IN  Sound(t, {}) /\ Left(t) /\ Lawful(s, t, {})
<1> DEFINE e0 == [type |-> "transferEnded", job |-> j, ok |-> good]
           t == Emit(s, e0)
<1>1. e0 \in Event /\ e0.type = "transferEnded" /\ e0.job = j
  BY DEF Event
<1> HIDE DEF e0
<1>2. EventOK(s, e0)
  BY <1>1 DEF EventOK
<1>3. Safe(t)
  BY <1>1, <1>2, EmitSafe DEF Sound
<1> QED
  BY <1>1, <1>3, EmitSound DEF e0

\* The last post command has ended, or the shutdown, or the tunnel is lost.
LEMMA FlagsSound ==
    ASSUME NEW s, Sound(s, {}), Left(s), NEW t \in QState,
           t.active = s.active, t.pending = s.pending, t.packing = s.packing,
           t.stage = s.stage, t.packed = s.packed, t.tools = s.tools, t.events = s.events,
           t.canceled = s.canceled, t.upsets = s.upsets, t.canceling = s.canceling,
           t.recheck = s.recheck, t.ended = FALSE \/ (t.ended = s.ended /\ t.word = s.word)
    PROVE  /\ Safe(t) /\ EndedTold(t, {}) /\ Earned(t) /\ Rechecked(t) /\ Left(t)
           /\ t.proc = s.proc => Lawful(s, t, {})
<1>1. Safe(t)
  BY FlagsSafe DEF Sound
<1>2. EndedTold(t, {}) /\ Rechecked(t) /\ Left(t)
  BY DEF Sound, EndedTold, Rechecked, Left, hasPostingJobs
<1>3. Earned(t)
  BY DEF Sound, Earned
<1> QED
  BY <1>1, <1>2, <1>3 DEF Lawful

\* An event is taken from the queue.
LEMMA Taken ==
    ASSUME NEW s, Sound(s, {}), Left(s), s.events # <<>>
    PROVE  LET e == Head(s.events)
               t == [s EXCEPT !.events = Tail(@)]
           IN  /\ e \in Event /\ EventOK(s, e) /\ e \in Elems(s.events)
               /\ t \in QState /\ Safe(t) /\ Earned(t) /\ Left(t) /\ Lawful(s, t, {})
               /\ t.proc = s.proc
               /\ t.stage = s.stage /\ t.active = s.active /\ t.pending = s.pending
               /\ t.packing = s.packing /\ t.packed = s.packed /\ t.tools = s.tools
               /\ t.canceled = s.canceled
               /\ e.type # "finished" => EndedTold(t, {})
               /\ e.type = "finished" => EndedTold(t, {e.job})
               /\ e.type # "recheck" => Rechecked(t)
               /\ e.type \notin {"recheck", "idle"} => Coming(t)
               /\ e.type \in Once
                    => \A f \in Elems(t.events) : f.type = e.type => f.job # e.job
<1> DEFINE e == Head(s.events)
           t == [s EXCEPT !.events = Tail(s.events)]
<1>0. [s EXCEPT !.events = Tail(@)] = t
  OBVIOUS
<1>1. /\ s \in QState /\ Placed(s) /\ Ahead(s) /\ Untouched(s) /\ Tools(s)
      /\ EventsOK(s) /\ Single(s.events) /\ OneAhead(s) /\ s.events \in Seq(Event)
  BY DEF Sound, Safe, QState
<1>2. /\ Tail(s.events) \in Seq(Event) /\ e \in Event
      /\ Elems(s.events) = Elems(Tail(s.events)) \cup {e}
  BY <1>1, ElemsTail
<1>3. /\ Single(Tail(s.events))
      /\ e.type \in Once
           => \A f \in Elems(Tail(s.events)) : f.type = e.type => f.job # e.job
  BY <1>1, SingleTail
<1>4. EventOK(s, e)
  BY <1>1, <1>2 DEF EventsOK
<1> HIDE DEF e
<1>5. /\ t \in QState /\ t.active = s.active /\ t.pending = s.pending /\ t.packing = s.packing
      /\ t.stage = s.stage /\ t.packed = s.packed /\ t.tools = s.tools
      /\ t.canceled = s.canceled /\ t.canceling = s.canceling /\ t.events = Tail(s.events)
      /\ t.armed = s.armed /\ t.recheck = s.recheck /\ t.proc = s.proc
      /\ t.upsets = s.upsets /\ t.cmds = s.cmds /\ t.ended = s.ended /\ t.word = s.word
  BY <1>1, <1>2 DEF QState
<1> HIDE DEF t
<1>6. Safe(t)
  <2>1. Placed(t) /\ Ahead(t) /\ Untouched(t) /\ OneAhead(t) /\ Tools(t)
    BY <1>1, <1>2, <1>5 DEF Placed, Ahead, Untouched, OneAhead, Idles, Stopped, HasEnded, Tools
  <2>2. EventsOK(t)
    <3>1. ASSUME NEW f \in Elems(s.events), EventOK(s, f) PROVE EventOK(t, f)
      BY <1>5, <3>1 DEF EventOK, Started, Stopped, HasEnded
    <3> QED
      BY <1>1, <1>2, <1>5, <3>1 DEF EventsOK
  <2> QED
    BY <1>3, <1>5, <2>1, <2>2 DEF Safe
<1>7. Earned(t) /\ Left(t) /\ Lawful(s, t, {})
  BY <1>5 DEF Sound, Earned, Left, hasPostingJobs, Lawful
<1>8. \A j \in Jobs : s.stage[j] = "ended" /\ (e.type # "finished" \/ e.job # j)
                         => Fin(j) \in Elems(t.events)
  <2>1. \A j \in Jobs : Fin(j).type = "finished" /\ Fin(j).job = j
    BY DEF Fin, Signal
  <2> QED
    BY <1>2, <1>5, <2>1 DEF Sound, EndedTold
<1>9. /\ e.type # "finished" => EndedTold(t, {})
      /\ e.type = "finished" => EndedTold(t, {e.job})
  BY <1>5, <1>8 DEF EndedTold
<1>10. e.type # "recheck" => Rechecked(t)
  BY <1>2, <1>5 DEF Sound, Rechecked
<1>11. e.type \notin {"recheck", "idle"} => Coming(t)
  BY <1>2, <1>5 DEF Sound, Coming, Due, Wakes, hasPostingJobs, shutdownHolds
<1> QED
  BY <1>0, <1>2, <1>3, <1>4, <1>5, <1>6, <1>7, <1>9, <1>10, <1>11 DEF e

\* The event of a job is handled by the job.
LEMMA JobHandled ==
    ASSUME NEW s, Sound(s, {}), Left(s), NEW j \in Jobs, NEW t,
           t = s \/ (JobStep(s, t, j) /\ (HasEnded(s, j) \/ InHand(s, j)))
    PROVE  Sound(t, {}) /\ Left(t) /\ Lawful(s, t, {})
<1>1. Lawful(s, s, {}) /\ s.proc = s.proc
  BY DEF Lawful
<1>2. CASE t = s
  BY <1>1, <1>2
<1>3. CASE JobStep(s, t, j) /\ (HasEnded(s, j) \/ InHand(s, j))
  <2>1. Safe(t) /\ Goes(s, t)
    BY <1>3, JobStepSafe, JobStepGoes DEF Sound
  <2> QED
    BY <1>1, <2>1, GoesSound, GoesLawful
<1> QED
  BY <1>2, <1>3

\* Every event is handled soundly.
LEMMA Handled ==
    ASSUME NEW s, Sound(s, {}), Left(s), s.events # <<>>, s.pending = pendingJobs,
           NEW fails \in BOOLEAN
    PROVE  LET t == Handle([s EXCEPT !.events = Tail(@)], Head(s.events), fails)
           IN  Sound(t, {}) /\ Left(t) /\ Lawful(s, t, {})
<1> DEFINE e == Head(s.events)
           r == [s EXCEPT !.events = Tail(@)]
           t == Handle(r, e, fails)
           j == e.job
<1> SUFFICES Sound(t, {}) /\ Left(t) /\ Lawful(s, t, {})
  OBVIOUS
<1>1. /\ e \in Event /\ EventOK(s, e) /\ e \in Elems(s.events)
      /\ r \in QState /\ Safe(r) /\ Earned(r) /\ Left(r) /\ Lawful(s, r, {})
      /\ r.proc = s.proc
      /\ r.stage = s.stage /\ r.active = s.active /\ r.pending = s.pending
      /\ r.packing = s.packing /\ r.packed = s.packed /\ r.tools = s.tools
      /\ r.canceled = s.canceled
      /\ e.type # "finished" => EndedTold(r, {})
      /\ e.type = "finished" => EndedTold(r, {e.job})
      /\ e.type # "recheck" => Rechecked(r)
      /\ e.type \notin {"recheck", "idle"} => Coming(r)
      /\ e.type \in Once
           => \A f \in Elems(r.events) : f.type = e.type => f.job # e.job
  BY Taken
<1>2. /\ Placed(s) /\ Ahead(s) /\ Untouched(s) /\ Tools(s) /\ EventsOK(r)
      /\ s.tools = r.tools
  BY <1>1 DEF Sound, Safe
<1> HIDE DEF e, r
<1>3. ASSUME NEW x, Sound(x, {}), Left(x), Lawful(r, x, {})
      PROVE  Sound(x, {}) /\ Left(x) /\ Lawful(s, x, {})
  BY <1>1, <1>3 DEF Lawful
<1>4. e.type \notin {"finished", "recheck", "idle"} => Sound(r, {}) /\ j \in Jobs
  BY <1>1, EventJob DEF Sound, JobEvent
<1>5. CASE e.type = "start"
  <2>1. t = onStartPosting(r, j, fails)
    BY <1>5 DEF Handle
  <2>2. (s.stage[j] = "waiting" /\ (j \in HasPacking \/ j = s.active)) \/ Stopped(s, j)
    BY <1>1, <1>5 DEF EventOK, Started
  <2> HIDE DEF t
  <2>3. JobStep(r, t, j)
    BY <1>1, <1>4, <1>5, <2>1, <2>2, StartPostingStep DEF Stopped, HasEnded
  <2>4. HasEnded(r, j) \/ InHand(r, j)
    <3>1. CASE Stopped(s, j)
      BY <1>1, <3>1 DEF Stopped, HasEnded
    <3>2. CASE s.stage[j] = "waiting"
      <4>1. j \notin r.tools
        BY <1>2, <3>2 DEF Tools
      <4>2. \A f \in Elems(r.events) : f.type = "toolEnded" => f.job # j
        BY <1>1, <1>2, <3>2 DEF EventsOK, EventOK, Stopped, HasEnded
      <4>3. j \in Elems(r.pending) => j = r.packing /\ j \in HasPacking
        BY <1>1, <1>2, <1>5 DEF Untouched
      <4> QED
        BY <1>1, <1>5, <4>1, <4>2, <4>3 DEF InHand, Free, Once
    <3> QED
      BY <2>2, <3>1, <3>2
  <2> QED
    BY <1>1, <1>3, <1>4, <1>5, <2>3, <2>4, JobHandled
<1>6. CASE e.type = "stop"
  <2>1. t = onStopPosting(r, j)
    BY <1>6 DEF Handle
  <2>2. j \in r.canceled /\ r.stage[j] \notin {"new", "asking"}
    BY <1>1, <1>6 DEF EventOK
  <2> HIDE DEF t
  <2>3. t = r \/ (j \notin r.tools /\ JobStep(r, t, j))
    BY <1>1, <1>4, <1>6, <2>1, <2>2, StopPostingStep
  <2> QED
    BY <1>1, <1>3, <1>4, <1>6, <2>2, <2>3, JobHandled DEF InHand
<1>7. CASE e.type = "toolEnded"
  <2>1. t = onToolEnded(r, j, e.ok, fails) /\ e.ok \in BOOLEAN
    BY <1>1, <1>7 DEF Handle, Event
  <2>2. j \notin r.tools /\ (r.stage[j] = "packing" \/ Stopped(r, j))
    BY <1>1, <1>7 DEF EventOK, Stopped, HasEnded
  <2> HIDE DEF t
  <2>3. JobStep(r, t, j)
    BY <1>1, <1>4, <1>7, <2>1, <2>2, ToolEndedStep
  <2>4. HasEnded(r, j) \/ InHand(r, j)
    <3>1. CASE Stopped(r, j)
      BY <3>1 DEF Stopped
    <3>2. CASE r.stage[j] = "packing"
      <4>1. \A f \in Elems(r.events) : f.type = "start" => f.job # j
        BY <1>1, <1>2, <3>2 DEF EventsOK, EventOK, Started, Stopped, HasEnded
      <4>2. j \in Elems(r.pending) => j = r.packing /\ j \in HasPacking
        BY <1>1, <1>2, <3>2 DEF Untouched, Stopped, HasEnded
      <4> QED
        BY <1>1, <1>7, <2>2, <4>1, <4>2 DEF InHand, Free, Once
    <3> QED
      BY <2>2, <3>1, <3>2
  <2> QED
    BY <1>1, <1>3, <1>4, <1>7, <2>3, <2>4, JobHandled
<1>8. CASE e.type = "transferEnded"
  <2>1. t = onTransferEnded(r, j, e.ok) /\ e.ok \in BOOLEAN
    BY <1>1, <1>8 DEF Handle, Event
  <2>2. r.stage[j] = "posting" \/ HasEnded(r, j)
    BY <1>1, <1>8 DEF EventOK, HasEnded
  <2> HIDE DEF t
  <2>3. t = r \/ (r.stage[j] = "posting" /\ JobStep(r, t, j))
    BY <1>1, <1>4, <1>8, <2>1, <2>2, TransferEndedStep
  <2>4. r.stage[j] = "posting" => InHand(r, j)
    <3> SUFFICES ASSUME r.stage[j] = "posting" PROVE InHand(r, j)
      OBVIOUS
    <3>1. j \notin r.tools
      BY <1>1, <1>2 DEF Tools
    <3>2. \A f \in Elems(r.events) : f.type \in {"start", "toolEnded"} => f.job # j
      BY <1>2 DEF EventsOK, EventOK, Started, Stopped, HasEnded
    <3>3. j \notin Elems(r.pending)
      BY <1>1, <1>2, <1>4, <1>8 DEF Placed
    <3> QED
      BY <3>1, <3>2, <3>3 DEF InHand, Free
  <2> QED
    BY <1>1, <1>3, <1>4, <1>8, <2>3, <2>4, JobHandled
<1>9. CASE e.type = "packingDone"
  <2>1. t = onPackingDone(r, j, fails)
    BY <1>9 DEF Handle
  <2>2. j \in r.packed \/ r.stage[j] = "deleted"
    BY <1>1, <1>9 DEF EventOK
  <2> HIDE DEF t
  <2>3. Safe(t) /\ Goes(r, t)
    BY <1>1, <1>4, <1>9, <2>1, <2>2, PackingDone
  <2>4. Lawful(r, r, {}) /\ r.proc = r.proc
    BY DEF Lawful
  <2> QED
    BY <1>1, <1>3, <1>4, <1>9, <2>3, <2>4, GoesSound, GoesLawful
<1>10. CASE e.type = "finished"
  <2>1. t = onPostingJobFinished(r, j, fails)
    BY <1>10 DEF Handle
  <2>2. HasEnded(r, j) /\ j \in Jobs
    BY <1>1, <1>10, EventJob DEF EventOK, HasEnded, JobEvent
  <2>3. r.packing = j => r.pending # <<>> /\ Head(r.pending) = j
    BY <1>1, <1>2, <1>10, <2>2, JobQueueAssumption DEF Ahead, JobEvent
  <2>4. Sound(r, {j}) /\ Heard(r, j)
    BY <1>1, <1>10 DEF Sound, Heard, Once
  <2> HIDE DEF t
  <2>5. Sound(t, {}) /\ Left(t) /\ Lawful(r, t, {})
    BY <1>1, <2>1, <2>2, <2>3, <2>4, JobFinished
  <2> QED
    BY <1>3, <2>5
<1>11. CASE e.type = "idle"
  <2>1. t = maybeFinishApplication(r)
    BY <1>11 DEF Handle
  <2> HIDE DEF t
  <2>2. /\ Safe(t) /\ Earned(t) /\ Coming(t)
        /\ t.proc => r.proc \/ Over(t)
        /\ t.stage = r.stage /\ t.events = r.events /\ t.recheck = r.recheck
        /\ t.canceled = r.canceled /\ t.upsets = r.upsets /\ t.canceling = r.canceling
        /\ hasPostingJobs(t) = hasPostingJobs(r)
    BY <1>1, <2>1, MaybeFinish
  <2>3. EndedTold(t, {}) /\ Rechecked(t) /\ Left(t) /\ Lawful(r, t, {})
    BY <1>1, <1>11, <2>2 DEF EndedTold, Rechecked, Left, Lawful
  <2> QED
    BY <1>3, <2>2, <2>3 DEF Sound
<1>12. CASE e.type = "recheck"
  <2> DEFINE u == [r EXCEPT !.recheck = FALSE]
  <2>1. t = maybeFinishApplication(u)
    BY <1>12 DEF Handle
  <2> HIDE DEF t
  <2>2. /\ u \in QState /\ u.active = r.active /\ u.pending = r.pending /\ u.packing = r.packing
        /\ u.stage = r.stage /\ u.packed = r.packed /\ u.tools = r.tools /\ u.events = r.events
        /\ u.canceled = r.canceled /\ u.upsets = r.upsets /\ u.canceling = r.canceling
        /\ u.recheck = FALSE /\ u.proc = r.proc /\ u.ended = r.ended /\ u.word = r.word
    BY <1>1 DEF QState
  <2> HIDE DEF u
  <2>3. Safe(u) /\ Earned(u)
    BY <1>1, <2>2, FlagsSafe DEF Earned
  <2>4. /\ Safe(t) /\ Earned(t) /\ Coming(t)
        /\ t.proc => u.proc \/ Over(t)
        /\ t.stage = u.stage /\ t.events = u.events /\ t.recheck = u.recheck
        /\ t.canceled = u.canceled /\ t.upsets = u.upsets /\ t.canceling = u.canceling
        /\ hasPostingJobs(t) = hasPostingJobs(u)
    BY <2>1, <2>3, MaybeFinish
  <2>5. hasPostingJobs(u) <=> hasPostingJobs(r)
    BY <2>2 DEF hasPostingJobs
  <2>6. EndedTold(t, {}) /\ Rechecked(t) /\ Left(t) /\ Lawful(r, t, {})
    BY <1>1, <1>12, <2>2, <2>4, <2>5 DEF EndedTold, Rechecked, Left, Lawful
  <2> QED
    BY <1>3, <2>4, <2>6 DEF Sound
<1>13. e.type \in {"start", "stop", "packingDone", "finished", "toolEnded", "transferEnded",
                   "recheck", "idle"}
  BY <1>1 DEF Event
<1> QED
  BY <1>5, <1>6, <1>7, <1>8, <1>9, <1>10, <1>11, <1>12, <1>13
-----------------------------------------------------------------------------
(* The inductive invariant of the specification.                             *)

\* A job that "stop all" found is asked to stop, or deleted, or its admission
\* dialog was opened before.
Bound(s) ==
    \A j \in doomed :
        \/ j \in s.canceled /\ s.stage[j] \notin {"new", "asking"}
        \/ s.stage[j] = "deleted"
        \/ s.stage[j] = "asking" /\ askedAt[j] < generation

\* The variables that are no part of the record.
Others ==
    /\ preparePacking \in BOOLEAN /\ generation \in Nat /\ askedAt \in [Jobs -> Nat]
    /\ unsubmitted \in BOOLEAN /\ draining \in BOOLEAN /\ question \in BOOLEAN
    /\ doomed \subseteq Jobs /\ nbActs \in Nat
    /\ \A j \in Jobs : askedAt[j] <= generation

Inv == Others /\ Sound(Now, {}) /\ Left(Now) /\ Bound(Now)

LEMMA Became ==
    ASSUME NEW s \in QState, Become(s)
    PROVE  Now' = s /\ preparePacking' = preparePacking
BY DEF Become, Now, QState

LEMMA BecameSound ==
    ASSUME NEW s, Sound(s, {}), Left(s), Become(s), UNCHANGED unsubmitted
    PROVE  (Sound(Now, {}) /\ Left(Now))' /\ Now' = s
<1>1. s \in QState
  BY DEF Sound, Safe
<1>2. Now' = s /\ preparePacking' = preparePacking /\ unsubmitted' = unsubmitted
  BY <1>1, Became
<1>3. Safe(Now)'
  BY <1>2 DEF Sound, Safe, Ahead
<1>4. Coming(Now)'
  BY <1>2 DEF Sound, Coming
<1>5. EndedTold(Now, {})' /\ Earned(Now)' /\ Rechecked(Now)' /\ Left(Now)'
  BY <1>2 DEF Sound
<1> QED
  BY <1>2, <1>3, <1>4, <1>5 DEF Sound

\* Of an action: no job that a "stop all" found is started, and the computer is
\* shut down only when nothing is left and something was posted since.
Keeps ==
    /\ \A j \in doomed : stage'[j] \in {"packing", "posting"} => stage'[j] = stage[j]
    /\ ~shuttingDown /\ shuttingDown' =>
         /\ \A j \in Jobs : stage'[j] \in {"new", "deleted"}
         /\ postCmds' = {} /\ ~unsubmitted /\ lastWord' = "good"

LEMMA InitInv == Init => Inv
<1> SUFFICES ASSUME Init PROVE Inv
  OBVIOUS
<1> USE DEF Init
<1>1. Others
  <2>1. askedAt \in [Jobs -> Nat] /\ \A j \in Jobs : askedAt[j] <= 0
    OBVIOUS
  <2> QED
    BY <2>1 DEF Others
<1>2. Now \in QState
  <2>1. <<>> \in Seq(Jobs) /\ <<>> \in Seq(Event)
    OBVIOUS
  <2>2. stage \in [Jobs -> Stages]
    BY DEF Stages
  <2> QED
    BY <2>1, <2>2 DEF QState, Now
<1>3. Elems(<<>>) = {}
  BY ElemsEmpty
<1>4. /\ Now.events = <<>> /\ Now.pending = <<>> /\ Now.active = NoJob /\ Now.packing = NoJob
      /\ Now.tools = {} /\ Now.packed = {} /\ Now.stage = [j \in Jobs |-> "new"]
      /\ Now.ended = FALSE /\ Now.recheck = FALSE /\ Now.canceling = FALSE
  BY DEF Now
<1>5. Placed(Now) /\ Ahead(Now) /\ Untouched(Now) /\ Tools(Now) /\ OneAhead(Now)
  BY <1>3, <1>4, JobQueueAssumption
     DEF Placed, Ahead, Untouched, Tools, OneAhead, Submitted, IsInjectiveSeq
<1>6. EventsOK(Now) /\ Single(Now.events)
  BY <1>3, <1>4 DEF EventsOK, Single
<1>7. Sound(Now, {})
  BY <1>2, <1>4, <1>5, <1>6 DEF Sound, Safe, EndedTold, Earned, Rechecked, Coming, Due
<1>8. Left(Now) /\ Bound(Now)
  BY <1>4 DEF Left, Bound
<1> QED
  BY <1>1, <1>7, <1>8 DEF Inv

\* A handler that is sound and lawful keeps all of this.
LEMMA StepInv ==
    ASSUME Inv, NEW s, Sound(s, {}), Left(s), Become(s), NEW E, Lawful(Now, s, E),
           UNCHANGED <<unsubmitted, generation, doomed>>,
           \A j \in doomed : \/ j \in E /\ s.stage[j] = "deleted"
                             \/ j \notin E /\ askedAt'[j] = askedAt[j],
           Others'
    PROVE  Inv' /\ Keeps
<1>1. (Sound(Now, {}) /\ Left(Now))' /\ Now' = s
  BY BecameSound
<1>2. /\ Now.stage = stage /\ Now.canceled = cancelRequested /\ Now.proc = shuttingDown
      /\ s.stage = stage' /\ s.canceled = cancelRequested' /\ s.proc = shuttingDown'
      /\ s.cmds = postCmds' /\ s.word = lastWord'
  BY DEF Now, Become
<1>3. ASSUME NEW j \in doomed
      PROVE  /\ \/ j \in s.canceled /\ s.stage[j] \notin {"new", "asking"}
                \/ s.stage[j] = "deleted"
                \/ s.stage[j] = "asking" /\ askedAt'[j] < generation
             /\ s.stage[j] \in {"packing", "posting"} => s.stage[j] = stage[j]
  <2>1. j \in Jobs
    BY DEF Inv, Others
  <2>2. \/ j \in cancelRequested /\ stage[j] \notin {"new", "asking"}
        \/ stage[j] = "deleted"
        \/ stage[j] = "asking" /\ askedAt[j] < generation
    BY <1>2 DEF Inv, Bound
  <2>3. CASE s.stage[j] = "deleted"
    BY <2>3
  <2>4. CASE j \notin E /\ askedAt'[j] = askedAt[j]
    BY <1>2, <2>1, <2>2, <2>4 DEF Lawful
  <2> QED
    BY <2>3, <2>4
<1>4. Bound(Now)'
  BY <1>1, <1>3 DEF Bound
<1>5. Keeps
  BY <1>2, <1>3 DEF Keeps, Lawful, Over
<1> QED
  BY <1>1, <1>4, <1>5 DEF Inv

\* A job whose admission is being asked for is in nothing yet.
LEMMA Asking ==
    ASSUME NEW j \in Jobs, NEW s, Sound(s, {}), Left(s), s.stage[j] = "new"
    PROVE  LET u == [s EXCEPT !.stage[j] = "asking"]
           IN  Sound(u, {}) /\ Left(u) /\ Lawful(s, u, {j})
<1> DEFINE u == [s EXCEPT !.stage[j] = "asking"]
<1>1. /\ s \in QState /\ Placed(s) /\ Ahead(s) /\ Untouched(s) /\ Tools(s)
      /\ EventsOK(s) /\ Single(s.events) /\ OneAhead(s) /\ Safe(s)
      /\ s.pending \in Seq(Jobs) /\ s.events \in Seq(Event)
  BY DEF Sound, Safe, QState
<1>2. /\ s.active # j /\ s.packing # j /\ j \notin Elems(s.pending)
      /\ j \notin s.packed /\ j \notin s.tools
      /\ \A e \in Elems(s.events) : JobEvent(e) => e.job # j
  BY <1>1, Unheard
<1>5. /\ u \in QState /\ u.stage = [s.stage EXCEPT ![j] = "asking"]
      /\ u.pending = s.pending /\ u.active = s.active /\ u.packing = s.packing
      /\ u.packed = s.packed /\ u.tools = s.tools /\ u.events = s.events
      /\ u.canceling = s.canceling /\ u.canceled = s.canceled /\ u.upsets = s.upsets
      /\ u.recheck = s.recheck /\ u.word = s.word /\ u.armed = s.armed
      /\ u.ended = s.ended /\ u.proc = s.proc /\ u.cmds = s.cmds
  BY <1>1 DEF QState, Stages
<1> HIDE DEF u
<1>6. u.stage[j] = "asking" /\ \A k \in Jobs : k # j => u.stage[k] = s.stage[k]
  BY <1>1, <1>5 DEF QState
<1>7. Placed(u)
  <2>1. ASSUME NEW k \in Jobs
        PROVE  /\ u.stage[k] \in Submitted <=> (u.active = k \/ k \in Elems(u.pending))
               /\ u.stage[k] = "posting" => u.active = k
    <3>1. CASE k = j
      BY <1>2, <1>5, <1>6, <3>1 DEF Submitted
    <3>2. CASE k # j
      BY <1>1, <1>5, <1>6, <3>2 DEF Placed
    <3> QED
      BY <3>1, <3>2
  <2> QED
    BY <1>1, <1>5, <2>1 DEF Placed
<1>8. Ahead(u)
  <2>1. s.packing # NoJob => u.stage[s.packing] = s.stage[s.packing]
    BY <1>1, <1>2, <1>6 DEF QState
  <2> QED
    BY <1>1, <1>5, <2>1 DEF Ahead
<1>9. Untouched(u)
  <2> SUFFICES ASSUME NEW k \in Elems(s.pending), k # s.packing \/ k \notin HasPacking
               PROVE  /\ u.stage[k] = "waiting" \/ Stopped(u, k)
                      /\ k \notin s.packed
                      /\ \A e \in Elems(s.events) : e.type = "start" => e.job # k
    BY <1>5 DEF Untouched
  <2>1. k # j /\ k \in Jobs
    BY <1>1, <1>2, ElemsIn
  <2> QED
    BY <1>1, <1>5, <1>6, <2>1 DEF Untouched, Stopped, HasEnded
<1>10. Tools(u)
  <2>1. \A k \in u.tools : u.stage[k] = "packing"
    BY <1>1, <1>2, <1>5, <1>6 DEF Tools, QState
  <2>2. \A k \in Jobs : u.stage[k] = "packing" => k \in HasPacking
    BY <1>1, <1>6 DEF Tools
  <2>3. \A k \in u.packed : u.stage[k] \notin {"new", "asking", "waiting", "packing"}
    BY <1>1, <1>2, <1>5, <1>6 DEF Tools, QState
  <2>4. \A k \in Elems(u.pending) : k \in u.packed => u.stage[k] = "packed" \/ Stopped(u, k)
    BY <1>1, <1>2, <1>5, <1>6 DEF Tools, Stopped, HasEnded, QState
  <2> QED
    BY <2>1, <2>2, <2>3, <2>4 DEF Tools
<1>11. EventsOK(u)
  <2> SUFFICES ASSUME NEW e \in Elems(s.events) PROVE EventOK(u, e)
    BY <1>5 DEF EventsOK
  <2>1. EventOK(s, e) /\ (JobEvent(e) => e.job \in Jobs /\ e.job # j)
    BY <1>1, <1>2, ElemsIn, EventJob DEF EventsOK
  <2>2. JobEvent(e) => u.stage[e.job] = s.stage[e.job]
    BY <1>6, <2>1
  <2> QED
    BY <1>5, <2>1, <2>2 DEF EventOK, Started, Stopped, HasEnded, JobEvent
<1>12. OneAhead(u)
  <2>1. s.active \in Jobs => u.stage[s.active] = s.stage[s.active]
    BY <1>2, <1>6
  <2>2. s.packing \in Jobs => u.stage[s.packing] = s.stage[s.packing]
    BY <1>2, <1>6
  <2> QED
    BY <1>1, <1>5, <2>1, <2>2 DEF OneAhead, Idles, QState
<1>13. Safe(u)
  BY <1>1, <1>5, <1>7, <1>8, <1>9, <1>10, <1>11, <1>12 DEF Safe
<1>14. EndedTold(u, {}) /\ Rechecked(u) /\ Earned(u)
  <2>1. EndedTold(u, {}) /\ Rechecked(u)
    BY <1>5, <1>6 DEF Sound, EndedTold, Rechecked
  <2>2. Earned(u)
    BY <1>5, <1>6 DEF Sound, Earned, AtWork
  <2> QED
    BY <2>1, <2>2
<1>15. Coming(u)
  <2>1. shutdownHolds(u) # {}
    BY <1>6 DEF shutdownHolds
  <2> QED
    BY <2>1 DEF Coming, Due
<1>16. Left(u) /\ Lawful(s, u, {j})
  BY <1>5, <1>6 DEF Left, hasPostingJobs, Lawful
<1> QED
  BY <1>13, <1>14, <1>15, <1>16 DEF Sound, u
-----------------------------------------------------------------------------
(* One lemma for each action.                                                *)

\* What the lemmas start from.
LEMMA InvNow ==
    ASSUME Inv
    PROVE  /\ Sound(Now, {}) /\ Left(Now) /\ Safe(Now) /\ Now \in QState
           /\ Now.stage = stage /\ Now.active = activeJob /\ Now.pending = pendingJobs
           /\ Now.events = events /\ Now.tools = toolRunning /\ Now.packing = packingJob
           /\ Now.canceled = cancelRequested /\ Now.packed = packed /\ Now.proc = shuttingDown
           /\ Now.cmds = postCmds /\ Now.word = lastWord
           /\ stage \in [Jobs -> Stages]
BY DEF Inv, Sound, Safe, Now, QState

LEMMA AskAdmissionInv ==
    ASSUME Inv, NEW j \in Jobs, AskAdmission(j)
    PROVE  Inv' /\ Keeps
<1>1. /\ Sound(Now, {}) /\ Left(Now) /\ Now.stage = stage /\ stage[j] = "new"
      /\ UNCHANGED <<generation, unsubmitted, doomed>>
  BY InvNow DEF AskAdmission
<1>2. j \notin doomed
  BY <1>1 DEF Inv, Bound
<1>3. CASE cancelingAll
  <2> DEFINE s == _discardUnstartedJob(Now, j)
  <2>1. Become(s) /\ UNCHANGED askedAt
    BY <1>3 DEF AskAdmission
  <2>2. Sound(s, {}) /\ Left(s) /\ Lawful(Now, s, {j})
    BY <1>1, Discarded
  <2> HIDE DEF s
  <2>3. Others'
    BY <2>1 DEF AskAdmission, Inv, Others, Become
  <2> QED
    BY <1>1, <1>2, <2>1, <2>2, <2>3, StepInv
<1>4. CASE ~cancelingAll
  <2> DEFINE s == [Now EXCEPT !.stage[j] = "asking"]
  <2>1. Become(s) /\ askedAt' = [askedAt EXCEPT ![j] = generation]
    BY <1>4 DEF AskAdmission
  <2>2. Sound(s, {}) /\ Left(s) /\ Lawful(Now, s, {j})
    BY <1>1, Asking
  <2> HIDE DEF s
  <2>3. Others'
    BY <2>1 DEF AskAdmission, Inv, Others, Become
  <2>4. \A k \in doomed : k \notin {j} /\ askedAt'[k] = askedAt[k]
    BY <1>2, <2>1 DEF Inv, Others
  <2> QED
    BY <1>1, <2>1, <2>2, <2>3, <2>4, StepInv
<1> QED
  BY <1>3, <1>4

LEMMA AnswerDialogInv ==
    ASSUME Inv, NEW j \in Jobs, NEW accepted \in BOOLEAN, AnswerDialog(j, accepted)
    PROVE  Inv' /\ Keeps
<1>1. /\ Sound(Now, {}) /\ Left(Now) /\ Now.stage = stage /\ stage[j] = "asking"
      /\ askedAt' = [askedAt EXCEPT ![j] = 0]
      /\ UNCHANGED <<generation, unsubmitted, doomed>>
  BY InvNow DEF AnswerDialog
<1>2. \A k \in doomed : k # j => askedAt'[k] = askedAt[k]
  BY <1>1 DEF Inv, Others
<1>3. Others'
  <2>1. /\ askedAt' \in [Jobs -> Nat] /\ \A k \in Jobs : askedAt'[k] <= generation
    BY <1>1 DEF Inv, Others
  <2> QED
    BY <1>1, <2>1 DEF AnswerDialog, Inv, Others, Become
<1>4. CASE accepted /\ askedAt[j] = generation
  <2> DEFINE s == Admit(Now, j)
  <2>1. Become(s)
    BY <1>4 DEF AnswerDialog
  <2>2. Sound(s, {}) /\ Left(s) /\ Lawful(Now, s, {j})
    BY <1>1, Admitted
  <2> HIDE DEF s
  <2>3. j \notin doomed
    BY <1>1, <1>4 DEF Inv, Bound, Others
  <2> QED
    BY <1>1, <1>2, <1>3, <2>1, <2>2, <2>3, StepInv
<1>5. CASE ~(accepted /\ askedAt[j] = generation)
  <2> DEFINE s == _discardUnstartedJob(Now, j)
  <2>1. Become(s)
    BY <1>5 DEF AnswerDialog
  <2>2. Sound(s, {}) /\ Left(s) /\ Lawful(Now, s, {j}) /\ s.stage[j] = "deleted"
    BY <1>1, Discarded
  <2> HIDE DEF s
  <2> QED
    BY <1>1, <1>2, <1>3, <2>1, <2>2, StepInv
<1> QED
  BY <1>4, <1>5

LEMMA StartPostingJobInv ==
    ASSUME Inv, NEW j \in Jobs, startPostingJob(j)
    PROVE  Inv' /\ Keeps
<1> DEFINE s == Admit(Now, j)
<1>1. /\ Sound(Now, {}) /\ Left(Now) /\ Now.stage = stage /\ stage[j] = "new" /\ Become(s)
      /\ UNCHANGED <<generation, unsubmitted, doomed, askedAt>>
  BY InvNow DEF startPostingJob
<1>2. j \notin doomed
  BY <1>1 DEF Inv, Bound
<1>3. Sound(s, {}) /\ Left(s) /\ Lawful(Now, s, {j})
  BY <1>1, Admitted
<1> HIDE DEF s
<1>4. Others'
  BY <1>1 DEF startPostingJob, Inv, Others, Become
<1> QED
  BY <1>1, <1>2, <1>3, <1>4, StepInv

\* Nothing is done to the jobs that a "stop all" found but what is lawful.
LEMMA LawfulInv ==
    ASSUME Inv, NEW s, Sound(s, {}), Left(s), Become(s), Lawful(Now, s, {}),
           UNCHANGED <<unsubmitted, generation, doomed, askedAt>>,
           draining' \in BOOLEAN, question' \in BOOLEAN, nbActs' \in Nat
    PROVE  Inv' /\ Keeps
<1>1. Others'
  BY DEF Inv, Others, Become
<1> QED
  BY <1>1, StepInv

LEMMA PauseInv ==
    ASSUME Inv, pause
    PROVE  Inv' /\ Keeps
<1> DEFINE s == [Now EXCEPT !.paused = TRUE]
<1>1. Become(s)
  BY DEF pause
<1>2. /\ Sound(Now, {}) /\ Left(Now) /\ Now \in QState
  BY InvNow
<1>3. /\ s \in QState /\ s.active = Now.active /\ s.pending = Now.pending
      /\ s.packing = Now.packing /\ s.stage = Now.stage /\ s.packed = Now.packed
      /\ s.tools = Now.tools /\ s.events = Now.events /\ s.canceled = Now.canceled
      /\ s.upsets = Now.upsets /\ s.canceling = Now.canceling /\ s.recheck = Now.recheck
      /\ s.ended = Now.ended /\ s.word = Now.word /\ s.proc = Now.proc /\ s.armed = Now.armed
      /\ s.cmds = Now.cmds
  BY <1>2 DEF QState
<1> HIDE DEF s
<1>4. /\ Safe(s) /\ EndedTold(s, {}) /\ Earned(s) /\ Rechecked(s) /\ Left(s)
      /\ Lawful(Now, s, {})
  BY <1>2, <1>3, FlagsSound
<1>5. Coming(s)
  BY <1>2, <1>3 DEF Sound, Coming, Due, Wakes, hasPostingJobs, shutdownHolds
<1>6. draining' \in BOOLEAN /\ question' \in BOOLEAN /\ nbActs' \in Nat
  BY DEF pause, Click, Act, Inv, Others
<1> QED
  BY <1>1, <1>4, <1>5, <1>6, LawfulInv DEF Sound, pause

\* The queue moves on from the flags it has now.
LEMMA FlagGoes ==
    ASSUME NEW s, Sound(s, {}), Left(s), NEW u \in QState,
           u.active = s.active, u.pending = s.pending, u.packing = s.packing,
           u.stage = s.stage, u.packed = s.packed, u.tools = s.tools, u.events = s.events,
           u.canceled = s.canceled, u.upsets = s.upsets, u.canceling = s.canceling,
           u.recheck = s.recheck, u.ended = s.ended, u.word = s.word, u.proc = s.proc,
           u.armed = s.armed, u.cmds = s.cmds,
           NEW t, Safe(t), Goes(u, t)
    PROVE  Sound(t, {}) /\ Left(t) /\ Lawful(s, t, {})
<1>1. /\ Safe(u) /\ EndedTold(u, {}) /\ Earned(u) /\ Rechecked(u) /\ Left(u)
      /\ Lawful(s, u, {})
  BY FlagsSound
<1>2. Coming(u)
  BY DEF Sound, Coming, Due, Wakes, hasPostingJobs, shutdownHolds
<1>3. Sound(u, {})
  BY <1>1, <1>2 DEF Sound
<1> QED
  BY <1>1, <1>3, GoesSound, GoesLawful

LEMMA ResumeInv ==
    ASSUME Inv, NEW fails \in BOOLEAN, resume(fails)
    PROVE  Inv' /\ Keeps
<1>1. /\ Sound(Now, {}) /\ Left(Now) /\ Now \in QState
  BY InvNow
<1>2. draining' \in BOOLEAN /\ question' \in BOOLEAN /\ nbActs' \in Nat
      /\ UNCHANGED <<unsubmitted, generation, doomed, askedAt>>
  BY DEF resume, Click, Inv, Others
<1>3. ASSUME NEW b \in BOOLEAN
      PROVE  LET u == [Now EXCEPT !.paused = b]
             IN  /\ u \in QState /\ u.active = Now.active /\ u.pending = Now.pending
                 /\ u.packing = Now.packing /\ u.stage = Now.stage /\ u.packed = Now.packed
                 /\ u.tools = Now.tools /\ u.events = Now.events /\ u.canceled = Now.canceled
                 /\ u.upsets = Now.upsets /\ u.canceling = Now.canceling
                 /\ u.recheck = Now.recheck /\ u.ended = Now.ended /\ u.word = Now.word
                 /\ u.proc = Now.proc /\ u.armed = Now.armed /\ u.cmds = Now.cmds
  BY <1>1 DEF QState
<1>4. ASSUME NEW b \in BOOLEAN, NEW t, Safe(t), Goes([Now EXCEPT !.paused = b], t)
      PROVE  Sound(t, {}) /\ Left(t) /\ Lawful(Now, t, {})
  <2> DEFINE u == [Now EXCEPT !.paused = b]
  <2>1. /\ u \in QState /\ u.active = Now.active /\ u.pending = Now.pending
        /\ u.packing = Now.packing /\ u.stage = Now.stage /\ u.packed = Now.packed
        /\ u.tools = Now.tools /\ u.events = Now.events /\ u.canceled = Now.canceled
        /\ u.upsets = Now.upsets /\ u.canceling = Now.canceling
        /\ u.recheck = Now.recheck /\ u.ended = Now.ended /\ u.word = Now.word
        /\ u.proc = Now.proc /\ u.armed = Now.armed /\ u.cmds = Now.cmds
    BY <1>3
  <2>2. Goes(u, t)
    BY <1>4
  <2> HIDE DEF u
  <2> QED
    BY <1>1, <1>4, <2>1, <2>2, FlagGoes
<1>5. ASSUME NEW b \in BOOLEAN PROVE Safe([Now EXCEPT !.paused = b])
  <2> DEFINE u == [Now EXCEPT !.paused = b]
  <2>1. /\ u \in QState /\ u.active = Now.active /\ u.pending = Now.pending
        /\ u.packing = Now.packing /\ u.stage = Now.stage /\ u.packed = Now.packed
        /\ u.tools = Now.tools /\ u.events = Now.events /\ u.canceled = Now.canceled
        /\ u.upsets = Now.upsets
    BY <1>3
  <2> HIDE DEF u
  <2>2. Safe(u)
    BY <1>1, <2>1, FlagsSafe DEF Sound
  <2> QED
    BY <2>2 DEF u
<1>6. CASE activeJob # NoJob /\ ~Proceeds(Now, activeJob)
  <2>1. PICK b \in BOOLEAN : Become([Now EXCEPT !.paused = ~b])
    BY <1>6 DEF resume
  <2> DEFINE s == [Now EXCEPT !.paused = ~b]
  <2>2. Safe(s) /\ Goes(s, s)
    BY <1>5 DEF Goes
  <2>3. Sound(s, {}) /\ Left(s) /\ Lawful(Now, s, {})
    BY <1>4, <2>2
  <2>4. Become(s)
    BY <2>1
  <2> HIDE DEF s
  <2> QED
    BY <1>2, <2>3, <2>4, LawfulInv
<1>7. CASE ~(activeJob # NoJob /\ ~Proceeds(Now, activeJob))
  <2> DEFINE u == [Now EXCEPT !.paused = FALSE]
             v == _startNextPostingJob(u, fails)
             s == IF /\ preparePacking /\ v.packing = NoJob
                     /\ v.active # NoJob /\ v.active \in v.packed
                  THEN _prepareNextPacking(v) ELSE v
  <2>1. Become(s)
    BY <1>7 DEF resume
  <2>2. Safe(u)
    BY <1>5
  <2>3. \A t : Safe(t) /\ Goes(u, t) => Sound(t, {}) /\ Left(t) /\ Lawful(Now, t, {})
    BY <1>4
  <2> HIDE DEF u
  <2>4. Safe(v) /\ Goes(u, v)
    BY <2>2, StartNext
  <2> HIDE DEF v
  <2>5. Safe(s) /\ Goes(u, s)
    <3>1. CASE /\ preparePacking /\ v.packing = NoJob
               /\ v.active # NoJob /\ v.active \in v.packed
      <4>1. Idles(v)
        BY <3>1 DEF Idles
      <4>2. Safe(_prepareNextPacking(v)) /\ Goes(v, _prepareNextPacking(v))
        BY <2>4, <3>1, <4>1, PrepareNext
      <4> QED
        BY <2>4, <3>1, <4>2, GoesOn
    <3>2. CASE ~(/\ preparePacking /\ v.packing = NoJob
                 /\ v.active # NoJob /\ v.active \in v.packed)
      BY <2>4, <3>2
    <3> QED
      BY <3>1, <3>2
  <2> HIDE DEF s
  <2>6. Sound(s, {}) /\ Left(s) /\ Lawful(Now, s, {})
    BY <2>3, <2>5
  <2> QED
    BY <1>2, <2>1, <2>6, LawfulInv
<1> QED
  BY <1>6, <1>7

LEMMA StopJobInv ==
    ASSUME Inv, NEW j \in Jobs, StopJob(j)
    PROVE  Inv' /\ Keeps
<1> DEFINE s == [stopPosting(Now, j) EXCEPT !.word = "stop"]
<1>1. Become(s) /\ Now.stage[j] \in AtWork
  BY InvNow DEF StopJob, AtWork
<1>2. Sound(s, {}) /\ Left(s) /\ Lawful(Now, s, {})
  BY <1>1, InvNow, StopAsked DEF Sound
<1> HIDE DEF s
<1>3. draining' \in BOOLEAN /\ question' \in BOOLEAN /\ nbActs' \in Nat
      /\ UNCHANGED <<unsubmitted, generation, doomed, askedAt>>
  BY DEF StopJob, Click, Act, Inv, Others
<1> QED
  BY <1>1, <1>2, <1>3, LawfulInv

\* Who is asked to stop by "stop all".
LEMMA AllJobsInQueue ==
    ASSUME Inv
    PROVE  /\ AllJobs \in Seq(Jobs)
           /\ Elems(AllJobs) = {j \in Jobs : stage[j] \in Submitted}
<1>1. /\ Now \in QState /\ Placed(Now) /\ Now.stage = stage /\ Now.active = activeJob
      /\ Now.pending = pendingJobs
  BY InvNow DEF Safe
<1>2. pendingJobs \in Seq(Jobs) /\ activeJob \in Jobs \cup {NoJob}
  BY <1>1 DEF QState
<1>3. Elems(pendingJobs) \subseteq Jobs
  BY <1>2, ElemsIn
<1>4. CASE activeJob = NoJob
  <2>1. AllJobs = pendingJobs \o <<>> /\ <<>> \in Seq(Jobs)
    BY <1>4 DEF AllJobs
  <2>2. AllJobs \in Seq(Jobs) /\ Elems(AllJobs) = Elems(pendingJobs) \cup Elems(<<>>)
    BY <1>2, <2>1, ElemsConcat, ZenonT(90)
  <2>3. Elems(<<>>) = {}
    BY ElemsEmpty
  <2> HIDE DEF Elems
  <2>4. \A j \in Jobs : stage[j] \in Submitted <=> j \in Elems(pendingJobs)
    BY <1>1, <1>4, JobQueueAssumption DEF Placed
  <2> QED
    BY <1>3, <2>2, <2>3, <2>4
<1>5. CASE activeJob # NoJob
  <2>1. AllJobs = pendingJobs \o <<activeJob>> /\ <<activeJob>> \in Seq(Jobs)
    BY <1>2, <1>5 DEF AllJobs
  <2>2. AllJobs \in Seq(Jobs) /\ Elems(AllJobs) = Elems(pendingJobs) \cup Elems(<<activeJob>>)
    BY <1>2, <2>1, ElemsConcat, ZenonT(90)
  <2>3. Elems(<<activeJob>>) = {activeJob}
    BY DEF Elems
  <2> HIDE DEF Elems
  <2>4. \A j \in Jobs : stage[j] \in Submitted <=> (activeJob = j \/ j \in Elems(pendingJobs))
    BY <1>1 DEF Placed
  <2> QED
    BY <1>2, <1>3, <1>5, <2>2, <2>3, <2>4
<1> QED
  BY <1>4, <1>5

LEMMA CancelAllInv ==
    ASSUME Inv, cancelAllPostingJobs
    PROVE  Inv' /\ Keeps
<1> DEFINE asked == Without(AllJobs, Now.canceled)
           s == [StopEach(_resetShutdownCompletion(Now), AllJobs) EXCEPT
                    !.canceling = TRUE, !.paused = FALSE, !.word = "stop"]
           r == [i \in 1..Len(asked) |-> Signal("stop", asked[i])]
<1>1. Become(s) /\ hasPostingJobs(Now) /\ generation' = generation + 1
      /\ doomed' = doomed \cup {j \in Jobs : stage[j] \notin {"new", "deleted"}}
      /\ UNCHANGED <<askedAt, unsubmitted, question>>
  BY DEF cancelAllPostingJobs
<1>2. /\ Sound(Now, {}) /\ Left(Now) /\ Safe(Now) /\ Now \in QState
      /\ Now.stage = stage /\ Now.canceled = cancelRequested /\ Now.proc = shuttingDown
      /\ stage \in [Jobs -> Stages]
  BY InvNow
<1>3. /\ AllJobs \in Seq(Jobs) /\ Elems(AllJobs) = {j \in Jobs : stage[j] \in Submitted}
  BY AllJobsInQueue
<1>4. s.events = Now.events \o r /\ s.canceled = Now.canceled \cup Elems(AllJobs)
      /\ s = [Now EXCEPT !.ended = FALSE, !.canceled = Now.canceled \cup Elems(AllJobs),
                         !.events = Now.events \o r,
                         !.canceling = TRUE, !.paused = FALSE, !.word = "stop"]
  BY <1>2 DEF StopEach, _resetShutdownCompletion, QState, Elems
<1>5. r \in Seq(Event)
  <2>1. asked \in Seq(Jobs)
    BY <1>3, ElemsWithout
  <2> HIDE DEF asked
  <2>2. \A i \in 1..Len(asked) : Signal("stop", asked[i]) \in Event
    BY <2>1, SignalIsEvent
  <2> QED
    BY <2>1, <2>2
<1> HIDE DEF r, asked
<1>6. Now.events \o r \in Seq(Event) /\ Elems(AllJobs) \subseteq Jobs
  BY <1>2, <1>3, <1>5 DEF QState
<1> HIDE DEF s
<1>7. /\ s \in QState /\ s.events = Now.events \o r
      /\ s.canceled = Now.canceled \cup Elems(AllJobs) /\ s.ended = FALSE
      /\ s.active = Now.active /\ s.pending = Now.pending /\ s.packing = Now.packing
      /\ s.stage = Now.stage /\ s.packed = Now.packed /\ s.tools = Now.tools
      /\ s.upsets = Now.upsets /\ s.recheck = Now.recheck /\ s.proc = Now.proc
  BY <1>2, <1>4, <1>6 DEF QState
<1>8. Sound(s, {}) /\ Left(s) /\ Lawful(Now, s, {})
  <2>1. \A j \in Elems(AllJobs) : Now.stage[j] \in Submitted
    BY <1>2, <1>3
  <2>2. EndedTold(Now, {}) /\ Rechecked(Now)
    BY <1>2 DEF Sound
  <2>3. s.events = Now.events \o [i \in 1..Len(asked) |-> Signal("stop", asked[i])]
        /\ asked = Without(AllJobs, Now.canceled)
    BY <1>7 DEF r, asked
  <2> QED
    BY <1>1, <1>2, <1>3, <1>7, <2>1, <2>2, <2>3, AllAsked
<1>9. (Sound(Now, {}) /\ Left(Now))' /\ Now' = s
  BY <1>1, <1>8, BecameSound
<1>10. Others'
  <2>1. \A j \in Jobs : askedAt[j] <= generation + 1
    BY DEF Inv, Others
  <2> QED
    BY <1>1, <2>1 DEF cancelAllPostingJobs, Click, Act, Inv, Others, Become
<1>11. Bound(Now)'
  <2> SUFFICES ASSUME NEW j \in doomed'
               PROVE  \/ j \in s.canceled /\ s.stage[j] \notin {"new", "asking"}
                      \/ s.stage[j] = "deleted"
                      \/ s.stage[j] = "asking" /\ askedAt[j] < generation + 1
    BY <1>1, <1>9 DEF Bound
  <2>1. /\ j \in Jobs /\ generation \in Nat /\ askedAt[j] \in Nat /\ askedAt[j] <= generation
    BY <1>1 DEF Inv, Others
  <2>2. CASE stage[j] \notin {"new", "deleted"}
    <3>1. stage[j] = "asking" \/ stage[j] \in Submitted
      BY <1>2, <2>1, <2>2 DEF Stages, Submitted
    <3>2. stage[j] \in Submitted => j \in s.canceled /\ s.stage[j] \notin {"new", "asking"}
      BY <1>2, <1>3, <1>7, <2>1 DEF Submitted
    <3> QED
      BY <1>2, <1>7, <2>1, <3>1, <3>2
  <2>3. CASE j \in doomed
    BY <1>2, <1>7, <2>1, <2>3 DEF Inv, Bound
  <2> QED
    BY <1>1, <2>2, <2>3
<1>12. Keeps
  <2>1. stage' = stage /\ shuttingDown' = shuttingDown
    BY <1>1, <1>2, <1>7 DEF Become
  <2> QED
    BY <2>1 DEF Keeps
<1> QED
  BY <1>9, <1>10, <1>11, <1>12 DEF Inv

LEMMA StopMonitoringInv ==
    ASSUME Inv, StopMonitoring
    PROVE  Inv' /\ Keeps
<1>1. Become(Now) /\ Sound(Now, {}) /\ Left(Now) /\ Lawful(Now, Now, {})
  BY InvNow DEF StopMonitoring, Lawful
<1>2. draining' \in BOOLEAN /\ question' \in BOOLEAN /\ nbActs' \in Nat
      /\ UNCHANGED <<unsubmitted, generation, doomed, askedAt>>
  BY DEF StopMonitoring, Click, Act, Inv, Others
<1> QED
  BY <1>1, <1>2, LawfulInv

LEMMA CloseAllMonitoringInv ==
    ASSUME Inv, closeAllMonitoringJobs
    PROVE  Inv' /\ Keeps
<1> DEFINE gone == {j \in Monitored : IsPending(j)}
           u == [Now EXCEPT !.pending = Without(@, gone),
                            !.stage = [j \in Jobs |-> IF j \in gone THEN "deleted" ELSE @[j]],
                            !.tools = @ \ gone,
                            !.upsets = @ \cup {"monitoring"}]
           t == IF gone = {} THEN u ELSE [_resetShutdownCompletion(u) EXCEPT !.word = "stop"]
           s == IF activeJob \in Monitored
                THEN [stopPosting(t, activeJob) EXCEPT !.word = "stop"] ELSE t
<1>1. Become(s) /\ events = <<>>
  BY DEF closeAllMonitoringJobs
<1>2. /\ Sound(Now, {}) /\ Left(Now) /\ Safe(Now) /\ Now \in QState /\ Placed(Now)
      /\ Now.active = activeJob /\ Now.pending = pendingJobs /\ Now.events = <<>>
      /\ Now.stage = stage /\ stage \in [Jobs -> Stages]
  BY <1>1, InvNow DEF Safe
<1>3. gone = Monitored \cap Elems(Now.pending)
  BY <1>2 DEF IsPending, Elems
<1> HIDE DEF gone
<1>4. Without(Now.pending, gone) \in Seq(Jobs)
  BY <1>2, ElemsWithout DEF QState
<1>5. /\ u \in QState /\ u.pending = Without(Now.pending, gone)
      /\ u.stage = [j \in Jobs |-> IF j \in gone THEN "deleted" ELSE Now.stage[j]]
      /\ u.tools = Now.tools \ gone /\ u.upsets = Now.upsets \cup {"monitoring"}
      /\ u.active = Now.active /\ u.packing = Now.packing /\ u.packed = Now.packed
      /\ u.events = Now.events /\ u.canceled = Now.canceled /\ u.canceling = Now.canceling
      /\ u.recheck = Now.recheck /\ u.proc = Now.proc /\ u.armed = Now.armed
      /\ u.cmds = Now.cmds /\ u.ended = Now.ended /\ u.word = Now.word
  BY <1>2, <1>4 DEF QState, Stages
<1> HIDE DEF u
<1>6. /\ t \in QState /\ t.pending = u.pending /\ t.stage = u.stage
      /\ t.tools = u.tools /\ t.upsets = u.upsets
      /\ t.active = u.active /\ t.packing = u.packing /\ t.packed = u.packed
      /\ t.events = u.events /\ t.canceled = u.canceled /\ t.canceling = u.canceling
      /\ t.recheck = u.recheck /\ t.proc = u.proc /\ t.armed = u.armed /\ t.cmds = u.cmds
      /\ IF gone = {} THEN t.ended = u.ended /\ t.word = u.word
         ELSE t.ended = FALSE /\ t.word = "stop"
  <2>1. CASE gone = {}
    BY <1>5, <2>1
  <2>2. CASE gone # {}
    BY <1>5, <2>2 DEF QState, _resetShutdownCompletion
  <2> QED
    BY <2>1, <2>2
<1> HIDE DEF t
<1>7. /\ Sound(t, {}) /\ Left(t) /\ Lawful(Now, t, {}) /\ t.proc = Now.proc
      /\ t.active \in Jobs => t.stage[t.active] \in AtWork
  <2>1. Earned(Now) /\ Rechecked(Now) /\ EndedTold(Now, {}) /\ Coming(Now)
    BY <1>2 DEF Sound
  <2>2. Closes(Now, gone, t)
    BY <1>5, <1>6 DEF Closes
  <2> HIDE DEF s
  <2> QED
    BY <1>2, <1>3, <1>6, <2>1, <2>2, MonitoringClosed
<1>8. Sound(s, {}) /\ Left(s) /\ Lawful(Now, s, {})
  <2>1. CASE activeJob \in Monitored
    <3> DEFINE v == [stopPosting(t, activeJob) EXCEPT !.word = "stop"]
    <3>1. activeJob \in Jobs /\ t.stage[activeJob] \in AtWork
      BY <1>2, <1>5, <1>6, <1>7, <2>1, JobQueueAssumption
    <3>2. Sound(v, {}) /\ Left(v) /\ Lawful(t, v, {}) /\ v.stage = t.stage /\ v.proc = t.proc
      BY <1>7, <3>1, StopAsked DEF Sound
    <3>3. s = v
      BY <2>1
    <3> HIDE DEF v
    <3>4. Lawful(Now, v, {})
      BY <1>5, <1>6, <1>7, <3>2 DEF Lawful
    <3> QED
      BY <3>2, <3>3, <3>4
  <2>2. CASE activeJob \notin Monitored
    BY <1>7, <2>2
  <2> QED
    BY <2>1, <2>2
<1> HIDE DEF s
<1>9. draining' \in BOOLEAN /\ question' \in BOOLEAN /\ nbActs' \in Nat
      /\ UNCHANGED <<unsubmitted, generation, doomed, askedAt>>
  BY DEF closeAllMonitoringJobs, Inv, Others
<1> QED
  BY <1>1, <1>8, <1>9, LawfulInv

LEMMA SetShutdownInv ==
    ASSUME Inv, setShutdownWhenDone
    PROVE  Inv' /\ Keeps
<1> DEFINE s == [_resetShutdownCompletion(Now) EXCEPT !.armed = ~@, !.word = "none"]
<1>1. Become(s)
  BY DEF setShutdownWhenDone
<1>2. /\ Sound(Now, {}) /\ Left(Now) /\ Now \in QState
  BY InvNow
<1>3. /\ s \in QState /\ s.active = Now.active /\ s.pending = Now.pending
      /\ s.packing = Now.packing /\ s.stage = Now.stage /\ s.packed = Now.packed
      /\ s.tools = Now.tools /\ s.events = Now.events /\ s.canceled = Now.canceled
      /\ s.upsets = Now.upsets /\ s.canceling = Now.canceling /\ s.recheck = Now.recheck
      /\ s.ended = FALSE /\ s.proc = Now.proc
  BY <1>2 DEF QState, _resetShutdownCompletion
<1> HIDE DEF s
<1>4. /\ Safe(s) /\ EndedTold(s, {}) /\ Earned(s) /\ Rechecked(s) /\ Left(s)
      /\ Lawful(Now, s, {})
  BY <1>2, <1>3, FlagsSound
<1>5. Coming(s)
  BY <1>3 DEF Coming, Due
<1>6. draining' \in BOOLEAN /\ question' \in BOOLEAN /\ nbActs' \in Nat
      /\ UNCHANGED <<unsubmitted, generation, doomed, askedAt>>
  BY DEF setShutdownWhenDone, Click, Act, Inv, Others
<1> QED
  BY <1>1, <1>4, <1>5, <1>6, LawfulInv DEF Sound

LEMMA TabsClearedInv ==
    ASSUME Inv, TabsCleared
    PROVE  Inv' /\ Keeps
<1> DEFINE s == requestShutdownRecheck(Now)
<1>1. Become(s) /\ UNCHANGED <<generation, doomed, askedAt>>
  BY DEF TabsCleared
<1>2. /\ Sound(Now, {}) /\ Left(Now) /\ Now \in QState
      /\ Now.stage = stage /\ Now.canceled = cancelRequested /\ Now.proc = shuttingDown
  BY InvNow
<1>3. /\ Sound(s, {}) /\ (s.armed => Wakes(s))
      /\ s.stage = Now.stage /\ s.canceled = Now.canceled /\ s.proc = Now.proc
      /\ s.canceling = Now.canceling /\ s.upsets = Now.upsets
      /\ s.active = Now.active /\ s.pending = Now.pending
  BY <1>2, Recheck DEF Sound
<1> HIDE DEF s
<1>4. s \in QState
  BY <1>3 DEF Sound, Safe
<1>5. Now' = s /\ preparePacking' = preparePacking
  BY <1>1, <1>4, Became
<1>6. Safe(Now)'
  BY <1>3, <1>5 DEF Sound, Safe, Ahead
<1>7. Coming(Now)'
  BY <1>3, <1>5 DEF Coming, Due
<1>8. EndedTold(Now, {})' /\ Earned(Now)' /\ Rechecked(Now)'
  BY <1>3, <1>5 DEF Sound
<1>9. Left(Now)'
  BY <1>2, <1>3, <1>5 DEF Left, hasPostingJobs
<1>10. Bound(Now)'
  BY <1>1, <1>2, <1>3, <1>5 DEF Inv, Bound
<1>11. Others'
  BY <1>1, <1>5 DEF TabsCleared, Click, Inv, Others
<1>12. Keeps
  <2>1. stage' = stage /\ shuttingDown' = shuttingDown
    BY <1>1, <1>2, <1>3 DEF Become
  <2> QED
    BY <2>1 DEF Keeps
<1> QED
  BY <1>6, <1>7, <1>8, <1>9, <1>10, <1>11, <1>12 DEF Inv, Sound

LEMMA ToolEndsInv ==
    ASSUME Inv, NEW j \in Jobs, NEW ok \in BOOLEAN, ToolEnds(j, ok)
    PROVE  Inv' /\ Keeps
<1> DEFINE s == Emit([Now EXCEPT !.tools = @ \ {j}],
                     [type |-> "toolEnded", job |-> j, ok |-> ok])
<1>1. Become(s) /\ Sound(Now, {}) /\ Left(Now) /\ j \in Now.tools
  BY InvNow DEF ToolEnds
<1>2. Sound(s, {}) /\ Left(s) /\ Lawful(Now, s, {})
  BY <1>1, ToolGone
<1> HIDE DEF s
<1>3. draining' \in BOOLEAN /\ question' \in BOOLEAN /\ nbActs' \in Nat
      /\ UNCHANGED <<unsubmitted, generation, doomed, askedAt>>
  BY DEF ToolEnds, Inv, Others
<1> QED
  BY <1>1, <1>2, <1>3, LawfulInv

LEMMA TransferEndsInv ==
    ASSUME Inv, NEW j \in Jobs, NEW good \in BOOLEAN, TransferEnds(j, good)
    PROVE  Inv' /\ Keeps
<1> DEFINE s == Emit(Now, [type |-> "transferEnded", job |-> j, ok |-> good])
<1>1. Become(s) /\ Sound(Now, {}) /\ Left(Now) /\ Now.stage[j] = "posting"
  BY InvNow DEF TransferEnds
<1>2. Sound(s, {}) /\ Left(s) /\ Lawful(Now, s, {})
  BY <1>1, TransferTold
<1> HIDE DEF s
<1>3. draining' \in BOOLEAN /\ question' \in BOOLEAN /\ nbActs' \in Nat
      /\ UNCHANGED <<unsubmitted, generation, doomed, askedAt>>
  BY DEF TransferEnds, Inv, Others
<1> QED
  BY <1>1, <1>2, <1>3, LawfulInv

LEMMA PostCmdEndsInv ==
    ASSUME Inv, NEW j \in Jobs, PostCmdEnds(j)
    PROVE  Inv' /\ Keeps
<1> DEFINE u == [Now EXCEPT !.cmds = @ \ {j}]
           e0 == [type |-> "idle"]
           s == IF u.cmds = {} THEN Emit(u, e0) ELSE u
<1>1. Become(s)
  BY DEF PostCmdEnds
<1>2. /\ Sound(Now, {}) /\ Left(Now) /\ Now \in QState
  BY InvNow
<1>3. /\ u \in QState /\ u.active = Now.active /\ u.pending = Now.pending
      /\ u.packing = Now.packing /\ u.stage = Now.stage /\ u.packed = Now.packed
      /\ u.tools = Now.tools /\ u.events = Now.events /\ u.canceled = Now.canceled
      /\ u.upsets = Now.upsets /\ u.canceling = Now.canceling /\ u.recheck = Now.recheck
      /\ u.ended = Now.ended /\ u.word = Now.word /\ u.proc = Now.proc
  BY <1>2 DEF QState
<1> HIDE DEF u
<1>4. /\ Safe(u) /\ EndedTold(u, {}) /\ Earned(u) /\ Rechecked(u) /\ Left(u)
      /\ Lawful(Now, u, {})
  BY <1>2, <1>3, FlagsSound
<1>5. e0 \in Event /\ e0.type = "idle"
  BY DEF Event
<1> HIDE DEF e0
<1>6. Sound(s, {}) /\ Left(s) /\ Lawful(Now, s, {})
  <2>1. CASE u.cmds # {}
    BY <1>4, <2>1 DEF Sound, Coming, Due
  <2>2. CASE u.cmds = {}
    <3> DEFINE t == Emit(u, e0)
    <3>1. EventOK(u, e0) /\ ~JobEvent(e0)
      BY <1>5 DEF EventOK, JobEvent
    <3>2. Safe(t)
      BY <1>4, <1>5, <3>1, EmitSafe
    <3>3. Elems(t.events) = Elems(u.events) \cup {e0}
          /\ t = [u EXCEPT !.events = Append(u.events, e0)]
      BY <1>3, <1>5, EmitFields
    <3> HIDE DEF t
    <3>4. /\ t.active = u.active /\ t.pending = u.pending /\ t.stage = u.stage
          /\ t.canceled = u.canceled /\ t.canceling = u.canceling /\ t.recheck = u.recheck
          /\ t.proc = u.proc /\ t.upsets = u.upsets /\ t.ended = u.ended /\ t.word = u.word
      BY <1>3, <3>3 DEF QState
    <3>5. EndedTold(t, {}) /\ Earned(t) /\ Rechecked(t) /\ Left(t) /\ Coming(t)
      BY <1>4, <1>5, <3>3, <3>4
         DEF EndedTold, Earned, Rechecked, Left, Coming, Wakes, hasPostingJobs
    <3>6. Lawful(Now, t, {})
      BY <1>3, <1>4, <3>4 DEF Lawful
    <3> QED
      BY <2>2, <3>2, <3>5, <3>6 DEF Sound, t
  <2> QED
    BY <2>1, <2>2
<1> HIDE DEF s
<1>7. draining' \in BOOLEAN /\ question' \in BOOLEAN /\ nbActs' \in Nat
      /\ UNCHANGED <<unsubmitted, generation, doomed, askedAt>>
  BY DEF PostCmdEnds, Inv, Others
<1> QED
  BY <1>1, <1>6, <1>7, LawfulInv

LEMMA ShutdownProcInv ==
    ASSUME Inv, onShutdownProcFinished
    PROVE  Inv' /\ Keeps
<1> DEFINE u == [Now EXCEPT !.proc = FALSE]
           s == maybeFinishApplication(u)
<1>1. Become(s) /\ shuttingDown
  BY DEF onShutdownProcFinished
<1>2. /\ Sound(Now, {}) /\ Left(Now) /\ Now \in QState /\ Now.proc
  BY <1>1, InvNow
<1>3. /\ u \in QState /\ u.active = Now.active /\ u.pending = Now.pending
      /\ u.packing = Now.packing /\ u.stage = Now.stage /\ u.packed = Now.packed
      /\ u.tools = Now.tools /\ u.events = Now.events /\ u.canceled = Now.canceled
      /\ u.upsets = Now.upsets /\ u.canceling = Now.canceling /\ u.recheck = Now.recheck
      /\ u.ended = Now.ended /\ u.word = Now.word
  BY <1>2 DEF QState
<1> HIDE DEF u
<1>4. Safe(u) /\ EndedTold(u, {}) /\ Earned(u) /\ Rechecked(u) /\ Left(u)
  BY <1>2, <1>3, FlagsSound
<1>5. /\ Safe(s) /\ Earned(s) /\ Coming(s)
      /\ s.stage = u.stage /\ s.events = u.events /\ s.recheck = u.recheck
      /\ s.canceled = u.canceled /\ s.upsets = u.upsets /\ s.canceling = u.canceling
      /\ hasPostingJobs(s) = hasPostingJobs(u)
  BY <1>4, MaybeFinish
<1> HIDE DEF s
<1>6. Sound(s, {}) /\ Left(s)
  BY <1>4, <1>5 DEF Sound, EndedTold, Rechecked, Left
<1>7. Lawful(Now, s, {})
  BY <1>2, <1>3, <1>5 DEF Lawful
<1>8. draining' \in BOOLEAN /\ question' \in BOOLEAN /\ nbActs' \in Nat
      /\ UNCHANGED <<unsubmitted, generation, doomed, askedAt>>
  BY DEF onShutdownProcFinished, Inv, Others
<1> QED
  BY <1>1, <1>6, <1>7, <1>8, LawfulInv

LEMMA TunnelInv ==
    ASSUME Inv, NEW fails \in BOOLEAN, TunnelLost \/ TunnelConnected(fails)
    PROVE  Inv' /\ Keeps
<1>1. /\ Sound(Now, {}) /\ Left(Now) /\ Now \in QState
  BY InvNow
<1>2. draining' \in BOOLEAN /\ question' \in BOOLEAN /\ nbActs' \in Nat
      /\ UNCHANGED <<unsubmitted, generation, doomed, askedAt>>
  BY DEF TunnelLost, TunnelConnected, Act, Inv, Others
<1>3. PICK b \in BOOLEAN :
        \/ Become([Now EXCEPT !.tunnel = b])
        \/ Become(_startNextPostingJob([Now EXCEPT !.tunnel = b], fails))
  BY DEF TunnelLost, TunnelConnected
<1> DEFINE u == [Now EXCEPT !.tunnel = b]
<1>4. Become(u) \/ Become(_startNextPostingJob(u, fails))
  BY <1>3
<1>5. /\ u \in QState /\ u.active = Now.active /\ u.pending = Now.pending
      /\ u.packing = Now.packing /\ u.stage = Now.stage /\ u.packed = Now.packed
      /\ u.tools = Now.tools /\ u.events = Now.events /\ u.canceled = Now.canceled
      /\ u.upsets = Now.upsets /\ u.canceling = Now.canceling /\ u.recheck = Now.recheck
      /\ u.ended = Now.ended /\ u.word = Now.word /\ u.proc = Now.proc
      /\ u.armed = Now.armed /\ u.cmds = Now.cmds
  BY <1>1 DEF QState
<1> HIDE DEF u
<1>6. Safe(u)
  BY <1>1, <1>5, FlagsSafe DEF Sound
<1>7. PICK s : Become(s) /\ Safe(s) /\ Goes(u, s)
  <2>1. Safe(_startNextPostingJob(u, fails)) /\ Goes(u, _startNextPostingJob(u, fails))
    BY <1>6, StartNext
  <2>2. Goes(u, u)
    BY DEF Goes
  <2> QED
    BY <1>4, <1>6, <2>1, <2>2
<1>8. Sound(s, {}) /\ Left(s) /\ Lawful(Now, s, {})
  BY <1>1, <1>5, <1>7, FlagGoes
<1> QED
  BY <1>2, <1>7, <1>8, LawfulInv

LEMMA DeliverInv ==
    ASSUME Inv, NEW fails \in BOOLEAN, Deliver(fails)
    PROVE  Inv' /\ Keeps
<1> DEFINE s == Handle([Now EXCEPT !.events = Tail(@)], Head(events), fails)
<1>1. Become(s) /\ Sound(Now, {}) /\ Left(Now) /\ Now.events # <<>> /\ Now.pending = pendingJobs
      /\ Now.events = events
  BY InvNow DEF Deliver
<1>2. s = Handle([Now EXCEPT !.events = Tail(@)], Head(Now.events), fails)
  BY <1>1
<1> HIDE DEF s
<1>3. Sound(s, {}) /\ Left(s) /\ Lawful(Now, s, {})
  BY <1>1, <1>2, Handled
<1>4. draining' \in BOOLEAN /\ question' \in BOOLEAN /\ nbActs' \in Nat
      /\ UNCHANGED <<unsubmitted, generation, doomed, askedAt>>
  BY DEF Deliver, Inv, Others
<1> QED
  BY <1>1, <1>3, <1>4, LawfulInv

\* The invariant is inductive.
LEMMA NextInv ==
    ASSUME Inv, [Next]_vars
    PROVE  Inv' /\ (Keeps \/ UNCHANGED vars)
<1>1. CASE UNCHANGED vars
  <2>1. Now' = Now /\ UNCHANGED <<preparePacking, unsubmitted, generation, askedAt, draining,
                                  question, doomed, nbActs>>
    BY <1>1 DEF vars, queueVars, jobVars, shutdownVars, Now
  <2>2. Safe(Now)' /\ Coming(Now)'
    BY <2>1 DEF Inv, Sound, Safe, Ahead, Coming
  <2>3. EndedTold(Now, {})' /\ Earned(Now)' /\ Rechecked(Now)' /\ Left(Now)'
    BY <2>1 DEF Inv, Sound
  <2>4. Others' /\ Bound(Now)'
    BY <2>1 DEF Inv, Others, Bound
  <2> QED
    BY <1>1, <2>2, <2>3, <2>4 DEF Inv, Sound
<1>2. CASE User
  BY <1>2, AskAdmissionInv, StartPostingJobInv, StopJobInv, AnswerDialogInv, PauseInv, ResumeInv,
     CancelAllInv, StopMonitoringInv, CloseAllMonitoringInv, SetShutdownInv, TabsClearedInv
     DEF User
<1>3. CASE Environment
  <2>1. TunnelLost => Inv' /\ Keeps
    BY TunnelInv
  <2> QED
    BY <1>3, <2>1, ToolEndsInv, TransferEndsInv, PostCmdEndsInv, ShutdownProcInv, TunnelInv
       DEF Environment
<1>4. CASE \E fails \in BOOLEAN : Deliver(fails)
  BY <1>4, DeliverInv
<1> QED
  BY <1>1, <1>2, <1>3, <1>4 DEF Next
-----------------------------------------------------------------------------
(* The queue moves on.                                                       *)

\* A job whose turn it is, to post or to be packed ahead, has its start on its
\* way if it has not begun, what is packed is known to be, and the active job
\* posts once it is.  S: the jobs in hand, which the handler is about to start.
Launched(s, S) ==
    /\ \A j \in Jobs \ S :
         s.stage[j] = "waiting" /\ (j = s.active \/ (j = s.packing /\ j \in HasPacking))
           => Signal("start", j) \in Elems(s.events)
    /\ \A j \in Jobs : s.stage[j] = "packed" => j \in s.packed
    /\ s.active \in Jobs \ S => s.stage[s.active] # "packed"

\* The head of the queue could start, and does not.
Idle(s) ==
    /\ s.active = NoJob /\ s.pending # <<>> /\ Proceeds(s, Head(s.pending))
    /\ ~s.paused /\ ~s.canceling

Moving(s) == Launched(s, {}) /\ ~Idle(s)
Moves(s) == s.upsets \cap {"monitoring", "parked"} = {} => Moving(s)

\* Nothing gets its turn from s to t, and no start is lost.
Stays(s, t) ==
    /\ \A j \in Jobs : t.stage[j] = s.stage[j] \/ t.stage[j] \notin {"waiting", "packed"}
    /\ \A j \in s.packed : j \in t.packed \/ t.stage[j] # "packed"
    /\ t.active = s.active \/ t.active = NoJob
    /\ t.packing = s.packing \/ t.packing = NoJob
    /\ Elems(s.events) \subseteq Elems(t.events)

LEMMA StaysLaunched ==
    ASSUME NEW S, NEW s, Launched(s, S), NEW t, Stays(s, t)
    PROVE  Launched(t, S)
<1>1. NoJob \notin Jobs
  BY JobQueueAssumption
<1>2. ASSUME NEW j \in Jobs \ S, t.stage[j] = "waiting",
             j = t.active \/ (j = t.packing /\ j \in HasPacking)
      PROVE  Signal("start", j) \in Elems(t.events)
  <2>1. s.stage[j] = "waiting" /\ (j = s.active \/ (j = s.packing /\ j \in HasPacking))
    BY <1>1, <1>2 DEF Stays
  <2>2. Signal("start", j) \in Elems(s.events)
    BY <2>1 DEF Launched
  <2> QED
    BY <2>2 DEF Stays
<1>3. ASSUME NEW j \in Jobs, t.stage[j] = "packed"
      PROVE  j \in t.packed
  BY <1>3 DEF Stays, Launched
<1>4. ASSUME t.active \in Jobs \ S
      PROVE  t.stage[t.active] # "packed"
  <2>1. t.active = s.active
    BY <1>1, <1>4 DEF Stays
  <2> QED
    BY <1>4, <2>1 DEF Stays, Launched
<1> QED
  BY <1>2, <1>3, <1>4 DEF Launched

\* What neither gives a turn nor lets the queue rest.
LEMMA StaysMoving ==
    ASSUME NEW s, Moves(s), NEW t, Stays(s, t), Idle(t) => Idle(s), s.upsets \subseteq t.upsets
    PROVE  Moves(t)
<1> SUFFICES ASSUME t.upsets \cap {"monitoring", "parked"} = {} PROVE Moving(t)
  BY DEF Moves
<1>1. Launched(s, {}) /\ ~Idle(s)
  BY DEF Moves, Moving
<1> QED
  BY <1>1, StaysLaunched DEF Moving

\* The fields that tell whether the queue rests.
LEMMA SameIdle ==
    ASSUME NEW s, NEW t, t.active = s.active, t.pending = s.pending, t.paused = s.paused,
           t.canceling = s.canceling, t.tunnel = s.tunnel
    PROVE  Idle(t) = Idle(s)
BY DEF Idle, Proceeds

\* The job in hand has had its turn.
LEMMA JobStepLaunched ==
    ASSUME NEW s \in QState, NEW j \in Jobs, Launched(s, {j}), NEW t, JobStep(s, t, j)
    PROVE  Launched(t, {}) /\ Idle(t) = Idle(s) /\ t \in QState /\ Frame(s, t)
<1>1. /\ t \in QState /\ Frame(s, t)
      /\ Elems(s.events) \subseteq Elems(t.events)
      /\ \A k \in Jobs : k # j => t.stage[k] = s.stage[k]
      /\ s.packed \subseteq t.packed
  BY JobStepMoves
<1>2. t.stage[j] # "waiting" /\ (t.stage[j] = "packed" => j \in t.packed /\ s.active # j)
  <2>1. s.stage \in [Jobs -> Stages]
    BY DEF QState
  <2>2. CASE Silent(s, t, j)
    BY <2>2 DEF Silent, HasEnded
  <2>3. CASE Ends(s, t, j)
    BY <2>1, <2>3 DEF Ends
  <2>4. CASE Packs(s, t, j)
    BY <2>1, <2>4 DEF Packs
  <2>5. CASE Packed(s, t, j)
    BY <2>1, <2>5 DEF Packed
  <2>6. CASE Posts(s, t, j)
    BY <2>1, <2>6 DEF Posts
  <2> QED
    BY <2>2, <2>3, <2>4, <2>5, <2>6 DEF JobStep
<1>3. ASSUME NEW k \in Jobs, t.stage[k] = "waiting",
             k = t.active \/ (k = t.packing /\ k \in HasPacking)
      PROVE  Signal("start", k) \in Elems(t.events)
  <2>1. k # j /\ s.stage[k] = "waiting"
    BY <1>1, <1>2, <1>3
  <2>2. k = s.active \/ (k = s.packing /\ k \in HasPacking)
    BY <1>1, <1>3 DEF Frame
  <2>3. Signal("start", k) \in Elems(s.events)
    BY <2>1, <2>2 DEF Launched
  <2> QED
    BY <1>1, <2>3
<1>4. ASSUME NEW k \in Jobs, t.stage[k] = "packed"
      PROVE  k \in t.packed /\ k # t.active
  <2>1. CASE k = j
    BY <1>1, <1>2, <1>4, <2>1 DEF Frame
  <2>2. CASE k # j
    BY <1>1, <1>4, <2>2 DEF Frame, Launched
  <2> QED
    BY <2>1, <2>2
<1>5. Idle(t) = Idle(s)
  BY <1>1, SameIdle DEF Frame
<1> QED
  BY <1>1, <1>3, <1>4, <1>5 DEF Launched

\* The next job is packed ahead.
LEMMA PrepareFields ==
    ASSUME NEW s \in QState
    PROVE  LET t == _prepareNextPacking(s)
           IN  /\ t \in QState /\ t.active = s.active /\ t.stage = s.stage
               /\ t.packed = s.packed /\ t.upsets = s.upsets
               /\ Elems(s.events) \subseteq Elems(t.events)
               /\ \/ t.packing = s.packing
                  \/ t.packing \in HasPacking => Signal("start", t.packing) \in Elems(t.events)
<1>1. CASE s.paused \/ s.canceling \/ s.pending = <<>>
  BY <1>1 DEF _prepareNextPacking
<1>2. CASE ~(s.paused \/ s.canceling \/ s.pending = <<>>)
  <2> DEFINE j == Head(s.pending)
             u == [s EXCEPT !.packing = j]
             t == IF j \in HasPacking THEN Emit(u, Signal("start", j)) ELSE u
  <2>1. _prepareNextPacking(s) = t
    BY <1>2 DEF _prepareNextPacking
  <2>2. j \in Jobs
    <3>1. s.pending \in Seq(Jobs) /\ s.pending # <<>>
      BY <1>2 DEF QState
    <3> QED
      BY <3>1, ElemsTail
  <2> HIDE DEF j
  <2>3. /\ u \in QState /\ u.active = s.active /\ u.packing = j /\ u.stage = s.stage
        /\ u.packed = s.packed /\ u.events = s.events /\ u.upsets = s.upsets
    BY <2>2 DEF QState
  <2> HIDE DEF u
  <2>4. /\ t \in QState /\ t.active = s.active /\ t.packing = j /\ t.stage = s.stage
        /\ t.packed = s.packed /\ t.upsets = s.upsets
        /\ Elems(s.events) \subseteq Elems(t.events)
        /\ j \in HasPacking => Signal("start", j) \in Elems(t.events)
    <3>1. CASE j \notin HasPacking
      BY <2>3, <3>1
    <3>2. CASE j \in HasPacking
      <4> DEFINE w == Emit(u, Signal("start", j))
      <4>1. Signal("start", j) \in Event
        BY <2>2, SignalIsEvent
      <4>2. w \in QState /\ Elems(w.events) = Elems(u.events) \cup {Signal("start", j)}
        BY <2>3, <4>1, EmitFields
      <4>3. /\ w.active = u.active /\ w.packing = u.packing /\ w.stage = u.stage
            /\ w.packed = u.packed /\ w.upsets = u.upsets
        BY <2>3 DEF Emit, QState
      <4>4. t = w
        BY <3>2
      <4> HIDE DEF w, t
      <4> QED
        BY <2>3, <4>2, <4>3, <4>4
    <3> QED
      BY <3>1, <3>2
  <2> HIDE DEF t
  <2> QED
    BY <2>1, <2>4
<1> QED
  BY <1>1, <1>2

LEMMA PrepareLaunched ==
    ASSUME NEW S, NEW s \in QState, Launched(s, S)
    PROVE  Launched(_prepareNextPacking(s), S)
<1> DEFINE t == _prepareNextPacking(s)
<1> SUFFICES Launched(t, S)
  OBVIOUS
<1>1. /\ t.active = s.active /\ t.stage = s.stage
      /\ t.packed = s.packed /\ Elems(s.events) \subseteq Elems(t.events)
      /\ \/ t.packing = s.packing
         \/ t.packing \in HasPacking => Signal("start", t.packing) \in Elems(t.events)
  BY PrepareFields
<1> HIDE DEF t
<1> QED
  BY <1>1 DEF Launched

\* The job in hand is told to start.
LEMMA StartLaunched ==
    ASSUME NEW s \in QState, NEW j \in Jobs, Launched(s, {j}), s.stage[j] # "packed"
    PROVE  LET t == Emit(s, Signal("start", j))
           IN  Launched(t, {}) /\ t \in QState /\ Frame(s, t)
<1> DEFINE e == Signal("start", j)
           t == Emit(s, e)
<1>1. e \in Event
  BY SignalIsEvent
<1>2. t \in QState /\ Elems(t.events) = Elems(s.events) \cup {e}
  BY <1>1, EmitFields
<1>3. Frame(s, t) /\ t.stage = s.stage /\ t.packed = s.packed
  BY DEF Emit, QState, Frame
<1> HIDE DEF t
<1>4. ASSUME NEW k \in Jobs, t.stage[k] = "waiting",
             k = t.active \/ (k = t.packing /\ k \in HasPacking)
      PROVE  Signal("start", k) \in Elems(t.events)
  <2>1. CASE k = j
    BY <1>2, <2>1
  <2>2. CASE k # j
    BY <1>2, <1>3, <1>4, <2>2 DEF Launched, Frame
  <2> QED
    BY <2>1, <2>2
<1>5. \A k \in Jobs : t.stage[k] = "packed" => k \in t.packed
  BY <1>3 DEF Launched
<1>6. t.active \in Jobs => t.stage[t.active] # "packed"
  BY <1>3 DEF Launched, Frame
<1>7. Launched(t, {})
  BY <1>4, <1>5, <1>6 DEF Launched
<1> QED
  BY <1>2, <1>3, <1>7 DEF t

\* The head of the queue gets its turn.
LEMMA HeadInHand ==
    ASSUME NEW s, Launched(s, {}), NEW j, NEW t,
           t.active = j, t.packing = NoJob \/ t.packing = s.packing,
           t.stage = s.stage, t.packed = s.packed, t.events = s.events
    PROVE  Launched(t, {j})
BY JobQueueAssumption DEF Launched

\* The queue tries to move on, and then it does not rest.
LEMMA StartNextMoving ==
    ASSUME NEW s, Safe(s), Launched(s, {}), "monitoring" \notin s.upsets, NEW fails \in BOOLEAN
    PROVE  Moving(_startNextPostingJob(s, fails))
<1> DEFINE j == Head(s.pending)
           t == [s EXCEPT !.active = j, !.pending = Tail(@)]
           u == [t EXCEPT !.packing = NoJob]
           r == _startNextPostingJob(s, fails)
<1> SUFFICES Moving(r)
  OBVIOUS
<1>1. CASE \/ s.active # NoJob \/ s.paused \/ s.canceling \/ s.pending = <<>>
           \/ ~Proceeds(s, j)
  <2>1. r = s
    BY <1>1 DEF _startNextPostingJob
  <2> QED
    BY <1>1, <2>1 DEF Moving, Idle
<1>2. CASE ~(\/ s.active # NoJob \/ s.paused \/ s.canceling \/ s.pending = <<>>
             \/ ~Proceeds(s, j))
  <2>1. s \in QState /\ Placed(s) /\ Ahead(s) /\ Untouched(s) /\ Tools(s) /\ s.pending \in Seq(Jobs)
    BY DEF Safe, QState
  <2>2. j \in Jobs /\ j \in Elems(s.pending) /\ j # NoJob
    BY <1>2, <2>1, ElemsTail, JobQueueAssumption
  <2>3. r = CASE ~preparePacking -> Emit(t, Signal("start", j))
              [] preparePacking /\ s.packing = j /\ j \in s.packed ->
                    _prepareNextPacking(_postFiles(u, j, fails))
              [] preparePacking /\ s.packing = j /\ j \notin s.packed /\ j \notin HasPacking ->
                    _prepareNextPacking(Emit(u, Signal("start", j)))
              [] preparePacking /\ s.packing = j /\ j \notin s.packed /\ j \in HasPacking -> u
              [] preparePacking /\ s.packing = NoJob -> StartUnprepared(t, j)
              [] OTHER -> t
    BY <1>2 DEF _startNextPostingJob
  <2> HIDE DEF r
  <2>4. u = [s EXCEPT !.active = j, !.pending = Tail(s.pending), !.packing = NoJob]
    BY <2>1 DEF QState
  <2>5. t = [s EXCEPT !.active = j, !.pending = Tail(s.pending), !.packing = s.packing]
    BY <2>1 DEF QState
  <2> HIDE DEF u, t
  <2>6. Tail(s.pending) \in Seq(Jobs)
    BY <1>2, <2>1, ElemsTail
  <2> HIDE DEF j
  <2>7. /\ Launched(u, {j}) /\ u \in QState /\ u.active = j /\ u.packing = NoJob
        /\ u.stage = s.stage /\ u.packed = s.packed /\ u.canceled = s.canceled
        /\ u.events = s.events
    <3>1. /\ u \in QState /\ u.active = j /\ u.packing = NoJob
          /\ u.stage = s.stage /\ u.packed = s.packed /\ u.canceled = s.canceled
          /\ u.events = s.events
      BY <2>1, <2>2, <2>4, <2>6 DEF QState
    <3> QED
      BY <3>1, HeadInHand
  <2>8. /\ Launched(t, {j}) /\ t \in QState /\ t.active = j /\ t.packing = s.packing
        /\ t.stage = s.stage /\ t.packed = s.packed /\ t.canceled = s.canceled
        /\ t.events = s.events
    <3>1. /\ t \in QState /\ t.active = j /\ t.packing = s.packing
          /\ t.stage = s.stage /\ t.packed = s.packed /\ t.canceled = s.canceled
          /\ t.events = s.events
      BY <2>1, <2>2, <2>5, <2>6 DEF QState
    <3> QED
      BY <3>1, HeadInHand
  <2>9. s.packing # j \/ j \notin HasPacking => s.stage[j] # "packed"
    BY <2>1, <2>2 DEF Untouched, Stopped, HasEnded
  <2>10. j \in s.packed => s.stage[j] = "packed" \/ Stopped(s, j)
    BY <2>1, <2>2 DEF Tools
  <2>11. s.packing = NoJob \/ s.packing = j
    BY <2>1 DEF Ahead, j
  <2>12. ASSUME NEW x, Launched(x, {}), x.active = j
         PROVE  Moving(x)
    BY <2>2, <2>12 DEF Moving, Idle
  \* Then the next one may be packed ahead.
  <2>13. ASSUME NEW x \in QState, Launched(x, {}), x.active = j
         PROVE  Moving(_prepareNextPacking(x))
    <3>1. Launched(_prepareNextPacking(x), {}) /\ _prepareNextPacking(x).active = j
      BY <2>13, PrepareFields, PrepareLaunched
    <3> QED
      BY <2>12, <3>1
  \* The start of j, in u or t.
  <2>14. ASSUME NEW x \in QState, Launched(x, {j}), x.active = j, s.packing # j \/ j \notin HasPacking,
                x.stage = s.stage
         PROVE  LET y == Emit(x, Signal("start", j))
                IN  y \in QState /\ Launched(y, {}) /\ y.active = j
    <3>1. x.stage[j] # "packed"
      BY <2>9, <2>14
    <3> QED
      BY <2>2, <2>14, <3>1, StartLaunched DEF Frame
  <2>15. CASE ~preparePacking
    <3> DEFINE v == Emit(t, Signal("start", j))
    <3>1. s.packing = NoJob
      BY <2>1, <2>15 DEF Ahead
    <3>2. v \in QState /\ Launched(v, {}) /\ v.active = j
      BY <2>2, <2>8, <2>14, <3>1
    <3>3. r = v
      BY <2>3, <2>15
    <3> HIDE DEF v
    <3> QED
      BY <2>12, <3>2, <3>3
  <2>16. CASE preparePacking /\ s.packing = j /\ j \in s.packed
    <3> DEFINE v == _postFiles(u, j, fails)
    <3>1. r = _prepareNextPacking(v)
      BY <2>2, <2>3, <2>16
    <3>2. u.stage[j] = "packed" \/ Stopped(u, j)
      BY <2>7, <2>10, <2>16 DEF Stopped, HasEnded
    <3>3. JobStep(u, v, j)
      BY <2>2, <2>7, <2>16, <3>2, PostFilesStep
    <3> HIDE DEF v
    <3>4. Launched(v, {}) /\ v \in QState /\ v.active = j
      BY <2>2, <2>7, <3>3, JobStepLaunched DEF Frame
    <3> QED
      BY <2>13, <3>1, <3>4
  <2>17. CASE preparePacking /\ s.packing = j /\ j \notin s.packed /\ j \notin HasPacking
    <3> DEFINE v == Emit(u, Signal("start", j))
    <3>1. r = _prepareNextPacking(v)
      BY <2>2, <2>3, <2>17
    <3>2. v \in QState /\ Launched(v, {}) /\ v.active = j
      BY <2>7, <2>14, <2>17
    <3> HIDE DEF v
    <3> QED
      BY <2>13, <3>1, <3>2
  \* It was told to start when it was packed ahead.
  <2>18. CASE preparePacking /\ s.packing = j /\ j \notin s.packed /\ j \in HasPacking
    <3>1. r = u
      BY <2>2, <2>3, <2>18
    <3>2. u.stage[j] = "waiting" => Signal("start", j) \in Elems(u.events)
      BY <2>2, <2>7, <2>18 DEF Launched
    <3>3. u.stage[j] # "packed"
      BY <2>2, <2>7, <2>18 DEF Launched
    <3>4. Launched(u, {})
      BY <2>7, <3>2, <3>3 DEF Launched
    <3> QED
      BY <2>7, <2>12, <3>1, <3>4
  <2>19. CASE preparePacking /\ s.packing = NoJob
    <3> DEFINE v == Emit(t, Signal("start", j))
    <3>1. r = StartUnprepared(t, j)
      BY <2>2, <2>3, <2>19
    <3>2. r = IF j \in HasPacking THEN v ELSE _prepareNextPacking(v)
      BY <3>1 DEF StartUnprepared
    <3>3. v \in QState /\ Launched(v, {}) /\ v.active = j
      BY <2>2, <2>8, <2>14, <2>19
    <3> HIDE DEF v
    <3> QED
      BY <2>12, <2>13, <3>2, <3>3
  <2> QED
    BY <2>11, <2>15, <2>16, <2>17, <2>18, <2>19
<1> QED
  BY <1>1, <1>2

\* A job is deleted, or taken out of its turn.
LEMMA GoneStays ==
    ASSUME NEW j \in Jobs, NEW s \in QState, NEW t,
           t.stage = [s.stage EXCEPT ![j] = "deleted"], t.packed = s.packed \ {j},
           t.active \in {s.active, NoJob}, t.packing \in {s.packing, NoJob},
           t.events = s.events
    PROVE  Stays(s, t)
<1>1. t.stage[j] = "deleted" /\ \A k \in Jobs : k # j => t.stage[k] = s.stage[k]
  BY DEF QState
<1> QED
  BY <1>1 DEF Stays, QState

\* The re-check of the shutdown, and the shutdown itself, leave the queue alone.
LEMMA FlagsStay ==
    ASSUME NEW s, NEW t,
           t.active = s.active, t.pending = s.pending, t.packing = s.packing,
           t.stage = s.stage, t.packed = s.packed,
           Elems(s.events) \subseteq Elems(t.events)
    PROVE  Stays(s, t)
BY DEF Stays

LEMMA FinishStays ==
    ASSUME NEW s \in QState
    PROVE  LET t == maybeFinishApplication(s)
           IN  Stays(s, t) /\ Idle(t) = Idle(s) /\ t.upsets = s.upsets
<1> DEFINE t == maybeFinishApplication(s)
<1>1. t = s \/ t = [[s EXCEPT !.ended = FALSE] EXCEPT !.armed = FALSE, !.proc = TRUE]
  BY DEF maybeFinishApplication, _resetShutdownCompletion
<1> HIDE DEF t
<1>2. /\ t.active = s.active /\ t.pending = s.pending /\ t.packing = s.packing
      /\ t.stage = s.stage /\ t.packed = s.packed /\ t.events = s.events
      /\ t.paused = s.paused /\ t.canceling = s.canceling /\ t.tunnel = s.tunnel
      /\ t.upsets = s.upsets
  BY <1>1 DEF QState
<1>3. Stays(s, t)
  BY <1>2, FlagsStay
<1>4. Idle(t) = Idle(s)
  BY <1>2, SameIdle
<1> QED
  BY <1>2, <1>3, <1>4 DEF t

LEMMA RecheckStays ==
    ASSUME NEW s \in QState
    PROVE  LET t == requestShutdownRecheck(s)
           IN  Stays(s, t) /\ Idle(t) = Idle(s) /\ t.upsets = s.upsets
<1> DEFINE t == requestShutdownRecheck(s)
           u == [s EXCEPT !.recheck = TRUE]
           e0 == [type |-> "recheck"]
<1>1. t = s \/ t = Emit(u, e0)
  BY DEF requestShutdownRecheck
<1> HIDE DEF t
<1>2. /\ u \in QState /\ u.active = s.active /\ u.pending = s.pending /\ u.packing = s.packing
      /\ u.stage = s.stage /\ u.packed = s.packed /\ u.events = s.events
      /\ u.paused = s.paused /\ u.canceling = s.canceling /\ u.tunnel = s.tunnel
      /\ u.upsets = s.upsets
  BY DEF QState
<1> HIDE DEF u
<1>3. e0 \in Event
  BY DEF Event
<1> HIDE DEF e0
<1>4. t = s \/ (Elems(t.events) = Elems(u.events) \cup {e0}
                /\ t = [u EXCEPT !.events = Append(u.events, e0)])
  BY <1>1, <1>2, <1>3, EmitFields
<1>5. /\ t.active = s.active /\ t.pending = s.pending /\ t.packing = s.packing
      /\ t.stage = s.stage /\ t.packed = s.packed
      /\ t.paused = s.paused /\ t.canceling = s.canceling /\ t.tunnel = s.tunnel
      /\ t.upsets = s.upsets
  BY <1>2, <1>4 DEF QState
<1>6. Elems(s.events) \subseteq Elems(t.events)
  BY <1>2, <1>4
<1>7. Stays(s, t)
  BY <1>5, <1>6, FlagsStay
<1>8. Idle(t) = Idle(s)
  BY <1>5, SameIdle
<1> QED
  BY <1>5, <1>7, <1>8 DEF t

LEMMA PackedAheadMoves ==
    ASSUME NEW j \in Jobs, NEW s \in QState, s.packing = j, s.pending # <<>>,
           s.active = NoJob => "parked" \in s.upsets, Moves(s)
    PROVE  Moves(PackedAheadFinished(s, j))
<1> DEFINE u == [Delete(s, j) EXCEPT !.packing = NoJob, !.pending = Tail(@)]
           t == PackedAheadFinished(s, j)
<1> SUFFICES Moves(t)
  OBVIOUS
<1>1. t = _prepareNextPacking(u)
  BY DEF PackedAheadFinished
<1> HIDE DEF t
<1>2. u = [s EXCEPT !.stage[j] = "deleted", !.packed = s.packed \ {j},
                    !.packing = NoJob, !.pending = Tail(s.pending)]
  BY DEF Delete, QState
<1> HIDE DEF u
<1>3. Tail(s.pending) \in Seq(Jobs)
  BY ElemsTail DEF QState
<1>4. /\ u \in QState /\ u.stage = [s.stage EXCEPT ![j] = "deleted"]
      /\ u.packed = s.packed \ {j} /\ u.active = s.active /\ u.packing = NoJob
      /\ u.events = s.events /\ u.upsets = s.upsets
  BY <1>2, <1>3 DEF QState, Stages
<1>5. Stays(s, u)
  BY <1>4, GoneStays
<1>6. s.upsets \cap {"monitoring", "parked"} = {} => Launched(u, {})
  BY <1>5, StaysLaunched DEF Moves, Moving
<1>7. s.upsets \cap {"monitoring", "parked"} = {} => Launched(t, {})
  BY <1>1, <1>4, <1>6, PrepareLaunched
<1>8. t.upsets = s.upsets /\ t.active = s.active
  BY <1>1, <1>4, PrepareFields
<1>9. s.upsets \cap {"monitoring", "parked"} = {} => ~Idle(t)
  BY <1>8 DEF Idle
<1> QED
  BY <1>7, <1>8, <1>9 DEF Moves, Moving

LEMMA WaitingMoves ==
    ASSUME NEW j \in Jobs, NEW s \in QState,
           s.active = NoJob /\ j \in Elems(s.pending) => "parked" \in s.upsets, Moves(s)
    PROVE  Moves(WaitingFinished(s, j))
<1> DEFINE t == WaitingFinished(s, j)
<1> SUFFICES Moves(t)
  OBVIOUS
<1>1. s.pending \in Seq(Jobs)
  BY DEF QState
<1>2. t = [s EXCEPT !.stage[j] = "deleted", !.packed = s.packed \ {j},
                    !.pending = Without(s.pending, {j})]
  BY DEF Delete, QState, WaitingFinished
<1> HIDE DEF t
<1>3. /\ Without(s.pending, {j}) \in Seq(Jobs)
      /\ Elems(Without(s.pending, {j})) = Elems(s.pending) \ {j}
      /\ s.pending # <<>> /\ Head(s.pending) # j
           => Without(s.pending, {j}) # <<>> /\ Head(Without(s.pending, {j})) = Head(s.pending)
  BY <1>1, ElemsWithout
<1>4. /\ t.stage = [s.stage EXCEPT ![j] = "deleted"]
      /\ t.packed = s.packed \ {j} /\ t.active = s.active
      /\ t.pending = Without(s.pending, {j}) /\ t.packing = s.packing
      /\ t.events = s.events /\ t.upsets = s.upsets /\ t.paused = s.paused
      /\ t.canceling = s.canceling /\ t.tunnel = s.tunnel
  BY <1>2 DEF QState
<1>5. Stays(s, t)
  BY <1>4, GoneStays
<1>6. ASSUME s.upsets \cap {"monitoring", "parked"} = {}, Idle(t) PROVE Idle(s)
  <2>1. t.active = NoJob /\ t.pending # <<>>
    BY <1>6 DEF Idle
  <2>2. j \notin Elems(s.pending)
    BY <1>4, <1>6, <2>1
  <2>3. s.pending # <<>>
    <3>1. Elems(t.pending) # {}
      BY <1>3, <1>4, <2>1, ElemsNone
    <3>2. Elems(s.pending) # {}
      BY <1>3, <1>4, <3>1
    <3> QED
      BY <1>1, <3>2, ElemsNone
  <2>4. Head(s.pending) # j
    BY <1>1, <2>2, <2>3, ElemsTail
  <2>5. Head(t.pending) = Head(s.pending)
    BY <1>3, <1>4, <2>3, <2>4
  <2> QED
    BY <1>4, <1>6, <2>3, <2>5 DEF Idle, Proceeds
<1>7. s.upsets \cap {"monitoring", "parked"} = {} => Launched(t, {})
  BY <1>5, StaysLaunched DEF Moves, Moving
<1> QED
  BY <1>4, <1>6, <1>7 DEF Moves, Moving

\* The queue tries to move on after what gives nothing its turn.
LEMMA StartNextMoves ==
    ASSUME NEW s, Moves(s), NEW u, Safe(u), Stays(s, u), u.upsets = s.upsets,
           NEW fails \in BOOLEAN
    PROVE  Moves(_startNextPostingJob(u, fails))
<1> DEFINE t == _startNextPostingJob(u, fails)
<1> SUFFICES Moves(t)
  OBVIOUS
<1>1. Goes(u, t)
  BY StartNext
<1>2. ASSUME s.upsets \cap {"monitoring", "parked"} = {} PROVE Moving(t)
  <2>1. Launched(u, {})
    BY <1>2, StaysLaunched DEF Moves, Moving
  <2> QED
    BY <1>2, <2>1, StartNextMoving
<1> HIDE DEF t
<1> QED
  BY <1>1, <1>2 DEF Goes, Moves

\* The active job ended: the queue moves on, if there is one to move to.
LEMMA ActiveFinishedMoves ==
    ASSUME NEW j \in Jobs, NEW s, Safe(s), HasEnded(s, j), Heard(s, j), s.active = j,
           NEW fails \in BOOLEAN, Moves(s)
    PROVE  Moves(ActiveFinished(s, j, fails))
<1> DEFINE u == [Delete(s, j) EXCEPT !.active = NoJob]
           t == ActiveFinished(s, j, fails)
<1> SUFFICES Moves(t)
  OBVIOUS
<1>1. s \in QState
  BY DEF Safe
<1>2. t = IF s.pending # <<>> THEN _startNextPostingJob(u, fails) ELSE maybeFinishApplication(u)
  BY DEF ActiveFinished
<1> HIDE DEF t
<1>3. u = [s EXCEPT !.stage[j] = "deleted", !.packed = s.packed \ {j}, !.active = NoJob]
  BY <1>1 DEF Delete, QState
<1> HIDE DEF u
<1>4. /\ u \in QState /\ u.stage = [s.stage EXCEPT ![j] = "deleted"]
      /\ u.packed = s.packed \ {j} /\ u.active = NoJob
      /\ u.pending = s.pending /\ u.packing = s.packing /\ u.tools = s.tools
      /\ u.events = s.events /\ u.canceled = s.canceled /\ u.upsets = s.upsets
  BY <1>1, <1>3 DEF QState, Stages
<1>5. Safe(u)
  BY <1>4, ActiveGone
<1>6. Stays(s, u)
  BY <1>1, <1>4, GoneStays
<1>7. CASE s.pending # <<>>
  BY <1>2, <1>4, <1>5, <1>6, <1>7, StartNextMoves
<1>8. CASE s.pending = <<>>
  <2>1. ~Idle(u)
    BY <1>4, <1>8 DEF Idle
  <2>2. s.upsets \subseteq u.upsets
    BY <1>4
  <2>3. Moves(u)
    BY <1>6, <2>1, <2>2, StaysMoving
  <2>4. t = maybeFinishApplication(u)
    BY <1>2, <1>8
  <2>5. Stays(u, t) /\ Idle(t) = Idle(u) /\ t.upsets = u.upsets
    BY <1>4, <2>4, FinishStays
  <2> QED
    BY <2>3, <2>5, StaysMoving
<1> QED
  BY <1>7, <1>8

\* The end of a job, as the queue handles it.
LEMMA FinishedMoves ==
    ASSUME NEW j \in Jobs, NEW s, Safe(s), HasEnded(s, j), Heard(s, j), s.pending = pendingJobs,
           s.packing = j => s.pending # <<>> /\ Head(s.pending) = j,
           NEW fails \in BOOLEAN, Moves(s),
           NEW t, t = onPostingJobFinished(s, j, fails), Safe(t)
    PROVE  Moves(t)
<1> DEFINE w == [s EXCEPT !.upsets =
                   IF s.active = NoJob /\ IsPending(j) THEN @ \cup {"parked"} ELSE @]
           u == IF j = s.active THEN ActiveFinished(s, j, fails)
                ELSE IF preparePacking /\ j = s.packing THEN PackedAheadFinished(w, j)
                ELSE WaitingFinished(w, j)
<1>1. t = AtRest(u)
  BY DEF onPostingJobFinished
<1>2. Moves(u)
  <2>1. CASE j = s.active
    BY <2>1, ActiveFinishedMoves
  <2>2. CASE j # s.active
    <3>1. s \in QState /\ (IsPending(j) <=> j \in Elems(s.pending))
      BY DEF Safe, IsPending, Elems
    <3>2. /\ w \in QState /\ w.active = s.active /\ w.pending = s.pending /\ w.packing = s.packing
          /\ w.stage = s.stage /\ w.packed = s.packed /\ w.events = s.events
          /\ w.paused = s.paused /\ w.canceling = s.canceling /\ w.tunnel = s.tunnel
          /\ s.upsets \subseteq w.upsets
      BY <3>1 DEF QState
    <3>3. s.active = NoJob /\ j \in Elems(s.pending) => "parked" \in w.upsets
      BY <3>1 DEF QState
    <3> HIDE DEF w
    <3>4. Stays(s, w) /\ Idle(w) = Idle(s)
      BY <3>2, FlagsStay, SameIdle
    <3>5. Moves(w)
      BY <3>2, <3>4, StaysMoving
    <3>6. CASE preparePacking /\ j = s.packing
      <4>1. u = PackedAheadFinished(w, j)
        BY <2>2, <3>6
      <4>2. s.pending # <<>> /\ j \in Elems(s.pending)
        BY <3>1, <3>6, ElemsTail DEF QState
      <4> QED
        BY <3>2, <3>3, <3>5, <3>6, <4>1, <4>2, PackedAheadMoves
    <3>7. CASE ~(preparePacking /\ j = s.packing)
      <4>1. u = WaitingFinished(w, j)
        BY <2>2, <3>7
      <4> QED
        BY <3>2, <3>3, <3>5, <4>1, WaitingMoves
    <3> QED
      BY <3>6, <3>7
  <2> QED
    BY <2>1, <2>2
<1> HIDE DEF u
<1>3. CASE hasPostingJobs(u)
  <2>1. t = u
    BY <1>1, <1>3 DEF AtRest
  <2> QED
    BY <1>2, <2>1
<1>4. CASE ~hasPostingJobs(u)
  <2>1. t = [u EXCEPT !.paused = FALSE, !.canceling = FALSE]
    BY <1>1, <1>4 DEF AtRest
  <2>2. /\ t.active = u.active /\ t.pending = u.pending /\ t.packing = u.packing
        /\ t.stage = u.stage /\ t.packed = u.packed /\ t.events = u.events
        /\ t.upsets = u.upsets
    <3>1. t \in QState
      BY DEF Safe
    <3> QED
      BY <2>1, <3>1 DEF QState
  <2>3. Stays(u, t)
    BY <2>2, FlagsStay
  <2>4. ~Idle(t)
    BY <1>4, <2>2 DEF Idle, hasPostingJobs
  <2> QED
    BY <1>2, <2>2, <2>3, <2>4, StaysMoving
<1> QED
  BY <1>3, <1>4

\* The queue and the jobs stay, and the flags do not let the head start.
LEMMA FlagsMove ==
    ASSUME NEW s, Moves(s), NEW t,
           t.active = s.active, t.pending = s.pending, t.packing = s.packing,
           t.stage = s.stage, t.packed = s.packed,
           Elems(s.events) \subseteq Elems(t.events), s.upsets \subseteq t.upsets,
           Idle(t) => Idle(s)
    PROVE  Moves(t)
<1>1. Stays(s, t)
  BY FlagsStay
<1> QED
  BY <1>1, StaysMoving

\* An event is posted.
LEMMA EmitMoves ==
    ASSUME NEW s \in QState, NEW e \in Event, Moves(s)
    PROVE  Moves(Emit(s, e))
<1> DEFINE t == Emit(s, e)
<1> SUFFICES Moves(t)
  OBVIOUS
<1>1. Elems(t.events) = Elems(s.events) \cup {e}
  BY EmitFields
<1>2. /\ t.active = s.active /\ t.pending = s.pending /\ t.packing = s.packing
      /\ t.stage = s.stage /\ t.packed = s.packed /\ t.upsets = s.upsets
      /\ t.paused = s.paused /\ t.canceling = s.canceling /\ t.tunnel = s.tunnel
  BY DEF Emit, QState
<1> HIDE DEF t
<1>3. Idle(t) = Idle(s)
  BY <1>2, SameIdle
<1>4. Elems(s.events) \subseteq Elems(t.events) /\ s.upsets \subseteq t.upsets
  BY <1>1, <1>2
<1> QED
  BY <1>2, <1>3, <1>4, FlagsMove

\* A job is admitted: it waits, or it starts at once.
LEMMA AdmitMoves ==
    ASSUME NEW j \in Jobs, NEW s, Safe(s), s.stage[j] \in {"new", "asking"}, Moves(s)
    PROVE  Moves(Admit(s, j))
<1> DEFINE q == [[s EXCEPT !.stage[j] = "waiting"] EXCEPT !.pending = Append(@, j)]
           o == [[s EXCEPT !.stage[j] = "waiting"] EXCEPT !.active = j, !.upsets = Overtaken(s)]
           n == CASE ~Proceeds(s, j) -> q
                  [] Proceeds(s, j) /\ (s.active # NoJob \/ s.paused) ->
                        IF preparePacking /\ s.active # NoJob /\ s.active \in s.packed
                              /\ s.packing = NoJob
                        THEN _prepareNextPacking(q) ELSE q
                  [] OTHER -> Emit(o, Signal("start", j))
           t == requestShutdownRecheck(n)
<1> SUFFICES Moves(t)
  BY DEF Admit
<1>1. /\ s \in QState /\ s.active # j /\ s.packing # j
      /\ s.pending \in Seq(Jobs) /\ j # NoJob
  BY Unheard, JobQueueAssumption DEF Safe, QState
<1>2. q = [s EXCEPT !.stage[j] = "waiting", !.pending = Append(s.pending, j)]
  BY <1>1 DEF QState
<1>3. o = [s EXCEPT !.stage[j] = "waiting", !.active = j, !.upsets = Overtaken(s)]
  BY <1>1 DEF QState
<1>4. /\ s.upsets \subseteq Overtaken(s)
      /\ Overtaken(s) \subseteq {"monitoring", "parked", "overtaken"}
  BY <1>1 DEF Overtaken, QState
<1>5. /\ Append(s.pending, j) \in Seq(Jobs)
      /\ s.pending # <<>> => Head(Append(s.pending, j)) = Head(s.pending)
      /\ s.pending = <<>> => Head(Append(s.pending, j)) = j
  BY <1>1
<1> HIDE DEF Overtaken, q, o
<1>6. /\ q \in QState /\ q.stage = [s.stage EXCEPT ![j] = "waiting"]
      /\ q.pending = Append(s.pending, j) /\ q.active = s.active /\ q.packing = s.packing
      /\ q.packed = s.packed /\ q.events = s.events /\ q.upsets = s.upsets
      /\ q.paused = s.paused /\ q.canceling = s.canceling /\ q.tunnel = s.tunnel
  BY <1>1, <1>2, <1>5 DEF QState, Stages
<1>7. /\ o \in QState /\ o.stage = [s.stage EXCEPT ![j] = "waiting"]
      /\ o.active = j /\ o.packing = s.packing /\ o.packed = s.packed /\ o.events = s.events
      /\ o.upsets = Overtaken(s)
  BY <1>1, <1>3, <1>4 DEF QState, Stages
<1>8. /\ q.stage[j] = "waiting" /\ \A k \in Jobs : k # j => q.stage[k] = s.stage[k]
      /\ o.stage = q.stage
  BY <1>1, <1>6, <1>7 DEF QState
<1>9. ASSUME s.upsets \cap {"monitoring", "parked"} = {} PROVE Launched(s, {}) /\ ~Idle(s)
  BY <1>9 DEF Moves, Moving
<1>10. ASSUME s.upsets \cap {"monitoring", "parked"} = {} PROVE Launched(q, {})
  <2>1. ASSUME NEW k \in Jobs, q.stage[k] = "waiting",
               k = q.active \/ (k = q.packing /\ k \in HasPacking)
        PROVE  Signal("start", k) \in Elems(q.events)
    BY <1>1, <1>6, <1>8, <1>9, <1>10, <2>1 DEF Launched
  <2>2. ASSUME NEW k \in Jobs, q.stage[k] = "packed" PROVE k \in q.packed
    BY <1>6, <1>8, <1>9, <1>10, <2>2 DEF Launched
  <2>3. q.active \in Jobs => q.stage[q.active] # "packed"
    BY <1>1, <1>6, <1>8, <1>9, <1>10 DEF Launched
  <2> QED
    BY <2>1, <2>2, <2>3 DEF Launched
<1>11. n \in QState /\ Moves(n)
  <2>1. CASE ~Proceeds(s, j) \/ s.active # NoJob \/ s.paused
    <3>1. s.upsets \cap {"monitoring", "parked"} = {} => ~Idle(q)
      BY <1>5, <1>6, <1>9, <2>1 DEF Idle, Proceeds
    <3>2. Moves(q)
      BY <1>6, <1>10, <3>1 DEF Moves, Moving
    <3>3. CASE n = q
      BY <1>6, <3>2, <3>3
    <3>4. CASE n = _prepareNextPacking(q) /\ s.active # NoJob
      <4> HIDE DEF n
      <4>1. n \in QState /\ n.active = q.active /\ n.upsets = q.upsets
        BY <1>6, <3>4, PrepareFields
      <4>2. s.upsets \cap {"monitoring", "parked"} = {} => Launched(n, {})
        BY <1>6, <1>10, <3>4, PrepareLaunched
      <4>3. ~Idle(n)
        BY <1>6, <3>4, <4>1 DEF Idle
      <4> QED
        BY <1>6, <4>1, <4>2, <4>3 DEF Moves, Moving
    <3> QED
      BY <2>1, <3>3, <3>4
  <2>2. CASE ~(~Proceeds(s, j) \/ s.active # NoJob \/ s.paused)
    <3>1. n = Emit(o, Signal("start", j))
      BY <2>2
    <3> HIDE DEF n
    <3>2. Signal("start", j) \in Event
      BY SignalIsEvent
    <3>3. n \in QState /\ n.upsets = Overtaken(s) /\ n.active = j
      <4>1. n \in QState
        BY <1>7, <3>1, <3>2, EmitFields
      <4> QED
        BY <1>7, <3>1, <4>1 DEF Emit, QState
    <3>4. ASSUME n.upsets \cap {"monitoring", "parked"} = {} PROVE Moving(n)
      <4>1. s.upsets \cap {"monitoring", "parked"} = {}
        BY <1>4, <3>3, <3>4
      <4>2. Launched(o, {j})
        <5>1. ASSUME NEW k \in Jobs \ {j}, o.stage[k] = "waiting",
                     k = o.active \/ (k = o.packing /\ k \in HasPacking)
              PROVE  Signal("start", k) \in Elems(o.events)
          BY <1>6, <1>7, <1>8, <1>10, <4>1, <5>1 DEF Launched
        <5>2. ASSUME NEW k \in Jobs, o.stage[k] = "packed" PROVE k \in o.packed
          BY <1>6, <1>7, <1>8, <1>10, <4>1, <5>2 DEF Launched
        <5> QED
          BY <1>7, <5>1, <5>2 DEF Launched
      <4>3. o.stage[j] # "packed"
        BY <1>8
      <4>4. Launched(n, {})
        BY <1>7, <3>1, <4>2, <4>3, StartLaunched
      <4> QED
        BY <1>1, <3>3, <4>4 DEF Moving, Idle
    <3> QED
      BY <3>3, <3>4 DEF Moves
  <2> QED
    BY <2>1, <2>2
<1> HIDE DEF n
<1>12. Stays(n, t) /\ Idle(t) = Idle(n) /\ t.upsets = n.upsets
  BY <1>11, RecheckStays
<1> HIDE DEF t
<1> QED
  BY <1>11, <1>12, StaysMoving

\* A job that is not admitted is deleted.
LEMMA DiscardMoves ==
    ASSUME NEW j \in Jobs, NEW s \in QState, Moves(s)
    PROVE  Moves(_discardUnstartedJob(s, j))
<1> DEFINE u == Delete(s, j)
           t == requestShutdownRecheck(u)
<1> SUFFICES Moves(t)
  BY DEF _discardUnstartedJob
<1>1. u = [s EXCEPT !.stage[j] = "deleted", !.packed = s.packed \ {j}]
  BY DEF Delete, QState
<1> HIDE DEF u
<1>2. /\ u \in QState /\ u.stage = [s.stage EXCEPT ![j] = "deleted"]
      /\ u.packed = s.packed \ {j} /\ u.active = s.active
      /\ u.pending = s.pending /\ u.packing = s.packing
      /\ u.events = s.events /\ u.canceling = s.canceling
      /\ u.paused = s.paused /\ u.tunnel = s.tunnel /\ u.upsets = s.upsets
  BY <1>1 DEF QState, Stages
<1>3. Stays(s, u)
  BY <1>2, GoneStays
<1>4. Idle(u) = Idle(s)
  BY <1>2, SameIdle
<1>5. Moves(u)
  BY <1>2, <1>3, <1>4, StaysMoving
<1>6. Stays(u, t) /\ Idle(t) = Idle(u) /\ t.upsets = u.upsets
  BY <1>2, RecheckStays
<1> HIDE DEF t
<1> QED
  BY <1>5, <1>6, StaysMoving

\* A job's admission is being asked for.
LEMMA AskingMoves ==
    ASSUME NEW j \in Jobs, NEW s \in QState, Moves(s)
    PROVE  Moves([s EXCEPT !.stage[j] = "asking"])
<1> DEFINE t == [s EXCEPT !.stage[j] = "asking"]
<1> SUFFICES Moves(t)
  OBVIOUS
<1>1. /\ t.stage = [s.stage EXCEPT ![j] = "asking"]
      /\ t.packed = s.packed /\ t.active = s.active
      /\ t.pending = s.pending /\ t.packing = s.packing
      /\ t.events = s.events /\ t.canceling = s.canceling
      /\ t.paused = s.paused /\ t.tunnel = s.tunnel /\ t.upsets = s.upsets
  BY DEF QState
<1> HIDE DEF t
<1>2. t.stage[j] = "asking" /\ \A k \in Jobs : k # j => t.stage[k] = s.stage[k]
  BY <1>1 DEF QState
<1>3. Stays(s, t)
  BY <1>1, <1>2 DEF Stays
<1>4. Idle(t) = Idle(s)
  BY <1>1, SameIdle
<1> QED
  BY <1>1, <1>3, <1>4, StaysMoving

\* An event is taken from the queue: only the start of its job is lost.
LEMMA TakenLaunched ==
    ASSUME NEW s \in QState, s.events # <<>>, Launched(s, {})
    PROVE  LET e == Head(s.events)
               t == [s EXCEPT !.events = Tail(@)]
           IN  /\ Launched(t, {e.job}) /\ (e.type # "start" => Launched(t, {}))
               /\ Idle(t) = Idle(s) /\ t.upsets = s.upsets
<1> DEFINE e == Head(s.events)
           t == [s EXCEPT !.events = Tail(s.events)]
<1>0. [s EXCEPT !.events = Tail(@)] = t
  OBVIOUS
<1>1. Elems(s.events) = Elems(Tail(s.events)) \cup {e}
  <2>1. s.events \in Seq(Event)
    BY DEF QState
  <2> QED
    BY <2>1, ElemsTail
<1> HIDE DEF e
<1>2. /\ t.active = s.active /\ t.pending = s.pending /\ t.packing = s.packing
      /\ t.stage = s.stage /\ t.packed = s.packed /\ t.events = Tail(s.events)
      /\ t.canceling = s.canceling /\ t.paused = s.paused /\ t.tunnel = s.tunnel
      /\ t.upsets = s.upsets
  BY DEF QState
<1> HIDE DEF t
<1>3. ASSUME NEW k \in Jobs, t.stage[k] = "waiting",
             k = t.active \/ (k = t.packing /\ k \in HasPacking),
             k # e.job \/ e.type # "start"
      PROVE  Signal("start", k) \in Elems(t.events)
  <2>1. Signal("start", k) \in Elems(s.events)
    BY <1>2, <1>3 DEF Launched
  <2>2. Signal("start", k) # e
    BY <1>3 DEF Signal
  <2> QED
    BY <1>1, <1>2, <2>1, <2>2
<1>4. /\ \A k \in Jobs : t.stage[k] = "packed" => k \in t.packed
      /\ t.active \in Jobs => t.stage[t.active] # "packed"
  BY <1>2 DEF Launched
<1>5. Launched(t, {e.job})
  BY <1>3, <1>4 DEF Launched
<1>6. e.type # "start" => Launched(t, {})
  BY <1>3, <1>4 DEF Launched
<1>7. Idle(t) = Idle(s)
  BY <1>2, SameIdle
<1> QED
  BY <1>0, <1>2, <1>5, <1>6, <1>7 DEF e

\* The event of a job is handled by the job.
LEMMA JobEventMoving ==
    ASSUME NEW r \in QState, ~Idle(r), NEW j \in Jobs, NEW t,
           (t = r /\ Launched(r, {})) \/ (JobStep(r, t, j) /\ Launched(r, {j}))
    PROVE  Moving(t) /\ t.upsets = r.upsets
<1>1. CASE t = r /\ Launched(r, {})
  BY <1>1 DEF Moving
<1>2. CASE JobStep(r, t, j) /\ Launched(r, {j})
  <2>1. Launched(t, {}) /\ Idle(t) = Idle(r) /\ Frame(r, t)
    BY <1>2, JobStepLaunched
  <2> QED
    BY <2>1 DEF Moving, Frame
<1> QED
  BY <1>1, <1>2

\* An active job posts as soon as it is packed: onPackingDone() only packs ahead.
LEMMA PackingDoneMoving ==
    ASSUME NEW r \in QState, Launched(r, {}), ~Idle(r), NEW j \in Jobs, NEW fails \in BOOLEAN
    PROVE  LET t == onPackingDone(r, j, fails)
           IN  Moving(t) /\ t.upsets = r.upsets
<1> DEFINE t == onPackingDone(r, j, fails)
<1>1. CASE ~(preparePacking /\ j = r.active /\ r.packing = NoJob)
  BY <1>1 DEF onPackingDone, Moving
<1>2. CASE preparePacking /\ j = r.active /\ r.packing = NoJob
  <2>1. r.stage[j] # "packed"
    BY <1>2 DEF Launched
  <2>2. t = _prepareNextPacking(r)
    BY <1>2, <2>1 DEF onPackingDone
  <2> HIDE DEF t
  <2>3. t.active = j /\ t.upsets = r.upsets
    BY <1>2, <2>2, PrepareFields
  <2>4. Launched(t, {})
    BY <2>2, PrepareLaunched
  <2>5. ~Idle(t)
    BY <2>3, JobQueueAssumption DEF Idle
  <2> QED
    BY <2>3, <2>4, <2>5 DEF Moving, t
<1> QED
  BY <1>1, <1>2

\* Every event is handled so that the queue moves on.
LEMMA HandledMoves ==
    ASSUME NEW s, Sound(s, {}), Left(s), s.events # <<>>, s.pending = pendingJobs, Moves(s),
           NEW fails \in BOOLEAN
    PROVE  Moves(Handle([s EXCEPT !.events = Tail(@)], Head(s.events), fails))
<1> DEFINE e == Head(s.events)
           r == [s EXCEPT !.events = Tail(@)]
           t == Handle(r, e, fails)
           j == e.job
<1> SUFFICES Moves(t)
  OBVIOUS
<1>1. /\ e \in Event /\ EventOK(s, e)
      /\ r \in QState /\ Safe(r)
      /\ r.stage = s.stage /\ r.active = s.active /\ r.pending = s.pending
      /\ r.packing = s.packing /\ r.canceled = s.canceled /\ e \in Elems(s.events)
      /\ e.type \in Once
           => \A f \in Elems(r.events) : f.type = e.type => f.job # e.job
  BY Taken
<1>2. s \in QState /\ Ahead(s) /\ Safe(t)
  BY Handled DEF Sound, Safe
<1>3. /\ r.upsets = s.upsets
      /\ s.upsets \cap {"monitoring", "parked"} = {} =>
           ~Idle(r) /\ Launched(r, {e.job}) /\ (e.type # "start" => Launched(r, {}))
  <2>1. r.upsets = s.upsets
    BY <1>2 DEF QState
  <2>2. s.upsets \cap {"monitoring", "parked"} = {} => Launched(s, {}) /\ ~Idle(s)
    BY DEF Moves, Moving
  <2> QED
    BY <1>2, <2>1, <2>2, TakenLaunched
<1> HIDE DEF e, r
<1>4. e.type \notin {"recheck", "idle"} => j \in Jobs
  BY <1>1, EventJob DEF JobEvent
<1>5. ASSUME e.type # "start" PROVE Moves(r)
  BY <1>3, <1>5 DEF Moves, Moving
<1>6. ASSUME e.type \notin {"recheck", "idle"},
             (t = r /\ e.type # "start") \/ JobStep(r, t, j)
      PROVE  Moves(t)
  <2> HIDE DEF t
  <2>1. t.upsets = r.upsets
    BY <1>6 DEF JobStep, Frame
  <2>2. s.upsets \cap {"monitoring", "parked"} = {} => Moving(t)
    BY <1>1, <1>3, <1>4, <1>6, JobEventMoving
  <2> QED
    BY <1>3, <2>1, <2>2 DEF Moves
<1>7. CASE e.type = "start"
  <2>1. t = onStartPosting(r, j, fails)
    BY <1>7 DEF Handle
  <2>2. (r.stage[j] = "waiting" /\ (j \in HasPacking \/ j = r.active)) \/ Stopped(r, j)
    BY <1>1, <1>7 DEF EventOK, Started, Stopped, HasEnded
  <2> HIDE DEF t
  <2>3. JobStep(r, t, j)
    BY <1>1, <1>4, <1>7, <2>1, <2>2, StartPostingStep
  <2> QED
    BY <1>6, <1>7, <2>3
<1>8. CASE e.type = "stop"
  <2>1. t = onStopPosting(r, j)
    BY <1>8 DEF Handle
  <2>2. j \in r.canceled /\ r.stage[j] \notin {"new", "asking"}
    BY <1>1, <1>8 DEF EventOK
  <2> HIDE DEF t
  <2>3. t = r \/ JobStep(r, t, j)
    BY <1>1, <1>4, <1>8, <2>1, <2>2, StopPostingStep
  <2> QED
    BY <1>6, <1>8, <2>3
<1>9. CASE e.type = "toolEnded"
  <2>1. t = onToolEnded(r, j, e.ok, fails) /\ e.ok \in BOOLEAN
    BY <1>1, <1>9 DEF Handle, Event
  <2>2. r.stage[j] = "packing" \/ Stopped(r, j)
    BY <1>1, <1>9 DEF EventOK, Stopped, HasEnded
  <2> HIDE DEF t
  <2>3. JobStep(r, t, j)
    BY <1>1, <1>4, <1>9, <2>1, <2>2, ToolEndedStep
  <2> QED
    BY <1>6, <1>9, <2>3
<1>10. CASE e.type = "transferEnded"
  <2>1. t = onTransferEnded(r, j, e.ok) /\ e.ok \in BOOLEAN
    BY <1>1, <1>10 DEF Handle, Event
  <2>2. r.stage[j] = "posting" \/ HasEnded(r, j)
    BY <1>1, <1>10 DEF EventOK, HasEnded
  <2> HIDE DEF t
  <2>3. t = r \/ JobStep(r, t, j)
    BY <1>1, <1>4, <1>10, <2>1, <2>2, TransferEndedStep
  <2> QED
    BY <1>6, <1>10, <2>3
<1>11. CASE e.type = "packingDone"
  <2>1. t = onPackingDone(r, j, fails)
    BY <1>11 DEF Handle
  <2>2. t.upsets = r.upsets
    <3>1. j \in r.packed \/ r.stage[j] = "deleted"
      BY <1>1, <1>11, Taken DEF EventOK, r, e
    <3>2. Goes(r, t)
      BY <1>1, <1>4, <1>11, <2>1, <3>1, PackingDone
    <3> QED
      BY <3>2 DEF Goes
  <2> HIDE DEF t
  <2>3. s.upsets \cap {"monitoring", "parked"} = {} => Moving(t)
    BY <1>1, <1>3, <1>4, <1>11, <2>1, PackingDoneMoving
  <2> QED
    BY <1>3, <2>2, <2>3 DEF Moves
<1>12. CASE e.type = "finished"
  <2>1. t = onPostingJobFinished(r, j, fails)
    BY <1>12 DEF Handle
  <2>2. HasEnded(r, j) /\ j \in Jobs
    BY <1>1, <1>4, <1>12 DEF EventOK, HasEnded
  <2>3. r.packing = j => r.pending # <<>> /\ Head(r.pending) = j
    BY <1>1, <1>2, <1>12, <2>2, JobQueueAssumption DEF Ahead, JobEvent
  <2>4. Moves(r) /\ r.pending = pendingJobs /\ Heard(r, j)
    BY <1>1, <1>5, <1>12 DEF Heard, Once
  <2> HIDE DEF t
  <2> QED
    BY <1>1, <1>2, <2>1, <2>2, <2>3, <2>4, FinishedMoves
<1>13. CASE e.type = "idle"
  <2>1. t = maybeFinishApplication(r)
    BY <1>13 DEF Handle
  <2> HIDE DEF t
  <2>2. Stays(r, t) /\ Idle(t) = Idle(r) /\ t.upsets = r.upsets
    BY <1>1, <2>1, FinishStays
  <2>3. Moves(r)
    BY <1>5, <1>13
  <2> QED
    BY <2>2, <2>3, StaysMoving
<1>14. CASE e.type = "recheck"
  <2> DEFINE u == [r EXCEPT !.recheck = FALSE]
  <2>1. t = maybeFinishApplication(u)
    BY <1>14 DEF Handle
  <2> HIDE DEF t
  <2>2. /\ u \in QState /\ u.active = r.active /\ u.pending = r.pending /\ u.packing = r.packing
        /\ u.stage = r.stage /\ u.packed = r.packed /\ u.events = r.events
        /\ u.paused = r.paused /\ u.canceling = r.canceling /\ u.tunnel = r.tunnel
        /\ u.upsets = r.upsets
    BY <1>1 DEF QState
  <2> HIDE DEF u
  <2>3. Idle(u) = Idle(r)
    BY <2>2, SameIdle
  <2>4. Moves(r)
    BY <1>5, <1>14
  <2>5. Moves(u)
    BY <2>2, <2>3, <2>4, FlagsMove
  <2>6. Stays(u, t) /\ Idle(t) = Idle(u) /\ t.upsets = u.upsets
    BY <2>1, <2>2, FinishStays
  <2> QED
    BY <2>5, <2>6, StaysMoving
<1>15. e.type \in {"start", "stop", "packingDone", "finished", "toolEnded", "transferEnded",
                   "recheck", "idle"}
  BY <1>1 DEF Event
<1> QED
  BY <1>7, <1>8, <1>9, <1>10, <1>11, <1>12, <1>13, <1>14, <1>15

-----------------------------------------------------------------------------
(* The queue moves on: one lemma for each action.                            *)

LEMMA BecameMoves ==
    ASSUME NEW s, Moves(s), Become(s)
    PROVE  Moves(Now)'
<1>1. /\ Now'.active = s.active /\ Now'.pending = s.pending /\ Now'.packing = s.packing
      /\ Now'.stage = s.stage /\ Now'.packed = s.packed /\ Now'.events = s.events
      /\ Now'.paused = s.paused /\ Now'.canceling = s.canceling /\ Now'.tunnel = s.tunnel
      /\ Now'.upsets = s.upsets
  BY DEF Become, Now
<1>2. Moves(Now')
  <2> DEFINE t == Now'
  <2>1. /\ t.active = s.active /\ t.pending = s.pending /\ t.packing = s.packing
        /\ t.stage = s.stage /\ t.packed = s.packed /\ t.events = s.events
        /\ t.paused = s.paused /\ t.canceling = s.canceling /\ t.tunnel = s.tunnel
        /\ t.upsets = s.upsets
    BY <1>1
  <2> HIDE DEF t
  <2>2. Idle(t) = Idle(s)
    BY <2>1, SameIdle
  <2>3. Moves(t)
    BY <2>1, <2>2, FlagsMove
  <2> QED
    BY <2>3 DEF t
<1> QED
  BY <1>2

LEMMA AskAdmissionMoves ==
    ASSUME Inv, Moves(Now), NEW j \in Jobs, AskAdmission(j)
    PROVE  Moves(Now)'
<1>1. PICK s : Become(s) /\ Moves(s)
  BY InvNow, DiscardMoves, AskingMoves DEF AskAdmission
<1> QED
  BY <1>1, BecameMoves

LEMMA AdmissionMoves ==
    ASSUME Inv, Moves(Now), NEW j \in Jobs, NEW accepted \in BOOLEAN,
           AnswerDialog(j, accepted) \/ startPostingJob(j)
    PROVE  Moves(Now)'
<1>1. Safe(Now) /\ Now \in QState /\ Now.stage[j] \in {"new", "asking"}
  BY InvNow DEF AnswerDialog, startPostingJob
<1>2. Moves(Admit(Now, j)) /\ Moves(_discardUnstartedJob(Now, j))
  BY <1>1, AdmitMoves, DiscardMoves
<1>3. Become(Admit(Now, j)) \/ Become(_discardUnstartedJob(Now, j))
  BY DEF AnswerDialog, startPostingJob
<1> QED
  BY <1>2, <1>3, BecameMoves

LEMMA PauseMoves ==
    ASSUME Inv, Moves(Now), pause
    PROVE  Moves(Now)'
<1> DEFINE s == [Now EXCEPT !.paused = TRUE]
<1>1. Become(s) /\ Now \in QState
  BY InvNow DEF pause
<1>2. /\ s.active = Now.active /\ s.pending = Now.pending /\ s.packing = Now.packing
      /\ s.stage = Now.stage /\ s.packed = Now.packed /\ s.events = Now.events
      /\ s.upsets = Now.upsets /\ s.paused = TRUE
  BY <1>1 DEF QState
<1> HIDE DEF s
<1>3. ~Idle(s)
  BY <1>2 DEF Idle
<1>4. Moves(s)
  BY <1>2, <1>3, FlagsMove
<1> QED
  BY <1>1, <1>4, BecameMoves

\* What is lifted or comes up lets the head of the queue start.
LEMMA ResumeMoves ==
    ASSUME Inv, Moves(Now), NEW fails \in BOOLEAN, resume(fails)
    PROVE  Moves(Now)'
<1>1. Safe(Now) /\ Now \in QState
  BY InvNow
<1>2. CASE activeJob # NoJob /\ ~Proceeds(Now, activeJob)
  <2>1. PICK b \in BOOLEAN : Become([Now EXCEPT !.paused = ~b])
    BY <1>2 DEF resume
  <2> DEFINE s == [Now EXCEPT !.paused = ~b]
  <2>2. /\ s.active = Now.active /\ s.pending = Now.pending /\ s.packing = Now.packing
        /\ s.stage = Now.stage /\ s.packed = Now.packed /\ s.events = Now.events
        /\ s.upsets = Now.upsets
    BY <1>1 DEF QState
  <2>3. Become(s)
    BY <2>1
  <2> HIDE DEF s
  <2>4. ~Idle(s)
    BY <1>2, <2>2, InvNow DEF Idle
  <2>5. Moves(s)
    BY <2>2, <2>4, FlagsMove
  <2> QED
    BY <2>3, <2>5, BecameMoves
<1>3. CASE ~(activeJob # NoJob /\ ~Proceeds(Now, activeJob))
  <2> DEFINE u == [Now EXCEPT !.paused = FALSE]
             v == _startNextPostingJob(u, fails)
             s == IF /\ preparePacking /\ v.packing = NoJob
                     /\ v.active # NoJob /\ v.active \in v.packed
                  THEN _prepareNextPacking(v) ELSE v
  <2>1. Become(s)
    BY <1>3 DEF resume
  <2>2. /\ u \in QState /\ u.active = Now.active /\ u.pending = Now.pending
        /\ u.packing = Now.packing /\ u.stage = Now.stage /\ u.packed = Now.packed
        /\ u.tools = Now.tools /\ u.events = Now.events /\ u.canceled = Now.canceled
        /\ u.upsets = Now.upsets
    BY <1>1 DEF QState
  <2> HIDE DEF u
  <2>3. Safe(u) /\ Stays(Now, u)
    BY <1>1, <2>2, FlagsSafe, FlagsStay
  <2>4. Safe(v) /\ Moves(v)
    BY <2>2, <2>3, StartNext, StartNextMoves
  <2> HIDE DEF v
  <2>5. Moves(s)
    <3>1. CASE s = _prepareNextPacking(v) /\ v.active # NoJob
      <4> HIDE DEF s
      <4>1. v \in QState
        BY <2>4 DEF Safe
      <4>2. s.active = v.active /\ s.upsets = v.upsets
        BY <3>1, <4>1, PrepareFields
      <4>3. ~Idle(s)
        BY <3>1, <4>2 DEF Idle
      <4>4. s.upsets \cap {"monitoring", "parked"} = {} => Launched(s, {})
        BY <2>4, <3>1, <4>1, <4>2, PrepareLaunched DEF Moves, Moving
      <4> QED
        BY <4>3, <4>4 DEF Moves, Moving
    <3>2. CASE s = v
      BY <2>4, <3>2
    <3> QED
      BY <3>1, <3>2
  <2> HIDE DEF s
  <2> QED
    BY <2>1, <2>5, BecameMoves
<1> QED
  BY <1>2, <1>3

LEMMA TunnelMoves ==
    ASSUME Inv, Moves(Now), NEW fails \in BOOLEAN, TunnelLost \/ TunnelConnected(fails)
    PROVE  Moves(Now)'
<1>1. Safe(Now) /\ Now \in QState
  BY InvNow
<1>2. CASE TunnelLost
  <2> DEFINE s == [Now EXCEPT !.tunnel = FALSE]
  <2>1. Become(s)
    BY <1>2 DEF TunnelLost
  <2>2. /\ s.active = Now.active /\ s.pending = Now.pending /\ s.packing = Now.packing
        /\ s.stage = Now.stage /\ s.packed = Now.packed /\ s.events = Now.events
        /\ s.paused = Now.paused /\ s.canceling = Now.canceling
        /\ s.upsets = Now.upsets /\ s.tunnel = FALSE
    BY <1>1 DEF QState
  <2> HIDE DEF s
  <2>3. Idle(s) => Idle(Now)
    BY <2>2 DEF Idle, Proceeds
  <2>4. Moves(s)
    BY <2>2, <2>3, FlagsMove
  <2> QED
    BY <2>1, <2>4, BecameMoves
<1>3. CASE TunnelConnected(fails)
  <2> DEFINE u == [Now EXCEPT !.tunnel = TRUE]
  <2>1. Become(_startNextPostingJob(u, fails))
    BY <1>3 DEF TunnelConnected
  <2>2. /\ u \in QState /\ u.active = Now.active /\ u.pending = Now.pending
        /\ u.packing = Now.packing /\ u.stage = Now.stage /\ u.packed = Now.packed
        /\ u.tools = Now.tools /\ u.events = Now.events /\ u.canceled = Now.canceled
        /\ u.upsets = Now.upsets
    BY <1>1 DEF QState
  <2> HIDE DEF u
  <2>3. Safe(u) /\ Stays(Now, u)
    BY <1>1, <2>2, FlagsSafe, FlagsStay
  <2>4. Moves(_startNextPostingJob(u, fails))
    BY <2>2, <2>3, StartNextMoves
  <2> QED
    BY <2>1, <2>4, BecameMoves
<1> QED
  BY <1>2, <1>3

LEMMA StopJobMoves ==
    ASSUME Inv, Moves(Now), NEW j \in Jobs, StopJob(j)
    PROVE  Moves(Now)'
<1> DEFINE u == [Now EXCEPT !.canceled = @ \cup {j}]
           v == Emit(u, Signal("stop", j))
           s == [v EXCEPT !.word = "stop"]
<1>1. Become(s)
  BY DEF StopJob, stopPosting
<1>2. /\ u \in QState /\ u.active = Now.active /\ u.pending = Now.pending
      /\ u.packing = Now.packing /\ u.stage = Now.stage /\ u.packed = Now.packed
      /\ u.events = Now.events /\ u.paused = Now.paused /\ u.canceling = Now.canceling
      /\ u.tunnel = Now.tunnel /\ u.upsets = Now.upsets
  BY InvNow, ZenonT(90) DEF QState
<1> HIDE DEF u
<1>3. Signal("stop", j) \in Event
  BY SignalIsEvent
<1>4. Moves(v) /\ v \in QState
  <2>1. Idle(u) = Idle(Now)
    BY <1>2, SameIdle
  <2>2. Moves(u)
    BY <1>2, <2>1, FlagsMove
  <2> QED
    BY <1>2, <1>3, <2>2, EmitFields, EmitMoves
<1> HIDE DEF v
<1>5. /\ s.active = v.active /\ s.pending = v.pending
      /\ s.packing = v.packing /\ s.stage = v.stage /\ s.packed = v.packed
      /\ s.events = v.events /\ s.paused = v.paused /\ s.canceling = v.canceling
      /\ s.tunnel = v.tunnel /\ s.upsets = v.upsets
  BY <1>4 DEF QState
<1> HIDE DEF s
<1>6. Idle(s) = Idle(v)
  BY <1>5, SameIdle
<1>7. Moves(s)
  BY <1>4, <1>5, <1>6, FlagsMove
<1> QED
  BY <1>1, <1>7, BecameMoves

LEMMA CancelAllMoves ==
    ASSUME Inv, Moves(Now), cancelAllPostingJobs
    PROVE  Moves(Now)'
<1> DEFINE asked == Without(AllJobs, Now.canceled)
           r == [i \in 1..Len(asked) |-> Signal("stop", asked[i])]
           s == [StopEach(_resetShutdownCompletion(Now), AllJobs) EXCEPT
                    !.canceling = TRUE, !.paused = FALSE, !.word = "stop"]
<1>1. Become(s) /\ Now \in QState /\ AllJobs \in Seq(Jobs)
  BY InvNow, AllJobsInQueue DEF cancelAllPostingJobs
<1>2. s = [Now EXCEPT !.ended = FALSE, !.canceled = Now.canceled \cup Elems(AllJobs),
                      !.events = Now.events \o r,
                      !.canceling = TRUE, !.paused = FALSE, !.word = "stop"]
  BY <1>1 DEF StopEach, _resetShutdownCompletion, QState, Elems
<1>3. r \in Seq(Event)
  <2>1. asked \in Seq(Jobs)
    BY <1>1, ElemsWithout
  <2> HIDE DEF asked
  <2>2. \A i \in 1..Len(asked) : Signal("stop", asked[i]) \in Event
    BY <2>1, SignalIsEvent
  <2> QED
    BY <2>1, <2>2
<1> HIDE DEF r, s
<1>4. Elems(Now.events \o r) = Elems(Now.events) \cup Elems(r)
  BY <1>1, <1>3, ElemsConcat DEF QState
<1>5. /\ s.active = Now.active /\ s.pending = Now.pending /\ s.packing = Now.packing
      /\ s.stage = Now.stage /\ s.packed = Now.packed /\ s.upsets = Now.upsets
      /\ s.canceling = TRUE /\ s.events = Now.events \o r
  BY <1>1, <1>2 DEF QState
<1>6. Elems(Now.events) \subseteq Elems(s.events) /\ Now.upsets \subseteq s.upsets
  BY <1>4, <1>5
<1>7. ~Idle(s)
  BY <1>5 DEF Idle
<1>8. Moves(s)
  BY <1>5, <1>6, <1>7, FlagsMove
<1> QED
  BY <1>1, <1>8, BecameMoves

LEMMA MonitoringMoves ==
    ASSUME Inv, Moves(Now), StopMonitoring \/ closeAllMonitoringJobs
    PROVE  Moves(Now)'
<1>1. CASE StopMonitoring
  BY <1>1, BecameMoves DEF StopMonitoring
\* What the end of the monitoring does is excluded.
<1>2. CASE closeAllMonitoringJobs
  <2>1. "monitoring" \in upsets'
    <3> DEFINE gone == {j \in Monitored : IsPending(j)}
               s == [Now EXCEPT !.pending = Without(@, gone),
                                !.stage = [j \in Jobs |-> IF j \in gone THEN "deleted" ELSE @[j]],
                                !.tools = @ \ gone,
                                !.upsets = @ \cup {"monitoring"}]
               t == IF gone = {} THEN s ELSE [_resetShutdownCompletion(s) EXCEPT !.word = "stop"]
               u == IF activeJob \in Monitored
                    THEN [stopPosting(t, activeJob) EXCEPT !.word = "stop"] ELSE t
    <3>1. Become(u)
      BY <1>2 DEF closeAllMonitoringJobs
    <3>2. upsets' = u.upsets
      BY <3>1 DEF Become
    <3>3. "monitoring" \in s.upsets
      BY DEF Now
    <3>4. t.upsets = s.upsets
      BY DEF _resetShutdownCompletion, Now
    <3> HIDE DEF s, t
    <3>5. u.upsets = t.upsets
      BY DEF stopPosting, Emit
    <3> QED
      BY <3>2, <3>3, <3>4, <3>5
  <2>2. Now'.upsets = upsets'
    BY DEF Now
  <2> QED
    BY <2>1, <2>2 DEF Moves
<1> QED
  BY <1>1, <1>2

LEMMA ShutdownMoves ==
    ASSUME Inv, Moves(Now), setShutdownWhenDone \/ TabsCleared \/ onShutdownProcFinished
    PROVE  Moves(Now)'
<1>1. Now \in QState
  BY InvNow
<1>2. CASE setShutdownWhenDone
  <2> DEFINE s == [_resetShutdownCompletion(Now) EXCEPT !.armed = ~@, !.word = "none"]
  <2>1. Become(s)
    BY <1>2 DEF setShutdownWhenDone
  <2>2. /\ s.active = Now.active /\ s.pending = Now.pending
        /\ s.packing = Now.packing /\ s.stage = Now.stage /\ s.packed = Now.packed
        /\ s.events = Now.events /\ s.paused = Now.paused /\ s.canceling = Now.canceling
        /\ s.tunnel = Now.tunnel /\ s.upsets = Now.upsets
    BY <1>1 DEF QState, _resetShutdownCompletion
  <2> HIDE DEF s
  <2>3. Idle(s) = Idle(Now)
    BY <2>2, SameIdle
  <2>4. Moves(s)
    BY <2>2, <2>3, FlagsMove
  <2> QED
    BY <2>1, <2>4, BecameMoves
<1>3. CASE TabsCleared
  <2> DEFINE s == requestShutdownRecheck(Now)
  <2>1. Become(s)
    BY <1>3 DEF TabsCleared
  <2>2. Stays(Now, s) /\ Idle(s) = Idle(Now) /\ s.upsets = Now.upsets
    BY <1>1, RecheckStays
  <2> HIDE DEF s
  <2>3. Moves(s)
    BY <2>2, StaysMoving
  <2> QED
    BY <2>1, <2>3, BecameMoves
<1>4. CASE onShutdownProcFinished
  <2> DEFINE u == [Now EXCEPT !.proc = FALSE]
             s == maybeFinishApplication(u)
  <2>1. Become(s)
    BY <1>4 DEF onShutdownProcFinished
  <2>2. /\ u \in QState /\ u.active = Now.active /\ u.pending = Now.pending
        /\ u.packing = Now.packing /\ u.stage = Now.stage /\ u.packed = Now.packed
        /\ u.events = Now.events /\ u.paused = Now.paused /\ u.canceling = Now.canceling
        /\ u.tunnel = Now.tunnel /\ u.upsets = Now.upsets
    BY <1>1 DEF QState
  <2> HIDE DEF u
  <2>3. Idle(u) = Idle(Now)
    BY <2>2, SameIdle
  <2>4. Moves(u)
    BY <2>2, <2>3, FlagsMove
  <2>5. Stays(u, s) /\ Idle(s) = Idle(u) /\ s.upsets = u.upsets
    BY <2>2, FinishStays
  <2> HIDE DEF s
  <2>6. Moves(s)
    BY <2>4, <2>5, StaysMoving
  <2> QED
    BY <2>1, <2>6, BecameMoves
<1> QED
  BY <1>2, <1>3, <1>4

LEMMA EndsMove ==
    ASSUME Inv, Moves(Now), NEW j \in Jobs, NEW ok \in BOOLEAN,
           ToolEnds(j, ok) \/ TransferEnds(j, ok) \/ PostCmdEnds(j)
    PROVE  Moves(Now)'
<1>1. Now \in QState
  BY InvNow
<1>2. CASE ToolEnds(j, ok)
  <2> DEFINE u == [Now EXCEPT !.tools = @ \ {j}]
             e0 == [type |-> "toolEnded", job |-> j, ok |-> ok]
  <2>1. Become(Emit(u, e0)) /\ e0 \in Event
    BY <1>2 DEF ToolEnds, Event
  <2>2. /\ u \in QState /\ u.active = Now.active /\ u.pending = Now.pending
        /\ u.packing = Now.packing /\ u.stage = Now.stage /\ u.packed = Now.packed
        /\ u.events = Now.events /\ u.paused = Now.paused /\ u.canceling = Now.canceling
        /\ u.tunnel = Now.tunnel /\ u.upsets = Now.upsets
    BY <1>1 DEF QState
  <2> HIDE DEF u, e0
  <2>3. Idle(u) = Idle(Now)
    BY <2>2, SameIdle
  <2>4. Moves(u)
    BY <2>2, <2>3, FlagsMove
  <2>5. Moves(Emit(u, e0))
    BY <2>1, <2>2, <2>4, EmitMoves
  <2> QED
    BY <2>1, <2>5, BecameMoves
<1>3. CASE TransferEnds(j, ok)
  <2> DEFINE e0 == [type |-> "transferEnded", job |-> j, ok |-> ok]
  <2>1. Become(Emit(Now, e0)) /\ e0 \in Event
    BY <1>3 DEF TransferEnds, Event
  <2> HIDE DEF e0
  <2>2. Moves(Emit(Now, e0))
    BY <1>1, <2>1, EmitMoves
  <2> QED
    BY <2>1, <2>2, BecameMoves
<1>4. CASE PostCmdEnds(j)
  <2> DEFINE u == [Now EXCEPT !.cmds = @ \ {j}]
             e0 == [type |-> "idle"]
  <2>1. (Become(Emit(u, e0)) \/ Become(u)) /\ e0 \in Event
    BY <1>4 DEF PostCmdEnds, Event
  <2>2. /\ u \in QState /\ u.active = Now.active /\ u.pending = Now.pending
        /\ u.packing = Now.packing /\ u.stage = Now.stage /\ u.packed = Now.packed
        /\ u.events = Now.events /\ u.paused = Now.paused /\ u.canceling = Now.canceling
        /\ u.tunnel = Now.tunnel /\ u.upsets = Now.upsets
    BY <1>1 DEF QState
  <2> HIDE DEF u, e0
  <2>3. Idle(u) = Idle(Now)
    BY <2>2, SameIdle
  <2>4. Moves(u)
    BY <2>2, <2>3, FlagsMove
  <2>5. Moves(Emit(u, e0))
    BY <2>1, <2>2, <2>4, EmitMoves
  <2> QED
    BY <2>1, <2>4, <2>5, BecameMoves
<1> QED
  BY <1>2, <1>3, <1>4

LEMMA DeliverMoves ==
    ASSUME Inv, Moves(Now), NEW fails \in BOOLEAN, Deliver(fails)
    PROVE  Moves(Now)'
<1> DEFINE s == Handle([Now EXCEPT !.events = Tail(@)], Head(events), fails)
<1>1. Become(s) /\ Sound(Now, {}) /\ Left(Now) /\ Now.events # <<>> /\ Now.pending = pendingJobs
      /\ Now.events = events
  BY InvNow DEF Deliver
<1>2. s = Handle([Now EXCEPT !.events = Tail(@)], Head(Now.events), fails)
  BY <1>1
<1> HIDE DEF s
<1>3. Moves(s)
  BY <1>1, <1>2, HandledMoves
<1> QED
  BY <1>1, <1>3, BecameMoves

LEMMA InitMoves ==
    ASSUME Init
    PROVE  Moves(Now)
<1>1. /\ Now.active = NoJob /\ Now.pending = <<>> /\ Now.packing = NoJob
      /\ \A j \in Jobs : Now.stage[j] = "new"
  BY DEF Init, Now
<1>2. Launched(Now, {})
  BY <1>1, JobQueueAssumption DEF Launched
<1>3. ~Idle(Now)
  BY <1>1 DEF Idle
<1> QED
  BY <1>2, <1>3 DEF Moves, Moving

LEMMA NextMoves ==
    ASSUME Inv, Moves(Now), [Next]_vars
    PROVE  Moves(Now)'
<1>1. CASE UNCHANGED vars
  <2>1. Become(Now)
    BY <1>1 DEF vars, queueVars, jobVars, shutdownVars, Now, Become
  <2> QED
    BY <2>1, BecameMoves
<1>2. CASE User
  BY <1>2, AskAdmissionMoves, AdmissionMoves, StopJobMoves, PauseMoves, ResumeMoves,
     CancelAllMoves, MonitoringMoves, ShutdownMoves DEF User
<1>3. CASE Environment
  <2>1. TunnelLost => Moves(Now)'
    BY TunnelMoves
  <2> QED
    BY <1>3, <2>1, EndsMove, ShutdownMoves, TunnelMoves DEF Environment
<1>4. CASE \E fails \in BOOLEAN : Deliver(fails)
  BY <1>4, DeliverMoves
<1> QED
  BY <1>1, <1>2, <1>3, <1>4 DEF Next

-----------------------------------------------------------------------------
(* The properties. *)

LEMMA InvAlways == Spec => []Inv
  BY InitInv, NextInv, PTL DEF Spec

\* Every state the queue reaches is of its type.
THEOREM TypeCorrect == Spec => []TypeOK
<1>1. Inv => TypeOK
  <2> SUFFICES ASSUME Inv PROVE TypeOK
    OBVIOUS
  <2>1. Now \in QState /\ Others
    BY InvNow DEF Inv
  <2>2. /\ Now.active = activeJob /\ Now.pending = pendingJobs /\ Now.packing = packingJob
        /\ Now.paused = queuePaused /\ Now.canceling = cancelingAll
        /\ Now.stage = stage /\ Now.packed = packed /\ Now.canceled = cancelRequested
        /\ Now.tools = toolRunning /\ Now.armed = armed /\ Now.ended = transferEnded
        /\ Now.recheck = recheckQueued /\ Now.proc = shuttingDown /\ Now.cmds = postCmds
        /\ Now.tunnel = tunnelUp /\ Now.events = events /\ Now.word = lastWord
        /\ Now.upsets = upsets
    BY DEF Now
  <2>3. /\ activeJob \in Jobs \cup {NoJob} /\ pendingJobs \in Seq(Jobs)
        /\ packingJob \in Jobs \cup {NoJob}
        /\ queuePaused \in BOOLEAN /\ cancelingAll \in BOOLEAN
        /\ stage \in [Jobs -> Stages] /\ packed \subseteq Jobs
        /\ cancelRequested \subseteq Jobs /\ toolRunning \subseteq Jobs
    BY <2>1, <2>2 DEF QState
  <2>4. /\ armed \in BOOLEAN /\ transferEnded \in BOOLEAN /\ recheckQueued \in BOOLEAN
        /\ shuttingDown \in BOOLEAN /\ tunnelUp \in BOOLEAN
        /\ postCmds \subseteq Jobs /\ events \in Seq(Event)
        /\ lastWord \in {"none", "good", "stop"}
        /\ upsets \subseteq {"monitoring", "parked", "overtaken"}
    BY <2>1, <2>2 DEF QState
  <2> QED
    BY <2>1, <2>3, <2>4 DEF TypeOK, Others
<1> QED
  BY <1>1, InvAlways, PTL

\* The jobs of the queue are those that were submitted and are not deleted, each
\* in one place, and only the active one posts (startPostingJob(),
\* onPostingJobFinished() and the cancellations).
THEOREM NoJobIsLost == Spec => []NoJobLost
<1>1. Inv => NoJobLost
  <2> SUFFICES ASSUME Inv PROVE NoJobLost
    OBVIOUS
  <2>1. Placed(Now) /\ Now.stage = stage /\ Now.active = activeJob /\ Now.pending = pendingJobs
    BY InvNow DEF Safe
  <2>2. \A j : IsPending(j) <=> j \in Elems(pendingJobs)
    BY DEF IsPending, Elems
  <2> QED
    BY <2>1, <2>2 DEF NoJobLost, Placed, Submitted, IsInjectiveSeq
<1> QED
  BY <1>1, InvAlways, PTL

\* No job is started twice, although five places emit startPosting(), and none
\* ends twice, although a stop, its tool and its transfer can each end it.
THEOREM JobsStartAndEndOnce == Spec => []StartsAndEndsOnce
<1>1. Inv => StartsAndEndsOnce
  <2> SUFFICES ASSUME Inv, NEW i \in 1..Len(events)
               PROVE  /\ events[i].type = "start" =>
                           \/ stage[events[i].job] = "waiting"
                           \/ HasEnded(Now, events[i].job) /\ events[i].job \in cancelRequested
                      /\ events[i].type = "finished" => stage[events[i].job] = "ended"
                      /\ events[i].type \in {"start", "finished"} =>
                           \A k \in 1..Len(events) : events[k] = events[i] => k = i
    BY DEF StartsAndEndsOnce
  <2>1. /\ EventsOK(Now) /\ Single(Now.events) /\ Now.stage = stage
        /\ Now.events = events /\ Now.canceled = cancelRequested
    BY InvNow DEF Safe
  <2>2. EventOK(Now, events[i])
    BY <2>1 DEF EventsOK, Elems
  <2>3. events[i].type \in {"start", "finished"} =>
          \A k \in 1..Len(events) : events[k] = events[i] => k = i
    BY <2>1 DEF Single, Once
  <2> QED
    BY <2>1, <2>2, <2>3 DEF EventOK, Started, Stopped
<1> QED
  BY <1>1, InvAlways, PTL

\* The job packed ahead is the head of the queue, so the dequeue() of
\* onPostingJobFinished() takes that one.
THEOREM PackedAheadIsHead == Spec => []PackingIsHead
<1>1. Inv => PackingIsHead
  BY InvNow DEF PackingIsHead, Safe, Ahead, Now
<1> QED
  BY <1>1, InvAlways, PTL

\* Two jobs are never packed at once, unless a new one overtook the one packed
\* ahead (_startNextPostingJob()).
THEOREM PackingIsAlone == Spec => []OnePacking
<1>1. Inv => OnePacking
  <2> SUFFICES ASSUME Inv, "overtaken" \notin upsets, NEW j \in Jobs, NEW k \in Jobs,
                      stage[j] = "packing", stage[k] = "packing", j # k
               PROVE  FALSE
    BY DEF OnePacking
  <2>1. /\ Placed(Now) /\ Untouched(Now) /\ Tools(Now) /\ OneAhead(Now)
        /\ Now.stage = stage /\ "overtaken" \notin Now.upsets
    BY InvNow DEF Safe, Now
  <2>2. ASSUME NEW i \in Elems(Now.pending), stage[i] = "packing"
        PROVE  i = Now.packing
    BY <2>1, <2>2 DEF Untouched, Stopped, HasEnded
  <2>3. ASSUME NEW i \in Jobs, NEW h \in Jobs, stage[i] = "packing", stage[h] = "packing",
               Now.active = i, h \in Elems(Now.pending)
        PROVE  FALSE
    <3>1. h = Now.packing
      BY <2>2, <2>3
    <3>2. Idles(Now)
      BY <2>1, <2>3, <3>1, JobQueueAssumption DEF OneAhead
    <3>3. i \in HasPacking /\ i \notin Now.packed /\ i # NoJob
      BY <2>1, <2>3, JobQueueAssumption DEF Tools
    <3> QED
      BY <2>1, <2>3, <3>2, <3>3 DEF Idles
  <2>4. /\ Now.active = j \/ j \in Elems(Now.pending)
        /\ Now.active = k \/ k \in Elems(Now.pending)
    BY <2>1 DEF Placed, Submitted
  <2>5. ~(j \in Elems(Now.pending) /\ k \in Elems(Now.pending))
    BY <2>2
  <2> QED
    BY <2>3, <2>4, <2>5
<1> QED
  BY <1>1, InvAlways, PTL

\* While all the jobs are being stopped, one is left whose end lifts
\* _cancelingAll (onPostingJobFinished()).
THEOREM CancelingEnds == Spec => []CancelEnds
<1>1. Inv => CancelEnds
  BY InvNow DEF CancelEnds, Left, Now
<1> QED
  BY <1>1, InvAlways, PTL

\* The computer is shut down as soon as the conditions of
\* maybeFinishApplication() are met: the event that does it is posted.
THEOREM ShutdownComes == Spec => []ShutdownIsComing
<1>1. Inv => ShutdownIsComing
  <2> SUFFICES ASSUME Inv, ReadyToShutdown, "parked" \notin upsets, events = <<>> PROVE FALSE
    BY DEF ShutdownIsComing
  <2>1. Coming(Now) /\ Now.events = events
    BY InvNow DEF Sound
  <2>2. Due(Now) /\ "parked" \notin Now.upsets /\ ~unsubmitted
    BY DEF ReadyToShutdown, Due, Now
  <2>3. Elems(Now.events) = {}
    BY <2>1, ElemsEmpty
  <2> QED
    BY <2>1, <2>2, <2>3 DEF Coming, Wakes
<1> QED
  BY <1>1, InvAlways, PTL

\* The queue does not rest while its head could start, nor behind an active job
\* that does nothing: the end of a job (onPostingJobFinished()), a resume and
\* the tunnel coming up all move it on (_startNextPostingJob()).
THEOREM QueueGoesOn == Spec => []QueueMovesOn
<1>1. Inv /\ Moves(Now) => QueueMovesOn
  <2> SUFFICES ASSUME Inv, Moves(Now), upsets \cap {"monitoring", "parked"} = {} PROVE QueueMovesOn
    BY DEF QueueMovesOn
  <2>1. /\ Launched(Now, {}) /\ ~Idle(Now) /\ Placed(Now)
        /\ Now.active = activeJob /\ Now.pending = pendingJobs
        /\ Now.stage = stage /\ Now.events = events
        /\ Now.paused = queuePaused /\ Now.canceling = cancelingAll
        /\ activeJob \in Jobs \cup {NoJob} /\ stage \in [Jobs -> Stages]
    BY InvNow DEF Moves, Moving, Now, Safe, QState
  <2>2. ActiveJobRuns
    <3> SUFFICES ASSUME activeJob \in Jobs, stage[activeJob] \notin {"packing", "posting", "ended"}
                 PROVE  \E i \in 1..Len(events) :
                           /\ events[i].type \in {"start", "stop", "toolEnded", "packingDone"}
                           /\ events[i].job = activeJob
      BY <2>1 DEF ActiveJobRuns
    <3>1. stage[activeJob] = "waiting"
      BY <2>1 DEF Placed, Submitted, Launched
    <3>2. Signal("start", activeJob) \in Elems(events)
      BY <2>1, <3>1 DEF Launched
    <3>3. PICK i \in 1..Len(events) : events[i] = Signal("start", activeJob)
      BY <3>2 DEF Elems
    <3> QED
      BY <3>3 DEF Signal
  <2> QED
    BY <2>1, <2>2 DEF QueueMovesOn, Idle
<1>2. Init => Inv /\ Moves(Now)
  BY InitInv, InitMoves
<1>3. Inv /\ Moves(Now) /\ [Next]_vars => (Inv /\ Moves(Now))'
  BY NextInv, NextMoves
<1> QED
  BY <1>1, <1>2, <1>3, PTL DEF Spec

\* A job that cancelAllPostingJobs() found, in the queue, at work or in its
\* admission dialog, is neither packed nor posted afterwards.
THEOREM StopAllHolds == Spec => StopAllBinds
<1>1. Inv /\ [Next]_vars
        => [\A j \in doomed : stage'[j] \in {"packing", "posting"} => stage'[j] = stage[j]]_vars
  BY NextInv DEF Keeps
<1> QED
  BY <1>1, InvAlways, PTL DEF Spec, StopAllBinds

\* The computer is shut down only when no job is left, no post command runs and
\* no tab waits to be submitted (maybeFinishApplication()).
THEOREM ShutdownIsLast == Spec => ShutdownLeavesNothing
<1>1. Inv /\ [Next]_vars
        => [~shuttingDown /\ shuttingDown' =>
               /\ \A j \in Jobs : stage'[j] \in {"new", "deleted"}
               /\ postCmds' = {} /\ ~unsubmitted]_vars
  BY NextInv DEF Keeps
<1> QED
  BY <1>1, InvAlways, PTL DEF Spec, ShutdownLeavesNothing

\* Whoever stops a job takes the shutdown back until a transfer ends well again
\* (_resetShutdownCompletion()).
THEOREM StopTakesShutdownBack == Spec => StopWithdrawsShutdown
<1>1. Inv /\ [Next]_vars => [~shuttingDown /\ shuttingDown' => lastWord' = "good"]_vars
  BY NextInv DEF Keeps
<1> QED
  BY <1>1, InvAlways, PTL DEF Spec, StopWithdrawsShutdown
=============================================================================
