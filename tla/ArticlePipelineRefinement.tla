---------------------- MODULE ArticlePipelineRefinement ----------------------
(***************************************************************************)
(* The article pipeline implements ArticleSource for any number of         *)
(* posters, files and slices.  What has to be added to the inductive       *)
(* invariant of ArticlePipelineProofs is that no slice is on its way       *)
(* twice in a poster, and that none on its way can be read again.          *)
(***************************************************************************)
EXTENDS ArticlePipelineProofs

\* The reader has passed slice s.
Passed(s) == s[1] < nextFile /\ (s[1] = curFile => s[2] <= part)

\* The file that is open can be read and has the slices read from it.
OpenFile ==
    /\ curFile < nextFile
    /\ curFile # 0 => curFile \notin Unreadable /\ pos <= NbSlices[curFile]

\* The articles of a poster are slices to post, already passed by the reader,
\* each of them once.
Distinct ==
    \A p \in Posters :
        /\ \A a \in Queued(p) : a.slice \in ToPost /\ Passed(a.slice)
        /\ \A r \in Roles : \A a \in hold[p][r] : a.slice \in ToPost /\ Passed(a.slice)
        /\ \A i, j \in DOMAIN articles[p] :
              articles[p][i].slice = articles[p][j].slice => i = j
        /\ \A a \in Queued(p), b \in hold[p]["builder"] : a.slice # b.slice
        /\ \A r \in Roles : \A a, b \in hold[p][r] : a = b

RInv == Inv /\ OpenFile /\ Distinct
-----------------------------------------------------------------------------
\* Slices are pairs of a file and a position counted from one.
LEMMA SliceIsPair ==
    ASSUME NEW s \in ToPost
    PROVE  /\ s = <<s[1], s[2]>> /\ s[1] \in 1..NbFiles
           /\ s[2] \in 1..NbSlices[s[1]] /\ s[1] \notin Unreadable
           /\ s \notin AlreadyPosted
<1>1. s \in Slice /\ s[1] \notin Unreadable /\ s \notin AlreadyPosted
  BY DEF ToPost
<1>2. PICK f \in Files : s \in {<<f, i>> : i \in 1..NbSlices[f]}
  BY <1>1 DEF Slice
<1>3. PICK i \in 1..NbSlices[f] : s = <<f, i>>
  BY <1>2
<1> QED  BY <1>1, <1>3 DEF Files

\* Conversely, such a pair that is not posted yet is a slice to post.
LEMMA PairIsSlice ==
    ASSUME NEW f \in Files, NEW i \in 1..NbSlices[f],
           f \notin Unreadable, <<f, i>> \notin AlreadyPosted
    PROVE  <<f, i>> \in ToPost
<1>1. <<f, i>> \in Slice
  BY DEF Slice
<1> QED  BY <1>1 DEF ToPost

\* When _noMoreFiles is up every slice has been read and every unreadable file
\* reported.
LEMMA NothingToRead ==
    ASSUME Inv, noMoreFiles
    PROVE  Unread = {} /\ reported = Unreadable
<1> USE PipelineAssumption
<1>1. curFile = 0 /\ nextFile = NbFiles + 1
  BY DEF Inv, Reader
<1>2. \A s \in ToPost : s[1] \in 1..NbFiles
  BY SliceIsPair
<1>3. \A f \in Unreadable : f < NbFiles + 1
  BY DEF Files
<1> QED  BY <1>1, <1>2, <1>3 DEF Inv, Reader, Unread

\* A step that changes nothing ArticleSource speaks of is a stutter of it.
LEMMA Stutter ==
    ASSUME Unread' = Unread, reported' = reported, handed' = handed,
           \A p \in Posters : /\ Staged(p)' = Staged(p)
                              /\ (answer[p] = "end")' = (answer[p] = "end")
    PROVE  UNCHANGED Source!vars
BY DEF Source!vars

\* So is a step that leaves the reader and the articles where they are.
LEMMA QuietStep ==
    ASSUME RInv, UNCHANGED <<nextFile, curFile, pos, part, reported, articles, hold, handed>>,
           \A p \in Posters : (answer[p] = "end")' = (answer[p] = "end")
    PROVE  OpenFile' /\ Distinct' /\ UNCHANGED Source!vars
<1>1. OpenFile'
  BY DEF RInv, OpenFile
<1>2. Distinct'
  BY DEF RInv, Distinct, Queued, Passed
<1>3. Unread' = Unread
  BY DEF Unread
<1>4. \A p \in Posters : Staged(p)' = Staged(p)
  BY DEF Staged, Queued
<1> QED  BY <1>1, <1>2, <1>3, <1>4, Stutter

\* The steps that take and release mutexes, announce a build, wait, or reach a
\* test of the pause and stop flags are quiet.
LEMMA QuietSteps ==
    ASSUME RInv, NEW p \in Posters, NEW r \in Roles,
           \/ UnlockQueue(p) \/ LockBuffer(p, r) \/ LockDisk(p, r) \/ NoFileLeft(p, r)
           \/ PrepareNextArticle(p) \/ LeaveBuilder(p) \/ SendNextArticle(p)
           \/ RefuseArticle(p) \/ WaitForBuilder(p) \/ BuildItself(p)
           \/ Pause \/ Resume \/ Stop
    PROVE  OpenFile' /\ Distinct' /\ UNCHANGED Source!vars
<1> USE DEF readerVars, lockVars, posterVars, callVars, flagVars
<1>1. UNCHANGED <<nextFile, curFile, pos, part, reported, articles, hold, handed>>
  BY DEF UnlockQueue, LockBuffer, LockDisk, NoFileLeft, PrepareNextArticle, LeaveBuilder,
         SendNextArticle, RefuseArticle, Answer, WaitForBuilder, BuildItself, Pause, Resume,
         Stop
<1>2. \A q \in Posters : (answer[q] = "end")' = (answer[q] = "end")
  <2>1. CASE RefuseArticle(p)
    <3>1. answer' = [answer EXCEPT ![p] = "barrier"] /\ pc[p]["conn"] = "lock"
      BY <2>1 DEF RefuseArticle, Answer, AtQueue
    <3>2. answer[p] # "end"
      BY <3>1 DEF RInv, Inv, Ends
    <3>3. answer \in [Posters -> {"none", "article", "barrier", "end"}]
      BY DEF RInv, Inv, TypeOK
    <3> QED  BY <3>1, <3>2, <3>3
  <2>2. CASE ~RefuseArticle(p)
    <3>1. answer' = answer
      BY <2>2 DEF UnlockQueue, LockBuffer, LockDisk, NoFileLeft, PrepareNextArticle,
                  LeaveBuilder, SendNextArticle, WaitForBuilder, BuildItself, Pause, Resume,
                  Stop
    <3> QED  BY <3>1
  <2> QED  BY <2>1, <2>2
<1> QED  BY <1>1, <1>2, QuietStep

\* read() moves the position within the file.
LEMMA ReadSliceStep ==
    ASSUME RInv, NEW p \in Posters, NEW r \in Roles, ReadSlice(p, r)
    PROVE  OpenFile' /\ Distinct' /\ UNCHANGED Source!vars
<1> USE DEF ReadSlice, lockVars, callVars, flagVars
<1>1. OpenFile'
  BY PipelineAssumption DEF RInv, OpenFile, Inv, TypeOK, Files
<1>2. Distinct'
  BY DEF RInv, Distinct, Queued, Passed
<1>3. Unread' = Unread
  BY DEF Unread
<1>4. \A q \in Posters : Staged(q)' = Staged(q)
  BY DEF Staged, Queued
<1> QED  BY <1>1, <1>2, <1>3, <1>4, Stutter

\* The end of a file: every slice of it was numbered.
LEMMA EndOfFileStep ==
    ASSUME RInv, NEW p \in Posters, NEW r \in Roles, EndOfFile(p, r)
    PROVE  OpenFile' /\ Distinct' /\ UNCHANGED Source!vars
<1> USE DEF EndOfFile, lockVars, callVars, posterVars, flagVars
<1>1. OpenFile'
  BY PipelineAssumption DEF RInv, OpenFile, Inv, TypeOK, Files
<1>2. \A s \in ToPost : Passed(s) => Passed(s)'
  BY SliceIsPair DEF Passed
<1>3. Distinct'
  BY <1>2 DEF RInv, Distinct, Queued
<1>4. pos = part
  <2>1. pc[p][r] = "read"
    OBVIOUS
  <2>2. ~\E q \in Posters, s \in Roles : pc[q][s] = "number"
    BY <2>1, OneReader DEF RInv, Inv
  <2> QED  BY <2>2 DEF RInv, Inv, Reader
<1>5. Unread' = Unread
  <2>1. ASSUME NEW s \in ToPost, s[1] = curFile
        PROVE  ~(s[2] > part)
    <3>1. s[2] \in 1..NbSlices[curFile] /\ curFile \in Files
      BY <2>1, SliceIsPair DEF Files
    <3>2. NbSlices[curFile] \in Nat
      BY <3>1, PipelineAssumption
    <3> QED  BY <1>4, <3>1, <3>2 DEF RInv, Inv, TypeOK
  <2>2. \A s \in ToPost : s[1] # 0
    BY SliceIsPair
  <2> QED  BY <2>1, <2>2 DEF Unread
<1>6. \A q \in Posters : Staged(q)' = Staged(q)
  BY DEF Staged, Queued
<1> QED  BY <1>1, <1>3, <1>5, <1>6, Stutter

\* A file is opened, or reported as unreadable.
LEMMA OpenNextFileStep ==
    ASSUME RInv, NEW p \in Posters, NEW r \in Roles, OpenNextFile(p, r)
    PROVE  OpenFile' /\ Distinct' /\ [Source!Next]_(Source!vars)
<1> USE DEF OpenNextFile, lockVars, callVars, posterVars, flagVars
<1>1. nextFile \in Files /\ nextFile \in Nat /\ NbFiles \in Nat
  BY PipelineAssumption DEF RInv, Inv, TypeOK, Files
<1>2. OpenFile'
  BY <1>1, PipelineAssumption DEF RInv, OpenFile, Files
<1>3. \A s \in ToPost : Passed(s) => Passed(s)'
  BY <1>1, SliceIsPair DEF Passed
<1>4. Distinct'
  BY <1>3 DEF RInv, Distinct, Queued
<1>5. Unread' = Unread
  <2>1. \A s \in ToPost : /\ s[1] \in Nat /\ s[1] # 0 /\ s[1] \notin Unreadable
                         /\ (s[1] \in Files => s[2] \in Nat /\ s[2] > 0)
    BY SliceIsPair, PipelineAssumption DEF Files
  <2>2. \A s \in ToPost : s[1] \in Files
    BY SliceIsPair DEF Files
  <2>3. ASSUME NEW s \in ToPost
        PROVE  (s[1] >= nextFile \/ (s[1] = curFile /\ s[2] > part))
               <=> (s[1] >= nextFile' \/ (s[1] = curFile' /\ s[2] > part'))
    BY <1>1, <2>1, <2>2
  <2> QED  BY <2>3 DEF Unread
<1>6. \A q \in Posters : Staged(q)' = Staged(q)
  BY DEF Staged, Queued
<1>7. CASE nextFile \in Unreadable
  <2>1. nextFile \notin reported
    BY <1>1 DEF RInv, Inv, Reader
  <2>2. Source!Report(nextFile)
    BY <1>5, <1>6, <1>7, <2>1 DEF Source!Report
  <2> QED  BY <1>2, <1>4, <1>7, <2>2 DEF Source!Next
<1>8. CASE nextFile \notin Unreadable
  BY <1>2, <1>4, <1>5, <1>6, <1>8, Stutter
<1> QED  BY <1>7, <1>8
-----------------------------------------------------------------------------
\* A slice that leaves the unread ones for a poster is a Stage.
LEMMA MapsToStage ==
    ASSUME NEW p \in Posters, NEW s \in Unread,
           Unread' = Unread \ {s}, Staged(p)' = Staged(p) \cup {s},
           \A q \in Posters : q # p => Staged(q)' = Staged(q),
           UNCHANGED <<handed, reported, answer>>
    PROVE  Source!Next
<1>1. Source!Stage(p, s)
  BY DEF Source!Stage
<1>2. s \in ToPost
  BY DEF Unread
<1> QED  BY <1>1, <1>2 DEF Source!Next

\* An article that leaves its poster for a connection is a Hand.
LEMMA MapsToHand ==
    ASSUME NEW p \in Posters, NEW s \in ToPost,
           s \in Staged(p), Staged(p)' = Staged(p) \ {s},
           {a.slice : a \in handed'} = {a.slice : a \in handed} \cup {s},
           \A q \in Posters : q # p => Staged(q)' = Staged(q),
           \A q \in Posters : (answer[q] = "end")' = (answer[q] = "end"),
           Unread' = Unread, reported' = reported
    PROVE  Source!Next
<1>1. Source!Hand(p, s)
  BY DEF Source!Hand
<1> QED  BY <1>1 DEF Source!Next

\* A poster with nothing left that says so is an Exhaust.
LEMMA MapsToExhaust ==
    ASSUME NEW p \in Posters, Exhausted(p), answer'[p] = "end",
           \A q \in Posters : q # p => answer'[q] = answer[q],
           \A q \in Posters : Staged(q)' = Staged(q),
           {a.slice : a \in handed'} = {a.slice : a \in handed},
           Unread' = Unread, reported' = reported
    PROVE  Source!Next
<1>1. Source!Exhaust(p)
  BY DEF Source!Exhaust, Exhausted
<1> QED  BY <1>1 DEF Source!Next

\* An append adds one article, at the end.
LEMMA AppendElements ==
    ASSUME NEW s \in Seq(Article), NEW a \in Article
    PROVE  /\ {Append(s, a)[i] : i \in DOMAIN Append(s, a)}
                = {s[i] : i \in DOMAIN s} \cup {a}
           /\ DOMAIN Append(s, a) = DOMAIN s \cup {Len(s) + 1}
           /\ \A i \in DOMAIN s : Append(s, a)[i] = s[i]
           /\ Append(s, a)[Len(s) + 1] = a
OBVIOUS

\* Taking the head leaves the other articles, each one place earlier.
LEMMA TailElements ==
    ASSUME NEW s \in Seq(Article), s # <<>>
    PROVE  /\ Tail(s) \in Seq(Article)
           /\ \A i \in DOMAIN Tail(s) : i + 1 \in DOMAIN s /\ Tail(s)[i] = s[i + 1]
           /\ {s[i] : i \in DOMAIN s}
                = {Tail(s)[i] : i \in DOMAIN Tail(s)} \cup {Head(s)}
           /\ 1 \in DOMAIN s /\ Head(s) = s[1]
           /\ \A i \in DOMAIN Tail(s) : i # 0 /\ i \in Nat
<1>1. /\ Tail(s) \in Seq(Article) /\ Len(Tail(s)) = Len(s) - 1
      /\ \A i \in 1..Len(Tail(s)) : Tail(s)[i] = s[i + 1]
  BY HeadTailProperties
<1>2. Head(s) = s[1] /\ DOMAIN s = 1..Len(s) /\ DOMAIN Tail(s) = 1..Len(Tail(s))
      /\ Len(s) \in Nat \ {0}
  BY <1>1
<1>3. \A i \in DOMAIN s : i = 1 \/ (i - 1 \in DOMAIN Tail(s) /\ Tail(s)[i - 1] = s[i])
  BY <1>1, <1>2
<1>4. \A i \in DOMAIN Tail(s) : i + 1 \in DOMAIN s /\ Tail(s)[i] = s[i + 1] /\ i # 0 /\ i \in Nat
  BY <1>1, <1>2
<1>5. {s[i] : i \in DOMAIN s} = {Tail(s)[i] : i \in DOMAIN Tail(s)} \cup {Head(s)}
  <2>1. 1 \in DOMAIN s
    BY <1>2
  <2>2. \A i \in DOMAIN s : s[i] \in {Tail(s)[j] : j \in DOMAIN Tail(s)} \cup {Head(s)}
    <3>1. ASSUME NEW i \in DOMAIN s, i # 1
          PROVE  \E j \in DOMAIN Tail(s) : Tail(s)[j] = s[i]
      BY <3>1, <1>3
    <3> QED  BY <3>1, <1>2
  <2>3. \A j \in DOMAIN Tail(s) : Tail(s)[j] \in {s[i] : i \in DOMAIN s}
    BY <1>4
  <2>4. Head(s) \in {s[i] : i \in DOMAIN s}
    BY <2>1, <1>2
  <2> QED  BY <2>2, <2>3, <2>4
<1> QED  BY <1>1, <1>2, <1>4, <1>5
-----------------------------------------------------------------------------
\* ++_part either skips a part that needs no sending, or stages its slice.
LEMMA NumberPartStep ==
    ASSUME RInv, NEW p \in Posters, NEW r \in Roles, NumberPart(p, r)
    PROVE  OpenFile' /\ Distinct' /\ [Source!Next]_(Source!vars)
<1> DEFINE s == <<curFile, part + 1>>
           a == [slice |-> s, body |-> NotEncoded]
<1>1. /\ pc[p][r] = "number" /\ part' = part + 1
      /\ UNCHANGED <<nextFile, curFile, pos, reported, articles, answer, handed>>
      /\ IF s \in AlreadyPosted THEN hold' = hold
                                ELSE hold' = [hold EXCEPT ![p][r] = {a}]
  BY DEF NumberPart, posterVars, callVars
<1>2. /\ curFile \in Files /\ curFile < nextFile /\ curFile \notin Unreadable
      /\ part \in Nat /\ pos = part + 1 /\ pos <= NbSlices[curFile]
      /\ nextFile \in Nat /\ NbSlices[curFile] \in Nat /\ curFile \in Nat
  BY <1>1, PipelineAssumption DEF RInv, OpenFile, Inv, TypeOK, Reader, Files
<1>3. OpenFile'
  BY <1>1, <1>2 DEF OpenFile
<1>4. \A t \in ToPost : Passed(t) => Passed(t)'
  BY <1>1, <1>2, SliceIsPair, PipelineAssumption DEF Passed, Files
<1>5. Unread' = Unread \ {s}
  <2>1. \A t \in ToPost : /\ t = <<t[1], t[2]>> /\ t[1] \in Nat
                          /\ t[1] = curFile => t[2] \in Nat
    BY <1>2, SliceIsPair, PipelineAssumption DEF Files
  <2>2. ASSUME NEW t \in ToPost
        PROVE  (t[1] >= nextFile' \/ (t[1] = curFile' /\ t[2] > part'))
               <=> (t[1] >= nextFile \/ (t[1] = curFile /\ t[2] > part)) /\ t # s
    BY <1>1, <1>2, <2>1
  <2> QED  BY <2>2 DEF Unread
<1>6. CASE s \in AlreadyPosted
  <2>1. hold' = hold /\ s \notin Unread
    BY <1>1, <1>6 DEF Unread, ToPost
  <2>2. Unread' = Unread
    BY <1>5, <2>1
  <2>3. \A q \in Posters : Staged(q)' = Staged(q)
    BY <1>1, <2>1 DEF Staged, Queued
  <2>4. Distinct'
    BY <1>1, <1>4, <2>1 DEF RInv, Distinct, Queued
  <2> QED  BY <1>1, <1>3, <2>2, <2>3, <2>4, Stutter
<1>7. CASE s \notin AlreadyPosted
  <2>1. s \in ToPost
    BY <1>2, <1>7, PairIsSlice
  <2>a. /\ s[1] = curFile /\ s[2] = part + 1
        /\ a.slice = s
    OBVIOUS
  <2> HIDE DEF a, s
  <2>2. /\ s \in Unread /\ ~Passed(s)
        /\ s[1] < nextFile' /\ (s[1] = curFile' => s[2] <= part')
    BY <1>1, <1>2, <2>1, <2>a DEF Unread, Passed
  <2>3. /\ hold'[p][r] = {a} /\ hold[p][r] = {}
        /\ \A q \in Posters, x \in Roles : (q # p \/ x # r) => hold'[q][x] = hold[q][x]
    <3>1. hold \in [Posters -> [Roles -> SUBSET Article]]
      BY DEF RInv, Inv, TypeOK
    <3>2. hold' = [hold EXCEPT ![p][r] = {a}]
      BY <1>1, <1>7
    <3>3. hold[p][r] = {}
      BY <1>1 DEF RInv, Inv, Bodies
    <3> QED  BY <3>1, <3>2, <3>3
  <2>4. Staged(p)' = Staged(p) \cup {s}
    <3>1. Queued(p)' = Queued(p)
      BY <1>1 DEF Queued
    <3>2. CASE r = "conn"
      BY <2>a, <2>3, <3>1, <3>2 DEF Staged, Roles
    <3>3. CASE r = "builder"
      BY <2>a, <2>3, <3>1, <3>3 DEF Staged, Roles
    <3> QED  BY <3>2, <3>3 DEF Roles
  <2>5. \A q \in Posters : q # p => Staged(q)' = Staged(q)
    BY <1>1, <2>3 DEF Staged, Queued, Roles
  <2>6. Distinct'
    <3>1. \A q \in Posters : Queued(q)' = Queued(q)
      BY <1>1 DEF Queued
    <3>2. \A q \in Posters, x \in Roles :
              hold'[q][x] = hold[q][x] \/ (q = p /\ x = r /\ hold'[q][x] = {a})
      BY <2>3
    <3>4. \A q \in Posters :
              /\ \A b \in Queued(q)' : b.slice \in ToPost /\ Passed(b.slice)'
              /\ \A x \in Roles : \A b \in hold'[q][x] : b.slice \in ToPost /\ Passed(b.slice)'
      <4>1. \A t \in ToPost : Passed(t) => t[1] < nextFile' /\ (t[1] = curFile' => t[2] <= part')
        BY <1>4 DEF Passed
      <4> QED  BY <4>1, <2>a, <2>1, <2>2, <3>1, <3>2 DEF RInv, Distinct, Passed
    <3>5. \A q \in Posters : \A b \in Queued(q)', c \in hold'[q]["builder"] : b.slice # c.slice
      BY <2>a, <2>2, <3>1, <3>2 DEF RInv, Distinct, Roles
    <3>6. \A q \in Posters : \A x \in Roles : \A b, c \in hold'[q][x] : b = c
      BY <3>2 DEF RInv, Distinct
    <3>7. \A q \in Posters : \A i, j \in DOMAIN articles'[q] :
              articles'[q][i].slice = articles'[q][j].slice => i = j
      BY <1>1 DEF RInv, Distinct
    <3> QED  BY <3>4, <3>5, <3>6, <3>7 DEF Distinct
  <2>7. Source!Next
    BY <1>1, <1>5, <2>2, <2>4, <2>5, MapsToStage
  <2> QED  BY <1>3, <2>6, <2>7
<1> QED  BY <1>6, <1>7

\* yEncBody() fills an article that is staged already.
LEMMA EncodeStep ==
    ASSUME RInv, NEW p \in Posters, NEW r \in Roles, Encode(p, r)
    PROVE  OpenFile' /\ Distinct' /\ UNCHANGED Source!vars
<1>1. /\ UNCHANGED <<nextFile, curFile, pos, part, reported, articles, answer, handed>>
      /\ hold'[p][r] = {[slice |-> a.slice, body |-> buffer[p]] : a \in hold[p][r]}
      /\ \A q \in Posters, x \in Roles : (q # p \/ x # r) => hold'[q][x] = hold[q][x]
  BY DEF Encode, readerVars, callVars, RInv, Inv, TypeOK
<1>2. OpenFile'
  BY <1>1 DEF RInv, OpenFile
<1>3. \A q \in Posters : Queued(q)' = Queued(q)
  BY <1>1 DEF Queued
<1>4. \A q \in Posters, x \in Roles :
          {b.slice : b \in hold'[q][x]} = {b.slice : b \in hold[q][x]}
  <2>1. \A b \in hold'[p][r] : \E c \in hold[p][r] : b.slice = c.slice
    BY <1>1
  <2>2. ASSUME NEW c \in hold[p][r]
        PROVE  \E b \in hold'[p][r] : b.slice = c.slice
    <3>1. [slice |-> c.slice, body |-> buffer[p]] \in hold'[p][r]
      BY <1>1
    <3> QED  BY <3>1
  <2>3. {b.slice : b \in hold'[p][r]} = {b.slice : b \in hold[p][r]}
    BY <2>1, <2>2
  <2> QED  BY <1>1, <2>3
<1>5. \A q \in Posters : Staged(q)' = Staged(q)
  <2>1. ASSUME NEW q \in Posters PROVE Staged(q)' = Staged(q)
    <3>1. Staged(q) = {b.slice : b \in Queued(q)} \cup {b.slice : b \in hold[q]["conn"]}
                        \cup {b.slice : b \in hold[q]["builder"]}
      BY DEF Staged
    <3>2. Staged(q)' = {b.slice : b \in Queued(q)'} \cup {b.slice : b \in hold'[q]["conn"]}
                        \cup {b.slice : b \in hold'[q]["builder"]}
      BY DEF Staged
    <3> QED  BY <1>3, <1>4, <3>1, <3>2 DEF Roles
  <2> QED  BY <2>1
<1>6. Distinct'
  <2>1. \A q \in Posters, x \in Roles : \A b \in hold'[q][x] :
            \E c \in hold[q][x] : b.slice = c.slice
    BY <1>1
  <2>2. \A q \in Posters, x \in Roles : \A b, c \in hold'[q][x] : b = c
    BY <1>1 DEF RInv, Distinct
  <2>3. \A q \in Posters :
            /\ \A b \in Queued(q)' : b.slice \in ToPost /\ Passed(b.slice)'
            /\ \A x \in Roles : \A b \in hold'[q][x] : b.slice \in ToPost /\ Passed(b.slice)'
    BY <1>1, <1>3, <2>1 DEF RInv, Distinct, Passed
  <2>4. \A q \in Posters : \A b \in Queued(q)', c \in hold'[q]["builder"] : b.slice # c.slice
    BY <1>3, <2>1 DEF RInv, Distinct, Roles
  <2>5. \A q \in Posters : \A i, j \in DOMAIN articles'[q] :
            articles'[q][i].slice = articles'[q][j].slice => i = j
    BY <1>1 DEF RInv, Distinct
  <2> QED  BY <2>2, <2>3, <2>4, <2>5 DEF Distinct
<1>7. Unread' = Unread
  BY <1>1 DEF Unread
<1> QED  BY <1>1, <1>2, <1>5, <1>6, <1>7, Stutter

\* The hand-off moves an article of the poster from its builder to its queue.
LEMMA EnqueueStep ==
    ASSUME RInv, NEW p \in Posters, Enqueue(p)
    PROVE  OpenFile' /\ Distinct' /\ UNCHANGED Source!vars
<1>1. /\ UNCHANGED <<nextFile, curFile, pos, part, reported, answer, handed>>
      /\ hold'[p]["builder"] = {}
      /\ \A q \in Posters, x \in Roles : (q # p \/ x # "builder") => hold'[q][x] = hold[q][x]
      /\ \A q \in Posters : q # p => articles'[q] = articles[q]
  BY DEF Enqueue, readerVars, callVars, RInv, Inv, TypeOK, Roles
<1>2. OpenFile'
  BY <1>1 DEF RInv, OpenFile
<1>3. Unread' = Unread
  BY <1>1 DEF Unread
<1>4. /\ \A q \in Posters : q # p => Queued(q)' = Queued(q)
      /\ \A s : Passed(s) <=> s[1] < nextFile' /\ (s[1] = curFile' => s[2] <= part')
  BY <1>1 DEF Queued, Passed
<1>5. CASE articles'[p] = articles[p] /\ hold[p]["builder"] = {}
  <2>1. \A q \in Posters : Queued(q)' = Queued(q)
    BY <1>4, <1>5 DEF Queued
  <2>2. \A q \in Posters, x \in Roles : hold'[q][x] = hold[q][x]
    BY <1>1, <1>5
  <2>3. \A q \in Posters : Staged(q)' = Staged(q)
    BY <2>1, <2>2 DEF Staged, Roles
  <2>4. \A q \in Posters : articles'[q] = articles[q]
    BY <1>1, <1>5
  <2>5. Distinct'
    BY <1>4, <2>1, <2>2, <2>4 DEF RInv, Distinct, Passed, Roles
  <2> QED  BY <1>1, <1>2, <1>3, <2>3, <2>5, Stutter
<1>6. CASE \E a \in hold[p]["builder"] : articles'[p] = Append(articles[p], a)
  <2>1. PICK a \in hold[p]["builder"] : articles'[p] = Append(articles[p], a)
    BY <1>6
  <2>2. /\ a \in Article /\ articles[p] \in Seq(Article) /\ hold[p]["builder"] = {a}
        /\ a.slice \in ToPost /\ Passed(a.slice)
        /\ \A b \in Queued(p) : b.slice # a.slice
    BY <2>1 DEF RInv, Inv, TypeOK, Roles, Distinct
  <2>3. Queued(p)' = Queued(p) \cup {a}
    BY <2>1, <2>2, AppendElements DEF Queued
  <2>4. \A q \in Posters : Staged(q)' = Staged(q)
    <3>1. Staged(p)' = Staged(p)
      BY <1>1, <2>2, <2>3 DEF Staged, Roles
    <3>2. \A q \in Posters : q # p => Staged(q)' = Staged(q)
      BY <1>1, <1>4 DEF Staged, Roles
    <3> QED  BY <3>1, <3>2
  <2>5. Distinct'
    <3>1. \A q \in Posters :
              /\ \A b \in Queued(q)' : b.slice \in ToPost /\ Passed(b.slice)
              /\ \A x \in Roles : \A b \in hold'[q][x] : b.slice \in ToPost /\ Passed(b.slice)
      BY <1>1, <1>4, <2>2, <2>3 DEF RInv, Distinct
    <3>2. \A q \in Posters : \A x \in Roles : \A b, c \in hold'[q][x] : b = c
      BY <1>1 DEF RInv, Distinct
    <3>3. \A q \in Posters : \A b \in Queued(q)', c \in hold'[q]["builder"] : b.slice # c.slice
      BY <1>1, <1>4 DEF RInv, Distinct, Roles
    <3>4. ASSUME NEW i \in DOMAIN articles'[p], NEW j \in DOMAIN articles'[p],
                 articles'[p][i].slice = articles'[p][j].slice
          PROVE  i = j
      <4>1. ASSUME NEW k \in DOMAIN articles'[p]
            PROVE  \/ /\ k \in DOMAIN articles[p] /\ articles'[p][k] = articles[p][k]
                      /\ articles'[p][k].slice # a.slice
                   \/ k = Len(articles[p]) + 1 /\ articles'[p][k] = a
        <5>1. CASE k \in DOMAIN articles[p]
          BY <5>1, <2>1, <2>2, AppendElements DEF Queued
        <5>2. CASE k = Len(articles[p]) + 1
          BY <5>2, <2>1, <2>2, AppendElements
        <5> QED  BY <5>1, <5>2, <2>1, <2>2, AppendElements
      <4> QED  BY <3>4, <4>1 DEF RInv, Distinct
    <3>5. \A q \in Posters : \A i, j \in DOMAIN articles'[q] :
              articles'[q][i].slice = articles'[q][j].slice => i = j
      BY <1>1, <3>4 DEF RInv, Distinct
    <3>6. \A s : Passed(s)' <=> Passed(s)
      BY <1>4 DEF Passed
    <3> QED  BY <3>1, <3>2, <3>3, <3>5, <3>6 DEF Distinct
  <2> QED  BY <1>1, <1>2, <1>3, <2>4, <2>5, Stutter
<1>7. \/ articles'[p] = articles[p] /\ hold[p]["builder"] = {}
      \/ \E a \in hold[p]["builder"] : articles'[p] = Append(articles[p], a)
  BY DEF Enqueue, RInv, Inv, TypeOK
<1> QED  BY <1>5, <1>6, <1>7

\* The head of the queue leaves its poster and reaches a connection.
LEMMA DequeueStep ==
    ASSUME RInv, NEW p \in Posters, Dequeue(p)
    PROVE  OpenFile' /\ Distinct' /\ [Source!Next]_(Source!vars)
<1> DEFINE s == Head(articles[p]).slice
<1>1. /\ UNCHANGED <<nextFile, curFile, pos, part, reported, hold>>
      /\ pc[p]["conn"] = "lock" /\ articles[p] # <<>>
      /\ handed' = handed \cup {Head(articles[p])}
      /\ articles'[p] = Tail(articles[p])
      /\ \A q \in Posters : q # p => articles'[q] = articles[q] /\ answer'[q] = answer[q]
      /\ answer'[p] = "article" /\ articles[p] \in Seq(Article)
  BY DEF Dequeue, AtQueue, Answer, readerVars, RInv, Inv, TypeOK
<1>2. OpenFile' /\ Unread' = Unread
  BY <1>1 DEF RInv, OpenFile, Unread
<1>3. /\ Queued(p) = Queued(p)' \cup {Head(articles[p])}
      /\ \A q \in Posters : q # p => Queued(q)' = Queued(q)
  <2>1. {articles[p][i] : i \in DOMAIN articles[p]}
          = {Tail(articles[p])[i] : i \in DOMAIN Tail(articles[p])} \cup {Head(articles[p])}
    BY <1>1, TailElements
  <2>2. Queued(p)' = {Tail(articles[p])[i] : i \in DOMAIN Tail(articles[p])}
    BY <1>1 DEF Queued
  <2>3. Queued(p) = Queued(p)' \cup {Head(articles[p])}
    BY <2>1, <2>2 DEF Queued
  <2>4. \A q \in Posters : q # p => Queued(q)' = Queued(q)
    BY <1>1 DEF Queued
  <2> QED  BY <2>3, <2>4
<1>4. \A i, j \in DOMAIN articles'[p] :
          articles'[p][i].slice = articles'[p][j].slice => i = j
  <2>1. ASSUME NEW i \in DOMAIN articles'[p], NEW j \in DOMAIN articles'[p],
               articles'[p][i].slice = articles'[p][j].slice
        PROVE  i = j
    <3>1. /\ i + 1 \in DOMAIN articles[p] /\ articles'[p][i] = articles[p][i + 1]
          /\ j + 1 \in DOMAIN articles[p] /\ articles'[p][j] = articles[p][j + 1]
          /\ i \in Nat /\ j \in Nat
      BY <1>1, TailElements
    <3>2. i + 1 = j + 1
      BY <2>1, <3>1 DEF RInv, Distinct
    <3> QED  BY <3>1, <3>2
  <2> QED  BY <2>1
<1>5. \A b \in Queued(p)' : b.slice # s
  <2>1. ASSUME NEW i \in DOMAIN articles'[p]
        PROVE  articles'[p][i].slice # s
    <3>1. /\ i + 1 \in DOMAIN articles[p] /\ articles'[p][i] = articles[p][i + 1]
          /\ 1 \in DOMAIN articles[p] /\ Head(articles[p]) = articles[p][1]
          /\ i \in Nat /\ i # 0
      BY <1>1, TailElements
    <3>2. i + 1 # 1
      BY <3>1
    <3> QED  BY <3>1, <3>2 DEF RInv, Distinct
  <2> QED  BY <2>1 DEF Queued
<1>6. Distinct'
  <2>1. \A q \in Posters : \A b \in Queued(q)' : b \in Queued(q)
    BY <1>3
  <2>2. \A q \in Posters : \A i, j \in DOMAIN articles'[q] :
            articles'[q][i].slice = articles'[q][j].slice => i = j
    BY <1>1, <1>4 DEF RInv, Distinct
  <2>3. \A t : Passed(t)' <=> Passed(t)
    BY <1>1 DEF Passed
  <2> QED  BY <1>1, <2>1, <2>2, <2>3 DEF RInv, Distinct
<1>7. s \in ToPost /\ s \in Staged(p)
  BY <1>3 DEF RInv, Distinct, Staged
<1>8. Staged(p)' = Staged(p) \ {s}
  <2>1. hold[p]["conn"] = {}
    BY <1>1 DEF RInv, Inv, Bodies, Roles
  <2>2. \A b \in hold[p]["builder"] : b.slice # s
    BY <1>3 DEF RInv, Distinct
  <2> QED  BY <1>1, <1>3, <1>5, <2>1, <2>2 DEF Staged
<1>9. \A q \in Posters : q # p => Staged(q)' = Staged(q)
  BY <1>1, <1>3 DEF Staged
<1>10. \A q \in Posters : (answer[q] = "end")' = (answer[q] = "end")
  BY <1>1 DEF RInv, Inv, Ends
<1>11. {a.slice : a \in handed'} = {a.slice : a \in handed} \cup {s}
  BY <1>1
<1> HIDE DEF s
<1> QED  BY <1>1, <1>2, <1>6, <1>7, <1>8, <1>9, <1>10, <1>11, MapsToHand

\* The connection's own build hands over its article, or finds nothing left.
LEMMA ReturnBuiltStep ==
    ASSUME RInv, NEW p \in Posters, ReturnBuilt(p)
    PROVE  OpenFile' /\ Distinct' /\ [Source!Next]_(Source!vars)
<1>1. /\ UNCHANGED <<nextFile, curFile, pos, part, noMoreFiles, reported, articles>>
      /\ pc[p]["conn"] = "built"
      /\ handed' = handed \cup hold[p]["conn"]
      /\ hold'[p]["conn"] = {}
      /\ \A q \in Posters : q # p => hold'[q] = hold[q] /\ answer'[q] = answer[q]
      /\ \A q \in Posters : hold'[q]["builder"] = hold[q]["builder"]
      /\ answer'[p] = IF hold[p]["conn"] = {} THEN "end" ELSE "article"
  BY DEF ReturnBuilt, Answer, readerVars, RInv, Inv, TypeOK, Roles
<1>2. OpenFile' /\ Unread' = Unread
  BY <1>1 DEF RInv, OpenFile, Unread
<1>3. \A q \in Posters : Queued(q)' = Queued(q)
  BY <1>1 DEF Queued
<1>4. Distinct'
  <2>1. \A q \in Posters, x \in Roles : hold'[q][x] \subseteq hold[q][x]
    BY <1>1 DEF Roles
  <2>2. \A t : Passed(t)' <=> Passed(t)
    BY <1>1 DEF Passed
  <2> QED  BY <1>1, <1>3, <2>1, <2>2 DEF RInv, Distinct, Roles
<1>5. articles[p] = <<>> /\ hold[p]["builder"] = {}
  BY <1>1 DEF RInv, Inv, Locks, Ends, Bodies, BuildSteps, Roles
<1>6. Staged(p) = {a.slice : a \in hold[p]["conn"]} /\ Staged(p)' = {}
  BY <1>1, <1>5 DEF Staged, Queued
<1>7. \A q \in Posters : q # p => Staged(q)' = Staged(q)
  BY <1>1, <1>3 DEF Staged
<1>8. CASE hold[p]["conn"] = {}
  <2>1. noMoreFiles
    BY <1>1, <1>8 DEF RInv, Inv, Bodies, Roles
  <2>2. Unread = {} /\ reported = Unreadable
    BY <2>1, NothingToRead DEF RInv
  <2>3. Exhausted(p)
    BY <1>6, <1>8, <2>2 DEF Exhausted
  <2>4. \A q \in Posters : Staged(q)' = Staged(q)
    BY <1>6, <1>7, <1>8
  <2>5. handed' = handed
    BY <1>1, <1>8
  <2> QED  BY <1>1, <1>2, <1>4, <1>8, <2>3, <2>4, <2>5, MapsToExhaust
<1>9. CASE hold[p]["conn"] # {}
  <2>1. PICK a \in hold[p]["conn"] : TRUE
    BY <1>9
  <2>2. hold[p]["conn"] = {a} /\ a.slice \in ToPost
    BY <2>1 DEF RInv, Distinct, Roles
  <2>3. /\ Staged(p) = {a.slice}
        /\ {b.slice : b \in handed'} = {b.slice : b \in handed} \cup {a.slice}
    BY <1>1, <1>6, <2>2
  <2>4. \A q \in Posters : (answer[q] = "end")' = (answer[q] = "end")
    BY <1>1, <1>9 DEF RInv, Inv, Ends
  <2> QED  BY <1>1, <1>2, <1>4, <1>6, <1>7, <2>2, <2>3, <2>4, MapsToHand
<1> QED  BY <1>8, <1>9

\* The end of input is answered when nothing is left for the poster.
LEMMA SayNoMoreStep ==
    ASSUME RInv, NEW p \in Posters, SayNoMore(p)
    PROVE  OpenFile' /\ Distinct' /\ [Source!Next]_(Source!vars)
<1>1. /\ UNCHANGED <<nextFile, curFile, pos, part, reported, articles, hold, handed>>
      /\ pc[p]["conn"] = "lock" /\ ~building[p] /\ noMoreFiles /\ articles[p] = <<>>
      /\ \A q \in Posters : q # p => answer'[q] = answer[q]
      /\ answer'[p] = "end"
  BY DEF SayNoMore, AtQueue, Answer, readerVars, posterVars, RInv, Inv, TypeOK
<1>2. OpenFile' /\ Distinct' /\ Unread' = Unread
  BY <1>1 DEF RInv, OpenFile, Distinct, Queued, Passed, Unread
<1>3. hold[p]["conn"] = {} /\ hold[p]["builder"] = {}
  BY <1>1 DEF RInv, Inv, Locks, Bodies, Roles
<1>4. Unread = {} /\ reported = Unreadable
  BY <1>1, NothingToRead DEF RInv
<1>5. Exhausted(p)
  BY <1>1, <1>3, <1>4 DEF Exhausted, Staged, Queued
<1>6. \A q \in Posters : Staged(q)' = Staged(q)
  BY <1>1 DEF Staged, Queued
<1> QED  BY <1>1, <1>2, <1>5, <1>6, MapsToExhaust

\* Once the connection has used the answer, the claim is forgotten.
LEMMA UseAnswerStep ==
    ASSUME RInv, NEW p \in Posters, UseAnswer(p)
    PROVE  OpenFile' /\ Distinct' /\ [Source!Next]_(Source!vars)
<1>1. /\ UNCHANGED <<nextFile, curFile, pos, part, reported, articles, hold, handed>>
      /\ \A q \in Posters : q # p => answer'[q] = answer[q]
      /\ answer'[p] = "none"
  BY DEF UseAnswer, readerVars, posterVars, RInv, Inv, TypeOK
<1>2. OpenFile' /\ Distinct' /\ Unread' = Unread
  BY <1>1 DEF RInv, OpenFile, Distinct, Queued, Passed, Unread
<1>3. \A q \in Posters : Staged(q)' = Staged(q)
  BY <1>1 DEF Staged, Queued
<1>4. Source!Forget(p)
  BY <1>1, <1>2, <1>3 DEF Source!Forget
<1> QED  BY <1>2, <1>4 DEF Source!Next
-----------------------------------------------------------------------------
\* Before the first read every slice is unread and no poster holds one.
LEMMA InitStep == Init => OpenFile /\ Distinct /\ Source!Init
<1> SUFFICES ASSUME Init PROVE OpenFile /\ Distinct /\ Source!Init
  OBVIOUS
<1> USE PipelineAssumption DEF Init
<1>1. OpenFile
  BY DEF OpenFile
<1>a. \A p \in Posters : /\ articles[p] = <<>>
                        /\ \A r \in Roles : hold[p][r] = {}
  OBVIOUS
<1>b. DOMAIN <<>> = {}
  OBVIOUS
<1>2. \A p \in Posters : Queued(p) = {} /\ Staged(p) = {}
  <2> HIDE DEF Init
  <2>1. ASSUME NEW p \in Posters PROVE Queued(p) = {}
    <3>1. DOMAIN articles[p] = {}
      BY <1>a, <1>b
    <3> QED  BY <3>1 DEF Queued
  <2> QED  BY <1>a, <2>1 DEF Staged, Roles
<1>3. Distinct
  BY <1>2, <1>a, <1>b DEF Distinct, Roles
<1>4. Unread = ToPost
  <2>1. \A s \in ToPost : s[1] >= nextFile
    BY SliceIsPair
  <2> QED  BY <2>1 DEF Unread
<1>5. Source!Init
  BY <1>2, <1>4 DEF Source!Init
<1> QED  BY <1>1, <1>3, <1>5

\* A step in which no variable changes is a stutter of ArticleSource.
LEMMA UnchangedStep ==
    ASSUME RInv, UNCHANGED vars
    PROVE  OpenFile' /\ Distinct' /\ UNCHANGED Source!vars
<1>1. /\ UNCHANGED <<nextFile, curFile, pos, part, reported, articles, hold, handed>>
      /\ \A p \in Posters : (answer[p] = "end")' = (answer[p] = "end")
  BY DEF vars, readerVars, lockVars, posterVars, callVars
<1> QED  BY <1>1, QuietStep

\* Every step of a build, whichever thread runs it.
LEMMA BuildArticleStep ==
    ASSUME RInv, NEW p \in Posters, NEW r \in Roles, BuildArticle(p, r)
    PROVE  OpenFile' /\ Distinct' /\ [Source!Next]_(Source!vars)
BY QuietSteps, ReadSliceStep, EndOfFileStep, OpenNextFileStep, NumberPartStep, EncodeStep
   DEF BuildArticle

\* Every step of the pipeline is one of ArticleSource or a stutter of it.
LEMMA NextStep ==
    ASSUME RInv, [Next]_vars
    PROVE  OpenFile' /\ Distinct' /\ [Source!Next]_(Source!vars)
<1>1. ASSUME NEW p \in Posters, BuilderThread(p)
      PROVE  OpenFile' /\ Distinct' /\ [Source!Next]_(Source!vars)
  BY <1>1, BuildArticleStep, QuietSteps, EnqueueStep DEF BuilderThread, Roles
<1>2. ASSUME NEW p \in Posters, ConnectionsThread(p)
      PROVE  OpenFile' /\ Distinct' /\ [Source!Next]_(Source!vars)
  BY <1>2, BuildArticleStep, QuietSteps, DequeueStep, SayNoMoreStep, ReturnBuiltStep,
     UseAnswerStep DEF ConnectionsThread, Roles
<1>3. ASSUME NEW p \in Posters, UnlockQueue(p)
      PROVE  OpenFile' /\ Distinct' /\ [Source!Next]_(Source!vars)
  BY <1>3, QuietSteps DEF Roles
<1>4. CASE Pause \/ Resume \/ Stop
  <2>1. UNCHANGED <<nextFile, curFile, pos, part, reported, articles, hold, handed, answer>>
    BY <1>4 DEF Pause, Resume, Stop, readerVars, posterVars, callVars
  <2> QED  BY <2>1, QuietStep
<1>5. CASE UNCHANGED vars
  BY <1>5, UnchangedStep
<1> QED  BY <1>1, <1>2, <1>3, <1>4, <1>5 DEF Next

\* Poster::getNextArticle keeps the promise of ArticleSource for any number of
\* posters, files and slices: each slice of a readable file that is not posted
\* yet is read once and handed to one connection, an unreadable file reported
\* once, and "no more articles" said only when nothing is left.
THEOREM Refinement == Spec => ImplementsArticleSource
<1>1. Init => RInv /\ Source!Init
  BY InitInv, InitStep DEF RInv
<1>2. RInv /\ [Next]_vars => RInv' /\ [Source!Next]_(Source!vars)
  BY NextStep, NextInv DEF RInv
<1> QED  BY <1>1, <1>2, PTL DEF Spec, ImplementsArticleSource, Source!Spec

==============================================================================
