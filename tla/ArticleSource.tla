---------------------------- MODULE ArticleSource ----------------------------
(***************************************************************************)
(* What a posting job promises its NNTP connections about the articles     *)
(* they ask for, whatever the builder threads, the queues and the locks do *)
(* underneath (Poster::getNextArticle): every slice of a readable source   *)
(* file is read once, staged in the pipeline of one poster and handed to   *)
(* one connection; an unreadable file is reported once; and a poster says  *)
(* "no more articles" only when nothing is left that it could hand over.   *)
(***************************************************************************)
EXTENDS Naturals

CONSTANTS Posters,     \* PostingJob::_posters
          Slices,      \* the article-sized slices of the readable files
          Unreadable   \* the files whose open() fails

VARIABLES unread,      \* slices no thread has read yet
          staged,      \* poster -> slices read for it and not handed over
          handed,      \* slices some connection of the job has received
          reported,    \* files whose errorReadingFile() was emitted
          exhausted    \* poster -> it is answering "no more articles"

vars == <<unread, staged, handed, reported, exhausted>>

TypeOK ==
    /\ unread \subseteq Slices
    /\ staged \in [Posters -> SUBSET Slices]
    /\ handed \subseteq Slices
    /\ reported \subseteq Unreadable
    /\ exhausted \in [Posters -> BOOLEAN]

Init ==
    /\ unread = Slices
    /\ staged = [p \in Posters |-> {}]
    /\ handed = {}
    /\ reported = {}
    /\ exhausted = [p \in Posters |-> FALSE]

\* A thread of poster p reads slice s under the disk lock.
Stage(p, s) ==
    /\ s \in unread
    /\ unread' = unread \ {s}
    /\ staged' = [staged EXCEPT ![p] = @ \cup {s}]
    /\ UNCHANGED <<handed, reported, exhausted>>

\* getNextArticle() returns the article of slice s to a connection of p.
Hand(p, s) ==
    /\ s \in staged[p]
    /\ staged' = [staged EXCEPT ![p] = @ \ {s}]
    /\ handed' = handed \cup {s}
    /\ UNCHANGED <<unread, reported, exhausted>>

\* The reader could not open file f.
Report(f) ==
    /\ f \in Unreadable \ reported
    /\ reported' = reported \cup {f}
    /\ UNCHANGED <<unread, staged, handed, exhausted>>

\* getNextArticle() answers that poster p has no article left.
Exhaust(p) ==
    /\ unread = {}
    /\ staged[p] = {}
    /\ reported = Unreadable
    /\ exhausted' = [exhausted EXCEPT ![p] = TRUE]
    /\ UNCHANGED <<unread, staged, handed, reported>>

\* The connection has drawn its conclusion from the answer.
Forget(p) ==
    /\ exhausted' = [exhausted EXCEPT ![p] = FALSE]
    /\ UNCHANGED <<unread, staged, handed, reported>>

Next ==
    \/ \E p \in Posters, s \in Slices : Stage(p, s) \/ Hand(p, s)
    \/ \E f \in Unreadable : Report(f)
    \/ \E p \in Posters : Exhaust(p) \/ Forget(p)

Spec == Init /\ [][Next]_vars

==============================================================================
