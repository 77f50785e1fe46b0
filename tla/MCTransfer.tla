----------------------------- MODULE MCTransfer -----------------------------
(* Small jobs for TLC: two connections, each in a poster of its own.        *)
EXTENDS Transfer, TLC

CONSTANTS c1, c2, p1, p2, f1, f2, s1, s2

MCPosterOf == c1 :> p1 @@ c2 :> p2
MCPosterOf1 == c1 :> p1
MCFileOf == s1 :> f1 @@ s2 :> f1
MCFileOf1 == s1 :> f1

\* The connections can be exchanged together with their posters, and the
\* slices of a file with one another.
Exchange == c1 :> c2 @@ c2 :> c1 @@ p1 :> p2 @@ p2 :> p1
Swap == s1 :> s2 @@ s2 :> s1
Same == c1 :> c1 @@ c2 :> c2 @@ p1 :> p1 @@ p2 :> p2
Keep == s1 :> s1 @@ s2 :> s2
MCSymmetry == {Same @@ Keep, Exchange @@ Keep, Same @@ Swap, Exchange @@ Swap}

=============================================================================
