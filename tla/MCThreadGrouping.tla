--------------------------- MODULE MCThreadGrouping ---------------------------
(* Small instances of ThreadGrouping for TLC. *)
EXTENDS ThreadGrouping, TLC

CONSTANTS t1, t2, t3, m1, m2, m3, a1, r1, r2, s1, ann, bob

\* m1, m2 and m3 start t1, t2 and t3, a1 answers in t1.
Threads == {t1, t2, t3}
RootsAndAnswer == {m1, m2, m3, a1}
Roots == {m1, m2, m3}
ThreadOfEach == (m1 :> t1) @@ (m2 :> t2) @@ (m3 :> t3) @@ (a1 :> t1)

\* m3 is an integration's.
Customers == {m1, m2, a1}
AuthorOfEach == [m \in RootsAndAnswer |-> IF m = m3 THEN bob ELSE ann]

TwoRequests == {r1, r2}
OneSession == {s1}

Symmetry == Permutations(Request)
===============================================================================
