---------------------------- MODULE MCSessionEvidence ----------------------------
(* Small instances of SessionEvidence for TLC. *)
EXTENDS SessionEvidence, TLC

CONSTANTS s1, s2, ann, ben, nobody, r1, r2, l1, l2, op1

\* Events with a chunk of the replay: all that a request can do to a row.
Full == {[load |-> 1, replay |-> TRUE]}

Alike == Permutations(Session) \cup Permutations(Request) \cup Permutations(Lookup)
=============================================================================
