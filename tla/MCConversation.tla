---------------------------- MODULE MCConversation ----------------------------
(* Small instances of Conversation for TLC. *)
EXTENDS Conversation, TLC

CONSTANTS m1, r1, r2, s1, s2, c1

OneMessage == {m1}
TwoReplies == {r1, r2}
SecondIsFile == {r2}
NoFile == {}
TwoSenders == {s1, s2}
OneCloser == {c1}

Symmetry == Permutations(TwoSenders)
===============================================================================
