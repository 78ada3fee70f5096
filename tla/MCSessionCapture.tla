---------------------------- MODULE MCSessionCapture ----------------------------
(* Small instances of SessionCapture for TLC. *)
EXTENDS SessionCapture, TLC

CONSTANTS ann, ben, nobody

Users == Permutations({ann, ben})
=============================================================================
