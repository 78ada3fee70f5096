-------------------------- MODULE MCWorkspaceAccess --------------------------
(* Two workspaces: the owner of the first, a member of the second, and       *)
(* somebody whose address is of the first one's domain.                      *)
EXTENDS WorkspaceAccess, TLC
CONSTANTS o, a, m, w1, w2, s1, s2, q1, q2

MCHome == o :> NoWs @@ a :> NoWs @@ m :> w1
MCProvisioned == <<
  [user |-> o, ws |-> w1, role |-> "OWNER", live |-> TRUE],
  [user |-> a, ws |-> w2, role |-> "MEMBER", live |-> TRUE]>>
MCSymmetry == Permutations({s1, s2}) \union Permutations({q1, q2})
=============================================================================
