-------------------------- MODULE MCRepositoryIndex --------------------------
(* One GitHub repository that may be disconnected, two syncs of two attempts *)
(* each, one of which may outlive its timeout, and one file.                 *)
EXTENDS RepositoryIndex
CONSTANTS r1, f1
=============================================================================
