---------------------------- MODULE MCLiveServer ----------------------------
(* LiveServer for TLC: requests are alike.                                 *)
EXTENDS LiveServer, TLC

Alike == Permutations(Workers)

=============================================================================
