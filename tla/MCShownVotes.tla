---------------------------- MODULE MCShownVotes ----------------------------
(***************************************************************************)
(* Instances of ShownVotes for TLC.                                        *)
(***************************************************************************)
EXTENDS ShownVotes, TLC

Symmetry ==
  Permutations(Polls) \cup Permutations(Users)
    \cup Permutations(Voters) \cup Permutations(Managers)
=============================================================================
