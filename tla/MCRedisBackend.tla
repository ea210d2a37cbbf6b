--------------------------- MODULE MCRedisBackend ---------------------------
(***************************************************************************)
(* Instances of RedisBackend for TLC.  Polls, users, objects and callers   *)
(* are interchangeable model values.                                       *)
(***************************************************************************)
EXTENDS RedisBackend, TLC

Symmetry ==
  Permutations(Polls) \cup Permutations(Users) \cup Permutations(Objects)
    \cup Permutations(Voters) \cup Permutations(Managers)
=============================================================================
