------------------------- MODULE MCPostgresBackend -------------------------
(***************************************************************************)
(* Instances of PostgresBackend for TLC.  User ids are numbers, so only    *)
(* polls, objects and callers are interchangeable.                         *)
(***************************************************************************)
EXTENDS PostgresBackend, TLC

Symmetry ==
  Permutations(Polls) \cup Permutations(Objects)
    \cup Permutations(Voters) \cup Permutations(Managers)
=============================================================================
