---------------------------- MODULE MCListUsers ----------------------------
(* ListUsers on small instances: the seed account and three that are created. *)
EXTENDS ListUsers, TLC

CONSTANTS seed, u1, u2, u3

Symmetry == Permutations({u1, u2, u3})
=============================================================================
