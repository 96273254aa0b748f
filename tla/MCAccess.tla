------------------------------ MODULE MCAccess ------------------------------
(* Access on small instances: the seed account and one that it creates. *)
EXTENDS Access, TLC

CONSTANTS p1, p2, u1, u2, s1, s2

\* The wildcard, the right to administer, the right to read, and none.
FewRoles == {{"*"}, {"users:write"}, {"users:read"}, {}}
FewRoutes == {"createUser", "patchUser", "getUser"}

Symmetry == Permutations({p1, p2}) \cup Permutations({s1, s2})
=============================================================================
