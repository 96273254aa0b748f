---------------------------- MODULE MCUserStores ----------------------------
(* UserStores on small instances: two requests at once, at most two users. *)
EXTENDS UserStores, TLC

CONSTANTS p1, p2, u1, u2, u3, e1, e2, n1, n2, s1, patchable, wildcard, empty,
          m1, m2

NoIds == {}
SeedRow == {u1}
SeedNode == {u2}

\* Requests, names and movies are interchangeable in every instance.
Symmetry == Permutations({p1, p2}) \cup Permutations({n1, n2})
              \cup Permutations({m1, m2})
=============================================================================
