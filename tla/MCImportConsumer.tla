-------------------------- MODULE MCImportConsumer --------------------------
(* ImportConsumer on small instances. *)
EXTENDS ImportConsumer, TLC

CONSTANTS m1, m2, m3, i1, i2, r1, a, b

\* A message that can be processed, one that does not parse, and one for a
\* movie that OMDB does not know.  A redelivery is as good as a second request.
RaceBody == (m1 :> i1) @@ (m2 :> Malformed) @@ (m3 :> i2)

MovieIdSymmetry == Permutations({a, b})
=============================================================================
