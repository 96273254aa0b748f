--------------------------- MODULE MCImportSystem ---------------------------
(* ImportSystem on one job and two replicas. *)
EXTENDS ImportSystem, TLC

CONSTANTS i1, r1, r2, a, b

\* A term that OMDB does not know, and one with a movie.
Omdb == ("a" :> <<>>) @@ ("b" :> << <<i1>> >>)
TwoTerms == <<"a", "b">>
=============================================================================
