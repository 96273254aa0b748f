---------------------------- MODULE MCImportJob ----------------------------
(* ImportJob on one job of three terms. *)
EXTENDS ImportJob, TLC

CONSTANTS i1, i2, i3

\* A term with more pages than are asked for, one OMDB does not know, and one
\* whose only page repeats a movie of the first.
Omdb == ("a" :> << <<i1, i2>>, <<i3>>, <<i2>> >>) @@ ("b" :> <<>>)
          @@ ("c" :> << <<i1>> >>)
ThreeTerms == <<"a", "b", "c">>
=============================================================================
