------------------------- MODULE MCRecommendations -------------------------
(* Recommendations over five movies. *)
EXTENDS Recommendations, TLC

CONSTANTS a, b, c, d, e, x, y, z

\* Scores without ties, and orders that disagree between algorithms.  A hybrid
\* whose first half is e alone has a page end within its second half.
Distinct ==
  ("POPULAR" :> ((a :> 4) @@ (b :> 3) @@ (c :> 2) @@ (d :> 1) @@ (e :> 5)))
  @@ ("CONTENT_BASED" :> ((a :> 1) @@ (b :> 2) @@ (c :> 0) @@ (d :> 0) @@ (e :> 4)))
  @@ ("SERENDIPITY" :> ((a :> 4) @@ (b :> 3) @@ (c :> 2) @@ (d :> 1) @@ (e :> 5)))

\* A movie of two genres, so that one who watched e alone gets it twice from
\* SERENDIPITY.
Genres == (a :> {"g"}) @@ (b :> {"h"}) @@ (c :> {"g", "h"}) @@ (d :> {"h"})
               @@ (e :> {"i"})

\* Two of three users are asked.  One who watched a finds d before c by x and y;
\* one who watched a and b finds that order or the other, as the second user
\* asked, after y, is x or z.
Watchers == (x :> {a, d}) @@ (y :> {a, b, c, d}) @@ (z :> {b, c})
Likers == (x :> {d}) @@ (y :> {c, d}) @@ (z :> {b, c})

\* Two movies with the same rating.
Tied ==
  ("POPULAR" :> ((a :> 2) @@ (b :> 2) @@ (c :> 1) @@ (d :> 1) @@ (e :> 0)))
  @@ ("CONTENT_BASED" :> ((a :> 1) @@ (b :> 2) @@ (c :> 3) @@ (d :> 0) @@ (e :> 4)))
  @@ ("SERENDIPITY" :> ((a :> 4) @@ (b :> 3) @@ (c :> 2) @@ (d :> 1) @@ (e :> 5)))
=============================================================================
