-------------------------- MODULE Recommendations --------------------------
(***************************************************************************)
(* GET /movies: the recommendations of one user, page by page.  Nothing is *)
(* kept between two pages: each request looks the user up, selects the     *)
(* algorithm from its watch count, queries the graph again for the whole   *)
(* list, cuts it at the configured limit and slices it at the offset its   *)
(* cursor carries.  Between the queries of a request, and between pages,   *)
(* other requests of the user record watched movies and the importer adds  *)
(* movies.  What other users watched and liked does not change meanwhile.  *)
(*                                                                         *)
(* An action of a request is one query to Neo4j, or the answer.            *)
(***************************************************************************)
EXTENDS Integers, Sequences, FiniteSets, SequencesExt

CONSTANTS
  Movies,       \* every movie that may be in the graph
  Score,        \* algorithm -> movie -> what its query orders by, descending;
                \* 0 when the query does not match the movie
  Others,       \* the other users
  WatchedBy,    \* other user -> the movies it watched
  LikedBy,      \* other user -> those it liked that the query's filters pass
  MaxSimilar,   \* how many similar users are asked: the query's LIMIT 20
  GenresOf,     \* movie -> its genres
  Override,     \* values of the parameter algorithm; None when absent.  One
                \* the dispatcher does not know is answered 400 before a query
  PageLimit,    \* the parameter limit of a walk, 1..50
  MaxLimit,     \* RECOMMENDATION_MAX_LIMIT
  DefaultLimit, \* RECOMMENDATION_DEFAULT_LIMIT
  Weight,       \* RECOMMENDATION_HYBRID_CONTENT_WEIGHT, in percent
  ContentMin,   \* RECOMMENDATION_CONTENT_BASED_MIN_WATCHES
  CollabMin,    \* RECOMMENDATION_COLLABORATIVE_MIN_WATCHES
  None,
  MaxWatch      \* bound on the watch count

\* The algorithms that are one query; HYBRID merges two of them.  All but one
\* order by what a movie has in itself or in common with the user's.
Scored == {"POPULAR", "CONTENT_BASED", "SERENDIPITY"}
Queries == Scored \cup {"COLLABORATIVE"}

\* The configuration is parsed and not validated: a limit or a weight may be
\* zero or negative.
ASSUME LimitAssumption ==
  /\ PageLimit \in 1..50
  /\ {MaxLimit, DefaultLimit, Weight, ContentMin, CollabMin} \subseteq Int

ASSUME OverrideAssumption ==
  None \notin Nat /\ Override \subseteq Queries \cup {"HYBRID", None}

ASSUME GraphAssumption ==
  /\ IsFiniteSet(Movies)
  /\ \A m \in Movies : IsFiniteSet(GenresOf[m])
  /\ \A algo \in Scored : Score[algo] \in [Movies -> Nat]

ASSUME OthersAssumption ==
  /\ IsFiniteSet(Others) /\ MaxSimilar \in Nat
  /\ WatchedBy \in [Others -> SUBSET Movies]
  /\ \A u \in Others : LikedBy[u] \subseteq WatchedBy[u]

VARIABLES
  inGraph,  \* the movies in the graph
  watched,  \* those the user watched
  liked,    \* whether the user liked one of those
  count,    \* the user's watchCount
  req,      \* the request under way
  walk,     \* the pages the client holds, in order: what it shows
  changed   \* history: whether the graph changed since the walk began

vars == <<inGraph, watched, liked, count, req, walk, changed>>

-----------------------------------------------------------------------------
(* The use case and its queries *)

Select(watchCount) ==
  CASE watchCount < ContentMin -> "POPULAR"
    [] watchCount >= ContentMin /\ watchCount < CollabMin -> "CONTENT_BASED"
    [] watchCount >= ContentMin /\ watchCount >= CollabMin -> "COLLABORATIVE"

\* Execute is always given recommendationMaxLimit; a non-positive limit is
\* replaced by the default before it is capped.
EffectiveLimit(limit) ==
  LET asked == IF limit <= 0 THEN DefaultLimit ELSE limit
  IN IF asked > MaxLimit THEN MaxLimit ELSE asked
Limit == EffectiveLimit(MaxLimit)

Least(a, b) == IF a < b THEN a ELSE b
Cut(list, n) == SubSeq(list, 1, Least(n, Len(list)))

\* The users COLLABORATIVE asks: MaxSimilar of those who watched a movie the
\* user watched, the ones with most in common.  ORDER BY names the overlap
\* alone, so of users with the same overlap the LIMIT may keep any, each time.
Overlap(u) == Cardinality(watched \cap WatchedBy[u])
Similar == {u \in Others : Overlap(u) > 0}
Neighbourhoods ==
  {N \in SUBSET Similar :
     /\ Cardinality(N) = Least(MaxSimilar, Cardinality(Similar))
     /\ \A u \in N, v \in Similar \ N : Overlap(u) >= Overlap(v)}
Likes(N) == [m \in Movies |-> Cardinality({u \in N : m \in LikedBy[u]})]

\* The scores a query may give to the movies.
Scorings(algo) ==
  IF algo = "COLLABORATIVE" THEN {Likes(N) : N \in Neighbourhoods}
  ELSE {Score[algo]}

\* What the first MATCH of a query needs: content-based starts from the movies
\* the user liked, serendipity from the genres of those watched.
KnownGenres == UNION {GenresOf[m] : m \in watched}
HasSeed(algo) ==
  /\ algo = "CONTENT_BASED" => liked
  /\ algo = "SERENDIPITY" => KnownGenres # {}

Candidates(algo, score) ==
  {m \in inGraph \ watched : HasSeed(algo) /\ score[m] > 0}

\* Mutant of NewGenres: the genres the user knows are not left out.
AllGenres(m) == GenresOf[m]

NewGenres(m) == GenresOf[m] \ KnownGenres

\* The rows a query returns.  SERENDIPITY has one for each genre of a movie
\* that is new to the user, so a movie may have several.
Rows(algo, score) ==
  IF algo # "SERENDIPITY" THEN Candidates(algo, score) \X {None}
  ELSE {row \in Candidates(algo, score) \X UNION {GenresOf[m] : m \in inGraph} :
          row[2] \in NewGenres(row[1])}

\* The answers a query may give: the movies of its rows by descending score, cut
\* at the limit; none for a negative LIMIT, an error.  Again ORDER BY names the
\* score alone, so Neo4j may order equal scores differently each time.
Descending(score, s) ==
  \A i, j \in DOMAIN s : i < j => score[s[i][1]] >= score[s[j][1]]
Answers(algo, score) ==
  {Cut([k \in DOMAIN s |-> s[k][1]], Limit) : s \in
     {s \in SetToSeqs(Rows(algo, score)) : Limit >= 0 /\ Descending(score, s)}}
Query(algo) == UNION {Answers(algo, score) : score \in Scorings(algo)}

\* FindHybrid: the first contentCount movies of one query, then those of the
\* first collabCount of the other that are not in the list, until it is full.
\* The product is truncated towards zero.
ContentCount ==
  LET share == Limit * Weight
  IN IF share >= 0 THEN share \div 100 ELSE -((-share) \div 100)

Merge(content, collab) ==
  LET second == Cut(collab, Limit - ContentCount)
      combined[k \in 0..Len(second)] ==
        IF k = 0 THEN Cut(content, ContentCount)
        ELSE IF \/ second[k] \in Range(combined[k - 1])
                \/ Len(combined[k - 1]) >= Limit
             THEN combined[k - 1]
             ELSE Append(combined[k - 1], second[k])
  IN combined[Len(second)]

-----------------------------------------------------------------------------
(* The handler *)

\* Mutants of the three: the offset is not cut, the next page begins one movie
\* late, the previous one before the list.
OffsetAsked(asked, total) == asked
NextLate(end, total) == IF end < total THEN end + 1 ELSE None
PrevUncut(offset) == IF offset > 0 THEN offset - PageLimit ELSE None

\* A list that has become shorter than the offset gives an empty last page.
Offset(asked, total) == Least(asked, total)
NextOffset(end, total) == IF end < total THEN end ELSE None
PrevOffset(offset) ==
  IF offset = 0 THEN None
  ELSE IF offset > PageLimit THEN offset - PageLimit ELSE 0

\* The response for a list and a cursor's offset.
Page(list, asked) ==
  LET total == Len(list)
      offset == Offset(asked, total)
      end == Least(offset + PageLimit, total)
  IN [offset |-> offset, end |-> end, total |-> total,
      data |-> SubSeq(list, offset + 1, end),
      next |-> NextOffset(end, total), prev |-> PrevOffset(offset)]

\* override, offset: the request's; kept: the pages its answer joins; algo: the
\* algorithm to query for; content: the first half of a hybrid; list: the
\* recommendation; the rest is what held when the request began.
NoRequest == [pc |-> "idle", override |-> None, offset |-> 0, kept |-> <<>>,
              algo |-> None, content |-> <<>>, list |-> <<>>,
              watchedBefore |-> {}, graphBefore |-> {}]

Request(override, offset, kept) ==
  [NoRequest EXCEPT !.pc = "user", !.override = override, !.offset = offset,
                    !.kept = kept, !.watchedBefore = watched,
                    !.graphBefore = inGraph]

Dispatch(algo, pc) == req' = [req EXCEPT !.algo = algo, !.pc = pc]

\* FindByEmail, then the algorithm asked for or selected.
FindUser ==
  /\ req.pc = "user"
  /\ LET algo == IF req.override = None THEN Select(count) ELSE req.override
     IN Dispatch(algo, IF algo = "HYBRID" THEN "content" ELSE "query")
  /\ UNCHANGED <<inGraph, watched, liked, count, walk, changed>>

\* An algorithm that finds nothing falls back to POPULAR.
Resolve(list) ==
  IF list = <<>> /\ req.algo # "POPULAR"
  THEN Dispatch("POPULAR", "query")
  ELSE req' = [req EXCEPT !.list = list, !.pc = "respond"]

Find ==
  /\ req.pc = "query"
  /\ \E list \in Query(req.algo) : Resolve(list)
  /\ UNCHANGED <<inGraph, watched, liked, count, walk, changed>>

\* The two queries of FindHybrid.
FindContent ==
  /\ req.pc = "content"
  /\ \E list \in Query("CONTENT_BASED") :
       req' = [req EXCEPT !.content = list, !.pc = "collab"]
  /\ UNCHANGED <<inGraph, watched, liked, count, walk, changed>>

FindCollab ==
  /\ req.pc = "collab"
  /\ \E list \in Query("COLLABORATIVE") : Resolve(Merge(req.content, list))
  /\ UNCHANGED <<inGraph, watched, liked, count, walk, changed>>

\* A query fails: the client keeps the pages it has.
Fail ==
  /\ req.pc \notin {"idle", "respond"}
  /\ req' = NoRequest
  /\ UNCHANGED <<inGraph, watched, liked, count, walk, changed>>

Respond ==
  /\ req.pc = "respond"
  /\ req' = NoRequest
  /\ walk' = [override |-> req.override,
              pages |-> Append(req.kept, Page(req.list, req.offset)),
              list |-> IF req.kept = <<>> THEN req.list ELSE walk.list]
  /\ UNCHANGED <<inGraph, watched, liked, count, changed>>

-----------------------------------------------------------------------------
(* The client, one request at a time *)

NoWalk == [override |-> None, pages |-> <<>>, list |-> <<>>]
Held == walk.pages

\* A request without a cursor begins a walk.
FirstPage(override) ==
  /\ req.pc = "idle"
  /\ req' = Request(override, 0, <<>>)
  /\ walk' = NoWalk /\ changed' = FALSE
  /\ UNCHANGED <<inGraph, watched, liked, count>>

\* The client follows nextCursor.
NextPage ==
  /\ req.pc = "idle" /\ Held # <<>> /\ Last(Held).next # None
  /\ req' = Request(walk.override, Last(Held).next, Held)
  /\ UNCHANGED <<inGraph, watched, liked, count, walk, changed>>

\* It follows prevCursor: the answer takes the place of the page before.
PrevPage ==
  /\ req.pc = "idle" /\ Len(Held) > 1 /\ Last(Held).prev # None
  /\ req' = Request(walk.override, Last(Held).prev,
                    SubSeq(Held, 1, Len(Held) - 2))
  /\ UNCHANGED <<inGraph, watched, liked, count, walk, changed>>

\* POST /movies/{id}/watched, again or for the first time.
Watch(m, like) ==
  /\ m \in inGraph /\ count < MaxWatch
  /\ watched' = watched \cup {m}
  /\ liked' = (liked \/ like)
  /\ count' = count + 1
  /\ changed' = TRUE
  /\ UNCHANGED <<inGraph, req, walk>>

\* The importer upserts a movie, a new one or one of the graph, whose rating it
\* sets.  (The new rating is not modelled: no property over a graph that has
\* changed depends on an order.)
Import(m) ==
  /\ inGraph' = inGraph \cup {m}
  /\ changed' = TRUE
  /\ UNCHANGED <<watched, liked, count, req, walk>>

Init ==
  /\ inGraph \in {G \in SUBSET Movies : \A u \in Others : WatchedBy[u] \subseteq G}
  /\ watched = {} /\ liked = FALSE /\ count = 0
  /\ req = NoRequest /\ walk = NoWalk
  /\ changed = FALSE

Next ==
  \/ \E override \in Override : FirstPage(override)
  \/ NextPage \/ PrevPage
  \/ FindUser \/ Find \/ FindContent \/ FindCollab \/ Fail \/ Respond
  \/ \E m \in Movies, like \in BOOLEAN : Watch(m, like)
  \/ \E m \in Movies : Import(m)

Spec == Init /\ [][Next]_vars

-----------------------------------------------------------------------------
(* Properties *)

Response == [offset : Nat, end : Nat, total : Nat, data : Seq(Movies),
             next : Nat \cup {None}, prev : Nat \cup {None}]

Requests == [pc : {"idle", "user", "query", "content", "collab", "respond"},
             override : Override \cup {None}, offset : Nat,
             kept : Seq(Response), algo : Queries \cup {"HYBRID", None},
             content : Seq(Movies), list : Seq(Movies),
             watchedBefore : SUBSET Movies, graphBefore : SUBSET Movies]

TypeOK ==
  /\ inGraph \subseteq Movies /\ watched \subseteq inGraph
  /\ count \in Nat /\ liked \in BOOLEAN /\ changed \in BOOLEAN
  /\ req \in Requests
  /\ walk \in [override : Override \cup {None}, pages : Seq(Response),
               list : Seq(Movies)]

\* The handler's slice movies[offset:end] is within the list it is cut from,
\* whatever cursor the client kept from a longer list, and a page offers a
\* next one only if that one has something to show.
SlicesInBounds ==
  \A k \in DOMAIN Held :
    LET page == Held[k]
    IN /\ page.offset <= page.end /\ page.end <= page.total
       /\ Len(page.data) = page.end - page.offset
       /\ Len(page.data) <= PageLimit
       /\ page.next # None => page.end > page.offset

\* The pages the client holds, forward and back, join to the list it began to
\* walk: no place of it is shown twice or left out, and a page without a next
\* one is its end.
PagesAreTheList ==
  Held # <<>> =>
    /\ FlattenSeq([k \in DOMAIN Held |-> Held[k].data])
         = SubSeq(walk.list, 1, Last(Held).end)
    /\ Last(Held).next = None => Last(Held).end = Len(walk.list)

\* The queries a request may make, the fallback included.
QueriesOf(override) ==
  LET algo == IF override = None THEN Select(count) ELSE override
  IN {"POPULAR"} \cup
       IF algo = "HYBRID" THEN {"CONTENT_BASED", "COLLABORATIVE"} ELSE {algo}

\* A query whose answer the graph determines: users of equal overlap make no
\* difference to its scores, and it scores no two movies equally.
Determined(algo) ==
  /\ \A one, other \in Scorings(algo) : one = other
  /\ \A score \in Scorings(algo) : \A m, n \in Candidates(algo, score) :
       score[m] = score[n] => m = n

\* A walk is exact while the graph does not change and determines its queries'
\* answers: the pages, each cut from a list computed again, join to one list.
WalkIsExact ==
  (~changed /\ \A algo \in QueriesOf(walk.override) : Determined(algo))
    => PagesAreTheList

\* Whatever is watched or imported between its queries, a recommendation holds
\* only movies of the graph, at most the limit, none the user had watched when
\* the request began, and none twice; SERENDIPITY a movie at most once for each
\* of its genres that was new to the user then.  It is empty only if the limit
\* is 0, or if the user has watched every movie that was in the graph then and
\* that the fallback's query matches.
Occurrences(m, list) == Cardinality({k \in DOMAIN list : list[k] = m})
NewBefore(m) == GenresOf[m] \ UNION {GenresOf[w] : w \in req.watchedBefore}
RecommendedAreNew ==
  req.pc = "respond" =>
    /\ Range(req.list) \subseteq inGraph \ req.watchedBefore
    /\ \A m \in Range(req.list) : Occurrences(m, req.list) <=
         IF req.algo = "SERENDIPITY" THEN Cardinality(NewBefore(m)) ELSE 1
    /\ Len(req.list) <= Limit
    /\ req.list = <<>> => Limit = 0 \/
         \A m \in req.graphBefore \ watched : Score["POPULAR"][m] = 0

\* task-02: stable order, ascending id breaking ties.  Equal scores should make
\* no difference to a walk.
StableOrder == ~changed => PagesAreTheList
=============================================================================
