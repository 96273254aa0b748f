------------------------- MODULE AtLeastOnceImport -------------------------
(***************************************************************************)
(* What the import queue and its consumers promise together: a movie gets  *)
(* into the graph only because a message asks for it, keeps the id it was  *)
(* first given, and a message is acknowledged only once its movie is       *)
(* there.  Nothing is said of how often a message is processed.            *)
(***************************************************************************)
CONSTANTS
  Msgs,      \* SQS messages
  ImdbIds,
  Body,      \* the imdbId each message asks for, or Malformed
  Malformed,
  MovieIds,  \* uuids
  None

VARIABLES
  requested,     \* messages that were sent
  acknowledged,  \* messages that were deleted as done
  movie          \* imdbId -> id of its Movie node, or None

vars == <<requested, acknowledged, movie>>

Init ==
  /\ requested = {}
  /\ acknowledged = {}
  /\ movie = [i \in ImdbIds |-> None]

Request(m) ==
  /\ m \notin requested
  /\ requested' = requested \cup {m}
  /\ UNCHANGED <<acknowledged, movie>>

Import(m) ==
  /\ m \in requested /\ Body[m] # Malformed
  /\ movie[Body[m]] = None
  /\ \E id \in MovieIds :
       /\ \A i \in ImdbIds : movie[i] # id
       /\ movie' = [movie EXCEPT ![Body[m]] = id]
  /\ UNCHANGED <<requested, acknowledged>>

Acknowledge(m) ==
  /\ m \in requested \ acknowledged /\ Body[m] # Malformed
  /\ movie[Body[m]] # None
  /\ acknowledged' = acknowledged \cup {m}
  /\ UNCHANGED <<requested, movie>>

Next == \E m \in Msgs : Request(m) \/ Import(m) \/ Acknowledge(m)

Spec == Init /\ [][Next]_vars
=============================================================================
