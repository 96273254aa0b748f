# Verification of movie-suggestion-api

TLA+ modules that model the API of this repository, TLC configurations that
check them on small instances, and theorems that TLAPS proves for every value
of the constants. Paths below are relative to `src/app/internal` unless they
begin with `src/`.

## 1. The system

The API is a Go service (`src/app/cmd/api/main.go`, wired by fx). It may run in
several replicas. It keeps its state in three outside services: **Postgres**
(credentials and roles), **Neo4j** (profiles, movies, watch history) and **SQS**
(import requests). It reads movies from **OMDB**.

| Component | State | Operations | Talks to |
|---|---|---|---|
| User accounts (`application/usecase/patch_user_impl.go`, `manage_user_impl.go`, `infrastructure/postgres`, `infrastructure/neo4j/user_repository.go`) | row of `users`; `User` node | `POST /users`, `PATCH /users/{id}` | Postgres, then Neo4j, with no transaction over both |
| Watch history (`manage_user_impl.go`, `neo4j/user_repository.go`, `recommendation/selector.go`) | `WATCHED` and `LIKED` edges, `watchCount`, `currentAlgorithm` | `POST /movies/{id}/watched` | Neo4j, three or four calls |
| Recommendations (`recommend_movies_impl.go`, `recommendation_repository.go`, `neo4j/cypher`, `infrastructure/cursor`, `http/handler/user_handler.go`) | none; the cursor is in the client's hands | `GET /movies` | Neo4j, two to four queries |
| Import job (`import_movies_impl.go`, `import_handler.go`, `sqs/publisher.go`) | a detached goroutine | `POST /movies-import` | OMDB search, SQS |
| Import consumer (`sqs/consumer.go`, `process_movie_import.go`, `neo4j/movie_repository.go`) | dispatcher, channel, workers of each replica | receive, process, delete | SQS, Neo4j, OMDB |
| Process lifecycle (`main.go`) | fx hooks | start, stop | starts and cancels the consumer |
| Authentication and RBAC (`login_impl.go`, `auth/jwt_service.go`, `http/middleware`, `http/router`) | none; roles are copied into the token | `POST /login`, the middleware of every other route | Postgres, at the login only |
| Listing users (`list_users_impl.go`, `postgres/user_repository.go`) | none; the page number is in the client's hands | `GET /users` | Postgres, two statements |
| User and movie lookup | none | `GET /users/{id}`, `GET /movies/{id}` | Neo4j |
| OMDB client, configuration, observability, health | environment, metrics | | |

The components meet in the stores: the account requests and the watch requests
rewrite the same node; the job fills the queue that the consumer empties; the
consumer and the watch requests change the graph that a walk through the
recommendations is reading; creations and renames change the table that a walk
through the users is reading; a PATCH changes the roles that tokens in use still
carry.

### What is hard

* **Two stores, no transaction.** A request that dies between two calls leaves
  a row without a node, or two names. Two requests that read, change and write
  the same profile overwrite each other.
* **At-least-once delivery.** A message comes back while a slow worker, or the
  channel, still holds it; two workers may import one movie at the same time.
  A delete may be lost or use a stale receipt.
* **Shutdown.** The consumer's context is cancelled and nobody waits for its
  goroutines. The dispatcher closes the channel on one path only.
* **Rights in flight.** A login reads the row, verifies a slow hash and signs what
  it read; a token is then believed until it expires. A right that is taken away
  lives on in tokens, and in requests that were admitted before.
* **Pages without a snapshot.** Every page recomputes the list, from queries that
  leave the order of equal scores, and the choice among equally similar users, to
  the database. A page of users
  is a COUNT and a SELECT with an OFFSET, in the order of a `created_at` that
  was taken before the insert. Within one
  request the user, the chosen algorithm's queries and the fallback see the
  graph at different moments.
* **Best-effort production.** The job answers 202 first, then passes over every
  failing search and send.

`PROJECT.json` lists each hazard at its line.

### What makes each component correct

* Accounts: every profile belongs to an account that can log in; no name reaches
  the graph that Postgres did not accept; a concurrent PATCH of another column
  is not undone; at the step that gives a success answer both stores hold what it
  says; when nothing overlaps or fails, both stores agree.
* Watch history: no watch is lost from the count; the algorithm never claims
  more history than was counted.
* Access: a right ends; a token joins no roles to a password they were never with;
  every change of a row had its authority.
* Listing: a walk misses or repeats somebody only for a reason that can be named.
* Consumer: a message is deleted only when its movie is in the graph; a movie
  keeps one id for ever; what can be imported is; a closed channel is drained
  and its workers end.
* Job: an error on one page, term or send skips no other. End to end, nothing is
  lost without a trace, and the import comes to rest.
* Recommendations: slices stay inside the list; a walk is exactly the list while
  the graph does not change and leaves its queries no choice; nothing watched before
  the request is recommended, and nothing more often than its query lists it.

## 2. Modules

| Module | Models | Checked by | Proved in |
|---|---|---|---|
| `UserStores` | the two stores and the three requests that write them | `MCUserStores`, 4 runs | `UserStoresProofs`, `UserAgreementProofs` |
| `AtLeastOnceImport` | what the import promises (abstract) | as a property of `ImportConsumer` | |
| `ImportConsumer` | queue, dispatchers, channels, workers, process end and start | `MCImportConsumer`, 1 run | `ImportConsumerProofs` |
| `ImportJob` | the producer's goroutine | `MCImportJob`, 2 runs | `ImportJobProofs` |
| `ImportSystem` | `ImportJob` and `ImportConsumer` composed: a job, its queue, all replicas | `MCImportSystem`, 1 run | `ImportSystemProofs` |
| `Access` | login, tokens, roles per route, and the requests that change a row | `MCAccess`, 1 run | `AccessProofs` |
| `ListUsers` | a walk through `GET /users` over a table that changes | `MCListUsers`, 1 run | `ListUsersProofs` |
| `Recommendations` | a user's requests for pages, query by query | `MCRecommendations`, 2 runs | `RecommendationsProofs` |

### UserStores

`auth` is the table, `graph` the nodes, `watched` and `liked` the edges. A
process is one request slot, and `req[p]` holds the locals of the handler it
runs: the payload, the row it loaded, the node it copied. One action is one
call to a store.

* `POST /users`: `StartCreate`, `PgCreate` (unique e-mail), `GraphCreate`
  (constraints on id and e-mail; a failure leaves the row).
* `PATCH`: `StartPatch` (refusals that change nothing do not begin), `PgFind`
  (404, role check), `PgUpdate` (only the columns sent, `Patched`), `SyncById`,
  `SyncByEmail`, `SyncWrite` (the whole profile is written from the copy). An empty
  role list (`EmptyRoles`) passes the check, but the copy made of it is nil, which
  reaches a NOT NULL column as NULL: `PgUpdate` then writes nothing and answers 500.
* Watch: `StartWatch`, `Exists`, `WatchWrite` (one query: edge, count, like),
  `Reload`, `AlgoWrite`.
* `Fault` ends a request between any two calls, or turns the answer of one that has
  made its last call into an error (a write that took effect and whose answer was
  lost); `Return` frees the slot.

`past` and `disturbed` are history: the names a row has held, and the users for
whom two requests overlapped or one was cut off. `UndisturbedUsersAgree` is a
promise about the others.

`AnswersAreTrue` is about one step, the one that gives a success answer: the account
of a creation is whole, the columns of a PATCH are in the row, the movie is watched.
A PATCH with a name gives its answer when it has written the node, and another
rename may have changed the row since: then the account's node has the name that was
sent, and the row has held it. That the two stores still agree after two renames is
more than the code gives: `NameSynchronised` fails.

`watchCount = watchCount + 1` is modelled as atomic. Neo4j takes a write lock on
the node for a `SET` that reads the property it writes, so this is an assumption
about the database and not about this code.

### ImportConsumer and AtLeastOnceImport

`queue[m]` is unsent, visible, hidden, deleted or expired. A replica has a
process state, a dispatcher state, a `batch` received and not yet handed over,
the buffered channel `chan`, and its workers. The actions of the dispatcher
follow `Consumer.Start` statement by statement: `Receive`, `ReceiveNothing`,
`HandOver`, `CloseChannel` (the outer select), `AbandonBatch` (the inner
select, which returns without closing the channel). A worker runs `Take`,
`Lookup`, `FetchOk`, `Upsert`, `Delete`, with `ProcessFails` for every error and
`Exit` at the end of the range loop. An upsert may commit and still look like an
error. `Stop`, `FinishStop`, `Crash` and `Start` are the process.

`AtLeastOnceImport` knows only which messages were sent, which were
acknowledged, and the movies. The mapping is
`requested <- {m : queue[m] # "unsent"}`,
`acknowledged <- {m : queue[m] = "deleted"}`, `movie <- movie`.

External, modelled from how the code uses it: SQS (at-least-once, visibility
timeout, retention, no dead-letter queue as `src/local/localstack/001-init.sh`
creates it), the restart of a dead process, and `pgconn.PgError` as the Postgres
driver's error.

### ImportJob

`term`, `page` and `result` are the three nested loops; `sent`, `unsent` and
`failed` record what was tried. A search may fail at any page, a send at any
result, and the process may end anywhere. Each of the nested loops ends for the
code's reason: an empty page ends a term, an error only its page.

### ImportSystem

The job is a goroutine of the replica `Home` and shares only the queue with the
consumers, so the module instantiates `ImportJob` and `ImportConsumer`, with the
job's results `<<term, page, result>>` as the messages, and says which steps
happen together. `Send` is `ImportJob!Publish` with `ImportConsumer!Publish`; a
send that the job logs as failed may have reached the queue all the same.
`EndHome` ends the process and the job with it. All other steps are of one part
alone.

### Access

`row` is the table, reduced to password and roles; `tokens` are all tokens ever
issued, and any of them may be presented at any time. `Needs` is the table of
`NewRouter`. A login is `Login` (read the row, verify) and `Sign`; a protected
request is `Call` (`Authenticate`, the role middleware, the checks of the payload)
and then its handler: `CreateUser`, `PatchUser`, or `Serve` for one that writes no
account. `Fault` cuts a request off. A PATCH loads the row before it updates; it
uses what it loaded only to tell that the row exists and to answer, and rows are
never deleted, so both are one step. (`UserStores` has the PATCH call by call.) An
empty role list is sent and admitted but never written, so the roles of a row, and of
a token, are non-empty (`RowRoles`).

Time is counted in the hours of `JWT_EXPIRY_HOURS`. No request lasts longer than
`RequestTime`, an assumption about the server: nothing in the code bounds a
handler, and without a bound no right would ever end. `gone` is history: when a row
was last replaced. `RightsExpire` then says: a handler runs only if its caller's row
grants the route, or did so within `Expiry + 2 * RequestTime`: a login that read
the row in time, the token it signed, the request the token was admitted to. The
window is exact: with one `RequestTime` less TLC finds a counterexample.

### ListUsers

`table` maps an account to its `created_at` and to whether its name fits the
client's filter. `TakeTime` and `Insert` are the two halves of a creation (the time
is taken first), `Rename` moves a row into or out of the filter. A page is `Count`
and `Find`; `IsPage` allows every result the SQL may return: in the order of
`created_at`, ties in any order. The client walks with `NextPage` until a page is
short; it may also stop when a page reaches the total it came with. History
variables record who matched at the start, who was shown (`again`: twice), and
whether a row has `left` the filter or come `late`, in front of another.

### Recommendations

A request is `FindUser`, then `Find` or `FindContent` and `FindCollab`, then
perhaps the fallback's `Find`, then `Respond`; `Fail` is any error. The client
makes one request at a time (`FirstPage`, `NextPage`, `PrevPage`), while its
other requests `Watch` and the consumer does `Import`, between any two queries.

A query is abstracted to three things: a score for each movie, what its first
`MATCH` needs (`HasSeed`), and the rows it returns (`Rows`: SERENDIPITY has one
for each genre new to the user, so a movie may come twice). Rows of equal score may
come in any order, each time; a query whose LIMIT is negative fails.

COLLABORATIVE computes its scores from the user's history: it asks the `MaxSimilar`
users (20 in the code) who watched most of the same movies and counts who of them
liked a movie. `collaborative.go:6` orders these users by the overlap alone, so
`Neighbourhoods` is the set of all choices the LIMIT may make among equals, and each
run of the query makes its own. The scores of the other queries are constants. For
POPULAR and SERENDIPITY, which order by rating, this is what the code has, except that
an import of a movie that is there may change its rating; CONTENT_BASED counts what a
movie shares with those the user liked; its score changes only when the graph does,
and the model keeps it constant even then. No property over a changed graph depends
on an order. The hybrid weight
is a whole percentage, and its share is truncated towards zero; the code multiplies
floats, whose rounding may make the share one less.

`PagesAreTheList` says that the pages a client holds join to the list it began to
walk. `WalkIsExact` promises it while the graph does not change and *determines* the
answers of the walk's queries (`Determined`): no two candidates tie, and whichever of
the equally similar users are asked, the scores are the same. `StableOrder` is the
same without that condition, as `task-02` asks, and fails.

`RecommendedAreNew` bounds how often a list holds a movie: once, or with SERENDIPITY
once for each of its genres that was new to the user when the request began. Both
`watched` and the graph may have grown by the time the list is answered, so it speaks
of what the request saw at its beginning.

## 3. Runs

| Run | Bounds | What it shows |
|---|---|---|
| `stores_one` | 1 account, 2 requests at once, 2 names, 2 movies, 2 watches, faults | five invariants and two action properties hold over create, rename, watch and their overlaps; a success answer is true when given |
| `stores_seeded` | the seeded pair (different ids) and 1 new account, 2 e-mails, 2 role lists and the empty one, faults | e-mail is enough to relate the stores; a creation that claims a taken e-mail makes no node |
| `stores_name` | 1 account, no faults | **violated**: two overlapping renames leave two names |
| `stores_duplicate` | 2 accounts, 1 e-mail, no faults | **violated**: a duplicate e-mail is answered 500 |
| `import_race` | 1 replica, 2 workers, 3 messages (one good, one malformed, one for a movie unknown to OMDB), redelivery, 1 shutdown or crash | safety, stable ids and the refinement |
| `system` | a job of 2 terms (the first unknown to OMDB), 2 replicas of 1 worker, 1 movie, 1 shutdown (that may hang) or crash | nothing is lost without a trace; the import comes to rest; a closed channel ends its workers |
| `job` | 3 terms (more pages than asked for, unknown, repeated movie), 2 pages | nothing due is skipped, and the job ends |
| `job_enqueued` | the same | **violated**: a finished job may have left movies out |
| `recommendations` | 5 movies, 3 other users of whom 2 are asked, pages of 2, limit 4, thresholds 1 and 2, 4 watches | slices, walks and contents of recommendations |
| `recommendations_ties` | equal ratings, no watches | **violated**: a walk over an unchanged graph repeats a movie |
| `access` | 2 accounts, 2 requests at once, 2 passwords, 4 role lists (one empty), tokens of 1 hour, requests of at most 1 hour, 3 hours, 2 tokens, 1 replaced row | rights end, a login is a snapshot, every change was authorised |
| `list_users` | 4 accounts on pages of 2, 4 instants | who may be missed or repeated by a walk |

**Why the bounds are enough.** Every race in the account code is between two
requests, and each property relates one user to at most one other, so two slots
and up to three ids meet every pair of actions, at every pair of steps. Two
watches cross both thresholds (1 and 2). In the consumer, two workers that hold
two deliveries of one message are the smallest race on `MERGE`, which does not ask
whether its message is the same; a batch of 2 with a channel of 2 makes the
dispatcher wait with a message in hand; one stop reaches each step of a shutdown
and of a crash, after which a process is as in the initial state. In `system`, two
replicas let one take over what the other held; one movie suffices because two
messages meet only in the channel and at `MERGE`, which `import_race` covers. In
`Access`, one replaced row with two overlapping requests reaches a PATCH between
the read and the signature of a login, between a token's issue and its use, and
between a request's admission and its handler; three hours are the whole window of
a token of one hour. In `ListUsers`, two full pages and a row that is inserted in
front, between or behind them are all the ways a walk can be disturbed. In
`Recommendations`, a list of four and pages of two give a first, a last and a
shortened page, and one list that ends in the middle of a page; a list that is
longer adds only more middle pages. The proof modules remove these bounds for the
safety properties. Symmetry is over requests, names, movies, passwords, accounts
and uuids, never in a run that checks liveness.

**Bounds that are not the code's:** `MaxWatch` (watch requests), `MaxStops`
(shutdowns and crashes), `MaxClock`, `MaxTokens` and `MaxReplaced` (of `Access`),
`MaxClock` (of `ListUsers`), `Called` (the routes a run calls), and the finite sets
themselves. In the import modules the supply of `MovieIds` is larger than the number
of movies that can be imported, so a fresh uuid can always be drawn. The requests of one client are sequential in
`Recommendations`; two clients share nothing there but the graph.

**Deadlock** is checked in every run.

### Fairness

* `WorkerFairness`: a worker holds no lock, every call it makes carries a
  context or an HTTP timeout, so each step ends, with success or failure.
* `DispatcherFairness`: of a hand-over that has room and of the close, both
  statements of a running goroutine.
* Of the processes nothing is assumed: a replica may hang in its shutdown, or stay
  down for ever. `ImportComesToRest` promises its outcome only while there is
  always again some replica up, a premise it states itself.
* `ServiceFairness`: a hidden message becomes visible again (weak); a message
  that is polled for again and again is received, and OMDB and Neo4j answer a
  request that is made again and again (strong). Without the strong part a
  service that always fails would refute any promise of progress, and this code
  retries for exactly that reason.
* `ImportJob` assumes `WF(Work)` only: each call is bounded.
* `ImportSystem` assumes `WF(Search \/ Send)`, the job's own steps, with the three
  above. They are assumed of running processes only: the steps' guards say so.
* `UserStores`, `Recommendations`, `Access` and `ListUsers` state no liveness: a
  request has no retry, and a client may stop at any page.

## 4. Proofs

### Accounts: `UserStoresProofs`

For any number of request slots, users, names, movies and any thresholds:

| Theorem | States |
|---|---|
| `TypeCorrect` | `Spec => []TypeOK` |
| `ProfilesHaveAccounts` | `Spec => []NodesHaveRows` |
| `OnlyCommittedNames` | `Spec => []GraphNamesWereCommitted` |
| `NeverAhead` | `Spec => []AlgorithmNeverAhead` |
| `TrueAnswers` | `Spec => AnswersAreTrue` |
| `NoColumnUndone` | `Spec => OnlySentColumnsChange` |
| `NoWatchLost` | `Spec => []WatchEdgesCounted` |

The assumptions are those of `UserStores`: thresholds are naturals, `None` is no
datum, the empty role list is none of a row's, and the seed scripts give at most one
row and one node, with different ids.

None of these is inductive alone, because a request acts on what it read several
calls ago. `IInv` states, for each request, what it still knows (`Knows`):

* `CreateKnows`: the id to be created is unused until the insert, and afterwards
  has a row with the request's e-mail.
* `PatchKnows`: the loaded row is still there under its e-mail; once updated, the
  new name is one the row has held, and a copy about to be written carries it.
* `WatchKnows`: the user has a node and, after the write, the edges asked for.
* `CopyKnows` (`GoodCopy`): a copy waiting to be written back has its node's
  e-mail, a name the account has held, and an algorithm not ahead of the count.
  This is why a stale write may lose a name but cannot invent one.

and relates the stores: `EmailUnique`, `OwnNode` (a row and a node under one id
share an e-mail), `CreatorsDistinct`, and the two invariants above. `Grow` is what
no step undoes: rows and nodes stay, e-mails never change, held names, counts and
edges grow. `KnowsKept` shows once that `Grow` preserves what every *other* request
knows, so that each action's lemma is about its own request and the stores only.
`SelectMonotone` (more watches never select a lower algorithm) holds for every
order of the thresholds. `TrueAnswers` is an action property: each step that gives a
success answer does so from what its request knows and the write it makes itself.
`NoWatchLost` adds that the edges of a user are finite.

### Accounts that nobody disturbs: `UserAgreementProofs`

| Theorem | States |
|---|---|
| `UndisturbedAgree` | `Spec => []UndisturbedUsersAgree` |

`IInv` says what a request knows whatever the others do; `AInv` adds what it may
count on while it is the only one about its user:

* `Alone`: an undisturbed user has at most one request under way. A request that
  begins while another is, or one that is cut off, disturbs its user for good.
* `Midway`: how far the two stores of that user are apart at each call of the
  request. Before its first write they agree; between the row and the node only
  what the next call writes is missing (the node, the name, or the algorithm), and a
  copy waiting to be written differs from the node in that one field.
* `OwnCopy`, `SeedsApart`: a profile is written to the request's own user. The one
  exception is the seeded node, which an e-mail lookup finds under another id; the
  seeded pair counts as disturbed from the start.

`AssembleAgreement` shows once that a step which writes to no other undisturbed user
keeps all this of the others; each action's lemma is then about its own user.
`GraphCreateAgrees` has the argument a test would hardly reach: the constraints of
the graph never refuse the node of an undisturbed account, since a node with its
e-mail would belong to its row or be the seeded one. `SyncByEmailAgrees` shows that
the search by e-mail is never reached for such a user.

### Consumer: `ImportConsumerProofs`

For any number of replicas, workers, messages and crashes and any batch size:

| Theorem | States |
|---|---|
| `TypeCorrect` | `Spec => []TypeOK` |
| `AtLeastOnce` | `Spec => []DeletedMeansImported` |
| `NothingStranded` | `Spec => []ExitMeansDrained` |
| `StableIds` | `Spec => MovieIdsStable` |
| `Refinement` | `Spec => ImplementsPromise` |

The assumptions are the module's own: the counts are naturals, `Body` is a
function, and `None` and `Malformed` are not data.

`DeletedMeansImported` is not inductive: the step that deletes tells nothing of
the movie. The invariant `IInv` adds what is known where it was learned.

* `WorkersKnow`: a worker past the parse has a message that was sent and asks for
  a movie; one at the upsert has a movie OMDB knows; one at the delete has a
  movie that is in the graph. Nothing removes a movie, so other workers and the
  end of other processes cannot spoil it.
* `HeldWereSent`: what a dispatcher or channel holds was sent (`Take` needs it).
* `ImportedAreKnown`: a lookup that finds a movie has found one OMDB knows.
* `IdsDistinct`: a uuid is fresh when it is set.
* `BatchOnlyInHandOver`: at the close nothing is left in hand, from which
  `ExitMeansDrained` follows at `Exit`; a closed dispatcher hands nothing over.

The refinement follows step by step: `Publish` is `Request`, an upsert that
creates the node is `Import` (`MovieChanges`), a delete that takes effect is
`Acknowledge` (`QueueChanges`, with `WorkersKnow` for its guard), everything
else stutters.

### Job: `ImportJobProofs`

| Theorem | States |
|---|---|
| `TypeCorrect` | `Spec => []TypeOK` |
| `TriesAll` | `Spec => []FinishedJobTriedAll` |

The invariant says that what was tried is what is visible *behind the cursor*
`<<term, page, result>>`: `TriedIsDue` for the results, `FailedBehind` for the failed
searches, `CursorOK` for the cursor itself. A finished job's cursor is behind the
last term, from which `FinishedJobTriedAll` follows. `EmptyEnds` is the one fact
about pages: after a page seen empty no later page of its term is due.

### System: `ImportSystemProofs`

| Theorem | States |
|---|---|
| `NoSilentLoss` | `Spec => []NothingLost` |
| `SystemOfParts` | `Spec` implies the initial states and the steps of `ImportJob` and of `ImportConsumer` |
| `SystemKeepsPromise` | `Spec => ImplementsPromise` of the consumers |

The proof is compositional: `JobSteps` and `ConsumerSteps` show that every step of
the system is a step or a stutter of each part, so both parts' invariants hold of
the system by the theorems of their own proof modules, which are instantiated
(`JP`, `CP`). What the composition adds is `SentWereQueued`: a message the job
counts as sent is in the queue's history. Then a due result was tried (`TriesAll`);
if it was sent and is neither kept nor expired it was deleted, and a deleted message
has its movie in the graph (`AtLeastOnce`). `SystemOfParts` turns the same two facts
into a refinement of each part (without the job's fairness, which `Spec` does not
state), and `SystemKeepsPromise` follows from it and the consumers' `Refinement`:
with the job's own results as messages, the whole implements `AtLeastOnceImport`.

### Access: `AccessProofs`

| Theorem | States |
|---|---|
| `TypeCorrect` | `Spec => []TypeOK` |
| `RightsEnd` | `Spec => []RightsExpire` |
| `Snapshot` | `Spec => []LoginIsSnapshot` |
| `OnlyAuthorised` | `Spec => ChangesAreAuthorised` |

For any accounts, passwords, role lists, slots, expiry (zero and negative ones
included) and request time. `Was(u, r, a)` says that u's row was `r` at the hour `a`
or later. The invariant states where each row that is still in use was true:
`LoginKnows` (a login's row, at its start), `TokenKnown` (a token's row, no earlier
than its expiry minus a life and a login), `HandlerKnows` (the token of a running
handler was live when it was admitted), and `GonePast` (no row was replaced in the
future). `WasKept` shows once that no step makes such a fact false.

### Listing: `ListUsersProofs`

| Theorem | States |
|---|---|
| `TypeCorrect` | `Spec => []TypeOK` |
| `WalksMissNobody` | `Spec => []NobodyMissed` |
| `RepeatsAreLate` | `Spec => []RepeatsNeedLateRows` |

For any finite set of accounts, any page size and any number of pages. The *rank* of
a row is the number of matching rows in front of it. `PageRanks`: without ties a page
is exactly the rows of its ranks. `NobodyBehind`: a row of the start that was not yet
shown has a rank the walk has not reached, since ranks only grow while no row leaves
the filter. `ShownBehind`: while none comes late ranks do not grow, so what was shown
is not met again. `TotalCounts`: the total exceeds the rank of everybody of the
start.

### Recommendations: `RecommendationsProofs`

| Theorem | States |
|---|---|
| `RecommendationsTypeCorrect` | `Spec => []TypeOK` |
| `SlicesStayInBounds` | `Spec => []SlicesInBounds` |
| `OnlyNewIsRecommended` | `Spec => []RecommendedAreNew` |
| `WalksAreExact` | `Spec => []WalkIsExact` |

For any finite set of movies with finite sets of genres, any natural scores, any finite
set of other users with any history, any number of them asked, and any configuration: the limits, the weight and the thresholds are arbitrary integers, as
`src/app/config/config.go` validates none. Only `PageLimit` is in `1..50`, which the
handler enforces. Three invariants, one on top of the other:

* `TInv` gives the types, and says of every page the client holds, and of every page
  a request's answer will be joined to, that its slice is in bounds (`Sliced`).
* `RInv` adds what a request remembers: the first half of a hybrid (`HalfIsNew`) and
  the chosen list contain only movies that were in the graph and not watched when the
  request began, and bounds how often each occurs. The graph and the watched set only
  grow, and with them the genres new to the user only shrink (`NewGenresShrink`), so
  queries made at different moments still satisfy it.
* `WInv` says of a walk whose graph has not changed that the pages held follow one
  another through one list the walk may be given (`Walked`), that a request under way
  is computing such a list (`Underway`), and that its answer begins where the pages it
  is joined to end (`Joining`). `Exact` says that
  the graph determines the answer of every query of the walk; then there is only one
  such list (`QueryUnique`, `ListsUnique`), which is why the step preserves it, and
  `SameLists` shows that an unchanged graph keeps it.

The model orders rows by `SetToSeqs`, cuts with `SubSeq`, and merges the halves with a
recursive function, so the facts about it concern sequences of any length. Where one
would use induction, whose theorems need an operator parameter, the proofs take the
*least* counterexample instead (`LeastNatural`, `EveryPrefix`, from the
well-foundedness of finite subsets): `MergeLoop` shows that the function of `Merge` is
defined on its whole domain, `MergeProperties` what it returns, `FlattenChain` that
joined slices flatten to a prefix, `ScoresByPlace` that two descending orders without
ties agree at every place. `SerendipityOccurrences` counts the rows of a movie by its
new genres, and `LikesType` that the scores of COLLABORATIVE are natural numbers for
whomever it asks.

### Only model-checked

Liveness (`ImportComesToRest`, `ClosedChannelEndsWorkers`, `JobEnds`) is out of the
prover's reach: fairness needs ENABLED. Every safety property that a passing run checks
is a theorem. The inductive invariants `AInv`, `TInv`, `RInv` and `WInv` were checked
by TLC as invariants of the same instances before they were proved.

## 5. Disagreements found

1. `stores_name`: `task-07` promises the name synchronised in Neo4j; overlapping
   renames that both answer 200 leave two names.
2. `stores_duplicate`: `postgres/user_repository.go` tests for `*pq.Error`, but
   the driver is pgx; a duplicate e-mail is 500 where `openapi.yaml` says 409.
3. `job_enqueued`: `openapi.yaml` says each movie is enqueued; a failing send is
   logged and forgotten.
4. `recommendations_ties`: `task-02` asks for ascending id to break ties; the
   queries order by the score alone.

## 6. Not modelled

User and movie lookup are single reads: that of a user is `Serve` in `Access`,
without what it returns; that of a movie is the guard of `StartWatch`. The HTTP and
metrics servers and the tracer start and stop once. Configuration is read once and
becomes the constants. Hashing, signing, JSON, HTTP, logging, metrics, tracing
and the health probe keep no state these properties are about. Left out of
modelled parts: the title filter and minimum rating of the queries, the cursor's
signature, what other users watch or like during a walk, the new rating an import may
give to a movie that is there, the rounding error of the hybrid share, the rating, date
and reaction stored on an edge (a `LIKED` edge is kept), and the case of an OMDB answer with another imdbId than the one asked for.

## 7. How the project is ordered, and what could follow

Built in this order: `UserStores` (the widest set of races) and its proofs,
`ImportConsumer` with `AtLeastOnceImport` and its proofs, `ImportJob`,
`Recommendations`, then `Access`, `ListUsers` and `ImportSystem` with their proofs
and those of `ImportJob`, then the proofs of `Recommendations` and of the accounts
that nobody disturbs.

What could follow: an abstract account (one record, two views) that `UserStores`
implements while requests do not overlap, for which `AInv` is the invariant;
CONTENT_BASED scores computed from the liked movies; several jobs at once in
`ImportSystem`, whose messages meet only at `MERGE`.
