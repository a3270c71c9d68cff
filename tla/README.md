# searchkit: TLA+ models, checks and proofs

searchkit is a Go library on top of PostgreSQL: a host application marks its entities dirty, a worker
loop keeps a lexical index (`search_documents`) and a semantic one (`embedding_vectors`) up to date,
and a client searches both and fuses the rankings. This directory models the parts that have state
and interleavings, and the searches, model-checks them with TLC on small instances, and proves with
TLAPS, for every instance, the safety properties of the queue, the drain, the sync loop and its backfill,
of restarts with other models, and of the searches.

Paths below are relative to the repository (`src/` is its root); modules are in this directory.
`PROJECT.json` lists the runs, the lines each definition stands for, the hazards, the findings and the
theorems.

## 1. The system

| Component | State | Operations |
| --- | --- | --- |
| **Task queue** `tasks/repo.go` | `embedding_tasks` (attempts, `next_run_at`), `embedding_dead_letters` | `Enqueue`, `EnqueueMany`, `FetchReady`, `Complete`, `Fail`, `DeadLetter`, `DeleteAllForEntity`; pruning by `UpsertModels` |
| **Embedding worker** `worker/worker.go` | leased batch, hydrated documents, a semaphore and one goroutine per request | `Run`, `DrainOnce`, `hydrateBatch`, `processBatch`, `handleTaskResult` |
| **Generation and storage** `runtime/runtime.go`, `pg/storage.go` | `embedding_vectors` | batch text embedding, VL embedding, `UpsertTextEmbedding` |
| **Dirty queue** `worker/searchkit_worker.go` | `search_dirty`, `search_documents` | `processDirtyOnce`, `UpsertSearchDocuments` |
| **Backfill** `worker/searchkit_worker.go` | a cursor and a state per target (lexical, and one per model) | `backfillOnce`, `FilterMissingEmbeddings` |
| **Search client** `client.go`, `search/rrf.go` | none between calls | `Search`, `Typeahead`, `SimilarTo`, `FuseRRF` |
| **Model registry** `pg/models.go`, `runtime/runtime.go` | `embedding_models`, two HNSW indexes per model | `NewWithContext`: `UpsertModels`, `EnsureIndexesForModels` |
| **SQL backends** `search/*.go`, `pg/two_stage.go` | a cached extension schema | one query each; `SemanticSearch` in one or two stages, `SimilarTo` |
| **Pure functions** `search/mmr.go`, `eval/metrics.go`, `cjk_query.go`, `internal/*` | none | re-ranking, metrics, text normalization |
| **Providers** `embedder/*`, `vl/*` | none | one HTTP request |

How they interact. The host writes an entity and, in the same transaction, upserts its `search_dirty`
row. A loop calls `SyncOnce`: *dirty pass* (read a batch of dirty rows, apply deletions, rebuild
lexical documents through the `BuildLexicalString` callback, enqueue embedding tasks, clear the rows),
then *backfill* (page through the host's ids with `ListEntityIDsPage`, from a cursor kept in the
database), then *drain* (lease due tasks, read documents and assets through the callbacks, ask the
provider, upsert vectors, record each result). Hosts may also enqueue directly. Every start of a process
brings the tables keyed by model in line with the embedders it is configured with. All
sharing goes through tables; there are no transactions around a pass, and the only lock is the
`FOR UPDATE SKIP LOCKED` inside `FetchReady`. `next_run_at` serves both as the schedule and as the
lease token.

What is hard here:

- *leases without fencing*: a task's lease is its `next_run_at`; producers, expiry and other workers
  change the row while a worker holds a copy of it, and a result is recorded by comparing tokens;
- *read early, use late*: the document is read when the batch starts and its vector stored when it
  ends; the dirty rows are read when the pass starts and cleared when it ends; a backfill page is
  listed before its entities are read;
- *every statement may fail or the process die between any two*, and many errors are discarded
  (`handleTaskResult`, the cursor writes);
- *restarts with other models*: `UpsertModels` is a sequence of statements without a transaction, prunes
  what belongs to the models of earlier configurations, and keeps their vectors;
- *something must eventually happen* although batches, pages and ticks are bounded;
- *determinism* of a ranking assembled in a Go map; *cuts* (`LIMIT`, oversampling, thresholds) applied in
  the right order.

`hazards` in `PROJECT.json` lists them line by line.

What would make each component correct:

- queue: one worker at a time can act on a task; failures are counted exactly once, up to exactly
  `MaxAttempts`; no request is forgotten; every task leaves the queue;
- worker: every leased task gets one result; the concurrency limit holds; the stored vector is that of
  the current document; vectors never go backwards; they converge;
- dirty queue and backfill: a cleared mark has been processed; when nothing is pending the indexes
  equal the host; the cursor never runs ahead of the work; both finish;
- registry: after a start the tables are those of the configured models; models that stay configured stay
  caught up across restarts; a model that comes back ends up with current vectors;
- search: the ranking is a function of the answers, respects agreement between backends, loses no hit; a
  vector query shows the nearest rows it met; re-ranking keeps the hits; the metrics are consistent.

## 2. Modules

```
TaskLifecycle <--implements-- TaskQueue <-- EmbedDrain <-- DirtySync <-- Backfill <-- ModelRegistry

TaskQueueProofs <-- EmbedDrainProofs <-- SyncProofs <-- CaughtUpProofs <-- BackfillProofs <-- RegistryProofs

Ordering <-- HybridSearch, Retrieval <-- SearchAPI <-- RetrievalProofs <-- HybridSearchProofs
```

(`<--` is EXTENDS; each proof module also extends the module it is about.)

Each module adds the next component to the state of the one it extends, so a composed action *is* the
component's action plus what the caller does around it (`HandleTaskResult` contains `Complete`,
`EnqueueModel` contains `EnqueueMany`). `MC*` modules add what TLC needs.

**TaskQueue** - `task`, `dead`: the two tables; `lease`: what `FetchReady` returned to each worker and
has no result yet; `overtaken`: a history variable, the keys requested again since. One action per
statement: `EnqueueMany`, `DeleteAllForEntity`, `PruneTasks`/`PruneDeadLetters` (two statements of
`UpsertModels`), `FetchReady`, `Complete`, `Fail`, `DeadLetter`; plus `Expire` (the clock reaches
`next_run_at`) and `AbandonLeases` (crash, cancellation, a failed callback, or a result that did not
reach the database). `next_run_at` is a *stamp*, compared only for equality, and a flag *due*, the
comparison with `now()`; a statement that computes a new time gets a stamp that no row or lease of
the key carries. `LeaseOutlivesWork` says whether leases may expire while their worker still works
(`Options.LockAhead`, `worker/worker.go:41`, default 30 s, is not tied to the duration of a batch).

**TaskLifecycle** - the abstract specification of the queue: a key is pending with a number of tries,
is claimed by at most one worker, and only a claim lets a worker count a failure, finish or bury it.
No rows, clocks or tokens.

**EmbedDrain** - the host's content is a version number per entity (the number of the edit that wrote
it; 0 = missing or blank), a vector is the version it was computed from. `stage`, `doc`, `calls`: per
worker, how far each leased task is, the version hydration read, the requests in flight. Hydration
reads documents (`BuildSemanticDocument`), then assets (`ListAssetURLs`); empty ones are completed;
text tasks go out in chunks per model, VL tasks one by one, under the semaphore; a request is
answered as a whole or fails as a whole; the runtime looks for a blank document a second time
(`NotFound`, `ErrEntityNotFound`: not stored, and completed like a success); vectors are stored item by
item; results are recorded when the request has settled. Both models of one entity read in one callback,
as in `hydrateBatch`.

**DirtySync** - `search_dirty` marks (identified by the edit that wrote them), `search_documents`, and
the progress of each loop through `processDirtyOnce`, one statement per action: read the oldest
`DirtyBatchSize` rows, skip blank keys (`WithKeys`), delete documents, vectors and tasks of deleted entities,
rebuild, upsert, delete blank documents, enqueue per model, clear by key. `FailPass` may end the pass
before or after any statement. `lost` is a history variable: entities whose newest mark was cleared
unread (see the finding on `searchkit_worker.go:248`).

**Backfill** - adds `backfillOnce`: `progress` (cursor and state per target), `visited`, `pages`, `page`
(the loop's local variables). `ReadCursor`, `List`, `BuildPage`, `UpsertPage`, `DeleteBlankPage`,
`FilterMissingEmbeddings`, `EnqueuePage`, `SavePage`/`SaveFails`, `FinishBackfill`; any of them may fail
instead. With it the module is the whole of `SyncOnce`.

**ModelRegistry** - `Backfill` with processes that stop and start. `active` (a variable of `EmbedDrain`
that nothing below this module changes) is the set of models a process has embedders for: tasks of
other models are fetched, fail and are counted, as in `GenerateAndStoreTextEmbeddingsWithDocuments`.
`boot` is the statement of `NewWithContext` a process is at: one `UpsertModel` per model, in any order
(they come out of a Go map), `PruneModels`, `PruneTasksOf`, `PruneBackfill`, `PruneDeadLettersOf`,
`EnsureIndexesForModels`, and it is up. `Restart` may come anywhere, in start-up, a pass or a batch too,
with any configuration, and drops all local state. `retired` and `forgotten` are history variables.

**HybridSearch** - one call: `request` (kind, mode, language, fallback, scripts in the query, filter),
`plan` (the backend queries still to make, from `resolveLanguageModes` and `lexicalRouting`), `answers`
(arbitrary lists), `result`. Scores of `FuseRRF` are exact fractions over a common denominator. The
order of hits that compare equal is arbitrary, because they come out of a Go map and `sort.Slice` is
not stable (`Ordering`). An FTS query that fails is repeated with `plainto_tsquery`; a filter is its
alias, which a query can resolve or not.

**Retrieval** - one `SemanticSearch` or `SimilarTo` over a table whose rows have arbitrary similarities
to the query. The statement meets an arbitrary subset of the matching rows (an index scan is
approximate; `SimilarTo` orders by a join, so it meets all). One stage: nearest first, `LIMIT`, then the
threshold in the result loop. Two stages: any candidates, as many as the oversampling allows, since
quantized order is left open; then threshold, order, `LIMIT`, threshold again. `MMRReRank` then takes the
hits one per step, with an arbitrary 0/1 `candidateSim` and lambda 0, 1/2 or 1.

**SearchAPI** - either of the two, and `RecallAtK` and `MRR` of what they return.

## 3. Runs

| Run | Instance | Shows |
| --- | --- | --- |
| `QueueLiveness` | 2 workers, 2 keys, batches of 1, `LeaseOutlivesWork` | every task leaves the queue (`TaskResolved`); recording a result never removes a request made after the fetch (`LeaseSafe`); `IInv`, the invariant the proofs use, holds |
| `QueueLeaseExpiry` | leases may expire | **violated**: `LeaseSafe` (finding 1) |
| `QueueDeadLetterMoves` | leases may expire | **violated**: `DeadLetterMoves` (finding 2) |
| `DrainTwoLoops` | 2 loops, 1 key, 2 edits, leases may expire mid-batch | at most one token matches a row (`OneValidLease`); a matching token's copied attempts are the row's (`LeaseSnapshotCurrent`); the cap is exact (`CapIsExact`); the queue implements `TaskLifecycle` (`ImplementsLifecycle`); what is stored is current unless it was edited or requested again meanwhile (`StoresCurrent`) |
| `DrainMixed` | 1 worker, a text and a VL model, one request slot, 2 edits | `VectorFresh`, `BatchAccounted`; after the last edit every key ends with the current vector or a dead letter (`VectorsConverge`) |
| `DirtyOneLoop` | 1 loop, a VL model, 2 entities and 2 blank keys, batches of 2, 3 edits, any statement may fail | a quiet entity is indexed as the host has it (`IndexCaughtUp`); readable rows leave `search_dirty` while fewer blank rows are in it than a batch holds (`DirtyDrains`) |
| `DirtyClear` | 1 loop | **violated**: `OnlyProcessedCleared` (finding 3) |
| `BackfillOneLoop` | 1 loop, 2 entities, pages and ticks of 1 | the cursor never passes unfinished work (`BackfillCovers`), a finished backfill leaves the index caught up (`BackfillCaughtUp`), and it finishes (`BackfillFinishes`) |
| `RegistryRestarts` | 1 process, 2 models, every configuration, a restart anywhere | the models that stay configured are caught up once their backfill is done (`KeptCaughtUp`); nothing is left of the others (`RegistryRepresentsConfig`) |
| `RegistryReturn` | 2 restarts, to another model and back | **violated**: `LeftoverVectorsHarmless` (finding 4) |
| `SearchRanking` | all requests, 3 entities, 2 languages (one CJK), limit 2; all vector queries over 4 rows, factors 0, 1 and 2 | `RankingDetermined`, `AgreementKept`, `TopHits`; `NothingNearerMissed`; `ReRankKeepsHits`, `RelevanceAlone`, `DiversityAlone`; `MetricsAgree` |
| `SearchFilter` | a dual search with a filter on `sd` | **violated**: `FilterApplies` (finding 5) |

Every module also has its type invariant checked (`TypeOK`, `DrainTypeOK`, `SyncTypeOK`,
`BackfillTypeOK`, `RegistryTypeOK`, `SearchTypeOK`, `RetrievalTypeOK`). The larger runs have about a
million states (`BackfillOneLoop`), 4.4 million (`RegistryRestarts`) and 375 thousand
(`SearchRanking`).

*Why the bounds are enough to be interesting.* Two loops over one key give every order of expiry,
re-request, edits, two fetches, two readings and two stores, and `QueueLiveness` has two workers over two
keys that compete for batches of one; four stamps are one more than one key's row and two leases can
hold, so a fresh one is always there. With one worker a row and a lease hold two, and three are used
where a task is retried; with `MaxAttempts` 1 two suffice, and the runs of the loops use that, since the
queue's own runs and proofs are about retries. `MaxAttempts` 2 has both a retry and a dead letter. Two
edits let the host change a document between its reading and the storing of its vector and once more
before that vector is recorded; three let a mark be overwritten twice in one pass. One request slot makes
text and VL requests wait for each other, chunks of 2 against 1 key per model take the short-chunk
branch. Pages, ticks and the page budget of 1 against 2 entities and 2 targets make every target need
several ticks. One restart interrupts any statement and replaces, adds, removes or keeps models; a model
that returns needs two (`RegistryReturn`). Two blank rows against batches of two are the first number
that hides the others: one in front of them must not. Four rows against limits 0 to 4 and factors 0 and 1
(which become 5) and 2 make stage 1 drop rows in some calls and not in others; similarities -1, 0, 1 have
ties, both signs and both sides of a threshold. `MaxEdits`, `MaxRestarts`, `Stamp`, `MaxScore`,
`MaxSimilarity` and `MaxRows` are the only bounds that are not options of the code.

*One loop.* `README.md:8` and `README.md:77` ask for a single worker loop. The models take a set of
workers, and the runs of the queue and of `StoresCurrent` have two; the freshness properties of
`EmbedDrain`, `DirtySync` and `Backfill` are checked with one. With two they do not hold: a worker that
read an older document can store its vector after the other one's, since the upsert compares nothing
(`pg/storage.go:48`). `StoresCurrent` says how far that goes: only when the change is still to be
requested, or the key was requested again after the late worker had leased it, so that the newer request
is the one undone. With one worker whose leases expire mid-batch, `VectorFresh` fails as `LeaseSafe`
does, and still no vector goes back (theorem `VectorsNeverRegress`). Two workers whose leases are shorter
than their work can take a task from each other for ever, so `TaskResolved` needs `LeaseOutlivesWork`.

*Fairness.* Queue: the clock advances (weak fairness of `Expire`); a running worker records a result
for a lease it keeps (weak, per lease; dropping it is always possible and is excluded only in the
premise of the property); a row that keeps becoming due is fetched (strong), because `FetchReady`
orders by `next_run_at` and a failed task moves behind the others (`repo.go:112-122`). Drain: each
goroutine, the batch loop and the asker of an owed request are weakly fair. Sync: the loop takes its
next step (weak); nothing is assumed of the host. Liveness properties have the form "if the host
stops editing / nothing fails any more, then": failures are allowed any finite number of times.
`DirtyDrains` also has the premise that in the end fewer blank rows are in `search_dirty` than one
`SELECT` returns; the run has as many, and without the premise TLC finds the readable rows hidden.

## 4. Findings

1. **A lease is no proof that the task is unchanged** (`tasks/repo.go:73`, run `QueueLeaseExpiry`). The
   comment at `repo.go:204` calls the comparison with `leaseUntil` lease-safe. After a lease has
   expired, a new request leaves the past `next_run_at` as it is (`LEAST(next_run_at, now())`), the stale
   token still matches, and the late worker deletes the request that arrived after it had read its
   document. The change is not embedded until something else asks for it.
2. **A dead letter without the deletion** (`tasks/repo.go:222`, run `QueueDeadLetterMoves`). "Moves a task
   into the dead-letter table" (`repo.go:201`): the insert is unconditional, the delete compares the
   token and its result is not looked at. A re-request during the last attempt leaves the task both
   queued and dead.
3. **Dirty rows are cleared unread** (`worker/searchkit_worker.go:248`, run `DirtyClear`). "Clear dirty
   rows (processed)" deletes by key: a mark the host writes while the pass runs disappears, and the
   index keeps the older document, or an entity that was deleted.
4. **The vectors of a removed model pass for current ones** (`pg/models.go:86`, run `RegistryReturn`). The
   comment says that keeping them "is not required for correctness". When the model is configured again
   its backfill starts over, but `FilterMissingEmbeddings` (`pg/embedding_vectors_admin.go:51`) leaves out
   every entity that has a vector, of whatever age; the requests of the time in between were never made
   or were pruned. The backfill ends with the vectors of older documents in use.
5. **A dual search cannot take the README's filter** (`search/search.go:154`, run `SearchFilter`).
   `README.md:108-116` gives a dual search a filter on `sd.entity_id`, and `README.md:136` says that filters
   apply in the lexical and the semantic path. The lexical statements call their table `sd`, the
   semantic one calls its own `ev`, and the same text is appended to both, so one of them fails, and with
   it the call.

Smaller observations, without a run: under `search` with the English fallback, the hits of one entity in
two languages compare equal (`search/rrf.go:82-90`), so their order, and which survives the limit, is
that of a Go map. `README.md:150` speaks of merging deterministically only for mixed-script queries, so
`RankingDetermined` is stated for one language (and for Typeahead, which does compare languages, for
any). In dual
mode an empty query vector drops the lexical hits too (`client.go:240`). Two-stage search drops rows of
negative similarity even without a threshold, one-stage search shows them (`search/search.go:205`, `:228`).
With the fallback language an entity may count twice in `RecallAtK`, whose keys have no language, so
`MetricsAgree` too is stated for one language. Rows with a blank key are read, skipped and never cleared
(`worker/searchkit_worker.go:162`): as many as `DirtyBatchSize` at the head of the queue hide every row
behind them, for ever. Of two loops the one that stores late replaces the vector of a newer document
(`pg/storage.go:48`), until the key is asked for again. Nothing in the repository promises otherwise of
either. `TwoStageHalfvecSQL` (`pg/two_stage.go:19`, used by nothing
here) refers to its CTE from inside that CTE.

## 5. Proofs

TLAPS checks the following for every set of entities, models, workers and stamps, every cap, batch, chunk
and page size. The assumptions on constants are named in the module that declares them and say: the
options are positive (`TaskQueueAssumption`, `EmbedDrainAssumption`, `DirtySyncAssumption`,
`BackfillAssumption`), `None` is no row, lease, number, mark, progress or page, entities are numbered
from 1 in the order of their ids, the lexical target is no model, and there is a first version
(`MaxEdits # 0`); for searches (`HybridSearchAssumption`, `RetrievalAssumption`), that entities and
languages are numbered in string order, that the tables are finite, that limits, `k` and ranges of scores
are positive, and that there is some filter and some oversampling factor to choose.

| Theorem | Of | Needs |
| --- | --- | --- |
| `TypeCorrect`, `AtMostOneValidLease`, `SnapshotIsCurrent`, `AttemptsCapIsExact`; `Refinement` (the queue implements `TaskLifecycle`) | `Spec` | |
| `LeaseSafety` | `Spec` | `LeaseOutlivesWork` |
| `DrainImplementsQueue`, `DrainTypeCorrect`, `EveryBatchAccounted`, `StoredVectorsAreCurrent` | `DrainSpec` | |
| `VectorsNeverRegress` | `DrainSpec` | one worker |
| `VectorsStayFresh` | `DrainSpec` | one worker, `LeaseOutlivesWork` |
| `SyncImplementsQueue`, `SyncTypeCorrect` | `SyncSpec` | |
| `IndexCatchesUp` | `SyncSpec` | one loop, `LeaseOutlivesWork` |
| `BackfillImplementsQueue`, `BackfillTypeCorrect`, `CursorNeverAhead` | `BackfillSpec` | |
| `BackfillCatchesUp` | `BackfillSpec` | one loop, `LeaseOutlivesWork` |
| `RegistryImplementsQueue`, `RegistryTypeCorrect`, `SystemImplementsLifecycle`, `EveryProcessAccounted` | `RegistrySpec` | |
| `SystemLeaseSafety` | `RegistrySpec` | `LeaseOutlivesWork` |
| `RegistryIsConfiguration` | `RegistrySpec` | one process |
| `KeptModelsCatchUp`, `CursorSurvivesRestarts` | `RegistrySpec` | one process, `LeaseOutlivesWork` |
| `RetrievalTypeCorrect`, `NearestAreFound`, `NoHitLostInReRank`, `RelevanceKeepsOrder`, `DiversityComesFirst` | `APISpec` | |
| `SearchTypeCorrect`, `FusionRespectsAgreement`, `BestHitsAreShown`, `OneRanking`, `MetricsAlwaysAgree` | `APISpec` | |

Where the last column is empty the theorem holds for any number of loops or processes, whether or not
leases expire under them, and with any statement failing. The two assumptions are needed where they
stand: with two workers the older document may be stored last, and a lease that expires mid-batch lets
`Complete` delete the request of a newer document (finding 1); of two processes, the older one goes on
asking for models the newer one has pruned.

*The inductive invariant* (`TaskQueueProofs`). `OneValidLease` is not inductive: `FetchReady` gives a new
stamp to a row, and what keeps an older lease from matching it is that the stamp is new *to the leases
too*. `IInv` therefore says that outstanding tokens of different workers differ (`TokensDistinct`), that a
matching token is an exact copy of the row's attempts (`LeaseSnapshotCurrent`, which makes the cap decided
on the copy the cap of the row), that rows and leases are below the cap (`CapIsExact`, `LeasesBelowCap`:
without the second, a dead letter could be written at another count), and, for `LeaseSafe`, that with
`LeaseOutlivesWork` a matching token means a row not due and a request not overtaken
(`GoodLeasesAreCurrent`): `Enqueue` replaces the stamp of a row that is not due, so it breaks the
match in the step that overtakes the lease. There is one lemma per action. The lemma under all of
them is `FreshIsNew`. `QueueLiveness` checks `IInv` itself.

In the refinement (`TaskQueueProofs` too) a step on a lost lease maps to `Report` or a stutter, and
`Enqueue` to `Submit`, which may take the claim of a key it asks for.

*The batch* (`EmbedDrainProofs`). `BatchAccounted` speaks of the keys in flight of a request; it is
inductive once it is also known that the requests of a worker are disjoint, that their keys are pending
(sent, embedded, stored or failed) or already recorded, that every pending key is in one of them, and that
there are finitely many (`Batch`): the count of requests is a cardinality, and removing one by
`HandleTaskResult` lowers it only if it was one.

*Freshness* (`EmbedDrainProofs` too). That vectors never go back (`VectorNeverRegresses`, a property stated
beside its theorem, since a run with one worker says little of it) follows from `GrowthInv`: a request only ever
holds non-empty documents (`SentHasDoc`), a vector is never newer than the host's document
(`VectorBehindHost`), and each document in the batch lies between the stored vector and the host's version
(`DocBetween`), which is where the second worker would come in. `VectorFresh` adds what a *lease*
promises: as long as a task has not been requested again, the document read for it is the host's
(`DocCurrent`), each lease is a task's (`LeasesHaveTasks`), a key waiting for its assets is a VL key
(`ReadIsVL`), and a stored vector is that document's (`StoredIsDoc`). So when `Complete` removes the row,
the vector is the current one; when the token no longer matches, the row stays. That the task cannot have
been requested unseen is `IInv`'s `GoodLeasesAreCurrent`. `StoresCurrent` needs neither assumption: its
invariant (`CurrentInv`) replaces the good lease by what is recorded of requests, that no one has asked for
the key since this loop leased it (`Undisturbed`). A request takes a key out of its reach for every loop
that works on it, and only the next fetch or the end of the record brings it back, without a document.

*The sync loop and the queue* (`SyncProofs`). The whole of `SyncOnce` touches the queue only through the
queue's operations. For the backfill this needs an invariant (`PageInv`): a page that reaches
`EnqueueMany` holds entities and is a model's, the lexical target's pages never get there.

*What a pass has done so far* (`CaughtUpProofs`). That an entity without a mark is indexed as the host has
it (`IndexCaughtUp`) says nothing while the pass runs, so `PassInv` says, at every statement, what the pass
has achieved for the rows it read and that no later edit has overtaken (`Current`): the deletions of a
removed entity, kind by kind, as they leave the list of what is due (`DeletionsDue`, `DeletionsDone`);
the string built, then the document written, then the models asked for (`Rebuilt`, `StringsGiven`). An
edit writes a new mark in the same step, so it only takes entities out of the invariant's reach. A
pass that fails leaves the rows in `search_dirty`, where the invariant asks for nothing. What remains when
the rows are cleared is `Indexed`; `VectorsDue` (the drain's freshness) turns "asked for" into the vector.
`PassInv` has a parameter for the version the backfill is responsible for: 0 in `SyncSpec`, where all
entities come by marks, 1 below, where entities nobody has edited (`Known`) wait for a page instead.

*The cursor* (`BackfillProofs`). `BackfillCovers` is not inductive: a cursor may be written by a loop
whose page another loop has long gone past. `CoverInv` says that a page is responsible for every
entity up to its own cursor: it is covered or still on its way in this page (`PageCovers`), so that
whoever saves which cursor last, what lies behind it is covered (`CursorCovers`). "Covered" is stable for
an entity nobody has touched because anyone who reads it, ever, reads version 1 (`FirstRead`) and no pass
deletes it (`PassTouches`); this is why neither the number of loops nor the leases matter.
`BackfillCaughtUp` puts the two together (`OneLoopInv`): the strings a page gives are the host's or a mark
has come since (`StringsOnPage`, `PagesKnown`), `Indexed` covers the entities that were marked and
`CoverInv` those that were not (`BothCaughtUp`). A worker is part of the hypothesis because
`BackfillDone` speaks of all workers, and without one it would be true of nothing.

*Restarts* (`RegistryProofs`). `RegistryInv` adds to the queue's invariant that what a process works on
belongs to the models it was started with, so that restarts and pruning are operations of the queue as
well. `RepresentsInv` says which rows of other models each statement of the start-up has removed
(`Represented`), and that a tick enqueues and pages for models of its process only (`OwnModels`), so that
none of them comes back. A restart in the middle of a start-up starts that list over.
`RegistrySpec` is the whole system, and since it only uses the queue's operations, the abstract
specification and lease safety hold of it too (`SystemImplementsLifecycle`, `SystemLeaseSafety`).

*The models that stay* (`RegistryProofs` too). `KeptCaughtUp` is what is left of `BackfillCaughtUp` when a
process may stop anywhere and come back with other models. `PassInv` and `CoverInv` are therefore stated
of a set of models `M`, whose vectors they speak of, and of a set `X` of keys that may be owed although
no mark of their entity is left; below `ModelRegistry`, `M` is every model and `X` is empty. Here `M` is
`Kept`, the models never taken out of a configuration, and `X` is `Exempt`: an entity that was edited and
indexed before a model was added is owed to that model, and no mark will ever ask for it. What will ask is
the model's backfill, so such a key is `Waiting`: it has no vector and no task, the cursor has not passed
it, and a page that has it behind its own cursor will request it (`Reached`). Without a vector
`FilterMissingEmbeddings` keeps it. Once the backfill is done the cursor has passed every entity, so no key
of an entity the host has waits any more, and the models are caught up (`KeptInvGivesCaughtUp`). A model
not configured so far has left nothing anywhere, not even progress (`FutureInv`): a restart that adds it
makes all its keys wait, and a start-up before it is added prunes nothing of it. What a start-up does
prune belongs to models that were taken out, of which nothing is claimed, and it does so before the loop
has read anything (`StartIdle`). The steps of a tick are those of `CaughtUpProofs` and `BackfillProofs`,
for the `Kept` and `Exempt` of the state before the step; then what is still owed is shown to wait still
(`TickStepWaits`). `CursorSurvivesRestarts` is the same invariant's view of the cursor: a process trusts
the one its predecessor left, which saves after it enqueues and may stop between the two.

*Vector queries and re-ranking* (`RetrievalProofs`). `NearestIsFirst` says what `ORDER BY ... LIMIT` gives:
rows in falling similarity, none left out that is nearer than one taken unless the limit is reached.
The threshold, applied afterwards, cuts off the far end (`HitsOfNearest`), in one stage and in two. While
`MMRReRank` runs, `selected` and `remaining` together are the hits (`ReRankKeepsHits`, inductive as it
stands); with lambda 1 what is selected are the first hits and what remains are the others in order
(`RelevanceOrder`), which needs that hits are in falling similarity (`Descending`), since a tie goes to the
first index. With lambda 0 (`DiversityOrder`) a hit like a selected one was best only if all were.

*Fusion and ranking* (`HybridSearchProofs`). The score of a document is a fold over the lists that have it,
in the order `CHOOSE` takes them. The library's induction theorems cannot be used, but the
well-foundedness of `<` needs no operator as a parameter: a set of subsets of a finite set that is closed
under adding an element has them all (`SetInduction`). So the recursion of a fold has a solution
(`FoldExists`), a sum may be taken in any order (`SumTakesAny`), and a sum with more and larger terms is
larger (`LargerSum`). Every `k + rank` divides the common denominator (`ProductDivides`), so a better rank
has the larger share, and agreement between the lists the larger score (`AgreementRaisesScore`). The
result is a first part of the documents found under `Before` (`RankingIsRanked`), from which
`AgreementKept` and `TopHits` follow in the step that ranks; before it, the result is empty, and an
embedding that ends the search leaves it so. `RankingDetermined` is a fact about orders: under a strict
total order a finite set has exactly one ranking of each length (`OrderExists`, `OrderUnique`), and `Before`
is one if the documents found differ in more than their language or the language is compared
(`BeforeIsStrict`). That a plan asks in the languages of its request only (`PlanAsksItsLanguages`), and so
finds nothing in another, is what the hypothesis of one language rests on.

Each invariant was checked by TLC on the instance of the run that checks its conclusion before it was
proved.

*Model-checked only.* Liveness: `TaskResolved`, `VectorsConverge`, `DirtyDrains` and `BackfillFinishes`
rest on fairness and `ENABLED`, which are out of the prover's reach. Every other property of a run that
passes is proved.

## 6. Abstractions, and what is not modelled

- Time: no durations, hence no backoff, jitter or rate limit; two statements never compute the same
  `next_run_at`. `isRetryable` is true for every error, so the permanent-error branch
  (`worker/worker.go:246`) cannot be taken and only the cap buries a task.
- Content: version numbers; a vector says only which document it came from. A blank document
  completes its task and keeps the old vector (`worker/worker.go:303`); `VectorFresh` and `IndexCaughtUp`
  say nothing of entities that want no vector, except deleted ones.
- `DirtySync` and `Backfill` have one entity type and one language, in both the lexical and the
  semantic set. Pages and passes over several types repeat the same code per group.
- `ModelRegistry` has text or VL models fixed by `VLModel`; dimensions, and vectors of another length after
  a change of them, are not modelled. A configuration without models is a lexical-only runtime, which
  prunes nothing, as `UpsertModels` itself would with an empty set (the array arrives as NULL).
- Search: cosine similarities are small integers, `float32` rounding is left out; the ranking inside a
  lexical statement (`ts_rank_cd`, `SIMILARITY`, PGroonga's score) is the database's, so `HybridSearch`
  accepts any list. How much an HNSW scan meets (`hnsw.ef_search`) is left open.
- Not modelled: HTTP exchanges; character-level normalization and query sanitizing (string functions
  without state, whose definitions would be their code); migrations beyond the tables; the validity of
  indexes; the SQL helpers of `pg/two_stage.go` and `pg/halfvec.go`, which nothing runs; the single-item
  `GenerateAndStore*` entry points, which nothing calls.
- `PROJECT.json` also lists hazards without a property, each with the reason: a shared `rand.Rand`, an
  overflowing backoff, a cached extension lookup. Beyond those: every `DrainOnce` with a rate limit
  starts a ticker goroutine that nothing stops (`worker/worker.go:140`); an interrupted
  `CREATE INDEX CONCURRENTLY` leaves an invalid index that `IF NOT EXISTS` accepts (`pg/models.go:156`);
  the client lowercases language codes, the writers keep the host's spelling (`client.go:577`); an older
  process may go on enqueueing for a model a newer one has pruned (`pg/models.go:97`).

## 7. Plan

Done: the queue with its abstract specification; the drain; the whole of `SyncOnce`; restarts with other
models; a search call and the vector queries beneath it; and, one after the other, proofs of their safety
properties.

Next:

1. Several languages and entity types in `DirtySync`/`Backfill`; lexical-only and semantic-only targets.
2. Two processes in `ModelRegistry`: a rolling restart, with the tasks of a model only one of them knows.
   `KeptModelsCatchUp` needs its one process: an older one that still runs enqueues for a model the newer
   one has pruned.
