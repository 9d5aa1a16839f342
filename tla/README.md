# TLA+ models of the discovery provider's SPL token indexer

This directory holds TLA+ models of the code under `src/discovery-provider/src`.
The main subject is the `index_spl_token` task. It walks the on-chain history of
the $AUDIO SPL token program backwards, fetches and classifies transactions
through a pool of Solana RPC endpoints, writes `AudioTransactionsHistory` rows,
and advances a durable checkpoint. Every definition is written from the Python
source. `PROJECT.json` maps each definition to the lines it models.

## 1. Inventory

### Components

| Component | Source | State it keeps | Operations |
|---|---|---|---|
| Traversal cursor | `tasks/index_spl_token.py` 420-553 | redis list `spl-token-tx-cache-queue`; run-local `last_tx_signature`, `intersection_found`, `transaction_signatures`, `is_initial_fetch` | `fetch_traversed_tx_from_cache`, the `while not intersection_found` loop, `cache_traversed_tx`, truncation, `reverse` |
| Batch parser | `tasks/index_spl_token.py` 109-216, 289-334; `utils/helpers.py` 430-533 | none (per-sub-batch futures) | `parse_spl_token_transaction` (fetch, discard if errored / no TransferChecked / no instruction / no balance delta, memo → vendor), thread pool with a 45 s `as_completed` timeout |
| Reconciler | `tasks/index_spl_token.py` 219-271, 336-412 | `SPLTokenTransaction` (checkpoint row), `AudioTransactionsHistory` rows, balance-refresh queue, redis `latest_sol_spl_token_db_key` | user-bank join, `process_spl_token_transactions`, associated-wallet lookup, `enqueue_immediate_balance_refresh`, checkpoint upsert, commit at the end of `scoped_session` |
| RPC client pool | `solana/solana_client_manager.py` | endpoints list (immutable) | `get_sol_tx_info`, `get_signatures_for_address` (with a 30 s SIGALRM), `get_slot`, `get_token_accounts_by_owner`, `get_account_info`, `_try_all`, `_try_all_with_timeout` |
| Scheduler / lock | `tasks/index_spl_token.py` 576-612 | redis lock `spl_token_lock` (expiry 14400 s) | `index_spl_token`: cache the latest program tx, `acquire(blocking=False)`, run, release in `finally` |
| Entity manager: social features | `tasks/entity_manager/social_features.py` | Follow / Save / Repost / Subscription rows (`is_current`, `is_delete`) | `create_social_record`, `delete_social_record`, `validate_social_feature` |
| Unclaimed id query | `queries/get_unclaimed_id.py` | none (reads the aggregate tables) | up to 10 random draws of an unused id |
| Route slugs | `utils/helpers.py` 322-387 | none | `create_track_route_id`, `sanitize_slug` |
| Notifications query | `queries/get_notifications.py`; `models/notifications/notification.py` | `notification` and `notification_seen` rows (read only); the caller's cursor between calls | `get_notification_groups` (one paged SQL query), `get_notifications` |
| Premium content signature | `premium_content/signature.py` | none | builds and signs a JSON payload |
| `playlist_routes` migration | `alembic/versions/bead88b41a20_create_playlist_routes_table.py` | `playlist_routes` rows, PK (owner_id, slug) | `upgrade`: create the table, copy routes of current playlists, copy routes of renamed playlists `ON CONFLICT DO NOTHING` |
| Models, other migrations, tracer, metadata formats, authed-user lookup | `models/`, `alembic/`, `tracer.py`, `tasks/metadata.py`, `queries/get_authed_user.py` | schema only | none that change state |

### How the components interact

- celery beat calls `index_spl_token` periodically.
- The task takes the redis lock without blocking. It then calls `process_spl_token_tx`.
- The traversal asks the RPC pool for pages of signatures (`get_signatures_for_address(before=…, limit=…)`). It pushes the oldest signature of every page onto the redis cache list.
- The traversal builds the list of new pages (newest page first) and reverses the list of pages.
- Each page is split into sub-batches of `TX_SIGNATURES_PROCESSING_SIZE` (100). Each sub-batch goes through `parse_sol_tx_batch`.
- `parse_sol_tx_batch` fans out `get_sol_tx_info` on a thread pool. It joins the results and writes history rows. It enqueues balance refreshes. It then sets the checkpoint to `tx_sig_batch_records[0]`, the newest record of the sub-batch, and commits.
- Any exception ends the run. The next scheduled run starts again from the durable checkpoint.

### What is hard

- **Crash between commits.** The checkpoint advances once per sub-batch. A failure between two sub-batches leaves a checkpoint that the next run trusts. The next run skips everything at or below that checkpoint's slot.
- **Order of commits.** Only the list of pages is reversed. The sub-batches inside one page run newest first.
- **Slot-granular checkpoint, signature-granular batches.** Several transactions can share a slot. The filter `tx["slot"] > latest_processed_slot` treats a whole slot as done.
- **Stale cache offset.** The cache list is written during traversal, before anything commits. The next run reads it to pick its start offset.
- **Bounded backlog.** When more than `TX_SIGNATURES_MAX_BATCHES` pages pile up, all but the last `TX_SIGNATURES_RESIZE_LENGTH` pages are dropped.
- **RPC failure taxonomy.** Any error-shaped body of `getTransaction` becomes `UnsupportedVersionError`. That error is not retried and not failed over. The transaction is then silently treated as irrelevant.
- **Timeouts.** A 30 s SIGALRM covers a whole endpoint retry loop. A 45 s `as_completed` timeout runs inside a `with ThreadPoolExecutor()` block, and that block waits for every future on exit.
- **Lock expiry.** A run that outlives the 4 h expiry of the redis lock lets a second run start. A worker killed mid-run never reaches `finally`, so its lock stays until the expiry.
- **Entity types in social actions.** `validate_social_feature` looks the entity up under the transaction's own entity type and never matches that type against the action.
- **A cursor that moves with the clock.** The notifications query ends its newest interval at `now()`, evaluated anew by every call, and hands that value out as the paging cursor.
- **Window over all playlists.** The migration ranks old playlist names with `PARTITION BY nc.playlist_name` alone.

### Properties that make each component correct

- **Traversal + reconciler:**
  - No transaction at or below the checkpoint is left unindexed.
  - No transaction is indexed twice.
  - The checkpoint never moves backwards, and every commit extends the indexed history right above it (`IndexedLog`).
  - Every transaction is eventually indexed.
- **RPC pool:**
  - A call fails only after `len(endpoints) × retries` attempts and never makes more.
  - `UnsupportedVersionError` only for the unsupported-version error.
  - Every call ends.
  - Endpoints are given up on in order. This is the abstract `RpcFailover`.
- **Scheduler:** a killed worker's orphaned lock does not stop indexing for good. No transaction is written by two runs as long as runs end within the lock's timeout.
- **Social features:**
  - A follow / save / repost / subscription exists only for existing users and entities; a follow or subscription names a user.
  - The challenge bus sees exactly one event per follow, save and repost row, none for subscriptions or rejected transactions.
- **Notifications paging:** paging with the last row's `(seen_at, group_id)` returns every notification exactly once, on a row whose `is_seen` and interval are right.
- **Routes migration:** every old name of a playlist keeps a route to that playlist.

## 2. Plan

The modules are listed in build order, most important behaviour first. Items marked done are built and checked.

1. **`IndexSplToken`** (done): traversal cursor, cache offset, truncation, reverse/split, sub-batch commit with checkpoint, failures, arrivals of new finalised slots. The per-transaction parse is abstracted to indexed or skipped.
2. **`SolanaClientManager`** (done): one call through the pool, for the three handler shapes. It refines **`RpcFailover`** (done), the abstract promise of the pool.
3. **`ParseSolTxBatch`** (done): the decision procedure of `parse_spl_token_transaction` plus `process_spl_token_transactions`, as pure operators checked against a reference definition taken from the spec over every transaction shape. Around them is the state machine of `parse_sol_tx_batch`. A poison transaction in `IndexSplToken` is discussed in section 5.
4. **`SplTokenScheduler`** (done): two celery workers, the redis lock with expiry, runs that raise or are killed. A run is abstracted to the oldest-first commits that `index_traversal` shows it makes.
5. **Reconciler ordering** (done in `ParseSolTxBatch`): the balance-refresh enqueue and the redis health key are written before the commit. The health key can be ahead of the durable checkpoint after a failed commit.
6. **`SocialFeatures`** (done): the create and delete handlers with their validation and challenge dispatch.
6b. **`PlaylistRoutesMigration`** (done): the upgrade of revision bead88b41a20 over every small playlists table.
6c. **`NotificationGroups`** (done): `get_notifications` called page after page, with `now()` advancing between calls.
7. Pure algorithms: `sanitize_slug` / route-id collision handling, and `get_unclaimed_id`'s bounded draws. Not built: see section 5.

Abstract specifications worth stating:

- `RpcFailover` for the pool (done).
- `IndexedLog` (done). It is a log consumer whose indexed entries are always one gap-free stretch of history ending at its cursor. `IndexSplToken` refines it in the configuration where the code is correct (page ≤ sub-batch, one transaction per slot), and `index_traversal` checks that. Under `MC_IndexSplToken_subbatch_loss.cfg` the refinement fails at the first out-of-order commit.

## 3. Modules, state and actions

### `IndexSplToken` (`tasks/index_spl_token.py`)

| TLA+ | Code |
|---|---|
| `chain` | the program's finalised signature history. Signature = position (1 = oldest), value = slot. |
| `checkpoint` | the `SPLTokenTransaction` row (`None` before the first write) |
| `indexed[s]` | how many committed sub-batches contained `s` with its body fetched (capped at 2 = "twice or more") |
| `skipped` | signatures committed after `get_sol_tx_info` raised `UnsupportedVersionError` |
| `cache` | redis list `spl-token-tx-cache-queue`, head first |
| `latest`, `before`, `isInitial`, `sigBatches` | `latest_processed_slot`, `last_tx_signature`, `is_initial_fetch`, `transaction_signatures` |
| `todo` | the sub-batches the `for` loop has still to pass to `parse_sol_tx_batch` |
| `Arrive` | a new finalised slot with 1..`MaxPerSlot` program transactions (the remote ledger) |
| `StartRun` | lock acquired; `get_latest_slot`; `fetch_traversed_tx_from_cache` (operator `ScanCache`, RECURSIVE) |
| `FetchPage` | one iteration of `while not intersection_found`: page, filter, cursor, `cache_traversed_tx`, append, truncate, reset. The last iteration also performs `reverse` and `split_list`. |
| `ProcessSubBatch` | `parse_sol_tx_batch` up to its commit, with `checkpoint = tx_sig_batch_records[0]` |
| `Fail` | any exception of the run (RPC exhaustion, parse error, 45 s timeout, commit failure, worker crash). Nothing of the current sub-batch commits. |
| `Log` | the refinement mapping to `IndexedLog`. `log` is `chain`. `done` is the set of signatures with `indexed > 0`. `cursor` is the checkpoint's signature, or 0 before the first commit. |

`IndexedLog` is the abstract specification. Its `Grow` step appends entries. Its `Commit` step indexes every entry from just above the cursor up to a newer one; a cold start may begin anywhere. `WF(Commit)` makes the cursor reach the end of the log.

### `ParseSolTxBatch` (`tasks/index_spl_token.py` 81-271, 289-412; `utils/helpers.py` 430-486)

A transaction body is a record of the features the parser branches on (`TxShapes`):

- `rpc`: what `get_sol_tx_info` does. It returns, raises `UnsupportedVersionError`, or raises after exhausting the pool.
- `err`: `meta["err"]`.
- `log`: whether the TransferChecked log is present.
- `keys`: the token program is absent from `accountKeys`, present without a top-level instruction, or present with one.
- `memo`: none, foreign program, plain text, purchase memo with an unmapped vendor, or one of the three mapped vendors.
- `pre`, `post`: the receiver's token balances, where -1 means no entry.
- `bank`: whether the receiver is a user bank.

| TLA+ | Code |
|---|---|
| `ParseMemoInstruction`, `DecodeMemoAndExtractVendor`, `Vendor` | `parse_memo_instruction`, `decode_memo_and_extract_vendor`, line 174 |
| `ParseSplTokenTransaction` | `parse_spl_token_transaction`: its early returns, in order, and its raise paths |
| `RowType`, `Outcome` | `process_spl_token_transactions` for one parsed transaction |
| `ReferenceOutcome` | the spec's Batch Parser / Reconciler / error-handling rules (not code) |
| `fut`, `order`, `Complete(i)` | the `executor.submit` futures and the order in which they finish |
| `seen`, `txs`, `Consume` | the `as_completed` loop: skip `None`, re-raise an exception, append to `spl_token_txs` |
| `Timeout` | `as_completed(timeout=45)` raises while it waits |
| `Drain` | leaving the `with ThreadPoolExecutor()` block after an exception waits for every worker |
| `Collected` | the loop ends and the session opens |
| `Prepare` | inside `scoped_session`: user-bank join, `enqueue_immediate_balance_refresh`, `cache_latest_spl_audio_db_tx` |
| `Commit` | the commit of rows plus `SPLTokenTransaction` at the end of `scoped_session` |
| `SessionFails` | any query, the enqueue or the commit raises, and the session rolls back |

### `SolanaClientManager` (`solana/solana_client_manager.py`)

| TLA+ | Code |
|---|---|
| `idx`, `left` | the `_try_all` loop index and the handler's `num_retries` |
| `Attempt` | one client call plus its handling (`TxInfoOutcome`, `SignaturesOutcome` and `PlainOutcome` per handler) |
| `EndpointRaises` | the `while` loop ends and the handler raises. `_try_all` goes to the next client (`NextEndpoint`). |
| `AlarmFires` | `timeout(30)` raises `TimeoutError` inside `_try_all_with_timeout` |
| `Failover` | `INSTANCE RpcFailover WITH tried <- 1..(idx-1)` |

### `SplTokenScheduler` (`tasks/index_spl_token.py` 576-612)

| TLA+ | Code |
|---|---|
| `lock` | the redis key `spl_token_lock`: the worker whose token it holds, or `None` |
| `pc[w]`, `todo[w]` | whether worker `w` is inside `index_spl_token`, and the transactions its run still has to commit |
| `Acquire(w)` | `update_lock.acquire(blocking=False)` succeeds (`CanAcquire`), and `process_spl_token_tx` reads the checkpoint and finds the newer transactions (`NewTxs`) |
| `Commit(w)` | one sub-batch commit of `parse_sol_tx_batch`: the rows, and `last_scanned_slot` set to the transaction written |
| `Finish(w)` | the run returns; `finally` releases the lock only if it is still `w`'s (redis-py raises `LockNotOwnedError` otherwise) |
| `RunFails(w)` | the run raises; `except` re-raises and `finally` releases as in `Finish` |
| `Crash(w)` | the worker process dies; `finally` never runs and the key stays |
| `Expire` | redis deletes the key after `timeout=14400` (`Lapsed`: only a dead holder outlives it unless `RunsOutliveLock`) |

### `SocialFeatures` (`tasks/entity_manager/social_features.py`)

| TLA+ | Code |
|---|---|
| `records` | the rows handed to `add_social_feature_record`, in order |
| `dispatched` | the `challenge_bus.dispatch` calls, in order |
| `ValidateSocialFeature` | `validate_social_feature`: user exists, wallet empty or equal to the signer, entity exists under its entity type, no self follow/subscribe, premium access for save/repost family on tracks |
| `CreateSocialRecord(p)` / `DeleteSocialRecord(p)` | the whole handler: validate (a raise leaves nothing), build the row with `is_delete` FALSE / TRUE, add it, dispatch the action's challenge event |

`add_social_feature_record`, the premium access checker and the transaction loop of `entity_manager.py` are not in the repository. The rows are kept as an append-only sequence, and the checker as a fixed relation `Access`.

### `PlaylistRoutesMigration` (`alembic/versions/bead88b41a20_create_playlist_routes_table.py`)

| TLA+ | Code |
|---|---|
| `playlists` | the playlists table: every history of two playlists with one or two versions at increasing blocks, the last current |
| `routes`, `pc` | the `playlist_routes` rows, and which statement runs next |
| `Slug(name, id)` | `CONCAT(REPLACE(LOWER(name), ' ', '-'), '-', id)` as the pair of title slug and id |
| `CreateTable` | `op.create_table` |
| `InsertCurrent` | the first `INSERT ... WHERE is_current`; a duplicate key aborts the upgrade |
| `InsertNonCurrent` | the second `INSERT`: the join to the current row (`RenamedRows`), `rank = 1` of the window (`RankOne`), `ON CONFLICT DO NOTHING` |

### `NotificationGroups` (`queries/get_notifications.py`)

The API route that calls `get_notifications` is not in the repository. The model takes the caller to page as the result invites. The next call's `timestamp` and `group_id` are the `seen_at` and `group_id` of the last row. A page shorter than the limit ends the listing. Timestamps are small naturals. Group ids are naturals ordered as the strings are.

| TLA+ | Code |
|---|---|
| `ts`, `grp`, `seen` | `notification.timestamp`, `notification.group_id` of the user's notifications; the user's `notification_seen.seen_at` values, a set because `(user_id, seen_at)` is the primary key |
| `now` | `now()` of the next call |
| `cursor`, `listed`, `pages`, `done` | the caller: the offsets it passes, the rows it received, its calls, whether it stopped |
| `PageLimit` | `min(args.limit or DEFAULT_LIMIT, MAX_LIMIT)` |
| `Upper`, `Interval` | the `user_seen` CTE (`LAG(seen_at, 1, now())` over `seen_at desc`) and the `LEFT JOIN` on `seen_at >= timestamp and prev_seen_at < timestamp` |
| `Keep` | the `WHERE` clause, where a comparison with `NULL` is not true |
| `SortsBefore` | `ORDER BY seen_at desc NULLS LAST, group_id desc` over the `GROUP BY` keys |
| `Row` | the selected columns, with the `CASE` fallbacks for a `NULL` interval |
| `Query` | `get_notification_groups`: filter, group, sort, `LIMIT` |
| `FetchPage` | one `get_notifications` call; fetching the actions by id changes nothing |
| `Tick` | time passing between two calls |

## 4. Runs

| Run | Result | What it shows |
|---|---|---|
| `index_traversal` | pass | The configuration a page fits into one sub-batch (production: page of `FETCH_TX_SIGNATURES_BATCH_SIZE`, sub-batch of 100) and one transaction per slot. It has crashes, cache offsets, truncation and cold start. Nothing is lost and nothing is indexed twice. The durable state refines `IndexedLog`: every commit extends the indexed history with no gap right above the checkpoint, and the checkpoint reaches the tip. Everything is eventually indexed. |
| `index_subbatch_loss` | violation | With a page larger than a sub-batch, the newest sub-batch of a page commits first. Its checkpoint covers the page's older, uncommitted sub-batches, so a crash there loses them. (Without a crash the same order moves the checkpoint back and the next run writes duplicate rows: `MC_IndexSplToken_subbatch_loss.cfg` with `NoDuplicateHistory` finds that too.) |
| `index_shared_slot` | violation | Two transactions of one slot fall on two pages. After the older page commits, the checkpoint slot equals the newer one's slot, so a crash loses it for good. |
| `rpc_pool` | pass | For all three handler shapes: the attempt budget, termination, and the refinement of `RpcFailover`. |
| `rpc_other_error` | violation | `_check_error` raises `UnsupportedVersionError` for any `"error"` key. `UNSUPPORTED_VERSION_ERROR_CODE` (-32015) is never consulted. The indexer then commits such a transaction as irrelevant (`IndexSplToken` with `ErrorResponses = TRUE`). |
| `batch_pipeline` | pass | Two transactions in every completion order, with timeouts and failing sessions. The checkpoint is written only when no transaction raised, and only together with exactly the expected rows. In every state, parser plus reconciler agree with the spec's reference on the batch's bodies and on all 3024 bodies whose account keys list the token program (`ParserMatchesReferenceOnListed`). |
| `batch_health_key` | violation | `cache_latest_spl_audio_db_tx` writes the redis health key inside the session, before the checkpoint row is written and committed. The comment above it says the key caches the latest value committed to the DB. After `Prepare` the key names a checkpoint the database does not have, and after `SessionFails` it stays there. |
| `scheduler_lock` | pass | Two workers share the lock; up to two runs raise or are killed mid-run. The lock a killed worker leaves is freed by its timeout and another worker's run resumes from the checkpoint, so everything is eventually indexed. Runs end within the 4 h timeout (`RunsOutliveLock = FALSE`). In this setting only a dead holder's key lapses and a run is abstracted to oldest-first commits, so at most one run is live and no duplicate or gap can arise: those safety properties are checked in `IndexSplToken`, not here. |
| `social_dispatch` | pass | Every block of two social transactions over all actions, users, entity types, ids and signers: the challenge events are exactly the follow, save and repost rows, in order, for the row's actor. |
| `notifications_paging` | pass | Every placement of four notifications in three groups at times 1-3, under every set of seen rows, paged two groups at a time, with `now()` moving between calls. Every notification inside the seen intervals is returned exactly once, on a row marked seen whose interval holds it. |
| `notifications_now_drift` | violation | The first page ends inside the newest, unseen interval, so its cursor is that call's `now()`. The next call ends the interval at a later `now()`, which matches neither `seen_at < cursor` nor `seen_at = cursor`. The remaining unread groups are skipped, and the caller stops without them. With the clock held still, the same check passes. |
| `migration_old_routes` | violation | Two playlists both once named "Mix": only the one whose old row has the highest `blocknumber` (either one on a tie) gets the route `mix-<id>`, the other's old URL is lost. |

### Bounds and why they are enough

- **`IndexSplToken`:**
  - One transaction is indexed at start, and up to 6 more arrive (`MaxTxs = 7`).
  - Initial page 1, steady-state page 2, sub-batch 2.
  - `TX_SIGNATURES_MAX_BATCHES = 2`, `TX_SIGNATURES_RESIZE_LENGTH = 1`, and up to 2 failed runs.
  - These keep the production ratios: first page smaller than a page, page ≤ sub-batch, resize < max.
  - Six new transactions give 4 pages in one run. That is enough for truncation, for several pages processed in reverse, and for a cache offset inside the backlog.
  - Both initial states run: checkpoint present, and none (cold start).
  - Each violation run changes one constant: sub-batch 1, `MaxPerSlot = 2`, or `ErrorResponses = TRUE`.
- **`ParseSolTxBatch`:**
  - `ParserMatchesReferenceOnListed` quantifies over all 3024 bodies with the program listed, so the reference comparison is exhaustive over the abstraction in every state of the pipeline run. `MC_ParseSolTxBatch_parser_ref.cfg` uses one transaction (N = 1) whose body ranges over all 4536 shapes.
  - The pipeline run uses two transactions, enough for both completion orders and for a raise that overtakes a collected result. Each takes one of four bodies: transfer row, purchase row, discarded, raises.
- **`SplTokenScheduler`:** two workers (the race needs two), four transactions and two faults: enough for a kill between two commits of one run followed by a run on the other worker, and for a failure after that.
- **`SocialFeatures`:** two users (one with an empty wallet), a track only user 1 may access, a playlist whose id is also a user id, two signers, blocks of two transactions: each guard of `validate_social_feature` is met and failed, and rows of different types interleave.
- **`PlaylistRoutesMigration`:** two playlists of one owner, names that differ in case or contain a space, one or two versions each over three blocks: all 1296 tables.
- **`NotificationGroups`:** four notifications, three groups, times 1-3, every subset of seen times (52,488 initial states), pages of two groups, `now()` at 4 and then 5, and up to 4 calls. Three groups in one interval overflow a page of two, so a cursor falls inside an interval. A page can also mix seen, unseen and interval-less rows, and a short page ends the listing. One tick of the clock is all the drift needs.
- **`SolanaClientManager`:**
  - 3 endpoints (the spec's failover example) and 3 retries. An odd budget makes an over-decrement visible.
  - All answer kinds are allowed.

### Fairness

- `IndexSplToken`:
  - `StartRun` is weakly fair, because celery beat schedules the task again and again.
  - `FetchPage` and `ProcessSubBatch` are weakly fair, because a running task keeps stepping unless it raises.
  - `Fail` is bounded by `MaxFailures`, so failures are finitely many.
  - `Arrive` has no fairness.
- `SolanaClientManager`: `WF(Next)`. Every client call returns; the HTTP client has its own timeout. The retry loop is bounded.
- `ParseSolTxBatch`: worker threads run to completion (weak fairness per future). The main thread's steps are weakly fair. A timeout and a failing session may happen but are never forced. No liveness property is checked of this model: with every step weakly fair a finite, loop-free pipeline ends by construction, and a worker that never returns, the case the 45 s timeout is about, is outside this fairness.
- `SplTokenScheduler`: some idle worker eventually takes the lock (celery beat keeps scheduling; `WF` on the disjunction over workers), a live run keeps committing and finishing (`WF` per worker), and redis enforces the timeout (`WF(Expire)`). Raising and being killed are bounded by `MaxFaults` and never forced.
- `NotificationGroups`: `WF(FetchPage)`. A caller that is paging keeps calling until a short page. The clock's `Tick` has no fairness.
- The single-call model, the single-batch model, one block of social transactions, the migration and a notifications listing end, so their cfgs disable the deadlock check. The `IndexSplToken` model never stops: an idle run can always start.

## 5. Not modelled, and why

- **Parse details in `IndexSplToken`.** There a parse is abstracted to indexed / skipped / raise. `ParseSolTxBatch` models the decision procedure, with memo text, account offsets and balances abstracted to the features it branches on. The base58 and string slicing of the memo is not modelled. The RPC answers memo data base58-encoded, so the decode does not fail.
- **The thread pool inside one sub-batch, in `IndexSplToken`.** `ParseSolTxBatch` shows that the completion order does not change what is committed, so `IndexSplToken` treats a sub-batch as one step. There the 45 s timeout is one more cause of `Fail`.
- **History row fields, sender-side users and associated wallets.** The user-bank join is modelled as the `bank` feature of the receiver. Enqueued sender and associated-wallet users are data that no property distinguishes.
- **Premium content signing, tracer, models, other migrations.** Pure I/O or schema declarations with no state machine.
- **The other notification pagination faults.**
  - `EachListedOnce` states the whole paging contract. `MC_NotificationGroups_null_interval.cfg` finds it violated in two ways.
  - A user with no seen row gets a `NULL` cursor and the first page again, forever.
  - A page ending on a row that no seen interval holds makes the next call filter on `n.timestamp < cursor` alone. The same groups come back, and a notification stamped exactly at the oldest `seen_at` is dropped.
  - These are hazards in `PROJECT.json`. The listed notifications runs are the drift and the exactness over seen intervals.
- **Absent token program.** `MC_ParseSolTxBatch_parser_ref.cfg`, not a listed run, finds `ParserMatchesReference` violated when the token program is missing from the account keys. `account_keys.index` raises `ValueError`, where the spec discards the transaction.
  - A legacy transaction must list every program it runs, and versioned ones are refused as unsupported before the parse. A body with the TransferChecked log but without the token program therefore needs another token program to write that log, so the case is rare.
  - If one occurs, the exception ends the run, and every later run meets the same transaction again: indexing stalls for good. `IndexSplToken` bounds its failures (`MaxFailures`) to check liveness under transient faults, so this stall is not a checked run.
- **A hung worker in a sub-batch.** `as_completed(timeout=45)` raises, but leaving the `with ThreadPoolExecutor()` block waits for every future, so a worker that never returns holds the run forever. `ParseSolTxBatch` gives every worker weak fairness and does not check this; how long a fetch can block depends on the HTTP client's own timeouts, which are outside the repository.
- **Runs longer than the lock's timeout.** `SplTokenScheduler` under `MC_SplTokenScheduler_outlive.cfg` (`RunsOutliveLock = TRUE`) finds `NoDuplicateHistory` violated in a few steps. It is not a listed run, because whether a run can take 4 h depends on backlog and RPC latency, not on the code.
- **Entity types of social actions.** `MC_SocialFeatures_follow_target.cfg` checks `FollowTargetsUser` and finds a Follow with entity type Track writing a follow of a non-user id. It is not a listed run, because the dispatcher in `entity_manager.py`, which may reject such transactions, is not in the repository.
- **Loss of premium access.** Access is a fixed relation in `SocialFeatures`, so an Unsave refused after access is lost is listed as a hazard only.
- **`get_unclaimed_id` and route slugs.** These are not modelled, because what can go wrong with them is decided by code that is not in the repository. Their hazards are listed in `PROJECT.json`.
  - `get_unclaimed_id` only reads the replica. Its hazard is a race between the id it hands out and the create transaction that claims the id, which the entity manager indexes. Those create handlers are not in the repository, so a model would have to invent the side that decides the outcome.
  - `None` after ten collisions needs an almost full table of about 2^31 ids. That is a fact about the data, not a reachable interleaving.
  - `sanitize_slug` and `create_track_route_id` are string functions with no caller in the repository. Route uniqueness depends on how the caller picks `collision_id` and checks existing routes. The title "mix 2" and "mix" with `collision_id` 2 give the same slug, but whether that clash reaches the routes table is unknowable from here.
