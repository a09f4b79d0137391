# Next-k-protocol: models, checks and proofs

TLA+ modules for the service in `src/`: what happens to a trading signal from
`POST /signals/ingest` to a protected position or a recorded failure, how the
orders it leaves at the exchange are followed up; how a call to the exchange is retried, stamped
and paused; how the Polymarket desk copies the fills of a leader once; and how the box
breakout scanner runs its scans and keeps its files.  All line numbers are of the files in `src/`.

## 1. The system

| Component | State it keeps | Operations | Hard because |
|---|---|---|---|
| **Signal ingest** `router.py`, `ingest/` | none of its own; the batch of a request | `ingest_signals`, `guard_dedup_insert`, `dispatch`, `rollback_incomplete_oco_batch`, cancel endpoint | retries of the same signal; a batch that stops half way; OCO legs that end differently |
| **Trade execution** `trader.py`, `trading/*_entry.py` | none; reads the position before a close | `execute_trade_with_status`, `open_market`, `open_limit`, `open_stop_limit`, `_attach_protective`, `_abort_unprotected`, `_close_live_position` | many REST calls, each of which may fail or not be answered; the market moves in between; a crash between two of them |
| **Pending entries** `trading/entry_reconcile.py`, `entry_cancel.py`, 60 s loop of `main.py` | none; works on the submitted rows | `reconcile_pending_entry_orders`, `cancel_pending_entry_by_api_id` | works from a list read earlier; cancels that come too late; partial executions |
| **Signal log** `repos/signals_repo.py` | one row per `(source, api_signal_id)`: status, `result_json` | insert, status updates, listings, retention | a row outlives the process that wrote it |
| **Binance client** `binance/` | HTTP session, clock offset, hedge-mode cache | orders, algo orders, cancel, account, retry on time-out | an unanswered POST is sent again; a request that is sent again late carries an old timestamp; one failed probe is cached |
| **Protective pricing** `trading/protective.py` | none | SL/TP prices, strict SL, emergency close | fallback paths |
| **Auth circuit breaker** `trader.py` 72-125 | consecutive failures, paused flag | record failure, record success | only a signed call that works resets it, and a paused open makes none |
| **Polymarket paper copy** `utils/poly_paper_copy.py` | book on disk, burst slices, seen-set cache | ingest a fill, flush, sync, reset, refresh equity | two feeds of the same fills, a bounded dedupe memory, buffers lost with the process |
| **Poly supervisor and desk** `utils/poly_copy_supervisor.py`, `poly_desk_runtime.py` | thread, event loop, status | start, stop, poll loop, websocket | thread + tasks + request handlers over one lock |
| **Poly clients** `poly_ws.py`, `poly_data_api.py`, `poly_clob.py` | connection | I/O | |
| **Box breakout scanner** `utils/box_breakout_runtime.py`, `routers/box.py` | scan flag, mode, error and configuration in memory; configuration and pool files | start a scan, save the configuration, change the pool, read | handlers in a thread pool, scans on threads; two locks for the flags, none for the files; a flag that outlives the thread that was to clear it |
| **Quant sidecar**, **Wangge proxy** | child process; none | start, stop, proxy | |
| **Rate limit**, **Observability**, **Configuration** | counters, caches | | |
| **Gateways of the quant engine**, **vendored tools** | | not reachable from the service, or third party | |

Interactions.  A request handler calls ingest, ingest calls execution for each
signal in turn, every execution first runs the reconcile pass, which may cancel
entries; the 60 s loop runs the same pass.  All of them talk to the exchange
through `binance/` and leave their only lasting trace in the signal log.  Every signed call
feeds the breaker, which refuses opens.  The Polymarket desk and the box scanner share nothing
with them, or with each other, but the process.

What makes each component right, in one sentence:

* ingest: a signal executes once, whatever the client sends again, and its row says how it ended;
* execution: whatever was opened is covered by a stop loss, or is known to somebody;
* pending entries: each of an open is promoted, aborted, found gone or expired, and only for its own order;
* client: what it tells its caller is true of the exchange, and a stale timestamp is never its last word;
* breaker: opens stop while authentication fails and go on once it works;
* copy book: each leader fill changes a seat once, no more and no less;
* box scanner: one scan at a time, reported as what it is, and no change of a file lost.

## 2. Plan

Order of work, most important first:

1. `Exchange`, `SignalExecution`, `SignalLifecycle`, `SignalClaims`: the signal path, with the deletion of old rows.  *Done.*
2. `SignalExecutionProofs`, `ExposureProofs`, `EntryProofs`: the safety properties of 1 for every instance.  *Done.*
3. `PolyCopy`, `CopyBook`, `PolyClaims`, `PolyCopyProofs`, `PolyHistoryProofs`, `PolyBookProofs`: the Polymarket copy
   book with its two feeds, burst slices, restarts, resets and syncs, its promise, and its safety properties
   for every instance.  *Done*, but for the arithmetic of cash and shares.
4. `BinanceClient`, `RestCall`, `ClientClaims`, `BinanceClientProofs`: the retry loop, the clock, the breaker and the
   cached position mode; it justifies the outcomes of a call in module 1 (`Unanswered`, `OpenLost`).  *Done.*
5. `BoxScan`, `BoxScanProofs`: the threads and files of the box scanner.  *Done*, but for its caches.
6. Pure operators against reference definitions: SL/TP price rules, the matching of protective orders,
   quantity rounding (`binance/exchange_info.py`).

## 3. The signal path

### Modules

| Module | Models | How |
|---|---|---|
| `Exchange` | the futures account behind `binance/orders.py` and `binance/account.py` | each entry order has an owner, a quantity executed, the part of it still open (`lot`) and the stop loss working for it (`sl`); operators are the effect of one REST call; `Fill`, `StopOut`, `Expire` are what the market does |
| `SignalExecution` | ingest, execution, reconcile, cancel | one action per REST call with the database writes that follow it; `pc` names the next call |
| `SignalLifecycle` | the promise | signals execute one at a time, a traded signal is never touched, a pending one only resolved |
| `SignalClaims` | statements of docs and docstrings the code does not keep | one property each, refuted by a run of its own |
| `MCSignalExecution` | instances for TLC | two or three signals, two orders, rolling entries among them |
| `SignalExecutionProofs`, `ExposureProofs`, `EntryProofs` | theorems | see section 8 |

State.  `row`, `ord`, `rowid`, `aged` are the columns `status`, `entry_order_id` of
`result_json`, `id` and the age of `received_at` of `signals_log`.  `pc`, `cur`,
`batch`, `acted`, `todo`, `att`, `snap` are the local variables of the running
handler: the signal in `execute_trade_with_status`, the rest of the request, the
detail records so far, the rows a pass still has to visit, the order being
protected, the position a close has read.  `faults`, `crashes` bound what may go
wrong, `why` is history: the first step that left an order to itself, exposed, or in the market (`InMarket`:
working, or with a lot) under a row that is over or gone.

Atomicity.  Every handler under `/api/binance` is an `async def` that awaits
nothing, and the loop of `main.py` calls the pass without an await, so two handlers
never interleave; the pass inside an execution is part of that execution.  What
interleaves is the market, between any two REST calls, and the death of the process.
A database write is synchronous (SQLite, committed at once) and goes with the call
it follows.

| Actions | Code |
|---|---|
| `IngestSignals`, `GuardAccepts`, `GuardSkips`, `BatchDone` | `ingest/pipeline.py`, `guards.py`, `oco_rollback.py` |
| `CancelRequest`, `CancelPendingEntry`, `CancelDone` | `router.py` cancel endpoint, `trading/entry_cancel.py` |
| `ReconcileTick`, `Scan*`, `CancelExpired`, `CancelPeer` | `main.py`, `trading/entry_reconcile.py` |
| `OpenRefused`, `OpenMarket`, `OpenLimit`, `OpenStop`, `OpenLost`, `CheckLimit` | `trader.py`, `trading/market_entry.py`, `limit_entry.py`, `stop_limit_entry.py` |
| `PlaceStopLoss`, `TakeProfitFails`, `Protected`, `AbortSweep`, `EmergencyClose` | `_attach_protective`, `_abort_unprotected`, `trading/protective.py` |
| `CloseRefused`, `ReadFlat`, `CloseAlreadyFlat`, `ReadPosition`, `CloseSweep`, `CloseMarket` | `_close_live_position`, `_record_close_already_flat` of `trader.py` |
| `ListSignals` | `list_signals` of `router.py`, which first deletes the rows older than 24 h (`delete_signals_older_than`) |
| `Crash`, `Age`, `MarketStep` | the environment |

### Abstractions

* One symbol; the signals of another one have their own orders and positions.
* A position is kept as the lots of the entries that made it (hedge mode: one
  position for each side).  A stop loss covers the lot it was placed for; duplicates
  of a stop loss add up to at most the lot's full quantity.  Take-profit orders are not
  kept: a lot is safe when its stop loss works.
* Quantities are units of `1/Full` of an entry.  MARKET entries execute at once.
* A stop entry the exchange rejects with code -2021 is a refusal.  The code tests the
  text of the exception for the code, and the text of the `HTTPStatusError` raised by
  `raise_for_status` does not contain it.
* `Action` is `open`, `close` or `rolling`.  Whatever is not a close is executed as an open (`guards.py` 40,
  `dispatcher.py` 23), but a pass lists the rows of action `open` only (`entry_reconcile.py` 51): `Pending` is what
  it lists, `Submitted` what waits.  The rollback, the peer rule and the cancel endpoint look at the status alone.
* `cancel_all_orders` takes the regular orders off in one call and the algo orders one by one, any of which may
  fail; the model chooses the set that went and makes it one step, since nothing in between is read back.
* `OpenRefused` stands for every refusal before an order exists, pausing by the
  auth breaker included; the breaker itself is in `BinanceClient`.
* Listings have `LIMIT 200`; with the two signals of the instances it is not reached.
* A retry of the client after a time-out is `Unanswered`: the exchange may hold an order
  nobody knows of.  `OpenLost` is the case where no answer ever came.

### Properties and runs

`Full = 2` is the smallest value with a partial execution.  Two signals are enough for
every interaction the code has (an OCO pair, an abort that meets the stop loss of
another position, a close that meets an entry, a pass that meets the row it has just
cancelled), a third, a close, for what a close sweeps away; two orders allow one retry or one
unknown duplicate.  A run has at most one fault, one crash or one listing that deletes (`MaxFaults`, `MaxCrashes`,
`MaxListings`), at any place; the proofs of the safety properties hold for any number.

| Run | Instance | Checks |
|---|---|---|
| `pair` | two STOP_LIMIT legs, peers of each other, one may enter at market through a gap; a fault, a listing that deletes | `TypeOK`, `ExposureHasCause`, `OnceInMarket`, `ReceivedIsExecuting`, `KeepsLifecycle` |
| `closing` | a LIMIT entry, a rolling MARKET entry and a close, all on one side; a fault | `SubmittedHasOrder`, `ExposureHasCause`, `RetryFindsNothing`, `AtMarketInWhole`, `ProtectedBeforeTraded` |
| `pending` | a STOP_LIMIT entry, its LIMIT peer and a rolling STOP_LIMIT entry, two orders, `Full = 1`, a crash; fairness | `ExposureHasCause`, `PendingResolved` |
| `claim_retry` | one STOP_LIMIT entry | `NoDoubleOpen`, refuted (section 7) |

`ExposureHasCause` is the one to read first.  The code does leave orders and positions to
themselves, so "every lot is protected" is false; the property says that it happens only
through the steps named in `Cause`, each of which is a place in the code:

| Cause | Where |
|---|---|
| `crash` | the process dies with an order in hand |
| `no_reply` | `binance/client.py` 205: a POST sent again, or never answered |
| `not_recorded` | `limit_entry.py` 118: the acknowledged order cannot be read back |
| `partial_fill` | the rest of an entry whose row is already traded |
| `cancelled_row` | a row cancelled over an order that works or has executed |
| `swept` | `cancel_all_orders` on behalf of another signal |
| `abort_residue`, `emergency_failed` | what is left after, or instead of, the emergency close |
| `close_failed`, `close_residue` | the same for a close |
| `retention` | `GET /signals` deletes the row of a pending entry (`router.py` 234) |
| `never_listed` | the entry of a rolling signal waits in the market, and no pass will look at it (`entry_reconcile.py` 51) |

Anything else, such as an early return that drops an order, breaks it.

Three more lean on the same causes.  `OnceInMarket`: of two orders of one signal in the market one was left
by a cause, whatever retries, stale lists and lost answers came before; so a double open, which
`claim_retry` shows, is always the work of a named step.  `RetryFindsNothing`: where a row says `error`
or `cancelled`, so that `guard_dedup_insert` lets the signal through again, its order is out of the market but for a
cause.  `AtMarketInWhole`: an entry at market executes at once, so the quantity its execution, an abort or a close
has read is all there is, and none of the causes that leave an uncounted rest applies to it.
`ProtectedBeforeTraded` is about a step: a row turns `traded` only when what its order had executed, when it was
last read, is covered or closed again, although the stop loss may trigger and the order execute further in between.

Fairness (`FairSpec`, only for `PendingResolved`).  `WF(Handler)`: synchronous code runs to
its end.  `SF(ReconcileTick)`: the timer of the 60 s loop is ready again and again, and the
event loop gets to it between two requests, however many there are.  `WF(Age(s))`: time passes.
Faults are bounded, since a call that fails for ever keeps its row pending.
No fairness is assumed of the market, of clients or of crashes.  `PendingResolved` speaks of opens: the pending
entry of a rolling is resolved by nothing but its peer, the cancel endpoint or the deletion of its row, and of
none of these may one say that it happens.  The run has such an entry beside the two opens.

Deadlock is checked in every run.

## 4. The Polymarket paper copy

### Modules

| Module | Models | How |
|---|---|---|
| `PolyCopy` | the copy book `poly_paper_copy.py`, its supervisor and what the feeds deliver | one action per function that holds `_lock`, per step of a function that releases it to fetch, and per step of the poll cycle |
| `CopyBook` | the promise of the book | a seat settles a fill of its leader once, copied or passed over; only the mirror of a sync and a reset change a position besides |
| `PolyClaims` | a statement of a comment the code does not keep | refuted by a run of its own |
| `MCPolyCopy` | instances for TLC | one seat, two seats of two leaders, two seats of one leader |
| `PolyCopyProofs`, `PolyHistoryProofs`, `PolyBookProofs` | theorems | see section 8 |

State.  `seats`, `base`, `valued`, `seen` are `bots`, `baseline_ts`, `leader_equity > 0` and
`seen_trades` of the book on disk; `copies[b][f]` says how often a fill went into the position of a
seat, which the book keeps as shares only.  `slice`, `quiet` are `_slices` with its time stamps.
`thread` says whether the supervisor's thread is starting, up or ended.
`polling`, `due`, `rows` are the local variables of a poll cycle, `syncing`, `mirror` those of a
sync between its fetch and its write.  `at`, `place`, `ws` are what the leaders did and what
is under way to the process.  `settled`, `mirrored`, `evicted` are history.

Atomicity.  `ingest_trade`, `flush_coalesce_slices`, the resets and `ensure_bots_from_watchlist` hold `_lock`
from `load_paper` to `save_paper`, each is one action.  They are called from the event loop of
the supervisor, from its thread pool and from request handlers, so the actions interleave freely;
so do the steps of a sync (fetch, then write under the lock) and of a poll cycle (fetch, one row
after the other, flush).  A message of the websocket is handled before the next one.

| Actions | Code |
|---|---|
| `WsDeliver`, `WsLose` | `poly_ws.py` `_handle_message`, `_session`; `_handle_trade` of the supervisor |
| `SupervisorStarts` | `_thread_main`, `_wait_for_wallets`, the first part of `_async_main` |
| `PollStart`, `PollFetch`, `PollFails`, `PollIngest`, `PollFlush` | `_poll_loop` of the supervisor |
| `Ingest`, `Attempt`, `Buffered`, `Settle`, `Remember`, `FlushSettles` (operators) | `ingest_trade`, `_apply_to_bot`, `_mark_seen`, `_flush_slice`, `flush_coalesce_slices` |
| `Refresh`, `RefreshToNothing` | `refresh_leader_equity` |
| `EnsureBots`, `ResetBot`, `ResetAll`, `ResetUnsaved` | the watchlist pass, `reset_paper_bot`, `reset_paper` |
| `SyncRead`, `SyncVoid`, `SyncWrite` | `sync_leader_positions` |
| `Stop`, `Crash` | `stop()` with its last flush; the end of the process without it |
| `Tick`, `Trade`, `GoQuiet` | time and the leaders |

### Abstractions

* A fill is its dedupe key `tx|asset|side`; two fills of one transaction, token and side that
  share a key are one fill of the model, as they are one for the code.
* Amounts are left out.  What depends on cash, shares, size or price is open: a fill that
  passes the baseline with the leader's value known is copied or skipped, a sale only copied if
  a purchase of the token went in before.
* A fill moves one unit; the leader's worth is positive while it holds one (or is `Rich`).
* The watchlist is constant.  A seat always has a baseline: `ensure_bots_from_watchlist` sets it under
  the same lock that creates the seat, so `no_baseline` does not occur.
* `Undated` are the fills whose timestamp cannot be read and becomes 0 (`poly_data_api.py` 190-194); the baseline
  lets them pass (`poly_paper_copy.py` 581).  The data client returns its rows in the order of the server, so a
  fill keeps its place in a poll with or without a timestamp.
* The thread of the supervisor starts once in the life of a process (`start_poly_desk` is all that calls `start()`).
  A save that fails on the way is outside any `try` (`poly_copy_supervisor.py` 130) and ends the thread: neither
  messages nor polls come then.  The requests that list or reset the book still create seats.
* A refresh may happen at any time: the 30 s limit is waived for forced refreshes.  Its fetch and
  its write are one action; a value that is stale when written is one that changes again right after.
* A save writes the whole book and replaces the file, so it happens or does not; a failing save is
  a fault that leaves the book as it was and the buffers as the code left them.

### Properties and runs

| Run | Instance | Checks |
|---|---|---|
| `poly_two` | two seats, one with slices; one of two fills without a timestamp; `Keep = 1`, so that every second fill drops a key; a request, a fault, a restart | `TypeOK`, `SeenIsSettled`, `DoubleHasCause`, `KeepsCopyBook` |
| `poly_live` | a seat with slices, a purchase and the sale that leaves the leader flat, a request, a fault, a restart; fairness | `NeverShort`, `SyncLosesNewer`, `FillSettled` |
| `poly_flow` | a seat with slices, a purchase without a timestamp, its sale and a purchase again while a poll reads two fills (`Limit = 2`) and `Keep = 2`, a fault; fairness | `HistoryHasCause`, `FillSettled` |
| `claim_shared` | two seats of one leader | `RetriedForEachSeat`, refuted (section 7) |

`SeenIsSettled` and `DoubleHasCause` are what the dedupe list is for, read in both directions.
`SeenIsSettled`: a key takes its slot only when its fill is settled for the seat, so that nothing is
forgotten.  `DoubleHasCause`: a fill goes into a position twice only because its key was dropped from
the bounded list or because a sync had brought it in (both happen, section 7).
`SeenIsSettled` excludes leaders with two seats (`SoleSeat`): for them it is false, see `claim_shared`.

`KeepsCopyBook` is the refinement, under `held <- copies`, `done <- settled`, `lent <- mirrored`,
`forgotten <- evicted`: two feeds, slices that wait, are put back, replaced or lost, failed saves, restarts and syncs
in two steps add up to settling each fill once, unless its key was dropped.  `NeverShort`: a sale that arrives
before its purchase, or after a reset or a sync has taken the purchase out, is in no position without a
purchase of the token.

The other three are about the past.  `HistoryHasCause`: a slice is judged by the time of one fill,
so a fill from before the baseline can be copied; but only in company of one from after it or of
one without a timestamp, or if it has none itself.
`SyncLosesNewer`: a sync fetches before it takes the lock and then overwrites; the fills it
removes from a position are none of those it could have seen at the fetch.
`FillSettled`: whatever is lost on the way, the poll brings a new fill again until it is settled.
It names the three ways a fill is missed for good: `Limit` newer fills of the leader hide it from the poll
(`Buried`, 50 in the code), and a leader without positions is worth 0, which the code takes for unknown and
retries for as long as that lasts; and the supervisor's thread may have ended as it started (`thread = "ended"`).

Bounds.  Two fills, of one leader or of two, give each relation two fills can have: the same slice, the end of
a slice, one before and one after the baseline or the reset, one dropping the other's key; the third
is what it takes to bury one.  A fill
that came long ago and one that comes now differ only in what `seen` and `base` say, so two seconds
(`MaxTime`) around the baseline are enough, and `Keep`, 5000 in the code, is 1 or 2.  One fault, one
restart, one request, at any place (`MaxFaults`, `MaxCrashes`, `MaxRequests`).  Deadlock is not checked in `poly_live`:
once the thread has ended and the one fault, restart and request are used up, nothing is left to happen.

Fairness (`FairSpec`).  `WF(SupervisorStarts)`: a started thread runs.  Once it is up (`Up`) its tasks go on as long as
the process: `WF(Poll)`: the loop runs on after any exception; its steps end.
`WF(EnsureBots)`: every 15 s, and after `reset_paper`.  `WF(Refresh(b))`: once in every poll and for every
message.  `WF(GoQuiet(b))`: `coalesce_sec` pass.  Faults and restarts are bounded.  None is assumed of the
websocket, the leaders, requests or stops.

## 5. The access to the exchange

| Module | Models | How |
|---|---|---|
| `BinanceClient` | `BinanceClient.request`, `time_sync.py`, the breaker of `trader.py`, `detect_hedge_mode`, and the calls that opens, closes, the status request and the 60 s pass make | one action per attempt, per answer and per step of a handler between calls |
| `RestCall` | what one call promises | how often the exchange executed a request, against what the caller is told |
| `ClientClaims` | a statement of the documentation the code does not keep | refuted by a run of its own |
| `MCBinanceClient` | instances for TLC | doubling pauses |
| `BinanceClientProofs` | theorems | see section 8 |

A request of the service is its sequence of calls (`plan`), each of a kind that says whether it is signed
and what its failure does: end the request, be passed over, or be cached as one-way.  A call is stamped, sent,
judged, and sent again: with the same bytes after 429 or 5xx (`Resend`), re-stamped after -1021 or a
transport error (`Resign`).  `age` is the time since the stamp, in units of `BACKOFF_BASE_SEC`, cut off
just beyond `Window`.  `synced` says that the clock offset is right.  The exchange looks at the key, the
timestamp and the position side in this order; an attempt without a usable answer may have been
executed.  `executed`, `lossy`, `unsynced`, `tripped` are history.  Handlers do not interleave (section 3),
so neither do calls; the lock of the breaker is never contended.

Abstractions.  The key may be revoked, restored or bound to another address at any moment (`KeysChange`), in the
middle of a request and of the attempts of a call, which is also what a passing 401 or 403 looks like.  The clock
drifts, or its synchronisation becomes due, between calls (`TimePasses`); it is right or off by more than the
window.  An attempt reaches the exchange at once and its answer may be slow, so that a slow attempt counts for the
ones after it (`Send`): a request that spends more than `recvWindow` on its way there is left out.
A row that a pass or an execution cannot read is skipped (`SkipRow`, `entry_reconcile.py` 84-90): the steps of the pass
for that row go with it, those of the execution follow.  A close that finds the account flat sweeps and ends; the
regular and the algo part of a sweep are calls of their own.  What happens to orders and positions is
`SignalExecution`'s part; here an entry is pending or not, which decides whether the pass makes a signed call.

| Run | Instance | Checks |
|---|---|---|
| `client` | two retries, window of 10 units (5 s), attempts of 0 or 8 units, breaker at 2 (20 in the code), three faults, two key or clock events, hedge mode; fairness | `TypeOK`, `StaleHasCause`, `BreakerHolds`, `KeepsRestCall`, `PauseLifts` |
| `claim_hedge` | one fault, one retry | `HedgeAware`, refuted (section 7) |

`KeepsRestCall` is the refinement: a success is real, a failure hides an execution only if an answer was lost,
and a request is executed again only after such a loss; this is what `Post`, `Unanswered` and `OpenLost` of
`SignalExecution` assume.  `StaleHasCause`: a call fails for its timestamp only after a failed synchronisation or
lost answers, although a resend after its pauses and slow attempts carries the first stamp.  `BreakerHolds`: an open that
has passed the gate posts its order in a pause only when its own probe set the pause, whose failure is passed over.
The run gets there: a first failure is counted, both calls of the setup are refused as already set, which leaves
the count, and the key is revoked before the probe.
`PauseLifts`: while the key works and an entry is pending, the pass lifts the pause; without a pending entry,
a close or a status request has to, and nothing makes one come.

Bounds.  Three faults use up two retries (three in the code) and spare one; the window lies below two pauses and one
slow attempt, so that a stale resend happens; two events revoke and restore the key or the clock; two failures
trip the breaker as twenty do.  Fairness: `WF(Handler)` and `SF(ReconcileTick)` as in section 3.

## 6. The box breakout scanner

`BoxScan` has one action per stretch of code that no other thread can cut: handlers in the thread pool
(`pc`, `asked`, `copy`), workers (`stage`, `mode`), the flags of `STATE` (`scanning`, `scan_mode`,
`last_error`, `config`) and the two files, whose content is text, blank or broken.  `_scan_lock` (`holder`) guards the
start, `_lock` the memory; the end of a worker clears `scanning` and `scan_mode` in two steps that a start can
separate, since starts do not take `_lock`.  A file is truncated, then written; of two writers the later one may
leave the tail of the earlier.  A write may fail before the truncation or after it (`ConfigFails`, `PoolFails`): no
space, or a text with a lone surrogate, which `json.dumps` lets through and the encoding does not; the patch of a
configuration is in memory by then.  `saved`, `pooled`, `crowded`, `spoiled`, `overtaken`, `stranded`, `failed` are history:
`crowded` are the files whose present or last update met another, `spoiled` those that such updates, a failed
write or a crash have spoiled and no lone update has repaired since.

| Actions | Code |
|---|---|
| `StartScan`, `Announce`, `Spawn`, `SpawnFails` | `start_scan`, `_log`, `_load_scanner` |
| `ScanEnds`, `ClearScanning`, `ClearMode` | `_scan_worker` |
| `SaveConfig`, `OpenConfig`, `WriteConfig`, `ConfigFails` | `save_config` |
| `UpdatePool`, `OpenPool`, `WritePool`, `PoolFails` | `update_pool`, `save_pool` |
| `ReadRequest`, `Crash` | the requests that only read, but load the scanner; the end of the process |

| Run | Instance | Checks |
|---|---|---|
| `box_scan` | two requests, three scan threads, two modes, two faults, a restart; fairness | `OneScan`, `ModeTold`, `ErrorTold`, `ScanEndsOrStrands` |
| `box_files` | two requests, two configuration keys, two stocks, a failing write, a restart | `TypeOK`, `ConfigKept`, `PoolKept` |

`OneScan` holds although the flag is set under one lock and cleared under another: the worker that clears it has nothing
left to do but the mode.  `ModeTold` says when that last step is visible: a start between the two assignments has
its mode wiped (`overtaken`).  `ScanEndsOrStrands`: a scan ends unless the load of the scanner, or the start of its
thread, fails after the flag was set (`stranded`), which only a restart repairs.
`ConfigKept`: the file holds every patch written, and so does the memory between saves, unless the file is spoiled;
and the next save that is alone repairs it, since it writes the whole memory, where no patch was lost.
`PoolKept`: the same of the pool, which is in its file only; what was spoiled is gone for good, and the next update that
is alone starts from what is left and keeps it.

Bounds.  A third scan is the one that comes while a worker is between its two assignments and another scan runs, and
a thread of the pool serves one request after the other; two faults strand the flag and fail a scan; two keys and two stocks tell a lost update from a wiped file.  The two runs split
the module because scans and files share only `_load_scanner`; the proofs cover both together.
Fairness: `WF(Handler(t))`, `WF(Worker(s))`: a started thread goes on, and the network calls of a scan time out.

## 7. Where code and documentation disagree

Each is a run that TLC ends with a counterexample; `PROJECT.json` quotes the lines.

| Run | The statement | What happens |
|---|---|---|
| `claim_retry` | a signal is not executed twice (`router.py` 171) | a cancel that comes after the fill reports success, the row is cancelled, a retry opens again |
| `claim_shared` | a skip for want of the leader's value is retried (`poly_paper_copy.py` 36, `test_poly_paper_copy.py` 170) | not if another seat of the leader has settled the fill |
| `claim_hedge` | `positionSide` is used when the account is dual-side (`BINANCE.md` 8) | not after one failed probe, which is cached as one-way for the life of the process: here the probe of a pass that protects a filled entry |

Other disagreements met while modelling are reachable in the models and have no run of their own:

* `models.py` 57 says that once a leg trades its OCO peer is cancelled; not when the leg trades in the call that
  places it (`OpenStop`, `Protected`): only `CancelPeer` of a pass does so.
* `README.md` 70 says a failed SL ends without a naked position; the sweep of the abort takes the stop losses of
  other positions of the symbol (`AbortSweep`, cause `swept`).
* `poly_paper_copy.py` 5-8 says fills are deduplicated by transaction hash; not those whose key the shared, bounded
  list has dropped (`evicted` in `DoubleHasCause`).
* `router.py` 95 says `execution_paused` tells that execution is paused; the handler reads it before its own
  signed call, whose success ends the pause (`StatusRequest`, `ResetBreaker`).
* `router.py` 288 offers to update the protective stop; `trader.py` 778 unpacks five values of the three that
  `get_filters` returns, so every such request ends in a setup error.
* `entry_reconcile.py` 46 says that the pass handles the submitted stop entries; it lists those of action `open` only,
  and a rolling entry that waits is never looked at again (`Pending`, cause `never_listed`).
* `entry_cancel.py` 12 says that True means cancelled or gone; it is returned when the cancel call failed, too
  (cause `cancelled_row`).
* `trader.py` 640 says a close takes a path of its own; it runs the reconcile pass first, and fails when that
  raises for another signal (`ScanBreaks`).
* `limit_entry.py` 57 says SL and TP follow the execution; they cover the part executed when it is read
  (cause `partial_fill`).
* `README.md` 75 says a pending LIMIT has no local life cycle; the pass promotes, aborts and expires it (`Scan*`).
* `poly_paper_copy.py` 848 calls the sync a one-shot mirror; a fill in the positions that is still under way is
  copied on top of them (`mirrored` in `DoubleHasCause`).
* `poly_paper_copy.py` 444 says a slice to be retried is put back; the fill that caused the flush replaces it at
  once if it has another key (`Ingest`), and only the poll brings its fills again.
* `poly_paper_copy.py` 266 says mid-book history is never copied; a fill older than the baseline that comes in
  behind a newer one is judged by the time of the first (`Verdicts`) and copied.
* `docs/POLY_DESK.md` 3 says new fills are followed; the sale after which the leader is flat is not, since the
  leader is then worth 0, which counts as unknown (`HasValue`, `Verdicts`), and the seat keeps the position.

## 8. Proofs

The theorems about the signal path hold for every set of signals and orders, every `Full`, every kind, side, action (rolling ones included),
peer and batch assignment, and any bounds on faults, crashes and listings; the assumptions are
`ExchangeAssumption` and `SignalAssumption`, the types of the constants.  The behaviour of the exchange is the model's.

`SignalExecutionProofs`.  None of the properties is inductive alone.  `IInv` adds

* `Runs`: which places of the handler belong to an execution, and that the executing
  signal's row is `received`, so that no pass can take it for a pending one;
* `Passes`: what a pass holds: the rows still to visit were pending when the list was read,
  are pending or were cancelled since (by the peer rule), and still name their order; the row
  being handled is not among them.

Without `Passes` a stale list could put a traded row back to `cancelled`, which is exactly what
`KeepsLifecycle` forbids.  One lemma for each group of actions shows that it keeps `IInv`;
`Inductive` combines them, and `TypeCorrect`, `SubmittedRowsHaveTheirOrder` and
`OnlyCrashesStrand` are its conjuncts.  `Refinement` shows
that every step maps to a step of `SignalLifecycle` or a stutter, under `status <- row`,
`running <- cur`.

`ExposureProofs`.  `ExposureHasCause` speaks of orders that are live or naked.  `Watched`
splits the two: a live order is tracked, in hand or caused; a naked lot is too, and in addition a
lot whose order is swept by its own handler stays in its hands; a handler of a pass holds the order
its row names.  `EInv` is `IInv` with `Watched`; `NothingForgotten` follows.

`EntryProofs`.  `NInv` adds to `EInv`

* `Covering`: the order being protected belongs to the signal it is protected for, no more is to be covered than
  was executed, and between stop loss and row (`pc = "tp"`) the lot exceeds the stop loss by no more than was
  executed since.  The market may execute, trigger and expire in between, so this has to hold of sums;
* `Standing`: an order in the market without a cause has a row that is `submitted` and names it, or is
  `traded`, or `received` with the order in its execution's hands or after a crash.  Hence a row that may be
  retried has none, and whoever starts an execution has none (`NoneInHand`);
* `Alone`: a signal has at most one such order; a new one is booked only where `NoneInHand` holds.

Most steps take orders out of the market or leave them (`Narrows`), for which `NarrowsStands` gives `Standing` and
`Alone` at once; `PostStanding` serves the steps that book.  `NeverTwiceWithoutCause` and `RetriesFindNothing`
follow; `TradedIsProtected` needs besides that no action but `Protected` makes the row of an open `traded`
(`TradedByProtected`).  `Whole` is what `MarketEntriesInWhole` needs on top: an entry at market is executed when it is
booked (`Executed`), so a quantity read earlier is still all of it (`Reading`), no pass takes it for a
working order, and the causes of an uncounted rest name other orders (`LeftFairly`).

`PolyCopyProofs`.  The theorems hold for any leaders, seats, fills (finitely many), any `Keep`
and `Limit`, and any bounds on time, faults, restarts and requests, from `PolyAssumption` (types of
the constants).  Again neither property is inductive alone.  `PInv` adds to the types

* `Past`: what is seen or lies in a slice has been made, by the leader of the seat, and nothing was
  made, no baseline set, later than now.  Hence a seat that is reset or comes back has no
  new fill among those seen;
* `Remembered`: a fill in a position is seen, dropped from the list or was synced; and one that lies in a
  slice as well as in the position, which the flush would copy again, has one of the last two
  excuses.  That is why both tests of `Known` are needed, and why `ingest_trade` may
  leave a fill unmarked while its slice is open;
* `Sent`: what the feeds hold has been made.

`RememberKeeps` says of `_mark_seen` that it loses only what it drops, `SettleKeeps` what one
application of fills leaves of the book (`Settled`), `SettledBook` that the book then stays in
order if the slices do.  `IngestKeeps` and `FlushKeeps` apply them; `BookKept` serves the steps
that settle nothing.  `PolyTypeCorrect`, `PolySeenIsSettled` and `PolyDoubleHasCause` follow from `PInvariant`.

`PolyHistoryProofs`.  `HInv` is `PInv` with `Sliced` (a slice is of one token and side), `Taken` (a seat holds fills of
its own leader, one that is gone none), `HistoryHasCause` and `OrderInv`: places grow with the fills made, and
what a sync under way has not fetched was made after all that it has.  `SettleGrows` says that a settlement removes
nothing and adds only fills of the attempt; `SettleHistory` that an attempt copied for one fill after
the baseline excuses the rest; `SeatsEmptied` serves the resets, which may move the baseline since nothing is left.
`PolyHistoryHasCause` and `PolySyncLosesNewer` follow from `HInvariant` and `StepHistory`.

`PolyBookProofs`.  `KInv` adds to `HInv`

* `Recalled`: a settled fill is seen or was dropped, and one that lies in a slice although it is settled was
  dropped before it came again; so what a step settles is open in the sense of `CopyBook`;
* `NeverShort` itself, with `LeadersBacked`: a leader sells only what it has, and so do the positions a sync has fetched.

`SettleBooks` says what an application of fills does to the four variables of the promise, `SettlePromised` that this is a
`Settle` of `CopyBook`; resets map to `Empty`, the write of a sync to `Mirror`, every other step to a stutter.
`PolyKeepsCopyBook` and `PolyNeverShort` follow.

`BinanceClientProofs`.  The theorems hold for any number of retries, pauses, window, delays, threshold, either position
mode and any bounds (`ClientAssumption`: types of the constants).  `IInv` adds to the types what an attempt knows:
`ExecutionOK` (executions against attempts and losses), `StampOK` (a later attempt that follows no loss and
no failed synchronisation has a new stamp and the right offset), `GateOK` (the steps of an open after the gate, of which
all but the probe end the open when their authentication fails, whenever the key is revoked).  `ClientKeepsRestCall` maps each step to one of `RestCall` or a stutter.

`BoxScanProofs`.  For any threads, scans, modes, keys and stocks (`BoxAssumption`).  Two invariants, since scans and files
meet in the types only: `ScanInv` (`OneScan`, `ModeOK`, `ErrorOK`) says that a worker which has yet to clear the mode is
beside a scan only if overtaken, and `FileInv` (`ConfigOK`, `PoolOK`) what an update that no other meets is about to write: where nothing is spoiled the patches
written and its own, and where something is, for the configuration, all of the memory.

Every safety property of a passing run is a theorem.  Only model-checked: the liveness properties (`PendingResolved`, `FillSettled`, `PauseLifts`,
`ScanEndsOrStrands`: the prover has no ENABLED and no fairness) and, being false, the claims.

## 9. Not modelled

* `update_live_protective_sl`, the matching of protective orders and `place_sl_with_mark_retries`: reached only from the
  endpoint whose setup always fails (section 7).
* The arithmetic of prices and quantities, cash and shares: real numbers with rounding; planned over bounded
  inputs (section 2).
* The edits of the Poly watchlist, the repair of titles, the status counters and the time-outs of `stop()`.
* The caches of quotes and bars of the box scanner, its log lines, and the scans themselves, which are vendored.
* The quant sidecar: a child process started once, under one lock.  The Wangge proxy keeps no state.
* Rate limit (called by nothing), observability, configuration and signing: no modelled property tells them apart.
* The gateways under `quant/engine`, which nothing outside `quant` imports, and vendored code.
