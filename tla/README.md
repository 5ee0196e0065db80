# A verification development for polymarket-apis

TLA+ models of the stateful parts of this client library, TLC configurations
that check them on small instances, and TLAPS proofs of what should hold for
every instance. Paths like `websockets_client.py` are under
`src/polymarket_apis/clients/` of the repository unless they say otherwise.

Each definition is translated from the source; `PROJECT.json` maps it to its
lines. What the code only relies on (the exchange, the node, the network) is
modelled from how the code uses it and is marked external there.

## 1. Inventory

### Websockets (`websockets_client.py`)

| component | state | operations | modelled in |
|---|---|---|---|
| `LocalOrderBookStore` | per token: bids, asks, top two levels, best prices, tick size, last trade; `_valid_tokens`, `_invalid_reason`; one `RLock` | `apply_message_text`/`apply_payload` (snapshot, delta, trade, tick size), `invalidate`, readers | `LocalOrderBook`, `BookReplication` |
| `_ManagedConnection` | `_stop_event`, `_websocket`, `_message_queue`, `_dropped_message_count`, the run, reader, processor, heartbeat and stale-monitor tasks | `run`, `graceful_close`, `close`, `abort`; the tasks' loops | `ManagedConnection` |
| market feed of a connection | `_market_book_synchronized`, `_market_book_invalid_reason`, `_last_market_data_time`, `_stale_warning_active` | `_observe_raw_market_message`, `_observe_parsed_event`, `_enqueue_message`, `_stale_monitor_loop`, `run` | `MarketFeed` |
| real-time data subscriptions | `_current_subscriptions`, the pending acknowledgement and error futures, `_startup_subscriptions_ready` | `subscribe`, `unsubscribe`, acknowledgements, recovery of a stale socket | `RealTimeSubscriptions` |
| `AsyncPolymarketWebsocketsClient` | `_connections` under a lock, `_closed` | `open_*`, `run_*_stream`, `close`; `wait_started`, `wait_closed` | `WebsocketClient` |
| `_EventLoopThread` and the synchronous handles | the loop thread, `_stopping`, one future per call | `submit`, `stop`, wrapped calls | `SyncWebsocketClient` |
| parsers, lifecycle logs | none | pure functions of a frame | not modelled: their outcome is an input of `MarketFeed` |

A connection is one asyncio task per role. The *reader* takes frames from the
socket, applies market frames to the store at once, and puts them in the
bounded queue; the *processor* takes them out, parses them and awaits the
callback; the *run* task connects, waits for either, tears down and backs off;
the *stale monitor* polls for silence; other tasks close the connection. They
share the queue, the flags and `_stop_event`, and interleave at every `await`.

On the real-time data socket further tasks call `subscribe()` and `unsubscribe()`,
while the run task subscribes to the whole list again after every reconnect. All
wait for answers in the same two futures of the connection.

Hard: cancellation at any await of the run task, exceptions raised again in
`finally` blocks, overflow of the queue in three policies, two tasks writing one
flag, frames that are processed long after they arrived, requests
that overwrite each other's futures and outlive their socket; a client that is closed
while it opens connections, by callers that may be cancelled at any await; a loop that
is stopped by one thread while others hand it calls.
Correct means: books a reader is shown are the exchange's; nothing of an earlier
socket is shown; frames arrive in order and once, or are counted as dropped; a
closed connection is over; closing and reconnecting make progress; what is
listed as subscribed is what was asked for on the socket; a closed client has no
connection left, an open one can end those it has, and nobody waits for a loop that
is gone.

### Transactions (`web3_client.py`)

| component | state | operations | modelled in |
|---|---|---|---|
| `NonceManager` | `_pending` | `next` (`reset` is never called) | `OnchainExecutor` |
| `PolymarketWeb3Client` | the chain's nonces and the node's pool, seen by RPC | `_execute`, `_execute_calls`, `deploy_safe_wallet` | `OnchainExecutor` |
| wallets | the wallet's own nonce, on chain; whether the Safe is deployed | `_build_safe_transaction`, batches, `deploy_safe_wallet`, receipts | `WalletTransactions` |
| `PolymarketGaslessWeb3Client` | the relay's nonce and transactions | `_execute`, `_execute_calls`, deploy, the polls for a hash | `WalletTransactions` |

Hard: threads that share a client, RPCs that fail between taking a nonce and
sending, receipts that come after the timeout, other programs on the account; a wallet
nonce read long before the transaction that uses it is executed, a relay whose answer is
lost or that is polled too few times.
Correct means: no nonce of the account is used twice, a transaction that was accepted is
not left behind a gap, and what a caller is told of its transaction is so.

### Orders (`clob_client.py`, `utilities/order_builder/`)

| component | state | operations | modelled in |
|---|---|---|---|
| `PolymarketClobClient` | `__tick_sizes` and their timestamps, `__fee_infos` | `get_tick_size`, `get_order_book`, `get_clob_market_info`, `clear_tick_size_cache`; `create_order`, `create_market_order`, `post_order(s)`, `create_and_post_*`, `cancel_*` | `ClobOrders` |
| `OrderBuilder` | none | rounding of prices, sizes and amounts, market prices of a book, adjustment to a balance | `OrderAmounts` |

Hard: threads that share the cache, whose answers arrive late and in any order; a post
of which the answer is lost, or which arrives after its caller gave up, while another
thread cancels; a batch of which a part is refused; floats that are just below or above
what they stand for.
Correct means: an order is made with a tick size that was recently the market's; what a
caller is told of an order is what became of it; its amounts are those of its price.

### Not modelled

`gamma_client.py`, `data_client.py`, `graphql_client.py` (each call is one
stateless request and a validation), the plain queries and credentials of
`clob_client.py`, its `_retry_request` (it has no caller), `types/` (declarations), `utilities/signing`,
`utilities/headers.py`, `utilities/web3` (cryptography and byte encodings of one
value), the fields, salt and signature of an order (`order_builder/model.py`), `logging.py`
(formatting, and a trace id that only log lines read), configuration, exceptions, and
`testing/contract_assertions.py`.

## 2. Modules

    LocalOrderBook   <--EXTENDS--  BookReplication          BookReplicationProofs
    FrameDelivery    <--INSTANCE-- ManagedConnection        ManagedConnectionProofs
    MarketFeed                                              MarketFeedProofs
    RealTimeSubscriptions                                   RealTimeSubscriptionsProofs
    WebsocketClient  <--EXTENDS--  SyncWebsocketClient      SyncWebsocketClientProofs
    OnchainExecutor                                         OnchainExecutorProofs
    WalletTransactions                                      WalletTransactionsProofs
    OrderAmounts     <--EXTENDS--  ClobOrders               ClobOrdersProofs

`MCLocalOrderBook`, `MCBookReplication`, `MCMarketFeed`, `MCRealTimeSubscriptions` and
`MCClobOrders` give the constants that a `.cfg` cannot write, and the inputs over which
`OrderAmounts` is compared with its reference definitions; the other modules are run as
they are.

**LocalOrderBook.** A side of a book is a function from prices to sizes, 0 for "no
entry". `ApplySnapshot`, `ApplyLastTradePrice`, `ApplyTickSizeChange` and `Invalidate`
are one step each, as the lock makes them. A delta is `BeginDelta` and then one
`DeltaItem` per list item with `pending` non-empty, so that the invariants are also
checked between two items. `RefreshTopLevels` is `_refresh_top_levels` with the assignment
of the dicts it recomputes from. A negative size, which no branch of
`_apply_delta` expects, is not an input.

**BookReplication.** The store, one connection and the exchange. A `price_change` frame
lists changed levels with their new sizes, in any order; it may leave out a level
another listed quote trades through, because that is the case for which `_apply_delta`
clears levels by itself. `lost` is the time between the death of a socket and the
invalidation, in which `run` awaits `on_disconnect`.

**ManagedConnection.** `run` holds the await the run task is at; `reader` and `proc` the
states of the other two tasks; `closer` of each task that closes. A step is what one
task does between two awaits. `EndConnected` is the `finally` of `_run_connected`: what
each of its awaits may raise decides which exception reaches `run`. `runCancel` is a
cancellation that was requested and not raised yet. `joining` is a callback that has
called `close()` and awaits the run task. `policy` is the overflow policy of the
connection, chosen initially. `session`, `delivered` and `counted` record frames for
the properties; `counted` is `_dropped_message_count` as a set.

**FrameDelivery** is the abstract specification of a connection: what its callback is promised.
Frames come in sessions, one per socket, and wait; the one that waits longest is delivered
next, or dropped and counted; a session that nobody cut short ends with nothing waiting.
`ManagedConnection` implements it under the mapping at its end: `Phase` reads a session
and whether it is undisturbed off `run`, `stop`, `runCancel` and the two tasks, `Waiting`
is the queue without its sentinel, and a drop for the sentinel is a drop like any other.

**MarketFeed.** The tasks as far as they touch the flag, the store's validity and the
stale monitor. Ages replace times: of the last data, and of each queued frame, since the
processor calls `_mark_feed_fresh` with the time the frame was received. `monitors`
counts stale monitors, because a reader that failed makes `_run_connected` skip
cancelling them and they live until the connection is over. `options` are the
arguments the connection was opened with.

**RealTimeSubscriptions.** A requester is the run task or a caller; `req` holds the locals of
its call: where it waits, what it sends in this round and has yet to send, the socket
of the round. `pendErr` and `pendAck` name the requester whose future is in
`_pending_subscription_error` and `_pending_subscription_ack`. From composing a request to
writing its frame no await gives way to another task, so a requester in `"sending"` goes first
(`Sending = {}` guards everything else). A request that returns runs on to the end of
`subscribe`, `unsubscribe` or `_after_connected_tasks_started` in the same step
(`RequestReturns`). `answers` is a set dispatched in any order: the server may answer late
or never, and nothing here depends on the order of the queue. The socket, its queue and the
processor are those of `ManagedConnection`, reduced to `open` and `run`. Two delays are
related: `BackoffOutlastsGrace` keeps a caller's short waits (`Shortly`) from lasting longer
than the back-off of 1 s, the default; a shorter `reconnect_initial_delay` is not
modelled by the runs. Otherwise a timeout may fire whenever its wait is on. A
subscription's filters are one symbol or none, which is what the keys of
acknowledgements look at. `sent`, `failed` and `raced` record history for the properties.
A request that finds its socket replaced is composed again, in a loop that has no bound in
the code (2497-2498) and none in the model but `MaxSockets`; `RequestsEnd` therefore
speaks only of requests whose socket nobody replaces.
Calls made from a `process_event` callback are left out: the processor that would
dispatch their acknowledgement waits for the callback.

**WebsocketClient.** Each call that opens a connection has the connection's name. `closed`
is the set of `_closed` events that are set, `epoch` the one the client has now, `of` the
one a connection was given: `open_*` after a close replaces the event, and a connection of
an earlier one is never registered again. `registered` is `_connections`. A connection is
its run task, as coarse as the registry sees it; `ManagedConnection` has the detail.
`opener` is what `open_*_connection` or `run_*_stream` awaits (`_wait_started`, the
startup subscriptions, `wait_closed`, or the abort when it was cancelled), `closer` what
`close()` does, `closing` the list it took. `Opens` is what all calls do first, with the
awaits of the two kinds in `OpenChannelConnection` and `OpenRealTimeDataConnection`.

**SyncWebsocketClient.** The same calls made by threads, through `_EventLoopThread`: `caller` is
the thread, `queued` what `run_coroutine_threadsafe` handed over and the loop has not begun.
`TestStopping` and the handing over are two steps, because `submit` tests `_stopping`
without a lock; a thread that was between them when the loop stopped is in `late`. `loop` is
`"blocked"` from the moment a callback, of events or of the lifecycle, calls a synchronous method, whose result the loop
itself would have to produce. With `api = "async"` there are no threads, and every call may
be cancelled by its caller.

**OnchainExecutor.** `pc` is the RPC a caller is at. `NonceManager.next` has a switch
of threads between the answer to `get_transaction_count` and the comparison with
`_pending`, none after it: the lines after the RPC make no call at which CPython
with its global lock would switch (a build without that lock could interleave them,
and is not modelled). `ExecuteCalls` takes the nonce of the base transaction first, as
`_execute_calls` and `deploy_safe_wallet` do.

**WalletTransactions.** There is one action per operation: `MovePosition` (split, merge, redeem,
convert), `SetApproval`, `ApproveAll`, `Transfer`, and deploying a Safe, by the paying client
(`DeploySafe`) and by a relay (`RelayDeploysSafe`). Some ask the chain first, for a balance or for the
code of the Safe. The rest is common to them: the calls are wrapped for the wallet
(`layers` counts how often), signed for the nonce of the wallet that was read (`nonce`),
submitted, polled for if a relay does it, and the receipt awaited. The wallet executes a
transaction when its nonce is the next one and reverts or drops it otherwise (external);
a call wrapped twice acts for another wallet. A deployment
has an effect once, and by a relay needs no nonce of the wallet; what a paying client sends by a Safe
needs the nonce of the Safe, which there is only once it is deployed. `report` is what the caller was told of its
transaction. The nonce of the paying account is `OnchainExecutor`'s and left out here.

**OrderAmounts.** Decimals are integers in a unit: `One` units make 1, a lot is `LotSize` units,
and `Fine` stands for the four decimals that `round_up` leaves to an amount. A product, a
quotient and each addition to a sum of floats is the exact one and an error, in a unit
`Finest` = `Fine * Fine` times finer; the chain of `round_normal`, `round_down` and
`round_up` is modelled by what it does to the result (`Product`, `Quotient`). Nothing is assumed of the size of
the errors of products and quotients; one addition to a sum errs by at most `Ulp`. `AdjustedAmount` is the float that
`adjust_market_buy_amount` returns, which nothing has rounded yet. `MarketPrice` adds up the
book as `calculate_buy_market_price` and `calculate_sell_market_price` do, with errors, so it may
miss a level that is worth just the amount. The reference definitions (`ExactlyAt`,
`LimitOrderExact`, `MarketOrderExact`, `AdjustmentFits`, `PriceReaches`) say what an order must be without
rounding anything, and how far an error of a given size may carry it: not at all if it is
less than the last decimal of `round_up` (`Small`), which that of every result below 10^5 is;
else by `Off(e)` units.

**ClobOrders.** One token, several threads. There is one action per operation; a step ends at a
request. Times are ages: of the cache entry, of the last time a tick size was the market's
(`since`), of an answer on its way. An answer is computed at the server in one step
(`Answered`) and received in another, so threads overtake each other; an entry is stamped
when its answer arrives. `fees` is the moment between the market info of a market order
and its `get_tick_size`, which may find the entry the info stored or another thread's. That the
market info lists the token that was asked for is an assumption about the server. A request whose
caller gave up is in `late` and may still arrive. A cancel of everything, or of a market,
cancels what is live when it is served. `told` is what callers were told of each order.

## 3. Runs

| run | bounds | checks |
|---|---|---|
| `MCLocalOrderBook` | 2 tokens (symmetric), 3 prices, 2 sizes, 5 snapshots, all one-item deltas and some longer | `TypeOK`, `NeverCrossed`, `CachesCoherent`, `NothingOutlivesInvalidate` |
| `MCBookReplication` | 2 tokens, 5 books, 2 frames in flight, 2 changed levels a move | `CaughtUpMeansEqual` |
| `MCConnection` | 3 frames, queue of 2, each policy, one graceful and one forced closer, a callback that may close | `TypeOK`, `InOrderAndOnce`, `NothingUnaccounted`, `ClosedMeansOver`, `FailureStopsUnlessReaderFailed`, `CloseGoesOn`, `KeepsDeliveryPromise` (the refinement), `LostSocketIsReplaced` |
| `MCFeed` | 2 tokens, queue of 2, ages up to 1, 2 monitors, 3 ways of opening | `TypeOK`, `SnapshotOfThisSocket`, `StaleOffersNothing`, `LastSnapshotStands`, `RawFlagAgreesWithStore`, `SilentFeedIsReplaced` |
| `MCSubscriptions` | 2 callers, 2 calls, 2 sockets; a topic of two types, two that share acknowledgements; a server that accepts, refuses, forgets or is silent | `TypeOK`, `ListedIsAskedFor`, `AckOfItsOwnSocket`, `NoSlotOutlivesItsRequest`, `RequestsEnd` |
| `MCClient` | 2 connections, a stream and a real-time one; 2 closes; both clients; 3 of the 4 calls by threads; a callback that may ask | `TypeOK`, `ClosedClientIsOver`, `LiveIsReachable`, `NoCallLost`, `SyncCloseEnds`, `OpenEndsOnceClosed` |
| `MCOnchain` | 2 threads, one faulty, batches of 1 or 2, 3 nonces before an operation starts, one foreign transaction | `TypeOK`, `NoncesIncrease`, `AcceptedIsMinedOrBehindHole` |
| `MCWallet` | all six wallets, 2 threads, 2 transactions, 3 polls | `TypeOK`, `ReportsAreTrue`, `CallsEnd` |
| `MCOrders` | 2 threads and 2 orders (symmetric), 2 tick sizes, `TTL` 2, `Latency` 1, the calls of `MCWorkloads`; the arithmetic over sizes, prices, errors and books in hundredths | `TypeOK`, `PostsAreAsReported`, `AmountsAreExact`, `ResolvedTickIsRecent` |

What they show, beyond the comments at the properties:

- The crossing rule of `_apply_delta` looks only at the cached best price, and clears
  between it and the new quote. `NeverCrossed` and `CachesCoherent` hold together or not
  at all: three prices are enough for a quote that clears one level, clears two,
  or clears one and leaves one. `CaughtUpMeansEqual` adds that clearing never removes
  a level the exchange still has and never leaves one it has removed.
- `MCConnection`: a queue of two holds a frame and a sentinel; with three frames it
  overflows, and overflows again. Two closers are needed for one to cancel what the other
  waits for. `FailureStopsUnlessReaderFailed` records what `ProcessEventError` is worth:
  the connection stops, unless the reader failed as well, whose exception replaces it.
- `MCFeed`: an age of one is one poll without data; two monitors are one of this
  socket and one left by the last.
- `MCSubscriptions`: one reconnect with a call on either side of it, or two calls around
  the startup request, is what each property needs; three sockets were also explored for
  the invariants, without an error. `ListedIsAskedFor` has three exceptions, each needed: a
  call that raised after its frame was sent (`failed`); an `unsubscribe` whose request
  goes out between the connect and the startup request, which then asks again for what is
  being cancelled; an `unsubscribe` whose requests went to two sockets (`raced`). In all
  three the client and the server disagree until the next reconnect.
- `KeepsDeliveryPromise` says that a session ends drained unless the callback or the reader failed,
  the queue overflowed, or somebody closes. The sentinel may itself push the oldest frame
  out of a full queue, which the abstract specification sees as a drop.
- `MCClient`: a `close()` and an `open_*` that overlap need the second epoch, which the second
  close then ends. `LiveIsReachable` is what makes a close of the client complete; its
  exception is a `close()` that was cancelled while it waited: the event is set, so the next
  `close()` returns at once, and nobody ends the connections of the first. `NoCallLost` has
  one exception as well, `late`. `OpenEndsOnceClosed` names the real-time connection that ended
  between its connect and its startup request (`NeverReady`): `open_real_time_data_connection`
  then waits for `_startup_subscriptions_ready`, which nothing sets.
- `MCWallet`: two transactions are enough for two that were built with one nonce. A caller
  that is told "failed" may send again; one that gets any other exception after the
  submission may not conclude anything. The code polls 100 times; three are a first, a middle and a last.
- `MCOrders`: `ResolvedTickIsRecent` is sharp: with `TTL - 2 + Latency` it fails, because an
  answer is stamped when it arrives. The workload of three requests has a post, a cancel and
  one more post of the same orders, answered in any order. Calls that create orders and
  calls that send them share only the signed orders, so the workloads mix them only once. With `LotSize = 10` the sizes,
  prices and both tick sizes leave remainders in every rounding; errors reach both ends of
  what `round_up` absorbs and go beyond, to a whole unit; books have up to three levels,
  with an error of each addition.
- `MCOnchain`: `NoncesIncrease` needs two threads that hold counts read before either took
  its nonce. `HoleBelow` in `AcceptedIsMinedOrBehindHole` says which gaps the client makes:
  nonces burned by a failure or by a base transaction, and no others.

Every property has a mutant in `PROJECT.json`: a plausible slip in one definition,
under which the property fails.

### Disagreements between the code and what it says of itself

Three of them are runs that end in a counterexample.

| run | statement | what the code does |
|---|---|---|
| `MCCloseFromCallback` | README:236, market, real-time and sports sockets "stop quickly" | `close()` awaited by the callback waits for the run task, which waits for the callback (1412, 1512) |
| `MCApprovals` | `web3_client.py:793`, "Set all necessary approvals." | the nonce of the base transaction is never sent, so the first approval waits behind it (1207) |
| `MCBatchWallet` | `web3_client.py:805`, "All approvals set successfully" | the batch of a proxy or Safe wallet is wrapped by `_execute_calls` (1209-1231) and once more by `_execute`: it acts for another wallet, and its receipt is a success |

Five more are stated beside the model they are about, and have no run of their own. TLC finds each
of them violated with the constants named here and a cfg that has only it:

| property | statement | what the code does |
|---|---|---|
| `GracefulCloseDrains`, `ManagedConnection` with `QueueSize = 4`, `{"disconnect"}`, `ErrorPolicy = "log"`, one graceful closer, `Spec` | README:237, `graceful_close()` "drains queued callback events before returning" | `_stop_event` is set first, and the processor leaves after the event in hand (line 1560) |
| `SynchronizedMeansNothingMissed`, `MCMarketFeed` with `Options <- NoStore` | README:242, "tracks whether the local market book state is synchronized after a full snapshot" | the snapshot of one token sets the flag, although another token has none yet or has had frames dropped (1784) |
| `SynchronizedMeansStoreValid`, `MCMarketFeed` with `Options <- ParsedAndStore`, one token | log text at 1792, "synchronization restored from full snapshot" | a snapshot taken late from the queue sets the flag although the store was emptied since (1919) |
| `SubscribingNeverReconnects`, `MCSubscriptions` with `Replies = {"accept"}`, `AnswersInTime = TRUE` | README:253, subscribe and unsubscribe "without reconnecting" | a `subscribe()` while the startup request waits takes over its pending acknowledgement; the startup request times out although the server acknowledged it, and the working socket is torn down (2465) |
| `OpenEndsWithItsConnection`, `MCClient` | README:231, `open_*_connection()` "starts a stream and returns a handle" | a real-time connection that ends before its startup request never returns from `open_real_time_data_connection` |

Met while modelling, without a property: the docstring of `post_order` (`clob_client.py:888-897`)
says that a refused order gives None, and the code raises `OrderPlacementError`; a
market order resolves its tick size before it reads the book, whose answer may bring
another (1256), and rounds to the old one. Of the amounts, with the code's own floats: a FOK of 2.1
against a level of 3 at 0.7 raises "no match", since 3 * 0.7 is 2.0999999999999996
(`builder.py:240-248`); a market BUY of 26597.33 at 0.9999 takes 26599.989999 shares,
10^-6 more than its money pays for, since `round_up` makes a unit of a quotient that is 10^-10 short
of it; a product in the hundreds of thousands can lose a unit (597694.82 at 0.5418 gives
323831.053475); the fee in `adjust_market_buy_amount` is computed at a price that is not
rounded yet, the order at the rounded one. A Safe that is not deployed has no `nonce()`, and
`deploy_safe_wallet` of the paying client goes through `_execute`, which wraps its call for the Safe: a
paying client of signature type 2 cannot deploy its own Safe, others can.

README:249 says that the user socket disconnects on overflow "to avoid silently
dropping user activity"; it does disconnect, but the events in its queue go with it,
uncounted (`EndConnected` cancels the processor). The model shows the step; the hazard
is listed without a property.

## 4. Fairness

`ManagedConnection` `FairSpec`: weak fairness of the run task, of a reader whose socket
has ended, of a processor that has an item, and of waits with a timeout, because the
event loop runs ready tasks and timers. Nothing is assumed of the callback or the
server; so `CloseGoesOn` holds when both hang. `LostSocketIsReplaced` takes as a
hypothesis (`Service`) that callbacks return (weak) and that attempts to connect succeed
again and again if they are made again and again (strong: each attempt may fail
before the next). Both exclude a callback that waits in `close()`, which is the
deadlock of `MCCloseFromCallback`.

`RealTimeSubscriptions` `FairSpec`: composed requests are sent, each wait ends (all have a
timeout), the run task goes on, frames that arrived are dispatched. Nothing is assumed of
the server: `RequestsEnd` holds when it never answers, refuses or forgets. It does not say that a call
ends when its socket is replaced: a server that drops every socket before it answers keeps
`subscribe()` sending for ever (2497-2498).

`SyncWebsocketClient` `FairSpec`: threads run, waits with a timeout end, and the loop runs what
is ready (`Due`, one condition, since each of these steps can be taken a bounded number of
times); a startup request ends unless its socket is lost, which is `RequestsEnd` above. Servers and callbacks may
hang, and `CallbackAsks` may block the loop: `SyncCloseEnds` holds even then, because
`close()` waits for its result, and `stop()` for the thread, with a timeout.

`WalletTransactions` `FairSpec`: each thread goes on, since all requests and waits have
timeouts. Nothing is assumed of relay and chain, which may never execute anything.
`ClobOrders` has no liveness property: each of its waits is one request with a timeout.

`MarketFeed` `FairSpec`: monitors poll, time passes, and a socket that is being closed is
closed after `close_timeout` at the latest. `OnchainExecutor` `FairSpec`: RPCs answer or
fail, waits end, and the chain mines the next nonce if it has it.

## 5. Proofs

| module | theorems | inductive invariant |
|---|---|---|
| `BookReplicationProofs` | `TypeCorrect`, `CachesAlwaysCoherent`, `BookNeverCrossed`, `NothingStale` of the store; `CaughtUpAlwaysEqual` of the replica | `IInv`, the conjunction of the first four; with `ReplicaInv` for the last |
| `ManagedConnectionProofs` | `TypeCorrect`, `DeliveredInOrderAndOnce`, `ClosedConnectionIsOver`, `NoFrameIsLostUnseen`, `FailureStopsForGood`, `DeliversAsPromised` | `TypeOK /\ OrderInv /\ TasksBelongToRun`; with `Accounted`, `FailureOnItsWay` and `SessionInv` for the last three |
| `MarketFeedProofs` | `TypeCorrect`, `SnapshotIsOfThisSocket`, `StaleIsSilent`, `SomeSnapshotStands`, `RawFlagIsStoreBacked` | `TypeOK`, `MonitorInv`, `SnapshotInv`, `EventInv` and the properties |
| `RealTimeSubscriptionsProofs` | `TypeCorrect`, `SlotsAreReleased`, `AcksAreOfTheirSocket`, `ListedIsAskedForAlways` | `TypeOK`, the first two properties, `Shape`, `AnswersTyped`, `NothingYet`, `SlotOfThisSocket`; with `ListInv` for the last |
| `SyncWebsocketClientProofs` | `TypeCorrect`, `ClosedClientStaysOver`, `LiveAlwaysReachable`, `NoCallIsLost` | `Registry` (`AsyncTypeOK`, `Epochs`, `Lists`, `LiveIsReachable`), `ThreadTypes`, `StoppingOrder` |
| `OnchainExecutorProofs` | `TypeCorrect`, `NoncesAlwaysIncrease`, `NoncesNeverCollide` | `TypeOK /\ Working /\ BelowPending /\ NoncesIncrease /\ NoCollision` |
| `WalletTransactionsProofs` | `TypeCorrect`, `ReportsAlwaysTrue` | `TypeOK /\ Working /\ Wrapping /\ ReportsAreTrue` |
| `ClobOrdersProofs` | `TypeCorrect`, `TickSizesAreRecent`, `PostsReportedRight` | `Holds` (`Types`, `Recent`, `Reports`) and `WillTell` |
| | `LimitOrdersAreExact`, `MarketOrdersAreExact`, `AdjustedBuysFit`, `MarketPricesReach`, and from these four `AmountsAlwaysExact` | none: facts about operators of `OrderAmounts`; `TypeOK` for the last |

- *LocalOrderBook*, for any tokens, sizes, snapshots and deltas and any set of prices in which
  every non-empty subset has a least and a greatest element. The only assumption about
  the exchange is that snapshots are not crossed. `NeverCrossed` alone is not inductive:
  clearing starts at the *cached* best price, so coherence of the caches is needed.
- *BookReplication*, for any frames in flight, changed levels and reasons to give up.
  Caught up, store and exchange are equal; in between the store is behind, by frames whose
  diffs are computed between books the exchange has had. `ReplicaInv` therefore says that
  there is a `History` of exchange books, one more than frames in flight: each frame
  `Leads` from its book to the next, the last is the exchange's now, and the store with the
  rest of the delta in hand is `HeadedFor` the first. Applying an item may clear levels
  nobody listed (`_apply_delta`'s crossing rule); `ItemHeads` shows that it then clears only
  levels that the book it is headed for does not have (`BuyEffect`, `SellEffect`).
- *ManagedConnection*, for any number of frames, queue size, set of policies and closers.
  `InOrderAndOnce` speaks of what was delivered; the strengthening `Ordered` puts what is
  queued after that and before what the server sends next. `TasksBelongToRun` says in which
  states of the run task the reader and the processor can be alive; with it "run is
  done" implies that nothing calls the callback. `NothingUnaccounted` is about the sets of frames
  in the queue, delivered and counted: an append adds one, a drop moves one, and
  `EndConnected` ends the session it speaks of. `FailureOnItsWay` follows the exception of a callback through `run`: which exceptions it can still carry, and where.
  `DeliversAsPromised` is the step simulation of `FrameDelivery`: every step of the three
  tasks, of closers and of `run()` is a step of the abstract connection under the mapping, or
  leaves it unchanged. What it takes is `SessionInv`: a session starts with an empty queue, only
  the last item can be its sentinel, and a processor that ended of itself leaves no frame.
- *MarketFeed*, for any tokens, queue size, options, patience of the monitors and number of them.
  The processor raises the flag from a queued `book` frame, so `SnapshotInv` speaks of the
  queue as well. `EventInv` says that without a store only parsed delivery sets the
  flag, and that then the latest frames of some token were understood;
  `MonitorInv`, that a socket that is up has a monitor.
- *SyncWebsocketClient*, for any connections, closes and threads, both clients, any number of
  epochs. `LiveIsReachable` needs to know that every live connection whose event a `close()`
  has set is in the list of that `close()` (`Lists`), and that every event but the client's
  own is set (`Epochs`). `NoCallLost` needs `StoppingOrder`: once the loop shuts down, a call
  that is queued or under way without being cancelled was handed over since `stop()`.
- *WalletTransactions*, for any wallets, threads, batch size and polls. The relation between
  reports and fates is inductive once it is known how often an operation's calls are wrapped
  at each of its requests (`Wrapping`): only a batch of a paying proxy can act elsewhere.
- *ClobOrders*, for any threads, orders, prices, `TTL` and `Latency`. `Recent` relates three
  ages: a fresh entry of age `a` was the market's at most `a + Latency` ago, an answer that
  has travelled `w` at most `w` ago. An order that is in the market and of which nobody was
  told belongs to a call whose answer is on its way and will tell, or leave it open
  (`WillTell`).
- *OrderAmounts*, for any units and tick sizes, any book, any error of a product or a quotient and
  any errors of the additions up to `Ulp`. The theorems say what a given error does to
  an order; that the errors of CPython's floats are as small as the code needs is
  not assumed, and the examples of section 3 show where they are not. `Matched` is a
  recursive function, like the loop it stands for; that it exists, and that it differs from what a limit
  admits (`Admits`, a plain set, which the property counts) by at most an `Ulp` per
  level, is shown by a least counterexample (`LeastNumber`), the induction that needs no
  operator parameter.
- *RealTimeSubscriptions*, for any callers, subscriptions, replies and bounds, with or without the
  two assumptions on delays. Acknowledgements carry no connection; that one is nevertheless
  credited only to a request of its own socket rests on `SlotOfThisSocket`: connecting
  empties the queue, so an acknowledgement in flight answers a request sent on this socket,
  which took the slot when it was sent; whoever holds the slot since then is of this
  socket as well. `StepKeeps` states once what a step of one requester must respect.
  `ListedIsAskedForAlways` is proved under `BackoffOutlastsGrace`, which the code's defaults make
  true (a back-off of 1 s against a grace of 0.2 s and a poll of 10 ms). `ListInv` explains each
  difference between the list and what was sent on this socket: missing is what an `unsubscribe`
  under way is about to remove (`MissingInv`), in surplus what a `subscribe` under way is about to list
  (`SurplusInv`); what an `unsubscribe` has cancelled here nobody asks for again (`CancelledInv`).
  That calls run one at a time (`OneAtATime`) is what makes each difference belong to one call.
- *OnchainExecutor*, for any set of threads, batch size and bounds. `BelowPending` says that
  everything handed out is at most `_pending`: whatever count a thread compares with,
  however old, the nonce it takes is above `_pending`, hence new.

Assumptions are the `ASSUME`s of the modules, which TLC evaluates on each run, and one hypothesis,
`BackoffOutlastsGrace`. Besides the types of the bounds they say: snapshots are not
crossed (LocalOrderBook); the reasons for which the connection empties the store are among its
reasons (`GivenUpAssumption`); `expand()` never yields the type `"*"`, and subscriptions
are records of a topic of the schema (`SubscriptionsAssumption`); a thread is not the run task.

Only model-checked: liveness, which needs fairness (`CloseGoesOn`, `LostSocketIsReplaced`,
`SilentFeedIsReplaced`, `RequestsEnd`, `SyncCloseEnds`, `OpenEndsOnceClosed`,
`AcceptedIsMinedOrBehindHole`, `CallsEnd`). Every other property of a passing run is a theorem.

## 6. Plan

All components with state of their own are modelled, and every property of a passing run that
is not liveness is a theorem. What is left: calls of `subscribe()` from a `process_event`
callback, with the processor that then cannot dispatch the acknowledgement; and the steps
of a liveness argument that are not temporal (which step makes progress, and that none undoes it).
