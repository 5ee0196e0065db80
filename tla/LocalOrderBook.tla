--------------------------- MODULE LocalOrderBook ---------------------------
(***************************************************************************)
(* LocalOrderBookStore: the market book the websocket reader maintains     *)
(* from raw frames, per token, under one re-entrant lock.                  *)
(*                                                                         *)
(* A side of a book is a function from prices to sizes in which size 0     *)
(* stands for "no entry in the dict": the code never stores a zero size.   *)
(* A missing per-token dict and an empty one are the same to every reader, *)
(* so the functions are total on Tokens.                                   *)
(*                                                                         *)
(* Left out: observation times and the update counter, which no guard of   *)
(* the store reads; negative sizes, which the exchange does not send.      *)
(***************************************************************************)
EXTENDS Integers, Sequences

CONSTANTS
    Tokens,          \* asset ids
    Prices,          \* price levels, as multiples of the tick
    Sizes,           \* positive sizes of a level
    Values,          \* tick sizes and last-trade prices
    None,            \* Python's None
    Reasons,         \* arguments of invalidate()
    SnapshotBooks,   \* books a "book" frame may carry, [bids |-> _, asks |-> _]
    DeltaMessages    \* price_changes lists a "price_change" frame may carry

Levels == [Prices -> Sizes \cup {0}]
Empty == [p \in Prices |-> 0]

\* BUY and SELL after upper(); anything else is a side the store skips.
Sides == {"BUY", "SELL", "OTHER"}
Items == [token : Tokens, side : Sides, price : Prices, size : Sizes \cup {0}]

\* The prices present in one side of a book.
Live(levels) == {p \in Prices : levels[p] # 0}

Uncrossed(b, a) == \A p \in Live(b), q \in Live(a) : p <= q

\* Prices are finitely many numbers, so every non-empty set of them has a
\* least and a greatest element.
ASSUME PricesAssumption ==
    /\ Prices \subseteq Int
    /\ None \notin Prices
    /\ \A S \in SUBSET Prices : S # {} =>
          /\ \E lo \in S : \A p \in S : lo <= p
          /\ \E hi \in S : \A p \in S : p <= hi

ASSUME SizesAssumption == Sizes \subseteq Nat \ {0}

ASSUME ReasonsAssumption == None \notin Reasons /\ "awaiting_initial_snapshot" \in Reasons

\* The exchange matches crossing orders before it publishes a book, so a
\* full snapshot is never crossed.
ASSUME SnapshotsAssumption ==
    \A s \in SnapshotBooks :
        /\ s \in [bids : Levels, asks : Levels]
        /\ Uncrossed(s.bids, s.asks)

ASSUME MessagesAssumption == DeltaMessages \subseteq Seq(Items)

VARIABLES
    bids, asks,          \* _bids_by_token, _asks_by_token
    topBids, topAsks,    \* _top_bids_by_token, _top_asks_by_token (two levels)
    bestBid, bestAsk,    \* _best_bid_by_token, _best_ask_by_token
    tick, trade,         \* _tick_size_by_token, _last_trade_price_by_token
    valid,               \* _valid_tokens
    invalidReason,       \* _invalid_reason
    pending              \* items of the delta being applied: the lock is held

levelVars == <<bids, asks, topBids, topAsks, bestBid, bestAsk>>
infoVars  == <<tick, trade>>
bookVars  == <<levelVars, infoVars, valid, invalidReason, pending>>

-----------------------------------------------------------------------------
\* nlargest(2, bids.items()) and nsmallest(2, asks.items()).
Highest(S) == CHOOSE p \in S : \A q \in S : q <= p
Lowest(S)  == CHOOSE p \in S : \A q \in S : p <= q

BestBid(levels) == IF Live(levels) = {} THEN None ELSE Highest(Live(levels))
BestAsk(levels) == IF Live(levels) = {} THEN None ELSE Lowest(Live(levels))

\* The (price, size) pairs at the best price and at the best of the rest.
TopTwo(levels, best, Best2(_)) ==
    IF best = None THEN <<>>
    ELSE LET rest == Live(levels) \ {best} IN
         IF rest = {} THEN << <<best, levels[best]>> >>
         ELSE << <<best, levels[best]>>, <<Best2(rest), levels[Best2(rest)]>> >>

TopBids(levels) == TopTwo(levels, BestBid(levels), Highest)
TopAsks(levels) == TopTwo(levels, BestAsk(levels), Lowest)

\* Mutants of RefreshTopLevels: the best bid of an empty side is 0; the best ask
\* is read before the dict changes.
RefreshBidOrZero(t, b, a) ==
    /\ bids' = [bids EXCEPT ![t] = b]
    /\ asks' = [asks EXCEPT ![t] = a]
    /\ topBids' = [topBids EXCEPT ![t] = TopBids(b)]
    /\ topAsks' = [topAsks EXCEPT ![t] = TopAsks(a)]
    /\ bestBid' = [bestBid EXCEPT ![t] = IF Live(b) = {} THEN 0 ELSE BestBid(b)]
    /\ bestAsk' = [bestAsk EXCEPT ![t] = BestAsk(a)]

RefreshStaleAsk(t, b, a) ==
    /\ bids' = [bids EXCEPT ![t] = b]
    /\ asks' = [asks EXCEPT ![t] = a]
    /\ topBids' = [topBids EXCEPT ![t] = TopBids(b)]
    /\ topAsks' = [topAsks EXCEPT ![t] = TopAsks(a)]
    /\ bestBid' = [bestBid EXCEPT ![t] = BestBid(b)]
    /\ bestAsk' = [bestAsk EXCEPT ![t] = BestAsk(asks[t])]

\* Replace both sides of t and recompute what is cached of them.
RefreshTopLevels(t, b, a) ==
    /\ bids' = [bids EXCEPT ![t] = b]
    /\ asks' = [asks EXCEPT ![t] = a]
    /\ topBids' = [topBids EXCEPT ![t] = TopBids(b)]
    /\ topAsks' = [topAsks EXCEPT ![t] = TopAsks(a)]
    /\ bestBid' = [bestBid EXCEPT ![t] = BestBid(b)]
    /\ bestAsk' = [bestAsk EXCEPT ![t] = BestAsk(a)]

-----------------------------------------------------------------------------
Init ==
    /\ bids = [t \in Tokens |-> Empty]
    /\ asks = [t \in Tokens |-> Empty]
    /\ topBids = [t \in Tokens |-> <<>>]
    /\ topAsks = [t \in Tokens |-> <<>>]
    /\ bestBid = [t \in Tokens |-> None]
    /\ bestAsk = [t \in Tokens |-> None]
    /\ tick = [t \in Tokens |-> None]
    /\ trade = [t \in Tokens |-> None]
    /\ valid = {}
    /\ invalidReason = "awaiting_initial_snapshot"
    /\ pending = <<>>

LockFree == pending = <<>>

\* Forget every token. The connection calls it on (re)connect, on disconnect,
\* on a stale feed and on an unparseable frame.
Invalidate(reason) ==
    /\ LockFree
    /\ bids' = [t \in Tokens |-> Empty]
    /\ asks' = [t \in Tokens |-> Empty]
    /\ topBids' = [t \in Tokens |-> <<>>]
    /\ topAsks' = [t \in Tokens |-> <<>>]
    /\ bestBid' = [t \in Tokens |-> None]
    /\ bestAsk' = [t \in Tokens |-> None]
    /\ tick' = [t \in Tokens |-> None]
    /\ trade' = [t \in Tokens |-> None]
    /\ valid' = {}
    /\ invalidReason' = reason
    /\ UNCHANGED pending

\* A full book for one token; an optional field that is absent keeps its value.
ApplySnapshot(t, s, tickSize, lastTrade) ==
    /\ LockFree
    /\ RefreshTopLevels(t, s.bids, s.asks)
    /\ tick' = IF tickSize = None THEN tick ELSE [tick EXCEPT ![t] = tickSize]
    /\ trade' = IF lastTrade = None THEN trade ELSE [trade EXCEPT ![t] = lastTrade]
    /\ valid' = valid \cup {t}
    /\ invalidReason' = None
    /\ UNCHANGED pending

\* Take the lock and start on a price_changes list.
BeginDelta(msg) ==
    /\ LockFree
    /\ msg # <<>>
    /\ pending' = msg
    /\ UNCHANGED <<levelVars, infoVars, valid, invalidReason>>

\* Mutant of Applicable: a delta may come before its snapshot.
ApplicableUnsnapped(item) == item.side \in {"BUY", "SELL"}

\* Items for tokens without a snapshot, or with an unknown side, are skipped.
Applicable(item) == item.token \in valid /\ item.side \in {"BUY", "SELL"}

SkipItem(item) ==
    /\ ~Applicable(item)
    /\ UNCHANGED levelVars

\* Mutant of ClearedAsks: the best ask itself stays.
ClearedAsksPastBest(t, price) ==
    [q \in Prices |-> IF bestAsk[t] < q /\ q < price THEN 0 ELSE asks[t][q]]

\* A buy above the best ask proves the asks below it are gone.
ClearedAsks(t, price) ==
    [q \in Prices |-> IF bestAsk[t] <= q /\ q < price THEN 0 ELSE asks[t][q]]

ClearedBids(t, price) ==
    [q \in Prices |-> IF price < q /\ q <= bestBid[t] THEN 0 ELSE bids[t][q]]

Crosses(item) ==
    /\ item.size # 0
    /\ IF item.side = "BUY"
       THEN bestAsk[item.token] # None /\ item.price > bestAsk[item.token]
       ELSE bestBid[item.token] # None /\ item.price < bestBid[item.token]

BuyItem(item) ==
    LET t == item.token IN
    /\ Applicable(item) /\ item.side = "BUY"
    /\ RefreshTopLevels(t,
            [bids[t] EXCEPT ![item.price] = item.size],
            IF Crosses(item) THEN ClearedAsks(t, item.price) ELSE asks[t])

SellItem(item) ==
    LET t == item.token IN
    /\ Applicable(item) /\ item.side = "SELL"
    /\ RefreshTopLevels(t,
            IF Crosses(item) THEN ClearedBids(t, item.price) ELSE bids[t],
            [asks[t] EXCEPT ![item.price] = item.size])

\* One turn of _apply_delta's loop, the lock still held.
DeltaItem ==
    /\ pending # <<>>
    /\ \/ SkipItem(Head(pending))
       \/ BuyItem(Head(pending))
       \/ SellItem(Head(pending))
    /\ pending' = Tail(pending)
    /\ UNCHANGED <<infoVars, valid, invalidReason>>

\* Trades and tick changes are recorded for any token, valid or not.
ApplyLastTradePrice(t, price) ==
    /\ LockFree
    /\ trade' = [trade EXCEPT ![t] = price]
    /\ UNCHANGED <<levelVars, tick, valid, invalidReason, pending>>

ApplyTickSizeChange(t, tickSize) ==
    /\ LockFree
    /\ tick' = [tick EXCEPT ![t] = tickSize]
    /\ UNCHANGED <<levelVars, trade, valid, invalidReason, pending>>

ApplyPayload ==
    \/ \E t \in Tokens, s \in SnapshotBooks, tk, lt \in Values \cup {None} :
          ApplySnapshot(t, s, tk, lt)
    \/ \E msg \in DeltaMessages : BeginDelta(msg)
    \/ DeltaItem
    \/ \E t \in Tokens, v \in Values : ApplyLastTradePrice(t, v)
    \/ \E t \in Tokens, v \in Values : ApplyTickSizeChange(t, v)

Next == ApplyPayload \/ \E reason \in Reasons : Invalidate(reason)

Spec == Init /\ [][Next]_bookVars

-----------------------------------------------------------------------------
\* What a caller of the store sees: LocalOrderBookStore.valid, and the book of
\* one token as snapshot(token_id) returns it.
StoreValid == invalidReason = None /\ valid # {}
TokenValid(t) == t \in valid /\ invalidReason = None

\* Every variable has its type; the book sides hold only positive sizes.
TypeOK ==
    /\ bids \in [Tokens -> Levels]
    /\ asks \in [Tokens -> Levels]
    /\ bestBid \in [Tokens -> Prices \cup {None}]
    /\ bestAsk \in [Tokens -> Prices \cup {None}]
    /\ tick \in [Tokens -> Values \cup {None}]
    /\ trade \in [Tokens -> Values \cup {None}]
    /\ valid \in SUBSET Tokens
    /\ invalidReason \in Reasons \cup {None}
    /\ pending \in Seq(Items)

\* After any sequence of snapshots, deltas and invalidations, also between two
\* items of one delta, no bid is above an ask: _apply_delta clears the levels
\* a new quote crosses, and finds them through the cached best prices.
NeverCrossed == \A t \in Tokens : Uncrossed(bids[t], asks[t])

\* The best prices and the top two levels that readers get without looking at
\* the dicts are those of the dicts (_refresh_top_levels runs on every path).
CachesCoherent ==
    /\ topBids = [t \in Tokens |-> TopBids(bids[t])]
    /\ topAsks = [t \in Tokens |-> TopAsks(asks[t])]
    /\ bestBid = [t \in Tokens |-> BestBid(bids[t])]
    /\ bestAsk = [t \in Tokens |-> BestAsk(asks[t])]

\* A token without a snapshot since the last invalidate has no level at all, so
\* a book from before a reconnect is never served; and the store-wide reason is
\* set exactly when no token is valid.
NothingOutlivesInvalidate ==
    /\ \A t \in Tokens \ valid : bids[t] = Empty /\ asks[t] = Empty
    /\ (invalidReason = None) <=> (valid # {})

=============================================================================
