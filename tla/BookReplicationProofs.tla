----------------------- MODULE BookReplicationProofs -----------------------
(***************************************************************************)
(* Theorems about LocalOrderBook and BookReplication for every set of      *)
(* tokens, prices, sizes, snapshots and messages.                          *)
(*                                                                         *)
(* NeverCrossed is not inductive alone: ClearedAsks finds the levels to    *)
(* remove through the cached best price, so the argument needs             *)
(* CachesCoherent, and CachesCoherent needs the sides to be functions on   *)
(* Prices (TypeOK). CaughtUpMeansEqual needs all three: a level that a     *)
(* frame leaves out is cleared only if the best price finds it.            *)
(***************************************************************************)
EXTENDS BookReplication, FiniteSetTheorems, TLAPS

-----------------------------------------------------------------------------
(* Lemmas about the operators.                                             *)

\* The cached best bid of a side is None exactly when the side is empty, and
\* otherwise an element of it that is at least every other.
LEMMA BestBidFacts ==
    ASSUME NEW levels \in Levels
    PROVE  /\ BestBid(levels) \in Prices \cup {None}
           /\ BestBid(levels) = None <=> Live(levels) = {}
           /\ \A p \in Live(levels) : BestBid(levels) # None /\ p <= BestBid(levels)
<1>1. CASE Live(levels) = {}
  BY <1>1 DEF BestBid
<1>2. CASE Live(levels) # {}
  <2>1. Live(levels) \in SUBSET Prices
    BY DEF Live
  <2>2. \E hi \in Live(levels) : \A p \in Live(levels) : p <= hi
    BY <1>2, <2>1, PricesAssumption
  <2>3. /\ Highest(Live(levels)) \in Live(levels)
        /\ \A p \in Live(levels) : p <= Highest(Live(levels))
    BY <2>2 DEF Highest
  <2>4. BestBid(levels) = Highest(Live(levels))
    BY <1>2 DEF BestBid
  <2> QED
    BY <1>2, <2>1, <2>3, <2>4, PricesAssumption
<1> QED
  BY <1>1, <1>2

\* The same of the best ask, which is at most every other.
LEMMA BestAskFacts ==
    ASSUME NEW levels \in Levels
    PROVE  /\ BestAsk(levels) \in Prices \cup {None}
           /\ BestAsk(levels) = None <=> Live(levels) = {}
           /\ \A p \in Live(levels) : BestAsk(levels) # None /\ BestAsk(levels) <= p
<1>1. CASE Live(levels) = {}
  BY <1>1 DEF BestAsk
<1>2. CASE Live(levels) # {}
  <2>1. Live(levels) \in SUBSET Prices
    BY DEF Live
  <2>2. \E lo \in Live(levels) : \A p \in Live(levels) : lo <= p
    BY <1>2, <2>1, PricesAssumption
  <2>3. /\ Lowest(Live(levels)) \in Live(levels)
        /\ \A p \in Live(levels) : Lowest(Live(levels)) <= p
    BY <2>2 DEF Lowest
  <2>4. BestAsk(levels) = Lowest(Live(levels))
    BY <1>2 DEF BestAsk
  <2> QED
    BY <1>2, <2>1, <2>3, <2>4, PricesAssumption
<1> QED
  BY <1>1, <1>2

\* An empty side has no live level, and nothing to cache.
LEMMA EmptyFacts ==
    /\ Empty \in Levels
    /\ Live(Empty) = {}
    /\ BestBid(Empty) = None /\ BestAsk(Empty) = None
    /\ TopBids(Empty) = <<>> /\ TopAsks(Empty) = <<>>
<1>1. Empty \in Levels /\ Live(Empty) = {}
  BY DEF Empty, Levels, Live
<1>2. BestBid(Empty) = None /\ BestAsk(Empty) = None
  BY <1>1 DEF BestBid, BestAsk
<1> QED
  BY <1>1, <1>2 DEF TopBids, TopAsks, TopTwo

-----------------------------------------------------------------------------
(* The state after RefreshTopLevels, whoever calls it.                     *)

IInv == TypeOK /\ CachesCoherent /\ NeverCrossed

\* Replacing the sides of t by any uncrossed pair keeps the book part of the
\* invariant.
LEMMA RefreshKeepsBook ==
    ASSUME IInv, NEW t \in Tokens, NEW b \in Levels, NEW a \in Levels,
           Uncrossed(b, a), RefreshTopLevels(t, b, a)
    PROVE  /\ bids' \in [Tokens -> Levels] /\ asks' \in [Tokens -> Levels]
           /\ bestBid' \in [Tokens -> Prices \cup {None}]
           /\ bestAsk' \in [Tokens -> Prices \cup {None}]
           /\ CachesCoherent'
           /\ NeverCrossed'
<1> USE DEF IInv, RefreshTopLevels
<1>1. bids' \in [Tokens -> Levels] /\ asks' \in [Tokens -> Levels]
  BY DEF TypeOK
<1>2. bestBid' \in [Tokens -> Prices \cup {None}] /\ bestAsk' \in [Tokens -> Prices \cup {None}]
  BY BestBidFacts, BestAskFacts DEF TypeOK
<1>3. NeverCrossed'
  BY DEF TypeOK, NeverCrossed, Uncrossed
<1>4. CachesCoherent'
  <2>1. topBids' = [u \in Tokens |-> TopBids(bids'[u])]
    BY DEF TypeOK, CachesCoherent
  <2>2. topAsks' = [u \in Tokens |-> TopAsks(asks'[u])]
    BY DEF TypeOK, CachesCoherent
  <2>3. bestBid' = [u \in Tokens |-> BestBid(bids'[u])]
    BY DEF TypeOK, CachesCoherent
  <2>4. bestAsk' = [u \in Tokens |-> BestAsk(asks'[u])]
    BY DEF TypeOK, CachesCoherent
  <2> QED
    BY <2>1, <2>2, <2>3, <2>4 DEF CachesCoherent
<1> QED
  BY <1>1, <1>2, <1>3, <1>4

\* A buy of a positive size leaves the two sides uncrossed: the asks below it
\* start at the best ask, so ClearedAsks removes every one of them.
LEMMA BuyUncrosses ==
    ASSUME IInv, NEW item \in Items, Applicable(item), item.side = "BUY",
           NEW b, NEW a,
           b = [bids[item.token] EXCEPT ![item.price] = item.size],
           a = IF Crosses(item) THEN ClearedAsks(item.token, item.price)
                                ELSE asks[item.token]
    PROVE  b \in Levels /\ a \in Levels /\ Uncrossed(b, a)
<1> DEFINE t == item.token
<1>1. /\ t \in Tokens /\ item.price \in Prices /\ item.size \in Sizes \cup {0}
      /\ bids[t] \in Levels /\ asks[t] \in Levels
  BY DEF IInv, TypeOK, Items
<1>2. b \in Levels /\ a \in Levels
  BY <1>1 DEF Levels, ClearedAsks
<1>3. bestAsk[t] = BestAsk(asks[t]) /\ Uncrossed(bids[t], asks[t])
  BY <1>1 DEF IInv, CachesCoherent, NeverCrossed
<1>4. /\ bestAsk[t] \in Prices \cup {None}
      /\ \A q \in Live(asks[t]) : bestAsk[t] # None /\ bestAsk[t] <= q
  BY <1>1, <1>3, BestAskFacts
<1>5. Live(a) \subseteq Live(asks[t])
  BY <1>1 DEF Live, ClearedAsks
<1>6. ASSUME NEW p \in Live(b), NEW q \in Live(a) PROVE p <= q
  <2>1. p \in Prices /\ q \in Prices /\ q \in Live(asks[t])
    BY <1>5 DEF Live
  <2>2. CASE p # item.price \/ item.size = 0
    <3>1. p \in Live(bids[t])
      BY <1>1, <2>1, <2>2 DEF Live, Levels
    <3> QED
      BY <1>3, <2>1, <3>1 DEF Uncrossed
  <2>3. CASE p = item.price /\ item.size # 0 /\ Crosses(item)
    <3>1. a[q] = IF bestAsk[t] <= q /\ q < item.price THEN 0 ELSE asks[t][q]
      BY <2>1, <2>3 DEF ClearedAsks
    <3>2. ~(bestAsk[t] <= q /\ q < item.price)
      BY <3>1 DEF Live
    <3> QED
      BY <1>4, <2>1, <2>3, <3>2, PricesAssumption
  <2>4. CASE p = item.price /\ item.size # 0 /\ ~Crosses(item)
    <3>1. bestAsk[t] # None /\ bestAsk[t] <= q
      BY <1>4, <2>1
    <3>2. ~(item.price > bestAsk[t])
      BY <2>4, <3>1 DEF Crosses
    <3> QED
      BY <1>4, <2>1, <2>4, <3>1, <3>2, PricesAssumption
  <2> QED
    BY <2>2, <2>3, <2>4
<1> QED
  BY <1>2, <1>6 DEF Uncrossed

\* The mirror image for a sell.
LEMMA SellUncrosses ==
    ASSUME IInv, NEW item \in Items, Applicable(item), item.side = "SELL",
           NEW b, NEW a,
           b = IF Crosses(item) THEN ClearedBids(item.token, item.price)
                                ELSE bids[item.token],
           a = [asks[item.token] EXCEPT ![item.price] = item.size]
    PROVE  b \in Levels /\ a \in Levels /\ Uncrossed(b, a)
<1> DEFINE t == item.token
<1>1. /\ t \in Tokens /\ item.price \in Prices /\ item.size \in Sizes \cup {0}
      /\ bids[t] \in Levels /\ asks[t] \in Levels
  BY DEF IInv, TypeOK, Items
<1>2. b \in Levels /\ a \in Levels
  BY <1>1 DEF Levels, ClearedBids
<1>3. bestBid[t] = BestBid(bids[t]) /\ Uncrossed(bids[t], asks[t])
  BY <1>1 DEF IInv, CachesCoherent, NeverCrossed
<1>4. /\ bestBid[t] \in Prices \cup {None}
      /\ \A p \in Live(bids[t]) : bestBid[t] # None /\ p <= bestBid[t]
  BY <1>1, <1>3, BestBidFacts
<1>5. Live(b) \subseteq Live(bids[t])
  BY <1>1 DEF Live, ClearedBids
<1>6. ASSUME NEW p \in Live(b), NEW q \in Live(a) PROVE p <= q
  <2>1. p \in Prices /\ q \in Prices /\ p \in Live(bids[t])
    BY <1>5 DEF Live
  <2>2. CASE q # item.price \/ item.size = 0
    <3>1. q \in Live(asks[t])
      BY <1>1, <2>1, <2>2 DEF Live, Levels
    <3> QED
      BY <1>3, <2>1, <3>1 DEF Uncrossed
  <2>3. CASE q = item.price /\ item.size # 0 /\ Crosses(item)
    <3>1. b[p] = IF item.price < p /\ p <= bestBid[t] THEN 0 ELSE bids[t][p]
      BY <2>1, <2>3 DEF ClearedBids
    <3>2. ~(item.price < p /\ p <= bestBid[t])
      BY <3>1 DEF Live
    <3> QED
      BY <1>4, <2>1, <2>3, <3>2, PricesAssumption
  <2>4. CASE q = item.price /\ item.size # 0 /\ ~Crosses(item)
    <3>1. bestBid[t] # None /\ p <= bestBid[t]
      BY <1>4, <2>1
    <3>2. ~(item.price < bestBid[t])
      BY <2>4, <3>1 DEF Crosses
    <3> QED
      BY <1>4, <2>1, <2>4, <3>1, <3>2, PricesAssumption
  <2> QED
    BY <2>2, <2>3, <2>4
<1> QED
  BY <1>2, <1>6 DEF Uncrossed
-----------------------------------------------------------------------------
(* Preservation, one step per action.                                      *)

LEMMA InitIInv == Init => IInv
<1> SUFFICES ASSUME Init PROVE IInv
  OBVIOUS
<1>1. TypeOK
  BY EmptyFacts, ReasonsAssumption DEF Init, TypeOK
<1>2. CachesCoherent
  BY EmptyFacts DEF Init, CachesCoherent
<1>3. NeverCrossed
  BY EmptyFacts DEF Init, NeverCrossed, Uncrossed
<1> QED
  BY <1>1, <1>2, <1>3 DEF IInv

LEMMA SnapshotIInv ==
    ASSUME IInv, NEW t \in Tokens, NEW s \in SnapshotBooks,
           NEW tk \in Values \cup {None}, NEW lt \in Values \cup {None},
           ApplySnapshot(t, s, tk, lt)
    PROVE  IInv'
<1>1. s.bids \in Levels /\ s.asks \in Levels /\ Uncrossed(s.bids, s.asks)
  BY SnapshotsAssumption
<1>2. RefreshTopLevels(t, s.bids, s.asks)
  BY DEF ApplySnapshot
<1>3. /\ bids' \in [Tokens -> Levels] /\ asks' \in [Tokens -> Levels]
      /\ bestBid' \in [Tokens -> Prices \cup {None}]
      /\ bestAsk' \in [Tokens -> Prices \cup {None}]
      /\ CachesCoherent' /\ NeverCrossed'
  BY <1>1, <1>2, RefreshKeepsBook
<1>4. /\ tick' \in [Tokens -> Values \cup {None}]
      /\ trade' \in [Tokens -> Values \cup {None}]
      /\ valid' \in SUBSET Tokens
      /\ invalidReason' \in Reasons \cup {None}
      /\ pending' \in Seq(Items)
  BY DEF ApplySnapshot, IInv, TypeOK
<1> QED
  BY <1>3, <1>4 DEF IInv, TypeOK

LEMMA BeginIInv ==
    ASSUME IInv, NEW msg \in Seq(Items), BeginDelta(msg)
    PROVE  IInv'
BY DEF BeginDelta, IInv, TypeOK, CachesCoherent, NeverCrossed, levelVars, infoVars

LEMMA ItemIInv ==
    ASSUME IInv, DeltaItem
    PROVE  IInv'
<1> DEFINE item == Head(pending)
<1>1. item \in Items /\ pending' \in Seq(Items)
  BY DEF DeltaItem, IInv, TypeOK
<1>2. UNCHANGED <<infoVars, valid, invalidReason>>
  BY DEF DeltaItem
<1>3. CASE SkipItem(item)
  BY <1>1, <1>2, <1>3 DEF SkipItem, IInv, TypeOK, CachesCoherent,
                          NeverCrossed, levelVars, infoVars
<1>4. ASSUME NEW b \in Levels, NEW a \in Levels, Uncrossed(b, a),
             RefreshTopLevels(item.token, b, a)
      PROVE  IInv'
  <2>1. item.token \in Tokens
    BY <1>1 DEF Items
  <2>2. /\ bids' \in [Tokens -> Levels] /\ asks' \in [Tokens -> Levels]
        /\ bestBid' \in [Tokens -> Prices \cup {None}]
        /\ bestAsk' \in [Tokens -> Prices \cup {None}]
        /\ CachesCoherent' /\ NeverCrossed'
    BY <1>4, <2>1, RefreshKeepsBook
  <2> QED
    BY <1>1, <1>2, <2>2 DEF IInv, TypeOK, infoVars
<1>5. CASE BuyItem(item)
  BY <1>1, <1>4, <1>5, BuyUncrosses DEF BuyItem
<1>6. CASE SellItem(item)
  BY <1>1, <1>4, <1>6, SellUncrosses DEF SellItem
<1> QED
  BY <1>3, <1>5, <1>6 DEF DeltaItem

LEMMA InvalidateIInv ==
    ASSUME IInv, NEW reason \in Reasons, Invalidate(reason)
    PROVE  IInv'
<1>1. TypeOK'
  BY EmptyFacts DEF Invalidate, IInv, TypeOK
<1>2. CachesCoherent'
  BY EmptyFacts DEF Invalidate, CachesCoherent
<1>3. NeverCrossed'
  BY EmptyFacts DEF Invalidate, NeverCrossed, Uncrossed
<1> QED
  BY <1>1, <1>2, <1>3 DEF IInv

LEMMA StutterIInv == IInv /\ UNCHANGED bookVars => IInv'
BY DEF bookVars, levelVars, infoVars, IInv, TypeOK, CachesCoherent, NeverCrossed

LEMMA NextIInv == IInv /\ [Next]_bookVars => IInv'
<1> SUFFICES ASSUME IInv, [Next]_bookVars PROVE IInv'
  OBVIOUS
<1>1. ASSUME NEW msg \in DeltaMessages, BeginDelta(msg) PROVE IInv'
  BY <1>1, BeginIInv, MessagesAssumption
<1>2. ASSUME NEW t \in Tokens, NEW v \in Values, ApplyLastTradePrice(t, v) PROVE IInv'
  BY <1>2 DEF ApplyLastTradePrice, IInv, TypeOK, CachesCoherent, NeverCrossed, levelVars
<1>3. ASSUME NEW t \in Tokens, NEW v \in Values, ApplyTickSizeChange(t, v) PROVE IInv'
  BY <1>3 DEF ApplyTickSizeChange, IInv, TypeOK, CachesCoherent, NeverCrossed, levelVars
<1> QED
  BY <1>1, <1>2, <1>3, SnapshotIInv, ItemIInv, InvalidateIInv, StutterIInv DEF Next, ApplyPayload

\* In every reachable state, for all values of the constants: every variable
\* has its type, ...
THEOREM TypeCorrect == Spec => []TypeOK
<1>1. Init => IInv
  BY InitIInv
<1>2. IInv /\ [Next]_bookVars => IInv'
  BY NextIInv
<1>3. IInv => TypeOK
  BY DEF IInv
<1> QED
  BY <1>1, <1>2, <1>3, PTL DEF Spec

\* ... the cached best prices and top levels are those of the dicts, ...
THEOREM CachesAlwaysCoherent == Spec => []CachesCoherent
<1>1. IInv => CachesCoherent
  BY DEF IInv
<1> QED
  BY <1>1, InitIInv, NextIInv, PTL DEF Spec

\* ... and no bid of a token is above one of its asks, whatever list of changes
\* a price_change frame carries and in whatever order.
THEOREM BookNeverCrossed == Spec => []NeverCrossed
<1>1. IInv => NeverCrossed
  BY DEF IInv
<1> QED
  BY <1>1, InitIInv, NextIInv, PTL DEF Spec

-----------------------------------------------------------------------------
\* NothingOutlivesInvalidate is inductive with the type of valid and the sides.
\* A token that had no snapshot since the last invalidate() has no level.
THEOREM NothingStale == Spec => []NothingOutlivesInvalidate
<1> DEFINE I == TypeOK /\ NothingOutlivesInvalidate
<1>1. Init => I
  BY InitIInv, ReasonsAssumption DEF IInv, Init, NothingOutlivesInvalidate
<1>2. TypeOK /\ TypeOK' /\ NothingOutlivesInvalidate /\ [Next]_bookVars
        => NothingOutlivesInvalidate'
  <2> SUFFICES ASSUME TypeOK, NothingOutlivesInvalidate, [Next]_bookVars
               PROVE  NothingOutlivesInvalidate'
    OBVIOUS
  <2> USE DEF TypeOK, NothingOutlivesInvalidate
  <2>1. ASSUME NEW t \in Tokens, NEW s \in SnapshotBooks,
               NEW tk \in Values \cup {None}, NEW lt \in Values \cup {None},
               ApplySnapshot(t, s, tk, lt)
        PROVE  NothingOutlivesInvalidate'
    BY <2>1 DEF ApplySnapshot, RefreshTopLevels
  <2>2. ASSUME NEW msg \in DeltaMessages, BeginDelta(msg)
        PROVE  NothingOutlivesInvalidate'
    BY <2>2 DEF BeginDelta, levelVars
  <2>3. CASE DeltaItem
    BY <2>3 DEF DeltaItem, SkipItem, BuyItem, SellItem, Applicable,
                RefreshTopLevels, levelVars
  <2>4. ASSUME NEW t \in Tokens, NEW v \in Values,
               ApplyLastTradePrice(t, v) \/ ApplyTickSizeChange(t, v)
        PROVE  NothingOutlivesInvalidate'
    BY <2>4 DEF ApplyLastTradePrice, ApplyTickSizeChange, levelVars
  <2>5. ASSUME NEW reason \in Reasons, Invalidate(reason)
        PROVE  NothingOutlivesInvalidate'
    BY <2>5, ReasonsAssumption DEF Invalidate
  <2>6. CASE UNCHANGED bookVars
    BY <2>6 DEF bookVars, levelVars
  <2> QED
    BY <2>1, <2>2, <2>3, <2>4, <2>5, <2>6 DEF Next, ApplyPayload
<1> QED
  BY <1>1, <1>2, TypeCorrect, PTL DEF Spec

-----------------------------------------------------------------------------
(* The replica. What is on the socket is a history of the exchange's books *)
(* that ends in the market: frame i leads from book i to book i + 1, and   *)
(* the store, once it has applied what is pending, holds the first.        *)

MarketBooks == [Tokens -> SnapshotBooks]

\* Once applied, the item of a frame for new leaves level l as it is in new: it
\* names the level, or a quote that trades through it.
Settles(item, l, new) ==
    \/ item = ChangeItem(new, l)
    \/ \E k \in Level : item = ChangeItem(new, k) /\ TradesThrough(new, k, l)

\* A list of items for new that settles the levels in S.
Announces(items, S, new) ==
    /\ items \in Seq(Items)
    /\ \A i \in 1..Len(items) : \E k \in Level : items[i] = ChangeItem(new, k)
    /\ \A l \in S : \E i \in 1..Len(items) : Settles(items[i], l, new)

Stored(l) == IF l.side = "BUY" THEN bids[l.token][l.price] ELSE asks[l.token][l.price]

\* What the store holds of valid tokens and is not in m will be settled.
HeadedFor(m) ==
    Announces(pending, {l \in Level : l.token \in valid /\ Stored(l) # SizeAt(m, l)}, m)

Frames ==
    [kind : {"book"}, token : Tokens, book : SnapshotBooks]
    \cup [kind : {"price_change"}, items : Seq(Items)]

Leads(frame, old, new) ==
    \/ frame.kind = "book" /\ new = old /\ frame.book = new[frame.token]
    \/ frame.kind = "price_change" /\ Announces(frame.items, Changed(old, new), new)

History(hist) ==
    /\ hist \in Seq(MarketBooks)
    /\ Len(hist) = Len(wire) + 1
    /\ hist[Len(hist)] = market
    /\ \A i \in 1..Len(wire) : Leads(wire[i], hist[i], hist[i + 1])
    /\ HeadedFor(hist[1])

ReplicaInv ==
    /\ IInv
    /\ market \in MarketBooks
    /\ wire \in Seq(Frames)
    /\ conn \in {"up", "down", "lost"}
    /\ conn # "up" => wire = <<>> /\ pending = <<>>
    /\ conn = "up" => \E hist : History(hist)

-----------------------------------------------------------------------------
(* Levels and lists of changes.                                            *)

LEMMA LevelFacts ==
    ASSUME NEW l \in Level
    PROVE  l.token \in Tokens /\ l.side \in {"BUY", "SELL"} /\ l.price \in Prices
BY DEF Level

LEMMA MarketFacts ==
    ASSUME NEW m \in MarketBooks, NEW t \in Tokens
    PROVE  /\ m[t].bids \in Levels /\ m[t].asks \in Levels /\ Uncrossed(m[t].bids, m[t].asks)
           /\ m[t] = [bids |-> m[t].bids, asks |-> m[t].asks]
BY SnapshotsAssumption DEF MarketBooks

LEMMA SizeFacts ==
    ASSUME NEW m \in MarketBooks, NEW l \in Level
    PROVE  SizeAt(m, l) \in Sizes \cup {0} /\ ChangeItem(m, l) \in Items
<1>1. SizeAt(m, l) \in Sizes \cup {0}
  <2>1. l.token \in Tokens /\ l.price \in Prices
    BY LevelFacts
  <2>2. m[l.token].bids \in Levels /\ m[l.token].asks \in Levels
    BY <2>1, MarketFacts
  <2> QED
    BY <2>1, <2>2 DEF SizeAt, Levels
<1> QED
  BY <1>1, LevelFacts DEF ChangeItem, Items, Sides

\* A level that a quote of an uncrossed book trades through is empty in it.
LEMMA TradedThroughIsEmpty ==
    ASSUME NEW m \in MarketBooks, NEW k \in Level, NEW l \in Level, TradesThrough(m, k, l)
    PROVE  SizeAt(m, l) = 0
<1>1. k.token = l.token /\ k.side # l.side /\ SizeAt(m, k) # 0
      /\ (IF k.side = "BUY" THEN k.price > l.price ELSE k.price < l.price)
  BY DEF TradesThrough
<1>2. Uncrossed(m[l.token].bids, m[l.token].asks) /\ k.price \in Int /\ l.price \in Int
      /\ k.price \in Prices /\ l.price \in Prices
  BY LevelFacts, MarketFacts, PricesAssumption
<1>3. CASE k.side = "BUY"
  BY <1>1, <1>2, <1>3, LevelFacts DEF Uncrossed, Live, SizeAt
<1>4. CASE k.side = "SELL"
  BY <1>1, <1>2, <1>4, LevelFacts DEF Uncrossed, Live, SizeAt
<1> QED
  BY <1>3, <1>4, LevelFacts

\* An enumeration of a finite set misses none of it.
LEMMA Enumerated ==
    ASSUME NEW S, IsFiniteSet(S), NEW f \in SetToSeqs(S)
    PROVE  f \in Seq(S) /\ \A x \in S : \E i \in 1..Len(f) : f[i] = x
<1> DEFINE D == 1..Cardinality(S)
<1>1. Cardinality(S) \in Nat
  BY FS_CardinalityType
<1>2. f \in [D -> S] /\ \A i, j \in D : i # j => f[i] # f[j]
  BY DEF SetToSeqs
<1>3. f \in Injection(D, S)
  BY <1>2 DEF Injection, IsInjective
<1>4. Cardinality(D) = Cardinality(S)
  BY <1>1, FS_Interval
<1>5. f \in Surjection(D, S)
  BY <1>3, <1>4, FS_Injection
<1>6. f \in Seq(S) /\ Len(f) = Cardinality(S)
  BY <1>1, <1>2
<1> QED
  BY <1>5, <1>6 DEF Surjection

LEMMA ListingAnnounces ==
    ASSUME NEW old \in MarketBooks, NEW new \in MarketBooks, IsFiniteSet(Changed(old, new)),
           NEW items \in PriceChanges(old, new)
    PROVE  Announces(items, Changed(old, new), new)
<1>1. PICK L \in Listings(old, new) : items \in SetToSeqs({ChangeItem(new, l) : l \in L})
  BY DEF PriceChanges
<1> DEFINE S == {ChangeItem(new, l) : l \in L}
<1>2. /\ L \subseteq Changed(old, new) /\ L \subseteq Level
      /\ \A l \in Changed(old, new) \ L : \E k \in L : TradesThrough(new, k, l)
  BY DEF Listings, Changed
<1>3. IsFiniteSet(S)
  <2>1. IsFiniteSet(L)
    BY <1>2, FS_Subset
  <2> DEFINE f == [l \in L |-> ChangeItem(new, l)]
  <2>2. f \in Surjection(L, S)
    BY DEF Surjection
  <2> HIDE DEF f, S
  <2> QED
    BY <2>1, <2>2, FS_Surjection
<1>4. S \subseteq Items
  BY <1>2, SizeFacts
<1>5. items \in Seq(S) /\ \A x \in S : \E i \in 1..Len(items) : items[i] = x
  BY <1>1, <1>3, Enumerated
<1>6. items \in Seq(Items) /\ \A i \in 1..Len(items) : items[i] \in S
  BY <1>4, <1>5
<1>7. \A i \in 1..Len(items) : \E k \in Level : items[i] = ChangeItem(new, k)
  BY <1>2, <1>6
<1>8. ASSUME NEW l \in Changed(old, new)
      PROVE  \E i \in 1..Len(items) : Settles(items[i], l, new)
  <2>1. CASE l \in L
    BY <2>1, <1>5 DEF Settles
  <2>2. CASE l \notin L
    <3>1. PICK k \in L : TradesThrough(new, k, l)
      BY <2>2, <1>2, <1>8
    <3>2. PICK i \in 1..Len(items) : items[i] = ChangeItem(new, k)
      BY <1>5
    <3> QED
      BY <1>2, <3>1, <3>2 DEF Settles
  <2> QED
    BY <2>1, <2>2
<1> QED
  BY <1>6, <1>7, <1>8 DEF Announces

-----------------------------------------------------------------------------
(* One turn of _apply_delta's loop.                                        *)

SameLevel(k, l) == k.token = l.token /\ k.side = l.side /\ k.price = l.price

\* What the item of level k does to level l.
Effect(m, k, l) ==
    /\ SameLevel(k, l) => Stored(l)' = SizeAt(m, l)
    /\ TradesThrough(m, k, l) => Stored(l)' = 0
    /\ ~SameLevel(k, l) /\ ~TradesThrough(m, k, l) => Stored(l)' = Stored(l)

LEMMA ItemIs ==
    ASSUME NEW m, NEW k
    PROVE  /\ ChangeItem(m, k).token = k.token /\ ChangeItem(m, k).side = k.side
           /\ ChangeItem(m, k).price = k.price /\ ChangeItem(m, k).size = SizeAt(m, k)
BY DEF ChangeItem

\* A buy above the best ask clears every ask below it, and no other.
LEMMA BuyEffect ==
    ASSUME IInv, NEW m \in MarketBooks, NEW k \in Level, NEW l \in Level,
           k.side = "BUY", BuyItem(ChangeItem(m, k))
    PROVE  Effect(m, k, l)
<1> DEFINE t == k.token
           item == ChangeItem(m, k)
           b == [bids[t] EXCEPT ![k.price] = SizeAt(m, k)]
           a == IF Crosses(item) THEN ClearedAsks(t, k.price) ELSE asks[t]
<1>1. /\ t \in Tokens /\ k.price \in Prices /\ l.token \in Tokens /\ l.price \in Prices
      /\ l.side \in {"BUY", "SELL"} /\ k.price \in Int /\ l.price \in Int
  BY LevelFacts, PricesAssumption
<1>2. bids[t] \in Levels /\ asks[t] \in Levels /\ bids \in [Tokens -> Levels] /\ asks \in [Tokens -> Levels]
  BY <1>1 DEF IInv, TypeOK
<1>3. bids' = [bids EXCEPT ![t] = b] /\ asks' = [asks EXCEPT ![t] = a]
  BY ItemIs DEF BuyItem, RefreshTopLevels
<1>4. Crosses(item) <=> SizeAt(m, k) # 0 /\ bestAsk[t] # None /\ k.price > bestAsk[t]
  BY ItemIs DEF Crosses
<1>5. bestAsk[t] = BestAsk(asks[t])
  BY <1>1 DEF IInv, CachesCoherent
<1>6. /\ bestAsk[t] \in Prices \cup {None}
      /\ \A q \in Live(asks[t]) : bestAsk[t] # None /\ bestAsk[t] <= q
  BY <1>2, <1>5, BestAskFacts
<1> HIDE DEF a, b
<1>7. CASE l.token # t
  BY <1>1, <1>2, <1>3, <1>7 DEF Effect, SameLevel, TradesThrough, Stored
<1>8. CASE l.token = t /\ l.side = "BUY"
  <2>1. bids'[t] = b
    BY <1>1, <1>2, <1>3
  <2>2. b[l.price] = IF l.price = k.price THEN SizeAt(m, k) ELSE bids[t][l.price]
    BY <1>1, <1>2 DEF b, Levels
  <2>3. SameLevel(k, l) => SizeAt(m, k) = SizeAt(m, l)
    BY DEF SameLevel, SizeAt
  <2> QED
    BY <1>8, <2>1, <2>2, <2>3 DEF Effect, SameLevel, TradesThrough, Stored
<1>9. CASE l.token = t /\ l.side = "SELL"
  <2>1. asks'[t] = a
    BY <1>1, <1>2, <1>3
  <2>2. Crosses(item) =>
          a[l.price] = IF bestAsk[t] <= l.price /\ l.price < k.price THEN 0 ELSE asks[t][l.price]
    BY <1>1 DEF a, ClearedAsks
  <2>3. ~Crosses(item) => a[l.price] = asks[t][l.price]
    BY DEF a
  <2>4. TradesThrough(m, k, l) <=> SizeAt(m, k) # 0 /\ k.price > l.price
    BY <1>9 DEF TradesThrough
  <2>5. Stored(l)' = a[l.price] /\ Stored(l) = asks[t][l.price] /\ ~SameLevel(k, l)
    BY <1>9, <2>1 DEF Stored, SameLevel
  <2>6. CASE TradesThrough(m, k, l)
    <3>1. CASE asks[t][l.price] = 0
      BY <3>1, <2>2, <2>3, <2>5, <2>6 DEF Effect
    <3>2. CASE asks[t][l.price] # 0
      <4>1. l.price \in Live(asks[t])
        BY <3>2, <1>1 DEF Live
      <4>2. bestAsk[t] # None /\ bestAsk[t] <= l.price /\ bestAsk[t] \in Int
        BY <4>1, <1>6, PricesAssumption
      <4>3. l.price < k.price /\ k.price > bestAsk[t]
        BY <4>2, <2>4, <2>6, <1>1
      <4>4. a[l.price] = 0
        BY <4>2, <4>3, <2>2, <2>4, <2>6, <1>4
      <4> QED
        BY <4>4, <2>5, <2>6 DEF Effect
    <3> QED
      BY <3>1, <3>2
  <2>7. CASE ~TradesThrough(m, k, l)
    <3>1. Crosses(item) => ~(l.price < k.price)
      BY <2>4, <2>7, <1>4, <1>1
    <3>2. a[l.price] = asks[t][l.price]
      BY <3>1, <2>2, <2>3
    <3> QED
      BY <3>2, <2>5, <2>7 DEF Effect
  <2> QED
    BY <2>6, <2>7
<1> QED
  BY <1>1, <1>7, <1>8, <1>9

\* The mirror image for a sell.
LEMMA SellEffect ==
    ASSUME IInv, NEW m \in MarketBooks, NEW k \in Level, NEW l \in Level,
           k.side = "SELL", SellItem(ChangeItem(m, k))
    PROVE  Effect(m, k, l)
<1> DEFINE t == k.token
           item == ChangeItem(m, k)
           b == IF Crosses(item) THEN ClearedBids(t, k.price) ELSE bids[t]
           a == [asks[t] EXCEPT ![k.price] = SizeAt(m, k)]
<1>1. /\ t \in Tokens /\ k.price \in Prices /\ l.token \in Tokens /\ l.price \in Prices
      /\ l.side \in {"BUY", "SELL"} /\ k.price \in Int /\ l.price \in Int
  BY LevelFacts, PricesAssumption
<1>2. bids[t] \in Levels /\ asks[t] \in Levels /\ bids \in [Tokens -> Levels] /\ asks \in [Tokens -> Levels]
  BY <1>1 DEF IInv, TypeOK
<1>3. bids' = [bids EXCEPT ![t] = b] /\ asks' = [asks EXCEPT ![t] = a]
  BY ItemIs DEF SellItem, RefreshTopLevels
<1>4. Crosses(item) <=> SizeAt(m, k) # 0 /\ bestBid[t] # None /\ k.price < bestBid[t]
  BY ItemIs DEF Crosses
<1>5. bestBid[t] = BestBid(bids[t])
  BY <1>1 DEF IInv, CachesCoherent
<1>6. /\ bestBid[t] \in Prices \cup {None}
      /\ \A q \in Live(bids[t]) : bestBid[t] # None /\ q <= bestBid[t]
  BY <1>2, <1>5, BestBidFacts
<1> HIDE DEF a, b
<1>7. CASE l.token # t
  BY <1>1, <1>2, <1>3, <1>7 DEF Effect, SameLevel, TradesThrough, Stored
<1>8. CASE l.token = t /\ l.side = "SELL"
  <2>1. asks'[t] = a
    BY <1>1, <1>2, <1>3
  <2>2. a[l.price] = IF l.price = k.price THEN SizeAt(m, k) ELSE asks[t][l.price]
    BY <1>1, <1>2 DEF a, Levels
  <2>3. SameLevel(k, l) => SizeAt(m, k) = SizeAt(m, l)
    BY DEF SameLevel, SizeAt
  <2> QED
    BY <1>8, <2>1, <2>2, <2>3 DEF Effect, SameLevel, TradesThrough, Stored
<1>9. CASE l.token = t /\ l.side = "BUY"
  <2>1. bids'[t] = b
    BY <1>1, <1>2, <1>3
  <2>2. Crosses(item) =>
          b[l.price] = IF k.price < l.price /\ l.price <= bestBid[t] THEN 0 ELSE bids[t][l.price]
    BY <1>1 DEF b, ClearedBids
  <2>3. ~Crosses(item) => b[l.price] = bids[t][l.price]
    BY DEF b
  <2>4. TradesThrough(m, k, l) <=> SizeAt(m, k) # 0 /\ k.price < l.price
    BY <1>9 DEF TradesThrough
  <2>5. Stored(l)' = b[l.price] /\ Stored(l) = bids[t][l.price] /\ ~SameLevel(k, l)
    BY <1>9, <2>1 DEF Stored, SameLevel
  <2>6. CASE TradesThrough(m, k, l)
    <3>1. CASE bids[t][l.price] = 0
      BY <3>1, <2>2, <2>3, <2>5, <2>6 DEF Effect
    <3>2. CASE bids[t][l.price] # 0
      <4>1. l.price \in Live(bids[t])
        BY <3>2, <1>1 DEF Live
      <4>2. bestBid[t] # None /\ l.price <= bestBid[t] /\ bestBid[t] \in Int
        BY <4>1, <1>6, PricesAssumption
      <4>3. k.price < l.price /\ k.price < bestBid[t]
        BY <4>2, <2>4, <2>6, <1>1
      <4>4. b[l.price] = 0
        BY <4>2, <4>3, <2>2, <2>4, <2>6, <1>4
      <4> QED
        BY <4>4, <2>5, <2>6 DEF Effect
    <3> QED
      BY <3>1, <3>2
  <2>7. CASE ~TradesThrough(m, k, l)
    <3>1. Crosses(item) => ~(k.price < l.price)
      BY <2>4, <2>7, <1>4, <1>1
    <3>2. b[l.price] = bids[t][l.price]
      BY <3>1, <2>2, <2>3
    <3> QED
      BY <3>2, <2>5, <2>7 DEF Effect
  <2> QED
    BY <2>6, <2>7
<1> QED
  BY <1>1, <1>7, <1>8, <1>9

\* An item settles what it names and what it trades through; what is left of
\* the frame settles the rest.
LEMMA ItemHeads ==
    ASSUME IInv, NEW m \in MarketBooks, HeadedFor(m), DeltaItem
    PROVE  HeadedFor(m)'
<1>1. pending # <<>> /\ pending' = Tail(pending) /\ valid' = valid /\ pending \in Seq(Items)
  BY DEF DeltaItem, IInv, TypeOK
<1>2. /\ pending' \in Seq(Items) /\ Len(pending') = Len(pending) - 1 /\ Len(pending) \in Nat \ {0}
      /\ \A i \in 1..Len(pending') : i + 1 \in 1..Len(pending) /\ pending'[i] = pending[i + 1]
      /\ Head(pending) = pending[1] /\ 1 \in 1..Len(pending)
  BY <1>1
<1>3. PICK k \in Level : pending[1] = ChangeItem(m, k)
  BY <1>2 DEF HeadedFor, Announces
<1>4. \A i \in 2..Len(pending) : i - 1 \in 1..Len(pending') /\ pending'[i - 1] = pending[i]
  <2> TAKE i \in 2..Len(pending)
  <2>1. i - 1 \in 1..Len(pending') /\ (i - 1) + 1 = i
    BY <1>2
  <2> QED
    BY <1>2, <2>1
<1>5. \A i \in 1..Len(pending') : \E j \in Level : pending'[i] = ChangeItem(m, j)
  BY <1>2 DEF HeadedFor, Announces
<1>6. ASSUME NEW l \in Level, l.token \in valid, Stored(l)' # SizeAt(m, l)
      PROVE  \E i \in 1..Len(pending') : Settles(pending'[i], l, m)
  <2>1. \A i \in 1..Len(pending) : i = 1 \/ i \in 2..Len(pending)
    BY <1>2
  <2>2. SUFFICES ASSUME ~Settles(pending[1], l, m) => Stored(l)' = Stored(l),
                        Settles(pending[1], l, m) => Stored(l)' = SizeAt(m, l)
                 PROVE  \E i \in 1..Len(pending') : Settles(pending'[i], l, m)
    <3>1. CASE k.token \in valid
      <4>1. Applicable(pending[1]) <=> k.side \in {"BUY", "SELL"}
        BY <1>3, <3>1, ItemIs DEF Applicable
      <4>2. Effect(m, k, l)
        <5> DEFINE item == ChangeItem(m, k)
        <5>1. SkipItem(item) \/ BuyItem(item) \/ SellItem(item)
          BY <1>2, <1>3 DEF DeltaItem
        <5>2. ~SkipItem(item)
          BY <1>3, <4>1, LevelFacts DEF SkipItem
        <5>3. (BuyItem(item) => k.side = "BUY") /\ (SellItem(item) => k.side = "SELL")
          BY ItemIs DEF BuyItem, SellItem
        <5> QED
          BY <5>1, <5>2, <5>3, BuyEffect, SellEffect
      <4>3. TradesThrough(m, k, l) => SizeAt(m, l) = 0
        BY TradedThroughIsEmpty
      <4>4. SameLevel(k, l) => ChangeItem(m, k) = ChangeItem(m, l)
        BY DEF SameLevel, ChangeItem, SizeAt
      <4>5. ChangeItem(m, k) = ChangeItem(m, l) => SameLevel(k, l)
        BY ItemIs DEF SameLevel
      <4>6. ASSUME NEW j \in Level, ChangeItem(m, k) = ChangeItem(m, j), TradesThrough(m, j, l)
            PROVE  TradesThrough(m, k, l)
        <5>1. SameLevel(k, j) /\ SizeAt(m, k) = SizeAt(m, j)
          BY <4>6, ItemIs DEF SameLevel
        <5> QED
          BY <4>6, <5>1 DEF SameLevel, TradesThrough
      <4>7. Settles(pending[1], l, m) <=> SameLevel(k, l) \/ TradesThrough(m, k, l)
        BY <1>3, <4>4, <4>5, <4>6 DEF Settles
      <4> QED
        BY <2>2, <4>2, <4>3, <4>7 DEF Effect
    <3>2. CASE k.token \notin valid
      <4>1. UNCHANGED <<bids, asks>>
        BY <1>2, <1>3, <3>2, ItemIs DEF DeltaItem, SkipItem, BuyItem, SellItem, Applicable, levelVars
      <4>2. ~Settles(pending[1], l, m)
        <5>1. ChangeItem(m, k) # ChangeItem(m, l)
          BY <1>6, <3>2, ItemIs
        <5>2. \A j \in Level : ChangeItem(m, k) = ChangeItem(m, j) => ~TradesThrough(m, j, l)
          BY <1>6, <3>2, ItemIs DEF TradesThrough
        <5> QED
          BY <1>3, <5>1, <5>2 DEF Settles
      <4> QED
        BY <2>2, <4>1, <4>2 DEF Stored
    <3> QED
      BY <3>1, <3>2
  <2>3. ~Settles(pending[1], l, m) /\ Stored(l) # SizeAt(m, l)
    BY <2>2, <1>6
  <2>4. PICK i \in 1..Len(pending) : Settles(pending[i], l, m)
    BY <2>3, <1>6 DEF HeadedFor, Announces
  <2>5. i \in 2..Len(pending)
    BY <2>1, <2>3, <2>4
  <2> QED
    BY <2>4, <2>5, <1>4
<1> QED
  BY <1>1, <1>2, <1>5, <1>6 DEF HeadedFor, Announces

-----------------------------------------------------------------------------
(* Preservation, one step per action.                                      *)

LEMMA HeadedSame == ASSUME UNCHANGED bookVars, NEW m, HeadedFor(m) PROVE HeadedFor(m)'
BY DEF bookVars, levelVars, HeadedFor, Announces, Stored

LEMMA LongerHistory ==
    ASSUME NEW hist, History(hist), wire \in Seq(Frames), NEW frame, wire' = Append(wire, frame),
           NEW new \in MarketBooks, market' = new, Leads(frame, market, new), UNCHANGED bookVars
    PROVE  History(Append(hist, new))'
<1> DEFINE h == Append(hist, new)
<1>1. hist \in Seq(MarketBooks) /\ Len(hist) = Len(wire) + 1 /\ Len(wire) \in Nat /\ hist[Len(wire) + 1] = market
  BY DEF History
<1>2. /\ h \in Seq(MarketBooks) /\ Len(h) = Len(wire) + 2 /\ h[Len(wire) + 2] = new
      /\ \A i \in 1..(Len(wire) + 1) : h[i] = hist[i]
  BY <1>1
<1>3. /\ Len(wire') = Len(wire) + 1 /\ wire'[Len(wire) + 1] = frame
      /\ \A i \in 1..Len(wire) : wire'[i] = wire[i]
  BY <1>1
<1> HIDE DEF h
<1>4. ASSUME NEW i \in 1..Len(wire') PROVE Leads(wire'[i], h[i], h[i + 1])
  <2>1. CASE i = Len(wire) + 1
    <3>1. h[i] = market /\ h[i + 1] = new /\ wire'[i] = frame
      BY <2>1, <1>1, <1>2, <1>3
    <3> QED
      BY <3>1
  <2>2. CASE i # Len(wire) + 1
    <3>1. i \in 1..Len(wire) /\ i \in 1..(Len(wire) + 1) /\ i + 1 \in 1..(Len(wire) + 1)
      BY <2>2, <1>1, <1>3
    <3>2. h[i] = hist[i] /\ h[i + 1] = hist[i + 1] /\ wire'[i] = wire[i]
      BY <3>1, <1>2, <1>3
    <3> QED
      BY <3>1, <3>2 DEF History
  <2> QED
    BY <2>1, <2>2
<1>5. h[1] = hist[1] /\ HeadedFor(h[1])'
  <2>1. h[1] = hist[1]
    BY <1>1, <1>2
  <2>2. HeadedFor(hist[1])
    BY DEF History
  <2> QED
    BY <2>1, <2>2, HeadedSame
<1>6. Len(h) = Len(wire') + 1 /\ h[Len(h)] = market'
  BY <1>1, <1>2, <1>3
<1>7. History(h)'
  BY <1>2, <1>4, <1>5, <1>6 DEF History
<1> QED
  BY <1>7 DEF h

LEMMA ShorterHistory ==
    ASSUME NEW hist, History(hist), wire \in Seq(Frames), wire # <<>>, wire' = Tail(wire),
           UNCHANGED market, HeadedFor(hist[2])'
    PROVE  History(Tail(hist))'
<1> DEFINE h == Tail(hist)
<1>1. hist \in Seq(MarketBooks) /\ Len(hist) = Len(wire) + 1 /\ Len(wire) \in Nat \ {0} /\ hist[Len(wire) + 1] = market
  BY DEF History
<1>2. h \in Seq(MarketBooks) /\ Len(h) = Len(wire) /\ \A i \in 1..Len(wire) : h[i] = hist[i + 1]
  BY <1>1
<1>3. Len(wire') = Len(wire) - 1 /\ \A i \in 1..Len(wire') : wire'[i] = wire[i + 1]
  BY <1>1
<1> HIDE DEF h
<1>4. ASSUME NEW i \in 1..Len(wire') PROVE Leads(wire'[i], h[i], h[i + 1])
  <2>1. i \in 1..Len(wire) /\ i + 1 \in 1..Len(wire)
    BY <1>1, <1>3
  <2>2. h[i] = hist[i + 1] /\ h[i + 1] = hist[(i + 1) + 1] /\ wire'[i] = wire[i + 1]
    BY <2>1, <1>2, <1>3
  <2>3. Leads(wire[i + 1], hist[i + 1], hist[(i + 1) + 1])
    BY <2>1 DEF History
  <2> QED
    BY <2>2, <2>3
<1>5. Len(h) = Len(wire') + 1 /\ h[Len(h)] = market'
  BY <1>1, <1>2, <1>3
<1>6. h[1] = hist[2]
  BY <1>1, <1>2
<1>7. History(h)'
  BY <1>2, <1>4, <1>5, <1>6 DEF History
<1> QED
  BY <1>7 DEF h

LEMMA ReplicationInitHolds == ReplicationInit => ReplicaInv
<1> SUFFICES ASSUME ReplicationInit PROVE ReplicaInv
  OBVIOUS
<1>1. IInv /\ pending = <<>>
  BY InitIInv DEF ReplicationInit, Init
<1>2. wire = <<>> /\ wire \in Seq(Frames) /\ conn = "down" /\ market \in MarketBooks
  BY DEF ReplicationInit, MarketBooks
<1> QED
  BY <1>1, <1>2 DEF ReplicaInv

\* The exchange publishes.
LEMMA PublishKeeps ==
    ASSUME ReplicaInv, NEW frame \in Frames, Publish(frame), NEW new \in MarketBooks, market' = new,
           Leads(frame, market, new), UNCHANGED <<storeVars, conn>>
    PROVE  ReplicaInv'
<1>1. IInv' /\ UNCHANGED <<bookVars, conn, pending>>
  BY StutterIInv DEF ReplicaInv, storeVars, bookVars
<1>2. CASE conn # "up"
  BY <1>1, <1>2 DEF ReplicaInv, Publish
<1>3. CASE conn = "up"
  <2>1. wire' = Append(wire, frame) /\ wire' \in Seq(Frames)
    BY <1>3 DEF Publish, ReplicaInv
  <2>2. PICK hist : History(hist)
    BY <1>3 DEF ReplicaInv
  <2>3. History(Append(hist, new))'
    BY <1>1, <2>1, <2>2, LongerHistory DEF ReplicaInv
  <2> QED
    BY <1>1, <1>3, <2>1, <2>3 DEF ReplicaInv
<1> QED
  BY <1>2, <1>3

LEMMA QuoteKeeps ==
    ASSUME ReplicaInv, NEW new \in MarketBooks, Quote(new)
    PROVE  ReplicaInv'
<1>1. PICK items \in PriceChanges(market, new) : Publish(DeltaFrame(items))
  BY DEF Quote
<1>2. Announces(items, Changed(market, new), new)
  BY ListingAnnounces DEF Quote, ReplicaInv
<1>3. DeltaFrame(items) \in Frames
  BY <1>2 DEF DeltaFrame, Frames, Announces
<1>4. Leads(DeltaFrame(items), market, new)
  BY <1>2 DEF Leads, DeltaFrame
<1> QED
  BY <1>1, <1>3, <1>4, PublishKeeps DEF Quote

LEMMA PublishBookKeeps ==
    ASSUME ReplicaInv, NEW t \in Tokens, PublishBook(t)
    PROVE  ReplicaInv'
<1>1. PICK m \in MarketBooks : m = market
  BY DEF ReplicaInv
<1>2. BookFrame(t) \in Frames
  BY <1>1 DEF BookFrame, Frames, MarketBooks
<1>3. PICK frame \in Frames : frame = BookFrame(t)
  BY <1>2
<1>4. Leads(frame, market, m)
  BY <1>1, <1>3 DEF Leads, BookFrame
<1> QED
  BY <1>1, <1>3, <1>4, PublishKeeps DEF PublishBook

\* The store gives its books up.
LEMMA GiveUpKeeps ==
    ASSUME ReplicaInv, Connect \/ TearDown \/ FeedStale \/ ReceiveGarbage
    PROVE  ReplicaInv'
<1>1. PICK reason \in Reasons : Invalidate(reason)
  BY GivenUpAssumption, ReasonsAssumption DEF Connect, TearDown, FeedStale, ReceiveGarbage
<1>2. IInv' /\ valid' = {} /\ pending = <<>> /\ pending' = <<>> /\ UNCHANGED market
  BY <1>1, InvalidateIInv DEF ReplicaInv, Invalidate, LockFree, Connect, TearDown, FeedStale, ReceiveGarbage
<1>3. \A m : HeadedFor(m)'
  BY <1>2 DEF HeadedFor, Announces
<1>4. CASE Connect
  <2>1. wire = <<>> /\ wire' = <<>> /\ conn' = "up"
    BY <1>4 DEF Connect, ReplicaInv
  <2>2. PICK m \in MarketBooks : m = market
    BY DEF ReplicaInv
  <2>3. History(<<m>>)'
    <3>1. <<m>> \in Seq(MarketBooks) /\ Len(<<m>>) = 1 /\ <<m>>[1] = m /\ Len(wire') = 0
      BY <2>1
    <3> QED
      BY <3>1, <2>2, <1>2, <1>3 DEF History
  <2> QED
    BY <1>2, <2>1, <2>3 DEF ReplicaInv
<1>5. CASE TearDown
  BY <1>2, <1>5 DEF TearDown, ReplicaInv
<1>6. CASE FeedStale
  <2>1. UNCHANGED <<wire, conn>> /\ conn = "up"
    BY <1>6 DEF FeedStale
  <2>2. PICK hist : History(hist)
    BY <2>1 DEF ReplicaInv
  <2>3. History(hist)'
    BY <1>2, <1>3, <2>1, <2>2 DEF History
  <2> QED
    BY <1>2, <2>1, <2>3 DEF ReplicaInv
<1>7. CASE ReceiveGarbage
  <2>1. conn = "up" /\ conn' = "up" /\ wire # <<>> /\ wire' = Tail(wire)
    BY <1>7 DEF ReceiveGarbage, NextFrame
  <2>2. PICK hist : History(hist)
    BY <2>1 DEF ReplicaInv
  <2>3. History(Tail(hist))'
    BY <1>2, <1>3, <2>1, <2>2, ShorterHistory DEF ReplicaInv
  <2>4. wire' \in Seq(Frames)
    BY <2>1 DEF ReplicaInv
  <2> QED
    BY <1>2, <2>1, <2>3, <2>4 DEF ReplicaInv
<1> QED
  BY <1>4, <1>5, <1>6, <1>7

LEMMA LoseSocketKeeps ==
    ASSUME ReplicaInv, LoseSocket
    PROVE  ReplicaInv'
<1>1. IInv' /\ pending = <<>> /\ pending' = <<>> /\ conn' = "lost" /\ wire' = <<>> /\ market' = market
  BY StutterIInv DEF LoseSocket, LockFree, ReplicaInv, storeVars, bookVars
<1> QED
  BY <1>1 DEF ReplicaInv

\* The next frame is applied, or begun.
LEMMA NextFrameFacts ==
    ASSUME ReplicaInv, NextFrame
    PROVE  /\ conn = "up" /\ pending = <<>> /\ wire # <<>> /\ wire' = Tail(wire) /\ wire' \in Seq(Frames)
           /\ Head(wire) \in Frames
           /\ \E hist : /\ History(hist) /\ hist[1] \in MarketBooks /\ hist[2] \in MarketBooks
                        /\ Leads(Head(wire), hist[1], hist[2])
                        /\ \A l \in Level : l.token \in valid => Stored(l) = SizeAt(hist[1], l)
<1>1. conn = "up" /\ pending = <<>> /\ wire # <<>> /\ wire' = Tail(wire) /\ wire \in Seq(Frames)
  BY DEF NextFrame, LockFree, ReplicaInv
<1>2. wire' \in Seq(Frames) /\ Head(wire) \in Frames /\ Head(wire) = wire[1] /\ Len(wire) \in Nat \ {0}
  BY <1>1
<1>3. PICK hist : History(hist)
  BY <1>1 DEF ReplicaInv
<1>4. hist \in Seq(MarketBooks) /\ Len(hist) = Len(wire) + 1
  BY <1>3 DEF History
<1>5. hist[1] \in MarketBooks /\ hist[2] \in MarketBooks
  BY <1>2, <1>4
<1>6. 1 \in 1..Len(wire) /\ 1 + 1 = 2
  BY <1>2
<1>7. Leads(wire[1], hist[1], hist[2])
  BY <1>3, <1>6 DEF History
<1>8. \A l \in Level : l.token \in valid => Stored(l) = SizeAt(hist[1], l)
  BY <1>1, <1>3 DEF History, HeadedFor, Announces
<1> QED
  BY <1>1, <1>2, <1>3, <1>5, <1>7, <1>8

LEMMA ReceiveBookKeeps ==
    ASSUME ReplicaInv, ReceiveBook
    PROVE  ReplicaInv'
<1>1. NextFrame /\ UNCHANGED <<market, conn>> /\ Head(wire).kind = "book"
      /\ ApplySnapshot(Head(wire).token, Head(wire).book, None, None)
  BY DEF ReceiveBook
<1>2. PICK hist : /\ History(hist) /\ hist[1] \in MarketBooks /\ hist[2] \in MarketBooks
                  /\ Leads(Head(wire), hist[1], hist[2])
                  /\ \A l \in Level : l.token \in valid => Stored(l) = SizeAt(hist[1], l)
  BY <1>1, NextFrameFacts
<1>3. conn = "up" /\ pending = <<>> /\ wire # <<>> /\ wire' = Tail(wire) /\ wire' \in Seq(Frames)
      /\ Head(wire) \in Frames
  BY <1>1, NextFrameFacts
<1>4. PICK t \in Tokens, s \in SnapshotBooks : t = Head(wire).token /\ s = Head(wire).book
  BY <1>1, <1>3 DEF Frames
<1>5. hist[2] = hist[1] /\ s = hist[2][t]
  BY <1>1, <1>2, <1>4 DEF Leads
<1>6. IInv'
  BY <1>1, <1>4, SnapshotIInv DEF ReplicaInv
<1>7. /\ bids' = [bids EXCEPT ![t] = s.bids] /\ asks' = [asks EXCEPT ![t] = s.asks]
      /\ valid' = valid \cup {t} /\ pending' = <<>>
  BY <1>1, <1>3, <1>4 DEF ApplySnapshot, RefreshTopLevels
<1>8. ASSUME NEW l \in Level, l.token \in valid'
      PROVE  Stored(l)' = SizeAt(hist[2], l)
  <2>1. l.token \in Tokens /\ bids \in [Tokens -> Levels] /\ asks \in [Tokens -> Levels]
    BY LevelFacts DEF ReplicaInv, IInv, TypeOK
  <2>2. CASE l.token = t
    BY <2>1, <2>2, <1>5, <1>7 DEF Stored, SizeAt
  <2>3. CASE l.token # t
    BY <2>1, <2>3, <1>2, <1>5, <1>7, <1>8 DEF Stored
  <2> QED
    BY <2>2, <2>3
<1>9. HeadedFor(hist[2])'
  BY <1>7, <1>8 DEF HeadedFor, Announces
<1>10. History(Tail(hist))'
  BY <1>1, <1>2, <1>3, <1>9, ShorterHistory DEF ReplicaInv
<1> QED
  BY <1>1, <1>3, <1>6, <1>10 DEF ReplicaInv

LEMMA ReceiveDeltaKeeps ==
    ASSUME ReplicaInv, ReceiveDelta
    PROVE  ReplicaInv'
<1>1. NextFrame /\ UNCHANGED <<market, conn>> /\ Head(wire).kind = "price_change"
      /\ BeginDelta(Head(wire).items)
  BY DEF ReceiveDelta
<1>2. PICK hist : /\ History(hist) /\ hist[1] \in MarketBooks /\ hist[2] \in MarketBooks
                  /\ Leads(Head(wire), hist[1], hist[2])
                  /\ \A l \in Level : l.token \in valid => Stored(l) = SizeAt(hist[1], l)
  BY <1>1, NextFrameFacts
<1>3. conn = "up" /\ wire # <<>> /\ wire' = Tail(wire) /\ wire' \in Seq(Frames)
  BY <1>1, NextFrameFacts
<1>4. PICK items : items = Head(wire).items
  OBVIOUS
<1>5. Announces(items, Changed(hist[1], hist[2]), hist[2])
  BY <1>1, <1>2, <1>4 DEF Leads
<1>6. IInv'
  BY <1>1, <1>4, <1>5, BeginIInv DEF ReplicaInv, Announces
<1>7. pending' = items /\ UNCHANGED <<bids, asks, valid>>
  BY <1>1, <1>4 DEF BeginDelta, levelVars
<1>8. {l \in Level : l.token \in valid' /\ Stored(l)' # SizeAt(hist[2], l)} \subseteq Changed(hist[1], hist[2])
  BY <1>2, <1>7 DEF Changed, Stored
<1>9. HeadedFor(hist[2])'
  BY <1>5, <1>7, <1>8 DEF HeadedFor, Announces
<1>10. History(Tail(hist))'
  BY <1>1, <1>2, <1>3, <1>9, ShorterHistory DEF ReplicaInv
<1> QED
  BY <1>1, <1>3, <1>6, <1>10 DEF ReplicaInv

LEMMA ApplyItemKeeps ==
    ASSUME ReplicaInv, ApplyItem
    PROVE  ReplicaInv'
<1>1. DeltaItem /\ UNCHANGED <<market, wire, conn>>
  BY DEF ApplyItem
<1>2. IInv' /\ conn = "up"
  BY <1>1, ItemIInv DEF ReplicaInv, DeltaItem
<1>3. PICK hist : History(hist)
  BY <1>2 DEF ReplicaInv
<1>4. hist \in Seq(MarketBooks) /\ Len(hist) = Len(wire) + 1 /\ Len(wire) \in Nat /\ HeadedFor(hist[1])
  BY <1>3 DEF History, ReplicaInv
<1>5. hist[1] \in MarketBooks
  BY <1>4
<1>6. HeadedFor(hist[1])'
  BY <1>1, <1>4, <1>5, ItemHeads DEF ReplicaInv
<1>7. History(hist)'
  BY <1>1, <1>3, <1>6 DEF History
<1> QED
  BY <1>1, <1>2, <1>7 DEF ReplicaInv

LEMMA ReplicationStutter == ReplicaInv /\ UNCHANGED vars => ReplicaInv'
<1> SUFFICES ASSUME ReplicaInv, UNCHANGED vars PROVE ReplicaInv'
  OBVIOUS
<1>1. IInv' /\ UNCHANGED <<bookVars, market, wire, conn, pending>>
  BY StutterIInv DEF vars, ReplicaInv, bookVars
<1>2. \A hist : History(hist) => History(hist)'
  BY <1>1 DEF bookVars, levelVars, History, HeadedFor, Announces, Stored
<1> QED
  BY <1>1, <1>2 DEF ReplicaInv

LEMMA ReplicationKeeps == ReplicaInv /\ [ReplicationNext]_vars => ReplicaInv'
BY QuoteKeeps, PublishBookKeeps, GiveUpKeeps, LoseSocketKeeps, ReceiveBookKeeps, ReceiveDeltaKeeps,
   ApplyItemKeeps, ReplicationStutter DEF ReplicationNext, MarketBooks

\* A reader that has caught up holds exactly the exchange's book of every token it
\* calls valid, for any books, moves, listings, reconnects and unreadable frames
\* (_apply_delta infers what a crossing quote implies).
THEOREM CaughtUpAlwaysEqual == ReplicationSpec => []CaughtUpMeansEqual
<1>1. ReplicaInv => CaughtUpMeansEqual
  <2> SUFFICES ASSUME ReplicaInv, conn = "up", wire = <<>>, LockFree, NEW t \in Tokens, TokenValid(t)
               PROVE  market[t] = [bids |-> bids[t], asks |-> asks[t]]
    BY DEF CaughtUpMeansEqual
  <2>1. PICK hist : History(hist)
    BY DEF ReplicaInv
  <2>2. Len(hist) = 1 /\ hist[1] = market /\ pending = <<>> /\ t \in valid
    BY <2>1 DEF History, LockFree, TokenValid
  <2>3. HeadedFor(market)
    BY <2>1, <2>2 DEF History
  <2>4. \A l \in Level : l.token = t => Stored(l) = SizeAt(market, l)
    BY <2>2, <2>3 DEF HeadedFor, Announces
  <2>5. /\ market[t].bids \in Levels /\ market[t].asks \in Levels /\ bids[t] \in Levels /\ asks[t] \in Levels
        /\ market[t] = [bids |-> market[t].bids, asks |-> market[t].asks]
    BY MarketFacts DEF ReplicaInv, IInv, TypeOK
  <2>6. ASSUME NEW p \in Prices PROVE bids[t][p] = market[t].bids[p] /\ asks[t][p] = market[t].asks[p]
    <3>1. [token |-> t, side |-> "BUY", price |-> p] \in Level /\ [token |-> t, side |-> "SELL", price |-> p] \in Level
      BY DEF Level
    <3> QED
      BY <3>1, <2>4 DEF Stored, SizeAt
  <2>7. bids[t] = market[t].bids /\ asks[t] = market[t].asks
    BY <2>5, <2>6 DEF Levels
  <2> QED
    BY <2>5, <2>7
<1> QED
  BY <1>1, ReplicationInitHolds, ReplicationKeeps, PTL DEF ReplicationSpec
=============================================================================
