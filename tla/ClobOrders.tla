----------------------------- MODULE ClobOrders -----------------------------
(***************************************************************************)
(* PolymarketClobClient used by several threads, for one token: the cache  *)
(* of its tick size, the orders that are created with it and signed, and   *)
(* their placing and cancelling.                                           *)
(*                                                                         *)
(* A step ends at a request. External: the market, which changes its tick  *)
(* size, and the server, which answers, refuses, fails half way (5xx) or   *)
(* is not heard of again. A request that timed out may still arrive. Time  *)
(* counts in ages: of the cache entry, of the last time a tick size was    *)
(* the market's, of an answer on its way. Left out: sides and amounts      *)
(* (OrderAmounts), logging, and neg_risk, fee rates and credentials, which *)
(* only decide whether a call raises.                                      *)
(***************************************************************************)
EXTENDS OrderAmounts, FiniteSets

CONSTANTS
    Callers,
    Orders,      \* the signed orders there can be
    Prices,      \* given by the caller or found in the book
    TTL,         \* tick_size_ttl
    Latency,     \* the longest an answer travels
    Batch,       \* bound on the orders of a create_and_post_orders
    Workloads    \* bounds on the calls that create and that send

ASSUME ClobAssumption ==
    /\ Orders # {} /\ Prices \subseteq 1..One /\ TTL \in Nat \ {0}
    /\ Latency \in Nat /\ Batch \in Nat \ {0}
    /\ Workloads \subseteq [create : Nat, send : Nat]

VARIABLES
    market,      \* the tick size of the market
    since,       \* how long ago each tick size was the market's
    cache,       \* __tick_sizes[token]: the tick size, 0 if none, and its age
    info,        \* the token is in __fee_infos
    budget,      \* calls to come (for the bound)
    calls,       \* the locals of each caller's call
    server,      \* what the server has made of each order
    told,        \* what callers were told of each order
    late         \* requests whose caller gave up

marketVars == <<market, since>>
cacheVars == <<cache, info>>
orderVars == <<server, told, late>>
vars == <<marketVars, cacheVars, budget, calls, orderVars>>

Old == TTL + Latency + 1
None == [tick |-> 0, age |-> 0]
Entries == {None} \cup [tick : TickSizes, age : 0..TTL]

\* pc: the request it waits for. wants: the tick size of the options, 0 for
\* none. price: 0 until the book is read. answer: of the server, on its way
\* for wait. left: orders still to create; orders: those to post or cancel.
Idle == [pc |-> "idle", market |-> FALSE, wants |-> 0, tick |-> 0, price |-> 0,
         answer |-> 0, wait |-> 0, left |-> 0, post |-> FALSE,
         orders |-> {}, result |-> "none", done |-> {}]

\* Requests of a call that creates an order, and of one that acts on orders.
Asks == {"info", "tick", "book", "refresh"}
Acts == {"post", "cancel"}

Init ==
    /\ market \in TickSizes
    /\ since = [t \in TickSizes |-> IF t = market THEN 0 ELSE Old]
    /\ cache = None /\ info = FALSE /\ budget \in Workloads
    /\ calls = [c \in Callers |-> Idle]
    /\ \E state \in {"unsigned", "signed"} : server = [o \in Orders |-> state]
    /\ told = [o \in Orders |-> {}] /\ late = {}

-----------------------------------------------------------------------------
\* The market and the clock.

TickChanges ==
    /\ market' \in TickSizes \ {market}
    /\ since' = [since EXCEPT ![market'] = 0]
    /\ UNCHANGED <<cacheVars, budget, calls, orderVars>>

Sooner(n, bound) == IF n < bound THEN n + 1 ELSE n

Time ==
    /\ \A c \in Callers : calls[c].wait < Latency
    /\ since' = [t \in TickSizes |-> IF t = market THEN 0 ELSE Sooner(since[t], Old)]
    /\ cache' = IF cache = None THEN None ELSE [cache EXCEPT !.age = Sooner(@, TTL)]
    /\ calls' = [c \in Callers |->
                   IF calls[c].pc \in Asks /\ calls[c].answer # 0
                   THEN [calls[c] EXCEPT !.wait = @ + 1] ELSE calls[c]]
    /\ UNCHANGED <<market, info, budget, orderVars>>

-----------------------------------------------------------------------------
\* Creating an order. Each operator is what is left of the call once a datum
\* is known; Idle is an exception.

Begins(kind) == budget[kind] > 0 /\ budget' = [budget EXCEPT ![kind] = @ - 1]

Waits(call, pc) == [call EXCEPT !.pc = pc, !.answer = 0, !.wait = 0]

\* price_valid, then get_neg_risk. The price and the options are done with.
Priced(call) ==
    IF PriceValid(call.price, call.tick)
    THEN [Waits(call, "neg") EXCEPT !.market = FALSE, !.price = 0] ELSE Idle

\* Mutant of Resolved: the tick size of the options, also when there is none.
ResolvedOption(call, tick) ==
    LET known == [call EXCEPT !.tick = call.wants]
    IN  IF call.wants # 0 /\ call.wants < tick THEN Idle
        ELSE IF call.market /\ call.price = 0 THEN Waits(known, "book")
        ELSE Priced(known)

\* _resolve_tick_size, for the tick size of get_tick_size.
Resolved(call, tick) ==
    LET known == [call EXCEPT !.tick = IF call.wants # 0 THEN call.wants ELSE tick]
    IN  IF call.wants # 0 /\ call.wants < tick THEN Idle
        ELSE IF call.market /\ call.price = 0 THEN Waits(known, "book")
        ELSE Priced(known)

\* A mutant of Fresh: the entry never gets old.
FreshForEver(entry) == entry # None

\* get_tick_size finds a young entry in the cache.
Fresh(entry) == entry # None /\ entry.age < TTL

TickAsked(call, entry) ==
    IF Fresh(entry) THEN Resolved(call, entry.tick) ELSE Waits(call, "tick")

\* A market order first asks for the fees of the token (_get_market_fee_info).
Created(call) ==
    IF call.market /\ ~info THEN Waits(call, "info") ELSE TickAsked(call, cache)

Creates(c, call) ==
    /\ calls[c].pc = "idle" /\ Begins("create")
    /\ calls' = [calls EXCEPT ![c] = Created(call)]
    /\ UNCHANGED <<marketVars, cacheVars, orderVars>>

LimitOrder(wants, price) == [Idle EXCEPT !.wants = wants, !.price = price, !.left = 1]
MarketOrder(wants, price) == [LimitOrder(wants, price) EXCEPT !.market = TRUE]
Posted(call) == [call EXCEPT !.post = TRUE]

Options == TickSizes \cup {0}

CreateOrder(c) ==
    \E wants \in Options, price \in Prices : Creates(c, LimitOrder(wants, price))

CreateAndPostOrder(c) ==
    \E wants \in Options, price \in Prices : Creates(c, Posted(LimitOrder(wants, price)))

CreateMarketOrder(c) ==
    \E wants \in Options, price \in Prices \cup {0} : Creates(c, MarketOrder(wants, price))

CreateAndPostMarketOrder(c) ==
    \E wants \in Options, price \in Prices \cup {0} :
        Creates(c, Posted(MarketOrder(wants, price)))

\* A limit order without options for each of the arguments.
CreateAndPostOrders(c) ==
    \E n \in 1..Batch, price \in Prices :
        Creates(c, [Posted(LimitOrder(0, price)) EXCEPT !.left = n])

\* get_order_book, get_order_books, get_clob_market_info, for their own sake.
Refresh(c) ==
    /\ calls[c].pc = "idle" /\ Begins("create")
    /\ calls' = [calls EXCEPT ![c] = Waits(Idle, "refresh")]
    /\ UNCHANGED <<marketVars, cacheVars, orderVars>>

\* External: the server reads the tick size, and the book if it is asked for it.
Answered(c) ==
    /\ calls[c].pc \in Asks /\ calls[c].answer = 0
    /\ calls' = [calls EXCEPT ![c].answer = market]
    /\ UNCHANGED <<marketVars, cacheVars, budget, orderVars>>

\* What the answer leaves in __tick_sizes.
Kept(tick) == [tick |-> tick, age |-> 0]

Answers(c, pc) == calls[c].pc = pc /\ calls[c].answer # 0

\* get_clob_market_info stores the tick size and the fees of the tokens it lists
\* (external: those of the market).
InfoReceived(c) ==
    /\ Answers(c, "info")
    /\ cache' = Kept(calls[c].answer) /\ info' = TRUE
    /\ calls' = [calls EXCEPT ![c] = Waits(@, "fees")]
    /\ UNCHANGED <<marketVars, budget, orderVars>>

\* get_tick_size returns.
TickReceived(c) ==
    /\ Answers(c, "tick")
    /\ cache' = Kept(calls[c].answer)
    /\ calls' = [calls EXCEPT ![c] = Resolved(@, @.answer)]
    /\ UNCHANGED <<marketVars, info, budget, orderVars>>

\* get_order_book, whose book may lack a tick size, returns to
\* calculate_market_price, which raises or finds a price of the book.
BookReceived(c) ==
    /\ Answers(c, "book")
    /\ cache' \in {cache, Kept(calls[c].answer)}
    /\ \E next \in {Idle} \cup {Priced([calls[c] EXCEPT !.price = p]) :
                                 p \in {q \in Prices : PriceValid(q, calls[c].answer)}} :
          calls' = [calls EXCEPT ![c] = next]
    /\ UNCHANGED <<marketVars, info, budget, orderVars>>

Refreshed(c) ==
    /\ Answers(c, "refresh")
    /\ cache' \in {cache, Kept(calls[c].answer)} /\ info' \in {info, TRUE}
    /\ calls' = [calls EXCEPT ![c] = Idle]
    /\ UNCHANGED <<marketVars, budget, orderVars>>

\* The fees are known and create_market_order asks for the tick size, which
\* another thread may have cleared or stored since the info came.
FeesKnown(c) ==
    /\ calls[c].pc = "fees"
    /\ calls' = [calls EXCEPT ![c] = TickAsked(@, cache)]
    /\ UNCHANGED <<marketVars, cacheVars, budget, orderVars>>

\* A status of 4xx or 5xx, or no answer: the call raises, nothing is stored.
RequestFails(c) ==
    /\ calls[c].pc \in Asks \cup {"neg"}
    /\ calls' = [calls EXCEPT ![c] = Idle]
    /\ UNCHANGED <<marketVars, cacheVars, budget, orderVars>>

ClearTickSizeCache ==
    /\ cache # None /\ cache' = None
    /\ UNCHANGED <<marketVars, info, budget, calls, orderVars>>

\* get_neg_risk returned: the builder signs, and the call goes on to the next
\* order of create_and_post_orders, posts what it has created, or returns it.
Signed(c) ==
    /\ calls[c].pc = "neg"
    /\ \E o \in Orders :
         LET call == [Idle EXCEPT !.orders = calls[c].orders \cup {o},
                                  !.left = calls[c].left - 1, !.post = calls[c].post]
         IN  /\ server[o] = "unsigned"
             /\ server' = [server EXCEPT ![o] = "signed"]
             /\ \E next \in
                  IF call.left > 0
                  THEN {Created([call EXCEPT !.price = p]) : p \in Prices}
                  ELSE {IF call.post THEN [Waits(call, "post") EXCEPT !.post = FALSE]
                        ELSE Idle} :
                  calls' = [calls EXCEPT ![c] = next]
    /\ UNCHANGED <<marketVars, cacheVars, budget, told, late>>

-----------------------------------------------------------------------------
\* Placing and cancelling.

SignedOrders == {o \in Orders : server[o] # "unsigned"}

\* A request that acts; the post_only check raises before. An order whose
\* create_and_post raised counts as one the caller still has.
Sends(c, what, orders) ==
    /\ calls[c].pc = "idle" /\ Begins("send")
    /\ calls' = [calls EXCEPT ![c] = Waits([Idle EXCEPT !.orders = orders], what)]
    /\ UNCHANGED <<marketVars, cacheVars, orderVars>>

\* Also to try again.
PostOrder(c) == \E o \in SignedOrders : Sends(c, "post", {o})

PostOrders(c) == \E orders \in (SUBSET SignedOrders) \ {{}} : Sends(c, "post", orders)

CancelOrder(c) == \E o \in SignedOrders : Sends(c, "cancel", {o})

CancelOrders(c) == \E orders \in (SUBSET SignedOrders) \ {{}} : Sends(c, "cancel", orders)

\* Any order that is live when the server gets to it, also one signed later.
CancelAll(c) == Sends(c, "cancel", Orders)

\* cancel_orders_for_condition_id, cancel_orders_for_token_id: of the token, and
\* all orders are for it.
CancelOrdersForMarket(c) == CancelAll(c)

\* External: what the server does with an order, which it takes once.
Does(what, state) ==
    CASE what = "post" /\ state = "signed" -> {"live", "signed"}
      [] what = "cancel" /\ state = "live" -> {"gone", "live"}
      [] OTHER -> {state}

Outcomes(what, orders) ==
    {s \in [Orders -> {"unsigned", "signed", "live", "gone"}] :
        \A o \in Orders : IF o \in orders THEN s[o] \in Does(what, server[o])
                          ELSE s[o] = server[o]}

\* External: it says which orders it has placed or cancelled; or it refuses
\* the request, or fails after some of them.
Served(c) ==
    LET call == calls[c]
    IN  /\ call.pc \in Acts /\ call.result = "none"
        /\ server' \in Outcomes(call.pc, call.orders)
        /\ \E result \in {"ok", "4xx", "5xx"} :
             /\ result = "4xx" => server' = server
             /\ calls' = [calls EXCEPT ![c].result = result,
                            ![c].done = IF result = "ok"
                                        THEN {o \in call.orders : server'[o] # server[o]}
                                        ELSE {}]
        /\ UNCHANGED <<marketVars, cacheVars, budget, told, late>>

\* Mutant of ToldOf: an exception means that nothing was done.
ToldOfAnswers(what, result, done) ==
    [o \in Orders |-> IF o \in done THEN {what} ELSE {}]

\* What the return or the exception says of the orders of a request: an
\* OrderPostResponse or OrderCancelResponse names those it is about, an error
\* with a status of 4xx says that nothing was done, any other exception leaves
\* a post open.
ToldOf(what, result, done) ==
    [o \in Orders |-> IF o \in done THEN {what}
                      ELSE IF what = "post" /\ result \in {"5xx", "none"} THEN {"unsure"}
                      ELSE {}]

Returns(c, result) ==
    LET call == calls[c]
        says == ToldOf(call.pc, result, call.done)
    IN  /\ told' = [o \in Orders |-> told[o] \cup IF o \in call.orders THEN says[o] ELSE {}]
        /\ calls' = [calls EXCEPT ![c] = Idle]

\* post_order, post_orders: the responses, or an OrderPlacementError.
PostReplied(c) ==
    /\ calls[c].pc = "post" /\ calls[c].result # "none"
    /\ Returns(c, calls[c].result)
    /\ UNCHANGED <<marketVars, cacheVars, budget, server, late>>

\* The cancels: the response, or an OrderCancellationError.
CancelReplied(c) ==
    /\ calls[c].pc = "cancel" /\ calls[c].result # "none"
    /\ Returns(c, calls[c].result)
    /\ UNCHANGED <<marketVars, cacheVars, budget, server, late>>

\* A timeout or a broken connection, before or after the server acted, which is
\* no HTTPStatusError: the call raises, and what is done is not told.
AnswerLost(c) ==
    /\ calls[c].pc \in Acts
    /\ Returns(c, "none")
    /\ late' \in IF calls[c].result = "none"
                 THEN {late, late \cup {[what |-> calls[c].pc, orders |-> calls[c].orders]}}
                 ELSE {late}
    /\ UNCHANGED <<marketVars, cacheVars, budget, server>>

\* External: a request arrives whose caller gave up.
ServedLate ==
    \E r \in late :
        /\ late' = late \ {r}
        /\ server' \in Outcomes(r.what, r.orders)
        /\ UNCHANGED <<marketVars, cacheVars, budget, calls, told>>

Next ==
    \/ TickChanges \/ Time \/ ClearTickSizeCache \/ ServedLate
    \/ \E c \in Callers :
         \/ CreateOrder(c) \/ CreateAndPostOrder(c) \/ CreateMarketOrder(c)
         \/ CreateAndPostMarketOrder(c) \/ CreateAndPostOrders(c) \/ Refresh(c)
         \/ Answered(c) \/ InfoReceived(c) \/ TickReceived(c) \/ BookReceived(c)
         \/ Refreshed(c) \/ FeesKnown(c) \/ RequestFails(c) \/ Signed(c)
         \/ PostOrder(c) \/ PostOrders(c) \/ CancelOrder(c) \/ CancelOrders(c)
         \/ CancelAll(c) \/ CancelOrdersForMarket(c)
         \/ Served(c) \/ PostReplied(c) \/ CancelReplied(c) \/ AnswerLost(c)

Spec == Init /\ [][Next]_vars

-----------------------------------------------------------------------------
CallRecords ==
    [pc : {"idle", "fees", "neg"} \cup Asks \cup Acts, market : BOOLEAN,
     wants : TickSizes \cup {0}, tick : TickSizes \cup {0}, price : Prices \cup {0},
     answer : TickSizes \cup {0}, wait : 0..Latency, left : 0..Batch, post : BOOLEAN,
     orders : SUBSET Orders, result : {"none", "ok", "4xx", "5xx"}, done : SUBSET Orders]

\* The types of the variables; and an order is signed with a tick size, a
\* request that posts is for signed orders, and an answer is for a request.
TypeOK ==
    /\ market \in TickSizes /\ since \in [TickSizes -> 0..Old]
    /\ cache \in Entries /\ info \in BOOLEAN /\ budget \in [create : Nat, send : Nat]
    /\ server \in [Orders -> {"unsigned", "signed", "live", "gone"}]
    /\ told \in [Orders -> SUBSET {"post", "cancel", "unsure"}]
    /\ late \subseteq [what : Acts, orders : SUBSET Orders]
    /\ calls \in [Callers -> CallRecords]
    /\ \A c \in Callers :
         /\ calls[c].pc \in {"book", "neg"} => calls[c].tick # 0
         /\ calls[c].pc \in Acts => calls[c].orders # {}
         /\ calls[c].pc # "cancel" => calls[c].orders \subseteq SignedOrders
         /\ calls[c].done \subseteq calls[c].orders
         /\ calls[c].result # "none" => calls[c].pc \in Acts

\* The tick size an order is checked and rounded with, unless the caller gave
\* one, was the market's not longer ago than an entry may be old and an answer
\* may travel; whatever order the answers to several threads arrive in, and
\* although an answer counts as new when it arrives
\* (get_tick_size, get_order_book, get_clob_market_info).
ResolvedTickIsRecent ==
    [][\A c \in Callers :
         (calls'[c] # calls[c] /\ calls'[c].tick # 0 /\ calls[c].pc # "book"
            /\ calls'[c].wants = 0)
           => since[calls'[c].tick] <= TTL - 1 + Latency]_vars

\* What callers are told of an order is what became of it: reported as placed,
\* it was; reported as cancelled, it is gone; and an order that is or was in
\* the market was reported as placed, or a post of it ended in a way that
\* leaves that open (5xx, no answer), or is under way
\* (post_order, post_orders, the cancels).
Posting == UNION {calls[c].orders : c \in {d \in Callers : calls[d].pc = "post"}}

PostsAreAsReported ==
    \A o \in Orders :
        /\ "post" \in told[o] => server[o] \in {"live", "gone"}
        /\ "cancel" \in told[o] => server[o] = "gone"
        /\ server[o] \in {"live", "gone"} => told[o] # {} \/ o \in Posting

\* Whatever tick size the market has, the amounts and prices of an order are
\* exact (get_order_amounts, get_market_order_amounts,
\* adjust_market_buy_amount, calculate_buy_ and calculate_sell_market_price).
AmountsAreExact == market \in ExactTickSizes /\ MarketOrdersFit
=============================================================================
