-------------------------- MODULE ClobOrdersProofs --------------------------
(***************************************************************************)
(* Theorems about ClobOrders, for any threads, orders, prices, tick sizes, *)
(* times and workloads: types, how recent the tick size of an order is,    *)
(* and what callers are told of their orders. And, at the end, about the   *)
(* arithmetic of OrderAmounts, for any units, tick sizes, sizes, prices,   *)
(* books and errors of a float.                                            *)
(***************************************************************************)
EXTENDS ClobOrders, FiniteSetTheorems, WellFoundedInduction, TLAPS

\* The locals of a call: it has a tick size exactly while it needs one, and
\* orders when it acts on orders.
CallOK(k) ==
    /\ k \in CallRecords
    /\ k.tick # 0 <=> k.pc \in {"book", "neg"}
    /\ k.pc \in Acts => k.orders # {}
    /\ k.done \subseteq k.orders /\ (k.done # {} => k.result = "ok")
    /\ k.result # "none" => k.pc \in Acts
    /\ k.pc \in {"info", "fees", "tick", "book", "neg"} => k.left >= 1

\* A call that is creating an order.
Draft(k) == k \in CallRecords /\ k.left >= 1 /\ k.result = "none" /\ k.done = {}

\* What a draft goes on as.
Continues(k, r) ==
    /\ CallOK(r) /\ r.pc \notin Acts /\ r.answer = 0 /\ r.orders \in {{}, k.orders}
    /\ r.result = "none"

-----------------------------------------------------------------------------
\* What creating an order does with its locals.

LEMMA TickSizesPositive == TickSizes \subseteq Nat \ {0} /\ None.tick \notin TickSizes
BY UnitsAssumption DEF None

LEMMA EntryType ==
  ASSUME NEW e \in Entries, e # None
  PROVE  e.tick \in TickSizes /\ e.age \in 0..TTL
BY DEF Entries

LEMMA IdleOK == CallOK(Idle) /\ Idle.tick = 0 /\ Idle.orders = {} /\ Idle.pc = "idle"
BY ClobAssumption DEF CallOK, CallRecords, Idle, Asks, Acts

LEMMA WaitsType ==
  ASSUME NEW k \in CallRecords, NEW pc \in Asks \cup Acts \cup {"fees", "neg"}
  PROVE  /\ Waits(k, pc) \in CallRecords /\ Waits(k, pc).pc = pc /\ Waits(k, pc).answer = 0
         /\ Waits(k, pc).tick = k.tick /\ Waits(k, pc).left = k.left
         /\ Waits(k, pc).orders = k.orders /\ Waits(k, pc).result = k.result
         /\ Waits(k, pc).done = k.done /\ Waits(k, pc).wants = k.wants
         /\ Waits(k, pc).wait = 0
<1>1. 0 \in 0..Latency
  BY ClobAssumption
<1> QED
  BY <1>1 DEF Waits, CallRecords

LEMMA PricedOK ==
  ASSUME NEW k, Draft(k), k.tick # 0
  PROVE  /\ Continues(k, Priced(k))
         /\ Priced(k).tick # 0 => Priced(k).tick = k.tick /\ Priced(k).wants = k.wants
<1>1. CASE PriceValid(k.price, k.tick)
  <2> DEFINE w == Waits(k, "neg")
             r == [w EXCEPT !.market = FALSE, !.price = 0]
  <2>1. /\ w \in CallRecords /\ w.pc = "neg" /\ w.answer = 0 /\ w.tick = k.tick
        /\ w.left = k.left /\ w.orders = k.orders /\ w.result = k.result
        /\ w.done = k.done /\ w.wants = k.wants
    BY WaitsType DEF Draft
  <2>2. Priced(k) = r
    BY <1>1 DEF Priced
  <2> HIDE DEF w
  <2>3. /\ r \in CallRecords /\ r.pc = "neg" /\ r.answer = 0 /\ r.tick = w.tick
        /\ r.left = w.left /\ r.orders = w.orders /\ r.result = w.result
        /\ r.done = w.done /\ r.wants = w.wants
    BY <2>1 DEF CallRecords
  <2> HIDE DEF r
  <2>4. CallOK(r)
    BY <2>1, <2>3 DEF CallOK, Draft, Acts
  <2> QED
    BY <2>1, <2>2, <2>3, <2>4 DEF Continues, Draft, Acts
<1>2. CASE ~PriceValid(k.price, k.tick)
  <2>1. Priced(k) = Idle
    BY <1>2 DEF Priced
  <2>2. Idle.answer = 0 /\ Idle.result = "none" /\ Idle.pc = "idle"
    BY DEF Idle
  <2> QED
    BY <2>1, <2>2, IdleOK DEF Continues, Acts
<1> QED
  BY <1>1, <1>2

\* The tick size that is resolved is the one given, unless the options have one.
LEMMA ResolvedOK ==
  ASSUME NEW k, Draft(k), NEW tick \in TickSizes
  PROVE  /\ Continues(k, Resolved(k, tick))
         /\ Resolved(k, tick).tick # 0 /\ Resolved(k, tick).wants = 0
              => Resolved(k, tick).tick = tick
<1> DEFINE size == IF k.wants # 0 THEN k.wants ELSE tick
           known == [k EXCEPT !.tick = size]
<1>1. size \in TickSizes /\ size # 0
  BY TickSizesPositive DEF Draft, CallRecords
<1>2. size = tick \/ k.wants # 0
  OBVIOUS
<1>3. Resolved(k, tick) = IF k.wants # 0 /\ k.wants < tick THEN Idle
                          ELSE IF k.market /\ k.price = 0 THEN Waits(known, "book")
                          ELSE Priced(known)
  BY DEF Resolved
<1> HIDE DEF size
<1>4. /\ Draft(known) /\ known.tick = size /\ known.wants = k.wants
      /\ known.orders = k.orders
  BY <1>1 DEF Draft, CallRecords
<1> HIDE DEF known
<1>5. Continues(k, Idle) /\ Idle.tick = 0
  BY IdleOK DEF Continues, Idle, Acts
<1>6. Continues(k, Waits(known, "book")) /\ Waits(known, "book").tick = size
      /\ Waits(known, "book").wants = k.wants
  <2> DEFINE w == Waits(known, "book")
  <2>1. /\ w \in CallRecords /\ w.pc = "book" /\ w.answer = 0 /\ w.tick = size
        /\ w.left = known.left /\ w.orders = k.orders /\ w.result = known.result
        /\ w.done = known.done /\ w.wants = k.wants
    BY <1>4, WaitsType DEF Draft, Asks
  <2> HIDE DEF w
  <2>2. CallOK(w)
    BY <1>1, <1>4, <2>1 DEF CallOK, Draft, Acts
  <2>3. Continues(k, w) /\ w.tick = size /\ w.wants = k.wants
    BY <1>4, <2>1, <2>2 DEF Continues, Draft, Acts
  <2> QED
    BY <2>3 DEF w
<1>7. /\ Continues(k, Priced(known))
      /\ Priced(known).tick # 0 => Priced(known).tick = size /\ Priced(known).wants = k.wants
  BY <1>1, <1>4, PricedOK DEF Continues
<1> QED
  BY <1>2, <1>3, <1>5, <1>6, <1>7

\* The tick size comes from the entry of the cache only while that is fresh.
LEMMA TickAskedOK ==
  ASSUME NEW k, Draft(k), k.tick = 0, NEW entry \in Entries
  PROVE  /\ Continues(k, TickAsked(k, entry))
         /\ TickAsked(k, entry).tick # 0 /\ TickAsked(k, entry).wants = 0
              => Fresh(entry) /\ TickAsked(k, entry).tick = entry.tick
<1>1. CASE Fresh(entry)
  <2>1. entry.tick \in TickSizes
    BY <1>1, EntryType DEF Fresh
  <2>2. TickAsked(k, entry) = Resolved(k, entry.tick)
    BY <1>1 DEF TickAsked
  <2> QED
    BY <1>1, <2>1, <2>2, ResolvedOK
<1>2. CASE ~Fresh(entry)
  <2> DEFINE w == Waits(k, "tick")
  <2>1. /\ w \in CallRecords /\ w.pc = "tick" /\ w.answer = 0 /\ w.tick = 0
        /\ w.left = k.left /\ w.orders = k.orders /\ w.result = k.result
        /\ w.done = k.done
    BY WaitsType DEF Draft, Asks
  <2>2. TickAsked(k, entry) = w
    BY <1>2 DEF TickAsked
  <2> HIDE DEF w
  <2>3. CallOK(w)
    BY <2>1 DEF CallOK, Draft, Acts
  <2> QED
    BY <2>1, <2>2, <2>3 DEF Continues, Draft, Acts
<1> QED
  BY <1>1, <1>2

LEMMA CreatedOK ==
  ASSUME NEW k, Draft(k), k.tick = 0, cache \in Entries
  PROVE  /\ Continues(k, Created(k))
         /\ Created(k).tick # 0 /\ Created(k).wants = 0
              => Fresh(cache) /\ Created(k).tick = cache.tick
<1>1. CASE k.market /\ ~info
  <2> DEFINE w == Waits(k, "info")
  <2>1. /\ w \in CallRecords /\ w.pc = "info" /\ w.answer = 0 /\ w.tick = 0
        /\ w.left = k.left /\ w.orders = k.orders /\ w.result = k.result
        /\ w.done = k.done
    BY WaitsType DEF Draft, Asks
  <2>2. Created(k) = w
    BY <1>1 DEF Created
  <2> HIDE DEF w
  <2>3. CallOK(w)
    BY <2>1 DEF CallOK, Draft, Acts
  <2> QED
    BY <2>1, <2>2, <2>3 DEF Continues, Draft, Acts
<1>2. CASE ~(k.market /\ ~info)
  BY <1>2, TickAskedOK DEF Created
<1> QED
  BY <1>1, <1>2

-----------------------------------------------------------------------------
\* The inductive invariant.

Others ==
    /\ market \in TickSizes /\ since \in [TickSizes -> 0..Old]
    /\ cache \in Entries /\ info \in BOOLEAN /\ budget \in [create : Nat, send : Nat]
    /\ server \in [Orders -> {"unsigned", "signed", "live", "gone"}]
    /\ told \in [Orders -> SUBSET {"post", "cancel", "unsure"}]
    /\ late \subseteq [what : Acts, orders : SUBSET Orders]

Types ==
    /\ Others /\ calls \in [Callers -> CallRecords]
    /\ \A c \in Callers :
         CallOK(calls[c]) /\ (calls[c].pc # "cancel" => calls[c].orders \subseteq SignedOrders)

\* How long ago a tick size that somebody holds was the market's.
Recent ==
    /\ since[market] = 0
    /\ \A c \in Callers :
         calls[c].pc \in Asks /\ calls[c].answer # 0 => since[calls[c].answer] <= calls[c].wait
    /\ Fresh(cache) => since[cache.tick] <= cache.age + Latency

\* Some call is on its way back that will leave a post of o told or open.
WillTell(o) ==
    \E c \in Callers :
        /\ calls[c].pc = "post" /\ o \in calls[c].orders
        /\ calls[c].result = "5xx" \/ o \in calls[c].done

\* What calls and requests that are under way know of the orders.
Reports ==
    /\ \A c \in Callers : \A o \in calls[c].done :
         /\ calls[c].pc = "post" => server[o] \in {"live", "gone"}
         /\ calls[c].pc = "cancel" => server[o] = "gone"
    /\ \A r \in late : r.what = "post" => \A o \in r.orders : told[o] # {}
    /\ \A o \in Orders :
         /\ "post" \in told[o] => server[o] \in {"live", "gone"}
         /\ "cancel" \in told[o] => server[o] = "gone"
         /\ server[o] \in {"live", "gone"} => told[o] # {} \/ WillTell(o)

LEMMA InitHolds == Init => Types /\ Recent /\ Reports
<1> SUFFICES ASSUME Init PROVE Types /\ Recent /\ Reports
  OBVIOUS
<1>1. Types
  <2>1. None \in Entries /\ Old \in Nat
    BY ClobAssumption DEF Entries, Old
  <2>2. since \in [TickSizes -> 0..Old]
    BY <2>1 DEF Init
  <2>3. server \in [Orders -> {"unsigned", "signed", "live", "gone"}]
    BY DEF Init
  <2> QED
    BY <2>1, <2>2, <2>3, IdleOK, ClobAssumption DEF Init, Types, Others, CallOK
<1>2. Recent
  BY IdleOK, ClobAssumption DEF Init, Recent, Fresh, Asks
<1>3. Reports
  BY IdleOK DEF Init, Reports, CallOK, Idle
<1> QED
  BY <1>1, <1>2, <1>3

LEMMA TypesImply == Types => TypeOK
BY DEF Types, Others, TypeOK, CallOK

-----------------------------------------------------------------------------
\* A step of one call.

\* ResolvedTickIsRecent, of one step.
TicksAreRecent ==
    \A c \in Callers :
        (calls'[c] # calls[c] /\ calls'[c].tick # 0 /\ calls[c].pc # "book"
           /\ calls'[c].wants = 0)
          => since[calls'[c].tick] <= TTL - 1 + Latency

LEMMA CallStep ==
  ASSUME Types, Recent, NEW c \in Callers, NEW r, CallOK(r),
         calls' = [calls EXCEPT ![c] = r], UNCHANGED marketVars, Others',
         r.pc # "cancel" => r.orders \subseteq SignedOrders',
         SignedOrders \subseteq SignedOrders',
         r.pc \in Asks /\ r.answer # 0 => since[r.answer] <= r.wait,
         Fresh(cache') => since[cache'.tick] <= cache'.age + Latency,
         r.tick # 0 /\ r.wants = 0 /\ calls[c].pc # "book" /\ r # calls[c]
           => since[r.tick] <= TTL - 1 + Latency
  PROVE  Types' /\ Recent' /\ TicksAreRecent
<1>1. /\ calls' \in [Callers -> CallRecords] /\ calls'[c] = r
      /\ \A d \in Callers \ {c} : calls'[d] = calls[d]
  BY DEF Types, CallOK
<1>2. Types'
  BY <1>1 DEF Types
<1>3. Recent'
  BY <1>1 DEF Recent, marketVars
<1>4. TicksAreRecent
  BY <1>1 DEF TicksAreRecent
<1> QED
  BY <1>2, <1>3, <1>4

\* A call that had nothing to report still has nothing to report.
LEMMA NothingToReport ==
  ASSUME Types, Reports, NEW c \in Callers, NEW r, CallOK(r),
         calls' = [calls EXCEPT ![c] = r], calls[c].pc \notin Acts, r.result = "none",
         UNCHANGED <<told, late>>,
         \A o \in Orders : server[o] \in {"live", "gone"} \/ server'[o] \in {"live", "gone"}
                             => server'[o] = server[o]
  PROVE  Reports'
<1>1. /\ calls'[c] = r /\ r.done = {} /\ r.result # "5xx"
      /\ \A d \in Callers \ {c} : calls'[d] = calls[d]
  BY DEF Types, CallOK
<1>2. \A d \in Callers : calls[d].done \subseteq Orders
  BY DEF Types, CallOK, CallRecords
<1>3. \A o \in Orders : WillTell(o) => WillTell(o)'
  BY <1>1 DEF WillTell, Acts
<1>4. \A d \in Callers : \A o \in calls'[d].done :
          /\ calls'[d].pc = "post" => server'[o] \in {"live", "gone"}
          /\ calls'[d].pc = "cancel" => server'[o] = "gone"
  BY <1>1, <1>2 DEF Reports
<1>5. \A x \in late' : x.what = "post" => \A o \in x.orders : told'[o] # {}
  BY DEF Reports
<1>6. \A o \in Orders :
         /\ "post" \in told'[o] => server'[o] \in {"live", "gone"}
         /\ "cancel" \in told'[o] => server'[o] = "gone"
         /\ server'[o] \in {"live", "gone"} => told'[o] # {} \/ WillTell(o)'
  BY <1>3 DEF Reports
<1> QED
  BY <1>4, <1>5, <1>6 DEF Reports

\* A fresh entry, and what follows from the cache for what is created now.
LEMMA FreshIsRecent ==
  ASSUME Types, Recent, Fresh(cache)
  PROVE  cache.tick \in TickSizes /\ since[cache.tick] <= TTL - 1 + Latency
<1>1. cache.age \in 0..TTL /\ cache.age < TTL /\ cache.tick \in TickSizes
  BY EntryType DEF Types, Others, Fresh
<1> QED
  BY <1>1, ClobAssumption DEF Types, Others, Recent, Old

-----------------------------------------------------------------------------
\* The actions that ask and create.

Holds == Types /\ Recent /\ Reports
StepKeeps == Types' /\ Recent' /\ Reports' /\ TicksAreRecent

LEMMA BudgetType ==
  ASSUME Types, NEW kind \in {"create", "send"}, Begins(kind)
  PROVE  budget' \in [create : Nat, send : Nat]
BY DEF Types, Others, Begins

\* The locals of a new call are a draft.
LEMMA LimitOrderIs ==
  ASSUME NEW w \in Options, NEW p \in Prices \cup {0}
  PROVE  /\ Draft(LimitOrder(w, p)) /\ LimitOrder(w, p).tick = 0
         /\ LimitOrder(w, p).orders = {}
<1> DEFINE k == LimitOrder(w, p)
<1>1. Idle \in CallRecords /\ Idle.tick = 0 /\ Idle.orders = {} /\ Idle.result = "none"
      /\ Idle.done = {}
  BY IdleOK DEF CallOK, Idle
<1>2. 1 \in 0..Batch /\ w \in TickSizes \cup {0}
  BY ClobAssumption DEF Options
<1>3. /\ k \in CallRecords /\ k.tick = Idle.tick /\ k.orders = Idle.orders
      /\ k.result = Idle.result /\ k.done = Idle.done /\ k.left = 1
  BY <1>1, <1>2 DEF CallRecords, LimitOrder
<1> QED
  BY <1>1, <1>3 DEF Draft

\* A draft may be for a market order, or to be posted, or for more orders.
LEMMA DraftWith ==
  ASSUME NEW k, Draft(k), k.tick = 0, k.orders = {}, NEW m \in BOOLEAN, NEW b \in BOOLEAN,
         NEW n \in 1..Batch
  PROVE  LET r == [k EXCEPT !.market = m, !.post = b, !.left = n]
         IN  Draft(r) /\ r.tick = 0 /\ r.orders = {}
<1> DEFINE r == [k EXCEPT !.market = m, !.post = b, !.left = n]
<1>1. n \in 0..Batch /\ n >= 1
  BY ClobAssumption
<1>2. r \in CallRecords /\ r.left = n /\ r.result = k.result /\ r.done = k.done
      /\ r.tick = k.tick /\ r.orders = k.orders
  BY <1>1 DEF Draft, CallRecords
<1> QED
  BY <1>1, <1>2 DEF Draft

LEMMA CreatesStep ==
  ASSUME Holds, NEW c \in Callers, NEW k, Draft(k), k.tick = 0, k.orders = {}, Creates(c, k)
  PROVE  StepKeeps
<1> DEFINE r == Created(k)
<1>1. calls' = [calls EXCEPT ![c] = r]
  BY DEF Creates
<1>2. Draft(k) /\ k.tick = 0 /\ k.orders = {}
  OBVIOUS
<1>3. calls' = [calls EXCEPT ![c] = r]
  BY <1>1
<1>4. /\ Continues(k, r)
      /\ r.tick # 0 /\ r.wants = 0 => Fresh(cache) /\ r.tick = cache.tick
  BY <1>2, CreatedOK DEF Holds, Types, Others
<1> HIDE DEF r
<1>5. /\ UNCHANGED <<marketVars, cacheVars, orderVars>> /\ calls[c].pc = "idle"
      /\ Begins("create")
  BY DEF Creates
<1>6. Others'
  BY <1>5, BudgetType DEF Holds, Types, Others, marketVars, cacheVars, orderVars
<1>7. /\ CallOK(r) /\ r.orders = {} /\ r.answer = 0 /\ r.result = "none"
  BY <1>2, <1>4 DEF Continues
<1>8. Types' /\ Recent' /\ TicksAreRecent
  <2>1. Fresh(cache') => since[cache'.tick] <= cache'.age + Latency
    BY <1>5 DEF Holds, Recent, cacheVars
  <2>2. r.tick # 0 /\ r.wants = 0 => since[r.tick] <= TTL - 1 + Latency
    BY <1>4, FreshIsRecent DEF Holds
  <2>3. SignedOrders' = SignedOrders /\ r.orders \subseteq SignedOrders'
    BY <1>5, <1>7 DEF SignedOrders, orderVars
  <2>4. ~(r.pc \in Asks /\ r.answer # 0) /\ UNCHANGED marketVars
    BY <1>5, <1>7
  <2> QED
    BY <1>3, <1>6, <1>7, <2>1, <2>2, <2>3, <2>4, CallStep DEF Holds
<1>9. Reports'
  BY <1>3, <1>5, <1>7, NothingToReport DEF Holds, orderVars, Acts
<1> QED
  BY <1>8, <1>9 DEF StepKeeps

LEMMA CreateSteps ==
  ASSUME Holds, NEW c \in Callers,
         \/ CreateOrder(c) \/ CreateAndPostOrder(c) \/ CreateMarketOrder(c)
         \/ CreateAndPostMarketOrder(c) \/ CreateAndPostOrders(c)
  PROVE  StepKeeps
<1> DEFINE Some(k) == Draft(k) /\ k.tick = 0 /\ k.orders = {}
<1>1. ASSUME NEW w \in Options, NEW p \in Prices \cup {0}
      PROVE  /\ Some(LimitOrder(w, p)) /\ Some(MarketOrder(w, p))
             /\ Some(Posted(LimitOrder(w, p))) /\ Some(Posted(MarketOrder(w, p)))
             /\ \A n \in 1..Batch : Some([Posted(LimitOrder(w, p)) EXCEPT !.left = n])
  <2> DEFINE k == LimitOrder(w, p)
             R(m, b, n) == [k EXCEPT !.market = m, !.post = b, !.left = n]
  <2>1. Some(k)
    BY LimitOrderIs
  <2>2. k \in CallRecords /\ k.left = 1 /\ k.market = FALSE /\ k.post = FALSE
    BY <2>1 DEF Draft, LimitOrder, Idle
  <2>3. 1 \in 1..Batch
    BY ClobAssumption
  <2>4. MarketOrder(w, p) = [k EXCEPT !.market = TRUE]
    BY DEF MarketOrder
  <2> HIDE DEF k
  <2>5. \A m, b \in BOOLEAN, n \in 1..Batch : Some(R(m, b, n))
    BY <2>1, DraftWith
  <2>6. /\ [k EXCEPT !.market = TRUE] = R(TRUE, FALSE, 1)
        /\ [k EXCEPT !.post = TRUE] = R(FALSE, TRUE, 1)
        /\ [[k EXCEPT !.market = TRUE] EXCEPT !.post = TRUE] = R(TRUE, TRUE, 1)
        /\ \A n \in 1..Batch : [[k EXCEPT !.post = TRUE] EXCEPT !.left = n] = R(FALSE, TRUE, n)
    BY <2>2 DEF CallRecords
  <2> HIDE DEF R, Some
  <2>7. /\ Some(k) /\ Some([k EXCEPT !.market = TRUE]) /\ Some([k EXCEPT !.post = TRUE])
        /\ Some([[k EXCEPT !.market = TRUE] EXCEPT !.post = TRUE])
    <3>1. Some(R(TRUE, FALSE, 1)) /\ Some(R(FALSE, TRUE, 1)) /\ Some(R(TRUE, TRUE, 1))
      BY <2>3, <2>5
    <3>2. Some([k EXCEPT !.market = TRUE])
      BY <2>6, <3>1
    <3>3. Some([k EXCEPT !.post = TRUE])
      BY <2>6, <3>1
    <3>4. Some([[k EXCEPT !.market = TRUE] EXCEPT !.post = TRUE])
      BY <2>6, <3>1
    <3> QED
      BY <2>1, <3>2, <3>3, <3>4
  <2>8. \A n \in 1..Batch : Some([[k EXCEPT !.post = TRUE] EXCEPT !.left = n])
    BY <2>5, <2>6
  <2>9. /\ LimitOrder(w, p) = k /\ Posted(k) = [k EXCEPT !.post = TRUE]
        /\ Posted(MarketOrder(w, p)) = [[k EXCEPT !.market = TRUE] EXCEPT !.post = TRUE]
    BY <2>4 DEF Posted, k
  <2> QED
    BY <2>4, <2>7, <2>8, <2>9
<1>2. ASSUME NEW k, Some(k), Creates(c, k) PROVE StepKeeps
  BY <1>2, CreatesStep
<1>3. 0 \in Options
  BY DEF Options
<1> HIDE DEF Some
<1>4. CASE CreateOrder(c) \/ CreateAndPostOrder(c)
  <2>1. PICK w \in Options, p \in Prices :
          Creates(c, LimitOrder(w, p)) \/ Creates(c, Posted(LimitOrder(w, p)))
    BY <1>4, Zenon DEF CreateOrder, CreateAndPostOrder
  <2> QED
    BY <1>1, <1>2, <2>1
<1>5. CASE CreateMarketOrder(c) \/ CreateAndPostMarketOrder(c)
  <2>1. PICK w \in Options, p \in Prices \cup {0} :
          Creates(c, MarketOrder(w, p)) \/ Creates(c, Posted(MarketOrder(w, p)))
    BY <1>5, Zenon DEF CreateMarketOrder, CreateAndPostMarketOrder
  <2> QED
    BY <1>1, <1>2, <2>1
<1>6. CASE CreateAndPostOrders(c)
  <2>1. PICK n \in 1..Batch, p \in Prices :
          Creates(c, [Posted(LimitOrder(0, p)) EXCEPT !.left = n])
    BY <1>6, Zenon DEF CreateAndPostOrders
  <2>2. Some([Posted(LimitOrder(0, p)) EXCEPT !.left = n])
    BY <1>1, <1>3
  <2> QED
    BY <1>2, <2>1, <2>2
<1> QED
  BY <1>4, <1>5, <1>6

\* A call that has no orders ends, or waits, and only it has changed.
LEMMA AskStep ==
  ASSUME Holds, NEW c \in Callers, NEW r, CallOK(r), calls' = [calls EXCEPT ![c] = r],
         calls[c].pc \notin Acts, r.pc \notin Acts, r.orders \subseteq calls[c].orders,
         UNCHANGED <<marketVars, orderVars>>, cache' \in Entries, info' \in BOOLEAN,
         budget' \in [create : Nat, send : Nat],
         r.pc \in Asks /\ r.answer # 0 => since[r.answer] <= r.wait,
         cache' = cache \/ since[cache'.tick] <= cache'.age + Latency,
         r.tick # 0 /\ r.wants = 0 /\ calls[c].pc # "book" /\ r # calls[c]
           => since[r.tick] <= TTL - 1 + Latency
  PROVE  StepKeeps
<1>1. Others'
  BY DEF Holds, Types, Others, marketVars, orderVars
<1>2. SignedOrders' = SignedOrders /\ r.orders \subseteq SignedOrders
  BY DEF Holds, Types, SignedOrders, orderVars, Acts
<1>3. Fresh(cache') => since[cache'.tick] <= cache'.age + Latency
  BY DEF Holds, Recent
<1>4. Types' /\ Recent' /\ TicksAreRecent
  BY <1>1, <1>2, <1>3, CallStep DEF Holds
<1>5. Reports'
  BY NothingToReport DEF Holds, orderVars, CallOK
<1> QED
  BY <1>4, <1>5 DEF StepKeeps

LEMMA RefreshStep == ASSUME Holds, NEW c \in Callers, Refresh(c) PROVE StepKeeps
<1> DEFINE r == Waits(Idle, "refresh")
<1>1. /\ r \in CallRecords /\ r.pc = "refresh" /\ r.answer = 0 /\ r.tick = 0
      /\ r.orders = {} /\ r.result = "none" /\ r.done = {}
  <2>1. Idle \in CallRecords /\ "refresh" \in Asks
    BY IdleOK DEF CallOK, Asks
  <2>2. Idle.tick = 0 /\ Idle.orders = {} /\ Idle.result = "none" /\ Idle.done = {}
    BY DEF Idle
  <2> QED
    BY <2>1, <2>2, WaitsType
<1>2. calls' = [calls EXCEPT ![c] = r]
  BY DEF Refresh
<1> HIDE DEF r
<1>3. CallOK(r)
  BY <1>1 DEF CallOK, Acts
<1>4. /\ UNCHANGED <<marketVars, cacheVars, orderVars>> /\ calls[c].pc = "idle"
      /\ budget' \in [create : Nat, send : Nat]
  BY BudgetType DEF Refresh, Holds
<1>5. cache' = cache /\ cache' \in Entries /\ info' \in BOOLEAN
  BY <1>4 DEF Holds, Types, Others, cacheVars
<1> QED
  BY <1>1, <1>2, <1>3, <1>4, <1>5, AskStep DEF Acts

LEMMA AnsweredStep == ASSUME Holds, NEW c \in Callers, Answered(c) PROVE StepKeeps
<1> DEFINE r == [calls[c] EXCEPT !.answer = market]
<1>1. /\ calls[c] \in CallRecords /\ CallOK(calls[c]) /\ market \in TickSizes
      /\ since[market] = 0 /\ calls \in [Callers -> CallRecords]
  BY DEF Holds, Types, Others, Recent
<1>2. calls' = [calls EXCEPT ![c] = r]
  BY <1>1 DEF Answered, CallRecords
<1>3. /\ r \in CallRecords /\ r.pc = calls[c].pc /\ r.answer = market /\ r.tick = calls[c].tick
      /\ r.orders = calls[c].orders /\ r.result = calls[c].result /\ r.done = calls[c].done
      /\ r.left = calls[c].left /\ r.wait = calls[c].wait
  BY <1>1 DEF CallRecords
<1> HIDE DEF r
<1>4. CallOK(r)
  BY <1>1, <1>3 DEF CallOK
<1>5. /\ UNCHANGED <<marketVars, cacheVars, budget, orderVars>> /\ calls[c].pc \in Asks
  BY DEF Answered
<1>6. /\ cache' = cache /\ cache' \in Entries /\ info' \in BOOLEAN
      /\ budget' \in [create : Nat, send : Nat]
  BY <1>5 DEF Holds, Types, Others, cacheVars
<1>7. r.tick # 0 => calls[c].pc = "book"
  BY <1>1, <1>3, <1>5 DEF CallOK, Asks
<1>8. r.pc \notin Acts /\ calls[c].pc \notin Acts /\ since[r.answer] <= r.wait
  BY <1>1, <1>3, <1>5, ClobAssumption DEF Asks, Acts, CallRecords
<1> QED
  BY <1>2, <1>3, <1>4, <1>5, <1>6, <1>7, <1>8, AskStep

LEMMA RequestFailsStep == ASSUME Holds, NEW c \in Callers, RequestFails(c) PROVE StepKeeps
<1>1. /\ UNCHANGED <<marketVars, cacheVars, budget, orderVars>>
      /\ calls' = [calls EXCEPT ![c] = Idle] /\ calls[c].pc \notin Acts
  BY DEF RequestFails, Asks, Acts
<1>2. /\ cache' = cache /\ cache' \in Entries /\ info' \in BOOLEAN
      /\ budget' \in [create : Nat, send : Nat]
  BY <1>1 DEF Holds, Types, Others, cacheVars
<1>3. Idle.pc \notin Acts /\ Idle.pc \notin Asks
  BY IdleOK DEF Acts, Asks
<1> QED
  BY <1>1, <1>2, <1>3, IdleOK, AskStep

\* The answer to a request of a call is there.
Received(c) == InfoReceived(c) \/ TickReceived(c) \/ BookReceived(c) \/ Refreshed(c)

\* What a call goes on with when its answer is there.
LEMMA ReceivedGoesOn ==
  ASSUME Holds, NEW c \in Callers, Received(c)
  PROVE  \E r : /\ calls' = [calls EXCEPT ![c] = r] /\ Continues(calls[c], r)
                /\ r.tick # 0 /\ r.wants = 0 /\ calls[c].pc # "book"
                     => since[r.tick] <= TTL - 1 + Latency
<1> DEFINE k == calls[c]
           a == calls[c].answer
<1>1. /\ k \in CallRecords /\ CallOK(k) /\ k.pc \in Asks /\ a \in TickSizes
      /\ since[a] \in Nat /\ since[a] <= Latency
  <2>1. /\ k \in CallRecords /\ CallOK(k) /\ k.pc \in Asks /\ a # 0
        /\ since[a] <= k.wait
    BY DEF Received, InfoReceived, TickReceived, BookReceived, Refreshed, Answers, Asks, Holds, Types, Recent
  <2>2. a \in TickSizes /\ k.wait \in 0..Latency
    BY <2>1 DEF CallRecords
  <2>3. since[a] \in Nat
    BY <2>2, ClobAssumption DEF Holds, Types, Others, Old
  <2> QED
    BY <2>1, <2>2, <2>3, ClobAssumption
<1>2. since[a] <= TTL - 1 + Latency
  BY <1>1, ClobAssumption
<1>3. k.pc # "refresh" => Draft(k)
  BY <1>1 DEF CallOK, Draft, Asks, Acts
<1>4. k.pc # "book" => k.tick = 0
  BY <1>1 DEF CallOK, Asks
<1>5. Continues(k, Idle) /\ Idle.tick = 0
  BY IdleOK DEF Continues, Idle, Acts
<1>6. CASE k.pc = "info"
  <2> DEFINE w == Waits(k, "fees")
  <2>1. calls' = [calls EXCEPT ![c] = w]
    BY <1>6 DEF Received, InfoReceived, TickReceived, BookReceived, Refreshed, Answers, Asks
  <2>2. /\ w \in CallRecords /\ w.pc = "fees" /\ w.answer = 0 /\ w.tick = 0
        /\ w.left = k.left /\ w.orders = k.orders /\ w.result = k.result
        /\ w.done = k.done
    BY <1>1, <1>4, <1>6, WaitsType
  <2>3. Draft(k)
    BY <1>3, <1>6
  <2> HIDE DEF w
  <2>4. CallOK(w)
    BY <2>2, <2>3 DEF CallOK, Draft, Acts
  <2>5. Continues(k, w)
    BY <2>2, <2>3, <2>4 DEF Continues, Draft, Acts
  <2> QED
    BY <2>1, <2>2, <2>5
<1>7. CASE k.pc = "tick"
  <2>1. calls' = [calls EXCEPT ![c] = Resolved(k, a)]
    BY <1>7 DEF Received, InfoReceived, TickReceived, BookReceived, Refreshed, Answers, Asks
  <2> QED
    BY <1>1, <1>2, <1>3, <1>7, <2>1, ResolvedOK
<1>8. CASE k.pc = "book"
  <2>1. \/ calls' = [calls EXCEPT ![c] = Idle]
        \/ \E p \in Prices : calls' = [calls EXCEPT ![c] = Priced([k EXCEPT !.price = p])]
    BY <1>8 DEF Received, InfoReceived, TickReceived, BookReceived, Refreshed, Answers, Asks
  <2>2. CASE calls' = [calls EXCEPT ![c] = Idle]
    BY <1>5, <2>2
  <2>3. ASSUME NEW p \in Prices, calls' = [calls EXCEPT ![c] = Priced([k EXCEPT !.price = p])]
        PROVE  \E r : /\ calls' = [calls EXCEPT ![c] = r] /\ Continues(k, r)
    <3> DEFINE h == [k EXCEPT !.price = p]
    <3>1. h \in CallRecords /\ h.tick = k.tick /\ h.left = k.left /\ h.result = k.result
          /\ h.done = k.done /\ h.orders = k.orders
      BY <1>1 DEF CallRecords
    <3> HIDE DEF h
    <3>2. Draft(h) /\ h.tick # 0
      BY <1>1, <1>3, <1>8, <3>1 DEF Draft, CallOK
    <3>3. Continues(k, Priced(h))
      BY <3>1, <3>2, PricedOK DEF Continues
    <3> QED
      BY <2>3, <3>3 DEF h
  <2> QED
    BY <1>8, <2>1, <2>2, <2>3, <1>5
<1>9. CASE k.pc = "refresh"
  <2>1. calls' = [calls EXCEPT ![c] = Idle]
    BY <1>9 DEF Received, InfoReceived, TickReceived, BookReceived, Refreshed, Answers, Asks
  <2> QED
    BY <1>5, <2>1
<1> QED
  BY <1>1, <1>6, <1>7, <1>8, <1>9 DEF Asks

LEMMA FeesKnownStep == ASSUME Holds, NEW c \in Callers, FeesKnown(c) PROVE StepKeeps
<1> DEFINE k == calls[c]
           r == TickAsked(k, cache)
<1>1. /\ calls' = [calls EXCEPT ![c] = r] /\ k.pc = "fees"
      /\ UNCHANGED <<marketVars, cacheVars, budget, orderVars>>
  BY DEF FeesKnown, Holds, Types
<1>2. Draft(k) /\ k.tick = 0
  BY <1>1 DEF Holds, Types, CallOK, Draft, Acts
<1>3. /\ cache' = cache /\ cache \in Entries /\ info' \in BOOLEAN
      /\ budget' \in [create : Nat, send : Nat]
  BY <1>1 DEF Holds, Types, Others, cacheVars
<1>4. /\ Continues(k, r)
      /\ r.tick # 0 /\ r.wants = 0 => Fresh(cache) /\ r.tick = cache.tick
  BY <1>2, <1>3, TickAskedOK
<1> HIDE DEF r
<1>5. r.tick # 0 /\ r.wants = 0 => since[r.tick] <= TTL - 1 + Latency
  BY <1>4, FreshIsRecent DEF Holds
<1>6. /\ CallOK(r) /\ r.pc \notin Acts /\ r.orders \subseteq k.orders /\ r.answer = 0
  BY <1>4 DEF Continues
<1>7. k.pc \notin Acts
  BY <1>1 DEF Acts
<1> QED
  BY <1>1, <1>3, <1>5, <1>6, <1>7, AskStep

LEMMA ReceivedStep == ASSUME Holds, NEW c \in Callers, Received(c) PROVE StepKeeps
<1> DEFINE a == calls[c].answer
<1>1. PICK r : /\ calls' = [calls EXCEPT ![c] = r] /\ Continues(calls[c], r)
               /\ r.tick # 0 /\ r.wants = 0 /\ calls[c].pc # "book"
                    => since[r.tick] <= TTL - 1 + Latency
  BY ReceivedGoesOn
<1>2. /\ calls[c].pc \in Asks /\ a # 0 /\ UNCHANGED <<marketVars, budget, orderVars>>
      /\ cache' = cache \/ cache' = Kept(a)
      /\ info' \in {TRUE, FALSE} \cup {info}
  BY DEF Received, InfoReceived, TickReceived, BookReceived, Refreshed, Answers, Asks
<1>3. a \in TickSizes /\ since[a] <= calls[c].wait /\ calls[c].wait \in 0..Latency
      /\ since[a] \in Nat
  BY <1>2, ClobAssumption DEF Holds, Types, Others, CallRecords, Recent, Old
<1>4. cache' = cache \/ (cache'.tick = a /\ cache'.age = 0 /\ cache' \in Entries)
  BY <1>2, <1>3, ClobAssumption DEF Kept, Entries
<1>5. cache' \in Entries /\ (cache' = cache \/ since[cache'.tick] <= cache'.age + Latency)
  BY <1>3, <1>4, ClobAssumption DEF Holds, Types, Others
<1>6. info' \in BOOLEAN /\ budget' \in [create : Nat, send : Nat]
  BY <1>2 DEF Holds, Types, Others
<1>7. /\ CallOK(r) /\ r.pc \notin Acts /\ r.orders \subseteq calls[c].orders
      /\ r.answer = 0
  BY <1>1 DEF Continues
<1>8. calls[c].pc \notin Acts
  BY <1>2 DEF Asks, Acts
<1> QED
  BY <1>1, <1>2, <1>5, <1>6, <1>7, <1>8, AskStep

-----------------------------------------------------------------------------
\* The market, the clock, the cache.

LEMMA TickChangesStep == ASSUME Holds, TickChanges PROVE StepKeeps
<1>1. /\ market' \in TickSizes /\ since' = [since EXCEPT ![market'] = 0]
      /\ UNCHANGED <<cacheVars, budget, calls, orderVars>>
  BY DEF TickChanges
<1>2. /\ since' \in [TickSizes -> 0..Old] /\ since'[market'] = 0
      /\ \A t \in TickSizes : since'[t] <= since[t]
  BY <1>1, ClobAssumption DEF Holds, Types, Others, Old
<1>3. Types'
  BY <1>1, <1>2 DEF Holds, Types, Others, cacheVars, orderVars, SignedOrders
<1>4. \A c \in Callers : calls[c].answer # 0 => calls[c].answer \in TickSizes
  BY DEF Holds, Types, CallRecords
<1>5. \A c \in Callers : calls[c].wait \in 0..Latency
  BY DEF Holds, Types, CallRecords
<1>6. Fresh(cache) => cache.tick \in TickSizes /\ cache.age \in Nat
  BY EntryType, ClobAssumption DEF Holds, Types, Others, Fresh
<1>7. \A t \in TickSizes : since[t] \in Nat /\ since'[t] \in Nat
  BY <1>2, ClobAssumption DEF Holds, Types, Others, Old
<1>8. Recent'
  <2>1. \A c \in Callers :
          calls[c].pc \in Asks /\ calls[c].answer # 0 => since'[calls[c].answer] <= calls[c].wait
    BY <1>2, <1>4, <1>5, <1>7, ClobAssumption DEF Holds, Recent
  <2>2. Fresh(cache) => since'[cache.tick] <= cache.age + Latency
    BY <1>2, <1>6, <1>7, ClobAssumption DEF Holds, Recent
  <2> QED
    BY <1>1, <1>2, <2>1, <2>2 DEF Recent, cacheVars
<1>9. Reports'
  BY <1>1 DEF Holds, Reports, WillTell, orderVars
<1>10. TicksAreRecent
  BY <1>1 DEF TicksAreRecent
<1> QED
  BY <1>3, <1>8, <1>9, <1>10 DEF StepKeeps

LEMMA ClearStep == ASSUME Holds, ClearTickSizeCache PROVE StepKeeps
<1>1. /\ cache' = None /\ UNCHANGED <<marketVars, info, budget, calls, orderVars>>
  BY DEF ClearTickSizeCache
<1>2. Types'
  BY <1>1 DEF Holds, Types, Others, Entries, marketVars, orderVars, SignedOrders
<1>3. Recent' /\ TicksAreRecent
  BY <1>1 DEF Holds, Recent, TicksAreRecent, Fresh, marketVars
<1>4. Reports'
  BY <1>1 DEF Holds, Reports, WillTell, orderVars
<1> QED
  BY <1>2, <1>3, <1>4 DEF StepKeeps

LEMMA TimeStep == ASSUME Holds, Time PROVE StepKeeps
<1>1. /\ \A c \in Callers : calls[c].wait < Latency
      /\ since' = [t \in TickSizes |-> IF t = market THEN 0 ELSE Sooner(since[t], Old)]
      /\ cache' = IF cache = None THEN None ELSE [cache EXCEPT !.age = Sooner(@, TTL)]
      /\ calls' = [c \in Callers |->
                     IF calls[c].pc \in Asks /\ calls[c].answer # 0
                     THEN [calls[c] EXCEPT !.wait = @ + 1] ELSE calls[c]]
      /\ UNCHANGED <<market, info, budget, orderVars>>
  BY DEF Time
<1>2. /\ since' \in [TickSizes -> 0..Old] /\ since'[market'] = 0
      /\ \A t \in TickSizes : since[t] \in Nat /\ since'[t] \in Nat /\ since'[t] <= since[t] + 1
  <2>1. since \in [TickSizes -> 0..Old] /\ market \in TickSizes /\ Old \in Nat
    BY ClobAssumption DEF Holds, Types, Others, Old
  <2> QED
    BY <1>1, <2>1 DEF Sooner
<1>3. ASSUME cache # None
      PROVE  /\ cache' \in Entries /\ cache'.tick = cache.tick /\ cache.tick \in TickSizes
             /\ cache.age \in 0..TTL /\ cache'.age = Sooner(cache.age, TTL)
  <2>1. cache \in [tick : TickSizes, age : 0..TTL]
    BY <1>3 DEF Holds, Types, Others, Entries
  <2>2. cache' = [cache EXCEPT !.age = Sooner(@, TTL)]
    BY <1>1, <1>3
  <2>3. Sooner(cache.age, TTL) \in 0..TTL
    BY <2>1, ClobAssumption DEF Sooner
  <2>4. cache' \in [tick : TickSizes, age : 0..TTL]
        /\ cache'.tick = cache.tick /\ cache'.age = Sooner(cache.age, TTL)
    BY <2>1, <2>2, <2>3
  <2> QED
    BY <2>1, <2>4 DEF Entries
<1>4. ASSUME NEW c \in Callers
      PROVE  /\ calls'[c] \in CallRecords /\ CallOK(calls'[c])
             /\ calls'[c].orders = calls[c].orders /\ calls'[c].pc = calls[c].pc
             /\ calls'[c].done = calls[c].done /\ calls'[c].result = calls[c].result
             /\ calls'[c].answer = calls[c].answer /\ calls'[c].tick = calls[c].tick
             /\ calls[c].wait \in Nat
             /\ calls[c].pc \in Asks /\ calls[c].answer # 0 => calls'[c].wait = calls[c].wait + 1
             /\ calls'[c] # calls[c] => calls[c].pc \in Asks
  <2>1. calls[c] \in CallRecords /\ CallOK(calls[c]) /\ calls[c].wait + 1 \in 0..Latency
    BY <1>1, ClobAssumption DEF Holds, Types, CallRecords
  <2>2. CASE calls[c].pc \in Asks /\ calls[c].answer # 0
    <3> DEFINE r == [calls[c] EXCEPT !.wait = @ + 1]
    <3>1. calls'[c] = r
      BY <1>1, <2>2
    <3>2. /\ r \in CallRecords /\ r.orders = calls[c].orders /\ r.pc = calls[c].pc
          /\ r.done = calls[c].done /\ r.result = calls[c].result
          /\ r.answer = calls[c].answer /\ r.tick = calls[c].tick /\ r.left = calls[c].left
          /\ r.wait = calls[c].wait + 1
      BY <2>1 DEF CallRecords
    <3> HIDE DEF r
    <3>3. CallOK(r)
      BY <2>1, <3>2 DEF CallOK
    <3> QED
      BY <2>1, <2>2, <3>1, <3>2, <3>3, ClobAssumption DEF CallRecords
  <2>3. CASE ~(calls[c].pc \in Asks /\ calls[c].answer # 0)
    <3>1. calls'[c] = calls[c]
      BY <1>1, <2>3
    <3> QED
      BY <2>1, <2>3, <3>1, ClobAssumption DEF CallRecords
  <2> QED
    BY <2>2, <2>3
<1>5. Types'
  <2>1. cache' \in Entries
    BY <1>1, <1>3 DEF Entries
  <2>2. calls' \in [Callers -> CallRecords]
    BY <1>1, <1>4
  <2>3. Others'
    BY <1>1, <1>2, <2>1 DEF Holds, Types, Others, orderVars
  <2> QED
    BY <1>1, <1>4, <2>2, <2>3 DEF Holds, Types, SignedOrders, orderVars
<1>6. Recent'
  <2>1. ASSUME NEW c \in Callers, calls[c].pc \in Asks, calls[c].answer # 0
        PROVE  since'[calls[c].answer] <= calls[c].wait + 1
    <3>1. calls[c].answer \in TickSizes /\ since[calls[c].answer] <= calls[c].wait
      BY <2>1 DEF Holds, Types, Recent, CallRecords
    <3> QED
      BY <1>2, <1>4, <3>1
  <2>2. ASSUME Fresh(cache') PROVE since'[cache'.tick] <= cache'.age + Latency
    <3>1. cache # None /\ cache'.age < TTL
      BY <1>1, <2>2 DEF Fresh
    <3>2. cache.age < TTL /\ cache'.age = cache.age + 1
      BY <1>3, <3>1, ClobAssumption DEF Sooner
    <3>3. since[cache.tick] <= cache.age + Latency
      BY <3>1, <3>2 DEF Holds, Recent, Fresh
    <3> QED
      BY <1>2, <1>3, <3>1, <3>2, <3>3, ClobAssumption
  <2>3. \A c \in Callers :
          calls'[c].pc \in Asks /\ calls'[c].answer # 0
            => since'[calls'[c].answer] <= calls'[c].wait
    BY <1>4, <2>1
  <2> QED
    BY <1>2, <2>2, <2>3 DEF Recent
<1>7. Reports'
  <2>1. \A o \in Orders : WillTell(o) => WillTell(o)'
    BY <1>4 DEF WillTell
  <2> QED
    BY <1>1, <1>4, <2>1 DEF Holds, Reports, orderVars
<1>8. TicksAreRecent
  BY <1>4 DEF TicksAreRecent, CallOK, Asks
<1> QED
  BY <1>5, <1>6, <1>7, <1>8 DEF StepKeeps

-----------------------------------------------------------------------------
\* The actions that sign and act.

\* The locals when an order has been signed.
After(orders, left, post) == [Idle EXCEPT !.orders = orders, !.left = left, !.post = post]

LEMMA AfterType ==
  ASSUME NEW S \in SUBSET Orders, NEW n \in 0..Batch, NEW b \in BOOLEAN
  PROVE  /\ After(S, n, b) \in CallRecords /\ After(S, n, b).orders = S
         /\ After(S, n, b).tick = 0 /\ After(S, n, b).result = "none"
         /\ After(S, n, b).done = {}
<1>1. /\ Idle \in CallRecords /\ Idle.tick = 0 /\ Idle.result = "none" /\ Idle.done = {}
      /\ Idle.answer = 0 /\ Idle.pc = "idle"
  BY IdleOK DEF CallOK, Idle
<1> QED
  BY <1>1 DEF After, CallRecords

\* A call that starts to act on orders.
LEMMA ActsOK ==
  ASSUME NEW k \in CallRecords, k.tick = 0, k.result = "none", k.done = {}, k.orders # {},
         NEW what \in Acts
  PROVE  /\ CallOK(Waits(k, what)) /\ Waits(k, what).orders = k.orders
         /\ Waits(k, what).tick = 0 /\ Waits(k, what).result = "none"
         /\ Waits(k, what).pc = what /\ Waits(k, what).done = {}
<1> DEFINE r == Waits(k, what)
<1>1. /\ r \in CallRecords /\ r.pc = what /\ r.tick = 0 /\ r.orders = k.orders
      /\ r.result = "none" /\ r.done = {}
  BY WaitsType
<1> HIDE DEF r
<1>2. CallOK(r)
  BY <1>1 DEF CallOK, Acts
<1> QED
  BY <1>1, <1>2 DEF r

LEMMA SignedGoesOn ==
  ASSUME Holds, NEW c \in Callers, Signed(c)
  PROVE  \E o \in Orders : \E r :
           /\ server[o] = "unsigned" /\ server' = [server EXCEPT ![o] = "signed"]
           /\ calls' = [calls EXCEPT ![c] = r] /\ CallOK(r)
           /\ r.orders \subseteq calls[c].orders \cup {o} /\ r.answer = 0 /\ r.result = "none"
           /\ r.tick # 0 /\ r.wants = 0 => since[r.tick] <= TTL - 1 + Latency
<1> DEFINE Call(o) == After(calls[c].orders \cup {o}, calls[c].left - 1, calls[c].post)
<1>1. PICK o \in Orders :
        /\ server[o] = "unsigned" /\ server' = [server EXCEPT ![o] = "signed"]
        /\ \E next \in
              IF Call(o).left > 0
              THEN {Created([Call(o) EXCEPT !.price = p]) : p \in Prices}
              ELSE {IF Call(o).post THEN [Waits(Call(o), "post") EXCEPT !.post = FALSE]
                    ELSE Idle} :
              calls' = [calls EXCEPT ![c] = next]
  BY Zenon DEF Signed, After
<1> DEFINE k == Call(o)
           S == calls[c].orders \cup {o}
<1>2. /\ calls[c] \in CallRecords /\ CallOK(calls[c]) /\ calls[c].pc = "neg"
  BY DEF Signed, Holds, Types
<1>3. S \in SUBSET Orders /\ calls[c].left - 1 \in 0..Batch /\ calls[c].post \in BOOLEAN
  BY <1>2, ClobAssumption DEF CallRecords, CallOK
<1>4. /\ k \in CallRecords /\ k.orders = S /\ k.tick = 0
      /\ k.result = "none" /\ k.done = {}
  <2> DEFINE n == calls[c].left - 1
             b == calls[c].post
  <2>1. k = After(S, n, b) /\ S \in SUBSET Orders /\ n \in 0..Batch /\ b \in BOOLEAN
    BY <1>3
  <2> HIDE DEF k, S, n, b
  <2> QED
    BY ONLY <2>1, AfterType
<1>5. PICK r : /\ calls' = [calls EXCEPT ![c] = r]
               /\ \/ k.left > 0 /\ \E p \in Prices : r = Created([k EXCEPT !.price = p])
                  \/ r = [Waits(k, "post") EXCEPT !.post = FALSE]
                  \/ r = Idle
  BY <1>1
<1> HIDE DEF k
<1>6. CASE k.left > 0 /\ \E p \in Prices : r = Created([k EXCEPT !.price = p])
  <2> PICK p \in Prices : r = Created([k EXCEPT !.price = p])
    BY <1>6
  <2> DEFINE h == [k EXCEPT !.price = p]
  <2>1. /\ h \in CallRecords /\ h.tick = 0 /\ h.left = k.left /\ h.result = "none"
        /\ h.done = {} /\ h.orders = S
    BY <1>4 DEF CallRecords
  <2>2. r = Created(h)
    OBVIOUS
  <2> HIDE DEF h
  <2>3. Draft(h) /\ cache \in Entries
    BY <1>4, <1>6, <2>1, ClobAssumption DEF Draft, Holds, Types, Others, CallRecords
  <2>4. /\ Continues(h, r)
        /\ r.tick # 0 /\ r.wants = 0 => Fresh(cache) /\ r.tick = cache.tick
    BY <2>1, <2>2, <2>3, CreatedOK
  <2>5. r.tick # 0 /\ r.wants = 0 => since[r.tick] <= TTL - 1 + Latency
    BY <2>4, FreshIsRecent DEF Holds
  <2> QED
    BY <1>1, <1>5, <2>1, <2>4, <2>5 DEF Continues
<1>7. CASE r = [Waits(k, "post") EXCEPT !.post = FALSE]
  <2> DEFINE w == Waits(k, "post")
  <2>1. /\ w \in CallRecords /\ w.orders = S /\ w.tick = 0 /\ w.answer = 0
        /\ w.result = "none" /\ w.pc = "post" /\ w.done = {}
    BY <1>4, WaitsType DEF Acts
  <2> HIDE DEF w
  <2>2. /\ r \in CallRecords /\ r.orders = S /\ r.tick = 0 /\ r.answer = 0
        /\ r.result = "none" /\ r.pc = "post" /\ r.done = {}
    BY <1>7, <2>1 DEF CallRecords, w
  <2>3. CallOK(r)
    BY <2>2 DEF CallOK, Acts
  <2> QED
    BY <1>1, <1>5, <2>2, <2>3
<1>8. CASE r = Idle
  BY <1>1, <1>5, <1>8, IdleOK DEF Idle
<1> QED
  BY <1>5, <1>6, <1>7, <1>8

LEMMA SignedStep == ASSUME Holds, NEW c \in Callers, Signed(c) PROVE StepKeeps
<1>0. PICK o \in Orders : \E r :
           /\ server[o] = "unsigned" /\ server' = [server EXCEPT ![o] = "signed"]
           /\ calls' = [calls EXCEPT ![c] = r] /\ CallOK(r)
           /\ r.orders \subseteq calls[c].orders \cup {o} /\ r.answer = 0 /\ r.result = "none"
           /\ r.tick # 0 /\ r.wants = 0 => since[r.tick] <= TTL - 1 + Latency
  BY SignedGoesOn
<1>1. PICK r :
           /\ server[o] = "unsigned" /\ server' = [server EXCEPT ![o] = "signed"]
           /\ calls' = [calls EXCEPT ![c] = r] /\ CallOK(r)
           /\ r.orders \subseteq calls[c].orders \cup {o} /\ r.answer = 0 /\ r.result = "none"
           /\ r.tick # 0 /\ r.wants = 0 => since[r.tick] <= TTL - 1 + Latency
  BY <1>0
<1>2. /\ UNCHANGED <<marketVars, cacheVars, budget, told, late>> /\ calls[c].pc \notin Acts
  BY DEF Signed, Acts
<1>3. /\ server' \in [Orders -> {"unsigned", "signed", "live", "gone"}]
      /\ server'[o] = "signed" /\ \A p \in Orders \ {o} : server'[p] = server[p]
  BY <1>1 DEF Holds, Types, Others
<1>4. Others'
  BY <1>2, <1>3 DEF Holds, Types, Others, marketVars, cacheVars
<1>5. SignedOrders' = SignedOrders \cup {o} /\ r.orders \subseteq SignedOrders'
  BY <1>1, <1>2, <1>3 DEF Acts, SignedOrders, Holds, Types
<1>6. Fresh(cache') => since[cache'.tick] <= cache'.age + Latency
  BY <1>2 DEF Holds, Recent, cacheVars
<1>7. Types' /\ Recent' /\ TicksAreRecent
  BY <1>1, <1>2, <1>4, <1>5, <1>6, CallStep DEF Holds
<1>8. Reports'
  BY <1>1, <1>2, <1>3, NothingToReport DEF Holds
<1> QED
  BY <1>7, <1>8 DEF StepKeeps

LEMMA SendsStep ==
  ASSUME Holds, NEW c \in Callers, NEW what \in Acts, NEW S \in SUBSET Orders, S # {},
         what = "post" => S \subseteq SignedOrders, Sends(c, what, S)
  PROVE  StepKeeps
<1> DEFINE k == [Idle EXCEPT !.orders = S]
           r == Waits(k, what)
<1>1. calls' = [calls EXCEPT ![c] = Waits([Idle EXCEPT !.orders = S], what)]
  BY DEF Sends
<1>2. S # {} /\ S \in SUBSET Orders /\ (what # "cancel" => S \subseteq SignedOrders)
  BY DEF Acts
<1>3. /\ k \in CallRecords /\ k.orders = S /\ k.tick = 0 /\ k.result = "none" /\ k.done = {}
  <2>1. Idle \in CallRecords /\ Idle.tick = 0 /\ Idle.result = "none" /\ Idle.done = {}
    BY IdleOK DEF CallOK, Idle
  <2> QED
    BY <1>2, <2>1 DEF CallRecords
<1>4. calls' = [calls EXCEPT ![c] = r]
  BY <1>1
<1> HIDE DEF k
<1>5. CallOK(r) /\ r.orders = S /\ r.tick = 0 /\ r.result = "none" /\ r.pc = what
  BY <1>2, <1>3, ActsOK
<1> HIDE DEF r
<1>6. /\ UNCHANGED <<marketVars, cacheVars, orderVars>> /\ calls[c].pc = "idle"
      /\ budget' \in [create : Nat, send : Nat]
  BY BudgetType DEF Sends, Holds
<1>7. Others'
  BY <1>6 DEF Holds, Types, Others, marketVars, cacheVars, orderVars
<1>8. /\ SignedOrders' = SignedOrders /\ (r.pc # "cancel" => r.orders \subseteq SignedOrders')
      /\ Fresh(cache') => since[cache'.tick] <= cache'.age + Latency
  BY <1>2, <1>5, <1>6 DEF SignedOrders, orderVars, cacheVars, Holds, Recent
<1>9. r.pc \notin Asks /\ UNCHANGED marketVars
  BY <1>5, <1>6 DEF Asks, Acts
<1>10. Types' /\ Recent' /\ TicksAreRecent
  BY <1>4, <1>5, <1>7, <1>8, <1>9, CallStep DEF Holds
<1>11. Reports'
  BY <1>4, <1>5, <1>6, NothingToReport DEF Holds, orderVars, Acts
<1> QED
  BY <1>10, <1>11 DEF StepKeeps

LEMMA SendSteps ==
  ASSUME Holds, NEW c \in Callers,
         \/ PostOrder(c) \/ PostOrders(c) \/ CancelOrder(c) \/ CancelOrders(c)
         \/ CancelAll(c) \/ CancelOrdersForMarket(c)
  PROVE  StepKeeps
<1>1. SignedOrders \subseteq Orders /\ "post" \in Acts /\ "cancel" \in Acts
  BY DEF SignedOrders, Acts
<1>2. CASE PostOrder(c) \/ PostOrders(c)
  <2>1. PICK S \in (SUBSET SignedOrders) \ {{}} : Sends(c, "post", S)
    BY <1>2 DEF PostOrder, PostOrders
  <2> QED
    BY <1>1, <2>1, SendsStep
<1>3. CASE CancelOrder(c) \/ CancelOrders(c)
  <2>1. PICK S \in (SUBSET SignedOrders) \ {{}} : Sends(c, "cancel", S)
    BY <1>3 DEF CancelOrder, CancelOrders
  <2> QED
    BY <1>1, <2>1, SendsStep
<1>4. CASE CancelAll(c) \/ CancelOrdersForMarket(c)
  <2>1. Sends(c, "cancel", Orders)
    BY <1>4 DEF CancelAll, CancelOrdersForMarket
  <2> QED
    BY <1>1, <2>1, ClobAssumption, SendsStep
<1> QED
  BY <1>2, <1>3, <1>4

\* What a request does to the orders.
LEMMA OutcomeFacts ==
  ASSUME Types, NEW what \in Acts, NEW S \in SUBSET Orders, server' \in Outcomes(what, S)
  PROVE  /\ server' \in [Orders -> {"unsigned", "signed", "live", "gone"}]
         /\ SignedOrders' = SignedOrders
         /\ \A o \in Orders :
              /\ server[o] = "gone" => server'[o] = "gone"
              /\ server[o] = "live" => server'[o] \in {"live", "gone"}
              /\ server'[o] # server[o] =>
                   /\ o \in S
                   /\ \/ what = "post" /\ server'[o] = "live"
                      \/ what = "cancel" /\ server'[o] = "gone" /\ server[o] = "live"
<1>1. server \in [Orders -> {"unsigned", "signed", "live", "gone"}]
  BY DEF Types, Others
<1>2. /\ server' \in [Orders -> {"unsigned", "signed", "live", "gone"}]
      /\ \A o \in Orders : IF o \in S THEN server'[o] \in Does(what, server[o])
                           ELSE server'[o] = server[o]
  BY DEF Outcomes
<1>3. ASSUME NEW o \in Orders
      PROVE  /\ server[o] = "gone" => server'[o] = "gone"
             /\ server[o] = "live" => server'[o] \in {"live", "gone"}
             /\ server[o] = "unsigned" <=> server'[o] = "unsigned"
             /\ server'[o] # server[o] =>
                   /\ o \in S
                   /\ \/ what = "post" /\ server'[o] = "live"
                      \/ what = "cancel" /\ server'[o] = "gone" /\ server[o] = "live"
  <2>1. CASE o \notin S
    BY <1>2, <2>1
  <2>2. CASE o \in S
    <3>1. server'[o] \in Does(what, server[o])
      BY <1>2, <2>2
    <3>2. CASE what = "post" /\ server[o] = "signed"
      BY <2>2, <3>1, <3>2 DEF Does
    <3>3. CASE what = "cancel" /\ server[o] = "live"
      BY <2>2, <3>1, <3>3 DEF Does
    <3>4. CASE ~(what = "post" /\ server[o] = "signed") /\ ~(what = "cancel" /\ server[o] = "live")
      <4>1. Does(what, server[o]) = {server[o]}
        BY <3>4 DEF Does
      <4> QED
        BY <2>2, <3>1, <4>1
    <3> QED
      BY <3>2, <3>3, <3>4
  <2> QED
    BY <2>1, <2>2
<1>4. SignedOrders' = SignedOrders
  BY <1>3 DEF SignedOrders
<1> QED
  BY <1>2, <1>3, <1>4

LEMMA ServedStep == ASSUME Holds, NEW c \in Callers, Served(c) PROVE StepKeeps
<1> DEFINE k == calls[c]
<1>1. PICK result \in {"ok", "4xx", "5xx"} :
        /\ result = "4xx" => server' = server
        /\ calls' = [calls EXCEPT ![c].result = result,
                       ![c].done = IF result = "ok"
                                   THEN {o \in k.orders : server'[o] # server[o]} ELSE {}]
  BY DEF Served
<1> DEFINE D == IF result = "ok" THEN {o \in k.orders : server'[o] # server[o]} ELSE {}
           r == [k EXCEPT !.result = result, !.done = D]
<1>2. /\ k.pc \in Acts /\ k.result = "none" /\ server' \in Outcomes(k.pc, k.orders)
      /\ UNCHANGED <<marketVars, cacheVars, budget, told, late>>
  BY DEF Served
<1>3. /\ k \in CallRecords /\ CallOK(k) /\ k.orders \in SUBSET Orders
      /\ (k.pc # "cancel" => k.orders \subseteq SignedOrders) /\ k.done = {}
      /\ calls \in [Callers -> CallRecords]
  BY <1>2 DEF Holds, Types, CallOK, CallRecords
<1>4. /\ server' \in [Orders -> {"unsigned", "signed", "live", "gone"}]
      /\ SignedOrders' = SignedOrders
      /\ \A o \in Orders :
              /\ server[o] = "gone" => server'[o] = "gone"
              /\ server[o] = "live" => server'[o] \in {"live", "gone"}
              /\ server'[o] # server[o] =>
                   /\ o \in k.orders
                   /\ \/ k.pc = "post" /\ server'[o] = "live"
                      \/ k.pc = "cancel" /\ server'[o] = "gone" /\ server[o] = "live"
  BY <1>2, <1>3, OutcomeFacts DEF Holds
<1>5. D \subseteq k.orders /\ (D # {} => result = "ok")
      /\ \A o \in D : server'[o] # server[o]
  OBVIOUS
<1>6. \A o \in Orders : server'[o] # server[o] => result = "5xx" \/ o \in D
  BY <1>1, <1>4
<1>7. calls' = [calls EXCEPT ![c] = r]
  BY <1>1, <1>3 DEF CallRecords
<1> HIDE DEF D
<1>8. /\ r \in CallRecords /\ r.pc = k.pc /\ r.orders = k.orders /\ r.done = D
      /\ r.result = result /\ r.tick = k.tick /\ r.left = k.left
  BY <1>3, <1>5 DEF CallRecords
<1> HIDE DEF r
<1>9. CallOK(r)
  BY <1>2, <1>3, <1>5, <1>8 DEF CallOK
<1>10. Types' /\ Recent' /\ TicksAreRecent
  <2>1. Others'
    BY <1>2, <1>4 DEF Holds, Types, Others, marketVars, cacheVars
  <2>2. r.pc \notin Asks /\ r.tick = 0
    BY <1>2, <1>3, <1>8 DEF CallOK, Acts, Asks
  <2>3. Fresh(cache') => since[cache'.tick] <= cache'.age + Latency
    BY <1>2 DEF Holds, Recent, cacheVars
  <2> QED
    BY <1>2, <1>3, <1>4, <1>7, <1>8, <1>9, <2>1, <2>2, <2>3, CallStep DEF Holds
<1>11. Reports'
  <2>1. calls'[c] = r /\ \A d \in Callers \ {c} : calls'[d] = calls[d]
    BY <1>3, <1>7
  <2>2. \A d \in Callers : calls[d].done \subseteq Orders
    BY DEF Holds, Types, CallRecords
  <2>3. ASSUME NEW d \in Callers, NEW o \in calls'[d].done
        PROVE  /\ calls'[d].pc = "post" => server'[o] \in {"live", "gone"}
               /\ calls'[d].pc = "cancel" => server'[o] = "gone"
    <3>1. CASE d = c
      BY <1>3, <1>4, <1>5, <1>8, <2>1, <2>3, <3>1
    <3>2. CASE d # c
      BY <1>4, <2>1, <2>2, <2>3, <3>2 DEF Holds, Reports
    <3> QED
      BY <3>1, <3>2
  <2>4. ASSUME NEW o \in Orders, server'[o] \in {"live", "gone"}
        PROVE  told'[o] # {} \/ WillTell(o)'
    <3>1. CASE server'[o] # server[o] /\ k.pc = "post"
      <4>1. o \in k.orders /\ (result = "5xx" \/ o \in D)
        BY <1>4, <1>6, <3>1
      <4> QED
        BY <1>8, <2>1, <3>1, <4>1 DEF WillTell
    <3>2. CASE server[o] \in {"live", "gone"}
      <4>1. told[o] # {} \/ WillTell(o)
        BY <3>2 DEF Holds, Reports
      <4>2. WillTell(o) => WillTell(o)'
        BY <1>2, <1>3, <2>1 DEF WillTell
      <4> QED
        BY <1>2, <4>1, <4>2
    <3> QED
      BY <1>4, <2>4, <3>1, <3>2
  <2>5. \A o \in Orders :
          /\ "post" \in told'[o] => server'[o] \in {"live", "gone"}
          /\ "cancel" \in told'[o] => server'[o] = "gone"
    BY <1>2, <1>4 DEF Holds, Reports
  <2>6. \A x \in late' : x.what = "post" => \A o \in x.orders : told'[o] # {}
    BY <1>2 DEF Holds, Reports
  <2> QED
    BY <2>3, <2>4, <2>5, <2>6 DEF Reports
<1> QED
  BY <1>10, <1>11 DEF StepKeeps

\* A request that acts has ended, and its caller is told what result says.
LEMMA ReturnsStep ==
  ASSUME Holds, NEW c \in Callers, NEW result \in {"none", "ok", "4xx", "5xx"},
         calls[c].pc \in Acts, Returns(c, result),
         result = calls[c].result \/ result = "none",
         UNCHANGED <<marketVars, cacheVars, budget, server>>,
         \/ late' = late
         \/ /\ calls[c].result = "none" /\ result = "none"
            /\ late' = late \cup {[what |-> calls[c].pc, orders |-> calls[c].orders]}
  PROVE  StepKeeps
<1> DEFINE k == calls[c]
<1>1. /\ k \in CallRecords /\ CallOK(k) /\ k.orders \in SUBSET Orders
      /\ k.done \subseteq k.orders /\ (k.done # {} => k.result = "ok")
      /\ calls \in [Callers -> CallRecords]
  BY DEF Holds, Types, CallOK, CallRecords
<1>2. /\ told' = [o \in Orders |-> told[o] \cup IF o \in k.orders
                                               THEN ToldOf(k.pc, result, k.done)[o] ELSE {}]
      /\ calls' = [calls EXCEPT ![c] = Idle]
  BY DEF Returns
<1>3. told \in [Orders -> SUBSET {"post", "cancel", "unsure"}]
  BY DEF Holds, Types, Others
<1>4. ASSUME NEW o \in Orders
      PROVE  /\ told[o] \subseteq told'[o] /\ told'[o] \in SUBSET {"post", "cancel", "unsure"}
             /\ "post" \in told'[o] => "post" \in told[o] \/ (k.pc = "post" /\ o \in k.done)
             /\ "cancel" \in told'[o] => "cancel" \in told[o] \/ (k.pc = "cancel" /\ o \in k.done)
             /\ k.pc = "post" /\ o \in k.orders /\ (o \in k.done \/ result \in {"none", "5xx"})
                  => told'[o] # {}
  <2> DEFINE says == ToldOf(k.pc, result, k.done)[o]
  <2>1. says = IF o \in k.done THEN {k.pc}
               ELSE IF k.pc = "post" /\ result \in {"5xx", "none"} THEN {"unsure"} ELSE {}
    BY DEF ToldOf
  <2> HIDE DEF says
  <2>2. told'[o] = told[o] \cup IF o \in k.orders THEN says ELSE {}
    BY <1>2 DEF says
  <2> QED
    BY <1>1, <1>3, <2>1, <2>2 DEF Acts
<1>5. told' \in [Orders -> SUBSET {"post", "cancel", "unsure"}]
  BY <1>2, <1>4
<1>6. Types' /\ Recent' /\ TicksAreRecent
  <2>1. late' \subseteq [what : Acts, orders : SUBSET Orders]
    BY <1>1 DEF Holds, Types, Others
  <2>2. Others'
    BY <1>5, <2>1 DEF Holds, Types, Others, marketVars, cacheVars
  <2>3. Fresh(cache') => since[cache'.tick] <= cache'.age + Latency
    BY DEF Holds, Recent, cacheVars
  <2>4. SignedOrders' = SignedOrders /\ Idle.pc \notin Asks
    BY IdleOK DEF SignedOrders, Asks
  <2> QED
    BY <1>2, <2>2, <2>3, <2>4, IdleOK, CallStep DEF Holds
<1>7. Reports'
  <2>1. calls'[c] = Idle /\ Idle.done = {} /\ \A d \in Callers \ {c} : calls'[d] = calls[d]
    BY <1>1, <1>2 DEF Idle
  <2>2. \A d \in Callers : \A o \in calls'[d].done :
          /\ calls'[d].pc = "post" => server'[o] \in {"live", "gone"}
          /\ calls'[d].pc = "cancel" => server'[o] = "gone"
    BY <2>1 DEF Holds, Reports
  <2>3. \A o \in Orders :
          /\ "post" \in told'[o] => server'[o] \in {"live", "gone"}
          /\ "cancel" \in told'[o] => server'[o] = "gone"
    BY <1>4 DEF Holds, Reports
  <2>4. ASSUME NEW o \in Orders, server'[o] \in {"live", "gone"}
        PROVE  told'[o] # {} \/ WillTell(o)'
    <3>1. told[o] # {} \/ WillTell(o)
      BY <2>4 DEF Holds, Reports
    <3>2. CASE told[o] # {}
      BY <1>4, <3>2
    <3>3. CASE WillTell(o)
      <4>1. PICK d \in Callers : /\ calls[d].pc = "post" /\ o \in calls[d].orders
                                 /\ calls[d].result = "5xx" \/ o \in calls[d].done
        BY <3>3 DEF WillTell
      <4>2. CASE d = c
        BY <1>4, <4>1, <4>2
      <4>3. CASE d # c
        BY <2>1, <4>1, <4>3 DEF WillTell
      <4> QED
        BY <4>2, <4>3
    <3> QED
      BY <3>1, <3>2, <3>3
  <2>5. ASSUME NEW x \in late', x.what = "post", NEW o \in x.orders PROVE told'[o] # {}
    <3>1. CASE x \in late
      <4>1. told[o] # {} /\ o \in Orders
        BY <2>5, <3>1 DEF Holds, Reports, Types, Others
      <4> QED
        BY <1>4, <4>1
    <3>2. CASE x \notin late
      <4>1. x = [what |-> k.pc, orders |-> k.orders] /\ result = "none"
        BY <2>5, <3>2
      <4> QED
        BY <1>1, <1>4, <2>5, <4>1
    <3> QED
      BY <3>1, <3>2
  <2> QED
    BY <2>2, <2>3, <2>4, <2>5 DEF Reports
<1> QED
  BY <1>6, <1>7 DEF StepKeeps

LEMMA AnswerSteps ==
  ASSUME Holds, NEW c \in Callers, PostReplied(c) \/ CancelReplied(c) \/ AnswerLost(c)
  PROVE  StepKeeps
<1>1. CASE PostReplied(c) \/ CancelReplied(c)
  <2>1. calls[c].result \in {"none", "ok", "4xx", "5xx"}
    BY DEF Holds, Types, CallRecords
  <2> QED
    BY <1>1, <2>1, ReturnsStep DEF PostReplied, CancelReplied, Acts
<1>2. CASE AnswerLost(c)
  <2>1. /\ calls[c].pc \in Acts /\ Returns(c, "none")
        /\ UNCHANGED <<marketVars, cacheVars, budget, server>>
        /\ \/ late' = late
           \/ /\ calls[c].result = "none"
              /\ late' = late \cup {[what |-> calls[c].pc, orders |-> calls[c].orders]}
    BY <1>2 DEF AnswerLost
  <2> QED
    BY <2>1, ReturnsStep
<1> QED
  BY <1>1, <1>2

LEMMA ServedLateStep == ASSUME Holds, ServedLate PROVE StepKeeps
<1>1. PICK x \in late : late' = late \ {x} /\ server' \in Outcomes(x.what, x.orders)
  BY DEF ServedLate
<1>2. x.what \in Acts /\ x.orders \in SUBSET Orders
  BY DEF Holds, Types, Others
<1>3. UNCHANGED <<marketVars, cacheVars, budget, calls, told>>
  BY DEF ServedLate
<1>4. /\ server' \in [Orders -> {"unsigned", "signed", "live", "gone"}]
      /\ SignedOrders' = SignedOrders
      /\ \A o \in Orders :
              /\ server[o] = "gone" => server'[o] = "gone"
              /\ server[o] = "live" => server'[o] \in {"live", "gone"}
              /\ server'[o] # server[o] =>
                   /\ o \in x.orders
                   /\ \/ x.what = "post" /\ server'[o] = "live"
                      \/ x.what = "cancel" /\ server'[o] = "gone" /\ server[o] = "live"
  BY <1>1, <1>2, OutcomeFacts DEF Holds
<1>5. Types'
  BY <1>1, <1>3, <1>4 DEF Holds, Types, Others, marketVars, cacheVars
<1>6. Recent' /\ TicksAreRecent
  BY <1>3 DEF Holds, Recent, TicksAreRecent, Fresh, marketVars, cacheVars
<1>7. Reports'
  <2>1. \A d \in Callers : calls[d].done \subseteq Orders
    BY DEF Holds, Types, CallRecords
  <2>2. \A d \in Callers : \A o \in calls'[d].done :
          /\ calls'[d].pc = "post" => server'[o] \in {"live", "gone"}
          /\ calls'[d].pc = "cancel" => server'[o] = "gone"
    BY <1>3, <1>4, <2>1 DEF Holds, Reports
  <2>3. \A o \in Orders :
          /\ "post" \in told'[o] => server'[o] \in {"live", "gone"}
          /\ "cancel" \in told'[o] => server'[o] = "gone"
    BY <1>3, <1>4 DEF Holds, Reports
  <2>4. \A o \in Orders : WillTell(o)' <=> WillTell(o)
    BY <1>3 DEF WillTell
  <2>5. ASSUME NEW o \in Orders, server'[o] \in {"live", "gone"}
        PROVE  told'[o] # {} \/ WillTell(o)'
    <3>1. CASE server'[o] # server[o] /\ x.what = "post"
      BY <1>3, <1>4, <3>1 DEF Holds, Reports
    <3>2. CASE server[o] \in {"live", "gone"}
      BY <1>3, <2>4, <3>2 DEF Holds, Reports
    <3> QED
      BY <1>4, <2>5, <3>1, <3>2
  <2>6. \A y \in late' : y.what = "post" => \A o \in y.orders : told'[o] # {}
    BY <1>1, <1>3 DEF Holds, Reports
  <2> QED
    BY <2>2, <2>3, <2>5, <2>6 DEF Reports
<1> QED
  BY <1>5, <1>6, <1>7 DEF StepKeeps

-----------------------------------------------------------------------------
LEMMA StepHolds == Holds /\ Next => StepKeeps
<1> SUFFICES ASSUME Holds, Next PROVE StepKeeps
  OBVIOUS
<1>1. CASE TickChanges \/ Time \/ ClearTickSizeCache \/ ServedLate
  BY <1>1, TickChangesStep, TimeStep, ClearStep, ServedLateStep
<1>2. ASSUME NEW c \in Callers,
             \/ CreateOrder(c) \/ CreateAndPostOrder(c) \/ CreateMarketOrder(c)
             \/ CreateAndPostMarketOrder(c) \/ CreateAndPostOrders(c)
      PROVE  StepKeeps
  BY <1>2, CreateSteps
<1>3. ASSUME NEW c \in Callers, Refresh(c) \/ Answered(c) \/ Received(c) \/ FeesKnown(c)
                                \/ RequestFails(c) \/ Signed(c)
      PROVE  StepKeeps
  BY <1>3, RefreshStep, AnsweredStep, ReceivedStep, FeesKnownStep, RequestFailsStep, SignedStep
<1>4. ASSUME NEW c \in Callers,
             \/ PostOrder(c) \/ PostOrders(c) \/ CancelOrder(c) \/ CancelOrders(c)
             \/ CancelAll(c) \/ CancelOrdersForMarket(c)
      PROVE  StepKeeps
  BY <1>4, SendSteps
<1>5. ASSUME NEW c \in Callers, Served(c) \/ PostReplied(c) \/ CancelReplied(c) \/ AnswerLost(c)
      PROVE  StepKeeps
  BY <1>5, ServedStep, AnswerSteps
<1> QED
  BY <1>1, <1>2, <1>3, <1>4, <1>5 DEF Next, Received

LEMMA StutterHolds == Holds /\ UNCHANGED vars => StepKeeps
BY DEF Holds, StepKeeps, Types, Others, Recent, Reports, WillTell, TicksAreRecent, Fresh, SignedOrders,
       vars, marketVars, cacheVars, orderVars

LEMMA Inductive == Holds /\ [Next]_vars => Holds'
BY StepHolds, StutterHolds DEF Holds, StepKeeps

-----------------------------------------------------------------------------
\* Types; a request that posts is for signed orders, and an order is created
\* with a tick size.
THEOREM TypeCorrect == Spec => []TypeOK
<1>1. Holds => TypeOK
  BY TypesImply DEF Holds
<1> QED
  BY InitHolds, Inductive, <1>1, PTL DEF Spec, Holds

\* The tick size of an order was the market's not longer ago than a cache entry
\* may be old and an answer may travel, for any times and any threads.
THEOREM TickSizesAreRecent == Spec => ResolvedTickIsRecent
<1>1. Holds /\ [Next]_vars => [TicksAreRecent]_vars
  BY StepHolds DEF StepKeeps
<1>2. Init => Holds
  BY InitHolds DEF Holds
<1>3. [TicksAreRecent]_vars <=>
        [\A c \in Callers :
           (calls'[c] # calls[c] /\ calls'[c].tick # 0 /\ calls[c].pc # "book"
              /\ calls'[c].wants = 0)
             => since[calls'[c].tick] <= TTL - 1 + Latency]_vars
  BY DEF TicksAreRecent
<1> QED
  BY <1>1, <1>2, <1>3, Inductive, PTL DEF Spec, ResolvedTickIsRecent

\* Reported as placed or cancelled, an order was; and every order that got into
\* the market was reported, or left open, or is being posted.
THEOREM PostsReportedRight == Spec => []PostsAreAsReported
<1>1. Holds => PostsAreAsReported
  <2> SUFFICES ASSUME Holds, NEW o \in Orders, server[o] \in {"live", "gone"}, told[o] = {}
               PROVE  o \in Posting
    BY DEF Holds, Reports, PostsAreAsReported
  <2>1. WillTell(o)
    BY DEF Holds, Reports
  <2>2. PICK c \in Callers : calls[c].pc = "post" /\ o \in calls[c].orders
    BY <2>1 DEF WillTell
  <2> QED
    BY <2>2 DEF Posting
<1>2. Init => Holds
  BY InitHolds DEF Holds
<1> QED
  BY <1>1, <1>2, Inductive, PTL DEF Spec

-----------------------------------------------------------------------------
(* The amounts of an order.                                                *)

\* A quotient is the only number whose multiple is just below.
LEMMA DivUnique ==
  ASSUME NEW a \in Int, NEW b \in Nat \ {0}, NEW q \in Int, q * b <= a, a < q * b + b
  PROVE  a \div b = q
<1> DEFINE d == a \div b
<1>1. d \in Int /\ b * d <= a /\ a < b * d + b
  BY SMT
<1> HIDE DEF d
<1>2. ~(d < q)
  <2> SUFFICES ASSUME d <= q - 1 PROVE FALSE
    BY <1>1
  <2>1. b * d <= b * (q - 1)
    BY <1>1
  <2> QED
    BY <1>1, <2>1
<1>3. ~(q < d)
  <2> SUFFICES ASSUME q <= d - 1 PROVE FALSE
    BY <1>1
  <2>1. b * q <= b * (d - 1)
    BY <1>1
  <2> QED
    BY <1>1, <2>1
<1> QED
  BY <1>1, <1>2, <1>3 DEF d

\* What a division leaves.
LEMMA DivBounds ==
  ASSUME NEW a \in Int, NEW b \in Nat \ {0}
  PROVE  a \div b \in Int /\ (a \div b) * b <= a /\ a < (a \div b) * b + b
BY SMT

LEMMA DivMod ==
  ASSUME NEW a \in Int, NEW b \in Nat \ {0}
  PROVE  a = b * (a \div b) + (a % b)
BY SMT

LEMMA MonotoneProduct ==
  ASSUME NEW a \in Int, NEW b \in Int, NEW c \in Nat, a <= b
  PROVE  a * c <= b * c
BY SMT

LEMMA CancelFactor ==
  ASSUME NEW a \in Int, NEW b \in Int, NEW c \in Nat \ {0}, a * c < b * c
  PROVE  a < b
<1> SUFFICES ASSUME b <= a PROVE FALSE
  OBVIOUS
<1>1. b * c <= a * c
  BY MonotoneProduct
<1> QED
  BY <1>1

LEMMA ConfigType ==
  ASSUME NEW tick \in TickSizes
  PROVE  /\ tick \in Nat \ {0} /\ ROUNDING_CONFIG[tick].size = LotSize
         /\ ROUNDING_CONFIG[tick].price \in Nat \ {0}
         /\ ROUNDING_CONFIG[tick].price * tick = One
<1> DEFINE n == One \div tick
<1>1. tick \in Nat \ {0} /\ One \in Nat \ {0} /\ One % tick = 0
  BY UnitsAssumption
<1>2. n \in Int /\ One = n * tick + (One % tick)
  BY <1>1, DivMod
<1>3. ROUNDING_CONFIG[tick].size = LotSize /\ ROUNDING_CONFIG[tick].price = n
  BY DEF ROUNDING_CONFIG
<1> HIDE DEF n
<1>4. n > 0
  <2> SUFFICES ASSUME n <= 0 PROVE FALSE
    BY <1>2
  <2>1. n * tick <= 0 * tick
    BY <1>1, <1>2, MonotoneProduct
  <2> QED
    BY <1>1, <1>2, <2>1
<1> QED
  BY <1>1, <1>2, <1>3, <1>4

LEMMA UnitTypes == Fine \in Nat \ {0, 1} /\ Finest \in Nat \ {0} /\ Finest = Fine * Fine
BY UnitsAssumption DEF Finest

\* A natural number has a natural quotient.
LEMMA DivNat ==
  ASSUME NEW a \in Nat, NEW b \in Nat \ {0}
  PROVE  a \div b \in Nat
<1> DEFINE d == a \div b
<1>1. d \in Int /\ a < d * b + b
  BY DivBounds
<1> HIDE DEF d
<1>2. 0 * b < (d + 1) * b /\ d + 1 \in Int
  BY <1>1
<1>3. 0 < d + 1
  BY <1>2, CancelFactor
<1> QED
  BY <1>1, <1>3 DEF d

\* Rounding up to four more decimals and down again is rounding down what is
\* almost one of these decimals more.
LEMMA RepairedBounds ==
  ASSUME NEW x \in Int
  PROVE  /\ Repaired(x) \in Int /\ Repaired(x) * Finest <= x + Fine - 1
         /\ x + Fine - 1 < Repaired(x) * Finest + Finest
<1> DEFINE y == x + Fine - 1
           q == y \div Fine
           r == q \div Fine
<1>1. Fine \in Nat \ {0} /\ Finest = Fine * Fine
  BY UnitTypes
<1>2. q \in Int /\ q * Fine <= y /\ y < q * Fine + Fine
  <2>1. y \in Int
    BY <1>1
  <2> QED
    BY <1>1, <2>1, DivBounds
<1>3. r \in Int /\ r * Fine <= q /\ q < r * Fine + Fine
  <2> HIDE DEF q
  <2> QED
    BY <1>1, <1>2, DivBounds
<1>4. Repaired(x) = r
  BY DEF Repaired, Ceiling
<1> DEFINE a == r * Fine
<1>5. a \in Int /\ a * Fine = r * Finest
  BY <1>1, <1>3
<1> HIDE DEF q, r, a
<1>6. a * Fine <= q * Fine
  BY <1>1, <1>2, <1>3, <1>5, MonotoneProduct DEF a
<1>7. (q + 1) * Fine <= (a + Fine) * Fine
  <2>1. q + 1 <= a + Fine /\ q + 1 \in Int /\ a + Fine \in Int
    BY <1>1, <1>2, <1>3, <1>5 DEF a
  <2> QED
    BY <1>1, <2>1, MonotoneProduct
<1>8. (q + 1) * Fine = q * Fine + Fine /\ (a + Fine) * Fine = a * Fine + Finest
  BY <1>1, <1>2, <1>5
<1>9. q * Fine \in Int /\ a * Fine \in Int /\ y \in Int /\ Finest \in Int
  BY <1>1, <1>2, <1>5
<1> HIDE DEF y
<1>10. r * Finest <= y /\ y < r * Finest + Finest
  BY <1>1, <1>2, <1>5, <1>6, <1>7, <1>8, <1>9
<1> QED
  BY <1>3, <1>4, <1>10 DEF y

-----------------------------------------------------------------------------
\* The money of an order is that of its shares and its price, as far off as its
\* error makes it.
LEMMA ProductIs ==
  ASSUME NEW lots \in Nat, NEW p \in Nat, NEW e \in Int
  PROVE  Product(lots, p, e) \in Int /\ Product(lots, p, e) - lots * p \in -Off(e)..Off(e)
<1> DEFINE n == lots * p
           money == Product(lots, p, e)
           d == money - n
<1>1. Fine \in Nat \ {0, 1} /\ Finest \in Nat \ {0} /\ n \in Nat
  BY UnitTypes
<1>2. money \in Int /\ money * Finest <= n * Finest + e + Fine - 1
      /\ n * Finest + e + Fine - 1 < money * Finest + Finest
  <2> DEFINE x == n * Finest + e
  <2>1. x \in Int
    BY <1>1
  <2>2. money = Repaired(x)
    BY DEF Product
  <2> HIDE DEF x, money
  <2> QED
    BY <2>1, <2>2, RepairedBounds DEF x
<1> HIDE DEF n, money
<1>3. d \in Int /\ d * Finest = money * Finest - n * Finest
  BY <1>1, <1>2
<1>4. /\ money * Finest \in Int /\ n * Finest \in Int /\ d * Finest \in Int
      /\ (d + 1) * Finest = d * Finest + Finest
  BY <1>1, <1>2, <1>3
<1> HIDE DEF d
<1>5. d * Finest <= e + Fine - 1 /\ e + Fine - 1 < d * Finest + Finest
  BY <1>1, <1>2, <1>3, <1>4
<1>6. CASE Small(e)
  <2>1. 0 <= e + Fine - 1 /\ e + Fine - 1 < 2 * Fine
    BY <1>1, <1>6 DEF Small
  <2>2. 2 * Fine <= Finest
    <3>1. 2 * Fine <= Fine * Fine
      BY <1>1, MonotoneProduct
    <3> QED
      BY <3>1, UnitTypes
  <2>3. d * Finest < 1 * Finest /\ 0 * Finest < (d + 1) * Finest
    BY <1>1, <1>4, <1>5, <2>1, <2>2
  <2>4. d < 1 /\ 0 < d + 1
    BY <1>1, <1>3, <2>3, CancelFactor
  <2>5. d \in -Off(e)..Off(e)
    BY <1>3, <1>6, <2>4 DEF Off
  <2> QED
    BY <1>2, <2>5 DEF d, money, n
<1>7. CASE ~Small(e)
  <2> DEFINE m == Magnitude(e)
             k == m \div Finest
  <2>1. m \in Nat /\ e <= m /\ -m <= e
    BY DEF Magnitude
  <2>2. k \in Nat /\ m < k * Finest + Finest
    <3> HIDE DEF m
    <3> QED
      BY <1>1, <2>1, DivBounds, DivNat
  <2>3. Off(e) = 1 + k
    BY <1>7 DEF Off
  <2> HIDE DEF m, k
  <2>4. (k + 2) * Finest = k * Finest + 2 * Finest /\ k * Finest \in Int
        /\ (-(k + 1)) * Finest = -(k * Finest) - Finest
    BY <1>1, <2>2
  <2>5. Fine <= Finest
    <3>1. 1 * Fine <= Fine * Fine
      BY <1>1, MonotoneProduct
    <3> QED
      BY <1>1, <3>1, UnitTypes
  <2>6. d * Finest < (k + 2) * Finest /\ (-(k + 1)) * Finest < (d + 1) * Finest
    BY <1>1, <1>4, <1>5, <2>1, <2>2, <2>4, <2>5
  <2>7. d < k + 2 /\ -(k + 1) < d + 1
    <3>1. k + 2 \in Int /\ -(k + 1) \in Int /\ d + 1 \in Int
      BY <1>3, <2>2
    <3> QED
      BY <1>1, <1>3, <2>6, <3>1, CancelFactor
  <2>8. d \in -Off(e)..Off(e)
    BY <1>3, <2>2, <2>3, <2>7
  <2> QED
    BY <1>2, <2>8 DEF d, money, n
<1> QED
  BY <1>6, <1>7 DEF money, n

\* Shares and money of an order at p ticks for 1.
LEMMA AmountsExact ==
  ASSUME NEW side \in {"BUY", "SELL"}, NEW size \in Nat, NEW p \in Nat,
         NEW tick \in TickSizes, NEW e \in Int
  PROVE  ExactlyAt(MakesAndTakes(side, Lots(size, tick), p, ROUNDING_CONFIG[tick].price, e),
                   side, size, p, tick, e)
<1> DEFINE lots == size \div LotSize
           ticks == ROUNDING_CONFIG[tick].price
           shares == lots * ticks
           money == Product(lots, p, e)
<1>1. LotSize \in Nat \ {0} /\ ticks \in Nat \ {0}
  BY ConfigType, UnitsAssumption
<1>2. lots \in Nat /\ lots * LotSize <= size /\ size < lots * LotSize + LotSize
  BY <1>1, DivBounds, DivNat
<1>3. Lots(size, tick) = lots
  BY ConfigType DEF Lots, RoundDown
<1> HIDE DEF ticks, lots
<1>4. money - lots * p \in -Off(e)..Off(e)
  BY <1>2, ProductIs
<1>5. shares \div ticks = lots
  <2>1. shares \in Int
    BY <1>1, <1>2
  <2> QED
    BY <1>1, <1>2, <2>1, DivUnique
<1>6. MakesAndTakes(side, lots, p, ticks, e) = IF side = "BUY" THEN [make |-> money, take |-> shares]
                                        ELSE [make |-> shares, take |-> money]
  BY DEF MakesAndTakes
<1> DEFINE o == MakesAndTakes(side, lots, p, ticks, e)
<1>7. /\ (IF side = "BUY" THEN o.take ELSE o.make) = shares
      /\ (IF side = "BUY" THEN o.make ELSE o.take) = money
  BY <1>6
<1>8. shares = lots * ticks
  OBVIOUS
<1> HIDE DEF o, shares, money
<1>9. ExactlyAt(o, side, size, p, tick, e)
  <2>1. size - LotSize < lots * LotSize
    BY <1>1, <1>2
  <2> QED
    BY <1>2, <1>4, <1>5, <1>7, <1>8, <2>1 DEF ExactlyAt, ticks
<1> QED
  BY <1>3, <1>9 DEF o, ticks

\* Every limit order is for its size, less than a lot rounded down, at the tick
\* nearest to its price, and money and shares have exactly that ratio, although
\* the code multiplies floats, if the error is less than the last decimal of
\* round_up, and a unit for every unit of error more if not: for any tick size
\* and any error of a float (get_order_amounts).
THEOREM LimitOrdersAreExact ==
  ASSUME NEW side \in {"BUY", "SELL"}, NEW size \in Nat, NEW price \in 0..One,
         NEW tick \in TickSizes, NEW e \in Int
  PROVE  LimitOrderExact(side, size, price, tick, e)
<1> DEFINE p == RoundNormal(price, tick)
           ticks == ROUNDING_CONFIG[tick].price
<1>1. /\ tick \in Nat \ {0} /\ ticks \in Nat \ {0} /\ ticks * tick = One
      /\ price \in Nat /\ price <= One
  BY ConfigType, UnitsAssumption
<1>2. p \in Int /\ p * (2 * tick) <= 2 * price + tick
      /\ 2 * price + tick < p * (2 * tick) + 2 * tick
  <2>1. 2 * price + tick \in Int /\ 2 * tick \in Nat \ {0}
    BY <1>1
  <2> QED
    BY <2>1, DivBounds DEF RoundNormal
<1> HIDE DEF p, ticks
<1>3. p * (2 * tick) = 2 * (p * tick)
  BY <1>1, <1>2
<1>4. 2 * (p * tick - price) <= tick /\ 2 * (price - p * tick) < tick
  <2> DEFINE x == p * tick
  <2>1. x \in Int /\ 2 * x <= 2 * price + tick /\ 2 * price + tick < 2 * x + 2 * tick
    BY <1>1, <1>2, <1>3
  <2> HIDE DEF x
  <2>2. 2 * (x - price) <= tick /\ 2 * (price - x) < tick
    BY <1>1, <2>1
  <2> QED
    BY <2>2 DEF x
<1>5. p >= 0
  <2>1. 0 * (2 * tick) < (p + 1) * (2 * tick) /\ 2 * tick \in Nat \ {0} /\ p + 1 \in Int
    BY <1>1, <1>2
  <2> QED
    BY <1>2, <2>1, CancelFactor
<1>6. p <= ticks
  <2>1. (ticks + 1) * (2 * tick) = 2 * One + 2 * tick
    BY <1>1
  <2>2. p * (2 * tick) < (ticks + 1) * (2 * tick)
    BY <1>1, <1>2, <2>1, UnitsAssumption
  <2>3. p < ticks + 1
    BY <1>1, <1>2, <2>2, CancelFactor
  <2> QED
    BY <1>1, <1>2, <2>3
<1>7. ExactlyAt(OrderAmounts(side, size, price, tick, e), side, size, p, tick, e)
  <2>1. p \in Nat
    BY <1>2, <1>5
  <2>2. OrderAmounts(side, size, price, tick, e) = MakesAndTakes(side, Lots(size, tick), p, ticks, e)
    BY DEF OrderAmounts, p, ticks
  <2> QED
    BY <2>1, <2>2, AmountsExact DEF ticks
<1> QED
  BY <1>1, <1>2, <1>4, <1>5, <1>6, <1>7 DEF LimitOrderExact, ticks

-----------------------------------------------------------------------------
\* What a market BUY takes of m units, at p ticks for 1.
LEMMA QuotientBounds ==
  ASSUME NEW m \in Nat, NEW p \in Nat \ {0}, NEW e \in Int,
         NEW take, take = Repaired((m * Finest) \div p + e)
  PROVE  /\ take \in Int
         /\ Small(e) => m < (take + 1) * p
         /\ (take * p - m) * Finest < p * (Fine + Magnitude(e))
<1> DEFINE mf == m * Finest
           x == mf \div p
           tf == take * Finest
<1>1. Fine \in Nat \ {0, 1} /\ Finest \in Nat \ {0} /\ mf \in Nat
  BY UnitTypes
<1>2. x \in Int /\ x * p <= mf /\ mf < x * p + p
  <2> HIDE DEF mf
  <2> QED
    BY <1>1, DivBounds
<1> HIDE DEF x, mf
<1>3. take \in Int /\ tf <= x + e + Fine - 1 /\ x + e + Fine - 1 < tf + Finest
  <2> DEFINE y == x + e
  <2>1. y \in Int /\ take = Repaired(y)
    BY <1>2 DEF x, mf
  <2> HIDE DEF y
  <2>2. take \in Int /\ tf <= y + Fine - 1 /\ y + Fine - 1 < tf + Finest
    BY <2>1, RepairedBounds
  <2> QED
    BY <1>1, <1>2, <2>2 DEF y
<1>4. tf \in Int
  BY <1>1, <1>3
<1>5. ASSUME Small(e) PROVE m < (take + 1) * p
  <2>1. x + 1 <= tf + Finest
    BY <1>1, <1>2, <1>3, <1>4, <1>5 DEF Small
  <2>2. (x + 1) * p <= (tf + Finest) * p
    <3>1. x + 1 \in Int /\ tf + Finest \in Int
      BY <1>1, <1>2, <1>4
    <3> QED
      BY <2>1, <3>1, MonotoneProduct
  <2>3. (x + 1) * p = x * p + p /\ x * p \in Int
    BY <1>2
  <2>4. (tf + Finest) * p = ((take + 1) * p) * Finest
    BY <1>1, <1>3
  <2>5. (take + 1) * p \in Int
    BY <1>3
  <2>6. m * Finest < ((take + 1) * p) * Finest
    <3> HIDE DEF tf
    <3>1. mf < (tf + Finest) * p
      <4>1. (tf + Finest) * p \in Int
        BY <1>1, <1>4
      <4> QED
        BY <1>1, <1>2, <2>2, <2>3, <4>1
    <3> QED
      BY <2>4, <3>1 DEF mf
  <2> QED
    BY <1>1, <2>5, <2>6, CancelFactor
<1>6. (take * p - m) * Finest < p * (Fine + Magnitude(e))
  <2> DEFINE g == Fine + Magnitude(e)
  <2>1. g \in Int /\ e + Fine <= g
    BY <1>1 DEF Magnitude
  <2>2. (take * p - m) * Finest = tf * p - mf
    BY <1>1, <1>3 DEF mf
  <2> HIDE DEF g, tf
  <2>3. tf <= x + (g - 1) /\ x + (g - 1) \in Int
    BY <1>1, <1>2, <1>3, <1>4, <2>1
  <2>4. tf * p <= (x + (g - 1)) * p
    BY <1>4, <2>3, MonotoneProduct
  <2>5. (x + (g - 1)) * p = x * p + p * g - p
    BY <1>2, <2>1
  <2>6. x * p \in Int /\ p * g \in Int /\ tf * p \in Int
    BY <1>2, <1>4, <2>1
  <2>7. tf * p - mf < p * g
    BY <1>1, <1>2, <2>4, <2>5, <2>6
  <2> QED
    BY <2>2, <2>7 DEF g
<1> QED
  BY <1>3, <1>5, <1>6

\* A market SELL is exact at its price rounded down to a tick; a market BUY
\* takes as many units as its money pays for at that price, but for the last
\* decimal of round_up and the error: for any tick size and any error of a float
\* (get_market_order_amounts).
THEOREM MarketOrdersAreExact ==
  ASSUME NEW side \in {"BUY", "SELL"}, NEW amount \in Nat, NEW tick \in TickSizes,
         NEW price \in tick..One, NEW e \in Int
  PROVE  MarketOrderExact(side, amount, price, tick, e)
<1> DEFINE p == price \div tick
           ticks == ROUNDING_CONFIG[tick].price
           lots == amount \div LotSize
           made == lots * ticks
           o == MarketOrderAmounts(side, amount, price, tick, e)
<1>1. /\ tick \in Nat \ {0} /\ ticks \in Nat \ {0} /\ LotSize \in Nat \ {0}
      /\ price \in Nat /\ tick <= price
  BY ConfigType, UnitsAssumption
<1>2. p \in Nat \ {0}
  <2>1. p \in Int /\ price < p * tick + tick
    BY <1>1, DivBounds
  <2>2. 1 * tick < (p + 1) * tick /\ p + 1 \in Int
    BY <1>1, <2>1
  <2>3. 1 < p + 1
    BY <1>1, <2>2, CancelFactor
  <2> QED
    BY <2>1, <2>3
<1>3. lots \in Nat
  BY <1>1, DivNat
<1>4. RoundDown(price, tick) = p /\ Lots(amount, tick) = lots
  BY ConfigType DEF Lots, RoundDown
<1>5. CASE side = "SELL"
  <2>1. o = MakesAndTakes(side, Lots(amount, tick), p, ticks, e)
    BY <1>4, <1>5 DEF MarketOrderAmounts
  <2>2. ExactlyAt(o, side, amount, p, tick, e)
    BY <1>2, <2>1, AmountsExact
  <2> QED
    BY <1>5, <2>2 DEF MarketOrderExact
<1>6. CASE side = "BUY"
  <2> DEFINE take == Quotient(lots, p, ticks, e)
  <2>1. o = [make |-> made, take |-> take]
    BY <1>4, <1>6 DEF MarketOrderAmounts
  <2> HIDE DEF lots, ticks, p, o
  <2> DEFINE m == made * ticks
  <2>2. m \in Nat /\ lots * ticks * ticks * Finest = m * Finest
    BY <1>1, <1>3, UnitTypes
  <2>3. take = Repaired((m * Finest) \div p + e)
    BY <2>2 DEF Quotient
  <2> HIDE DEF m, take, made
  <2>4. /\ Small(e) => m < (take + 1) * p
        /\ (take * p - m) * Finest < p * (Fine + Magnitude(e))
    BY <1>2, <2>2, <2>3, QuotientBounds
  <2>5. o.make = made /\ o.take = take
    BY <2>1
  <2> QED
    BY <1>6, <2>4, <2>5 DEF MarketOrderExact, m, o, p, made, lots, ticks
<1> QED
  BY <1>5, <1>6

-----------------------------------------------------------------------------
\* What is spent of an amount in the finest unit, in lots.
LEMMA LotsBounds ==
  ASSUME NEW a \in Int
  PROVE  LET spent == (a \div (LotSize * Finest)) * LotSize
         IN  spent \in Int /\ spent * Finest <= a /\ a < (spent + LotSize) * Finest
<1> DEFINE u == LotSize * Finest
           k == a \div u
<1>1. LotSize \in Nat \ {0} /\ Finest \in Nat \ {0} /\ u \in Nat \ {0}
  <2>1. LotSize \in Nat \ {0} /\ Finest \in Nat \ {0}
    BY UnitTypes, UnitsAssumption
  <2>2. u \in Int /\ 0 * Finest < LotSize * Finest
    BY <2>1
  <2> QED
    BY <2>1, <2>2
<1>2. k \in Int /\ k * u <= a /\ a < k * u + u
  <2> HIDE DEF u
  <2> QED
    BY <1>1, DivBounds
<1> HIDE DEF k
<1>3. (k * LotSize) * Finest = k * u /\ (k * LotSize + LotSize) * Finest = k * u + u
  BY <1>1, <1>2
<1>4. k * LotSize \in Int
  BY <1>1, <1>2
<1> QED
  BY <1>2, <1>3, <1>4 DEF k

\* An adjusted amount, in lots, is not more than what was asked for and is paid
\* with its fee by the balance, but for the error, and a lot more would not be:
\* for any fee, units, and error of a float (adjust_market_buy_amount).
THEOREM AdjustedBuysFit ==
  ASSUME NEW amount \in Nat, NEW balance \in Nat, NEW num \in Nat, NEW den \in Nat \ {0},
         NEW e \in Int
  PROVE  AdjustmentFits(amount, balance, num, den, e)
<1> DEFINE s == num + den
           b == balance * den
           bf == b * Finest
           x == bf \div s
           a == AdjustedAmount(amount, balance, num, den, e)
           spent == (a \div (LotSize * Finest)) * LotSize
           more == spent + LotSize
           beyond(t) == (t * s - b) * Finest
           m == Magnitude(e)
<1>1. /\ s \in Nat \ {0} /\ b \in Nat /\ Finest \in Nat \ {0} /\ LotSize \in Nat \ {0}
      /\ m \in Nat /\ e <= m /\ Fine \in Nat \ {0, 1}
  BY UnitTypes, UnitsAssumption DEF Magnitude
<1>2. x \in Int /\ x * s <= bf /\ bf < x * s + s
  <2>1. bf \in Int
    BY <1>1
  <2> HIDE DEF bf, s
  <2> QED
    BY <1>1, <2>1, DivBounds
<1>3. a = IF b <= amount * s THEN x + e ELSE amount * Finest
  BY DEF AdjustedAmount
<1>4. AdjustmentFits(amount, balance, num, den, e) <=>
        /\ Small(e) => spent <= amount
        /\ beyond(spent) <= s * m
        /\ spent = (amount \div LotSize) * LotSize \/ beyond(more) > s * e
  BY DEF AdjustmentFits
<1>5. a \in Int
  <2> HIDE DEF x, a, s, b
  <2> QED
    BY <1>1, <1>2, <1>3
<1>6. spent \in Int /\ spent * Finest <= a /\ a < more * Finest
  <2> HIDE DEF a
  <2> QED
    BY <1>5, LotsBounds
<1>7. more \in Int
  BY <1>1, <1>6
<1> HIDE DEF s, b, bf, x, a, m
<1>8. CASE b <= amount * s
  <2>1. a = x + e
    BY <1>3, <1>8
  <2> HIDE DEF spent, more
  <2>2. ASSUME Small(e) PROVE spent <= amount
    <3>1. x <= amount * Finest
      <4>1. b * Finest <= (amount * s) * Finest
        BY <1>1, <1>8, MonotoneProduct
      <4>2. (amount * Finest + 1) * s = (amount * s) * Finest + s
        BY <1>1
      <4>3. (amount * s) * Finest \in Int /\ x * s \in Int /\ bf \in Int
        BY <1>1, <1>2 DEF bf
      <4>4. x * s < (amount * Finest + 1) * s
        BY <1>1, <1>2, <4>1, <4>2, <4>3 DEF bf
      <4>5. amount * Finest + 1 \in Int
        BY <1>1
      <4> QED
        BY <1>1, <1>2, <4>4, <4>5, CancelFactor
    <3>2. Fine <= Finest
      <4>1. 1 * Fine <= Fine * Fine
        BY <1>1, MonotoneProduct
      <4> QED
        BY <1>1, <4>1, UnitTypes
    <3>3. spent * Finest < (amount + 1) * Finest
      <4>1. (amount + 1) * Finest = amount * Finest + Finest
            /\ amount * Finest \in Int /\ spent * Finest \in Int
        BY <1>1, <1>6
      <4> QED
        BY <1>1, <1>2, <1>6, <2>1, <2>2, <3>1, <3>2, <4>1 DEF Small
    <3>4. spent < amount + 1
      BY <1>1, <1>6, <3>3, CancelFactor
    <3> QED
      BY <1>6, <3>4
  <2>3. beyond(spent) <= s * m
    <3> DEFINE sf == spent * Finest
    <3>1. sf \in Int /\ x + m \in Int
      BY <1>1, <1>2, <1>6
    <3>2. beyond(spent) = sf * s - bf
      BY <1>1, <1>6 DEF bf
    <3>3. sf <= x + m
      BY <1>1, <1>2, <1>6, <2>1, <3>1
    <3> HIDE DEF sf
    <3>4. sf * s <= (x + m) * s
      BY <1>1, <3>1, <3>3, MonotoneProduct
    <3>5. (x + m) * s = x * s + s * m /\ x * s \in Int /\ s * m \in Int /\ sf * s \in Int
      BY <1>1, <1>2, <3>1
    <3>6. bf \in Int
      BY <1>1 DEF bf
    <3>7. sf * s - bf <= s * m
      BY <1>2, <3>4, <3>5, <3>6
    <3> QED
      BY <3>2, <3>7
  <2>4. beyond(more) > s * e
    <3> DEFINE mf == more * Finest
    <3>1. mf \in Int /\ x + (e + 1) \in Int
      BY <1>1, <1>2, <1>7
    <3>2. beyond(more) = mf * s - bf
      BY <1>1, <1>7 DEF bf
    <3>3. x + (e + 1) <= mf
      BY <1>2, <1>6, <2>1, <3>1
    <3> HIDE DEF mf
    <3>4. (x + (e + 1)) * s <= mf * s
      BY <1>1, <3>1, <3>3, MonotoneProduct
    <3>5. (x + (e + 1)) * s = x * s + s * e + s /\ x * s \in Int /\ s * e \in Int /\ mf * s \in Int
      BY <1>1, <1>2, <3>1
    <3>6. bf \in Int
      BY <1>1 DEF bf
    <3>7. mf * s - bf > s * e
      BY <1>1, <1>2, <3>4, <3>5, <3>6
    <3> QED
      BY <3>2, <3>7
  <2> QED
    BY <1>4, <2>2, <2>3, <2>4
<1>9. CASE ~(b <= amount * s)
  <2>1. a = amount * Finest
    BY <1>3, <1>9
  <2>2. spent = (amount \div LotSize) * LotSize
    <3> DEFINE k == a \div (LotSize * Finest)
    <3>1. k \in Int
      <4>1. LotSize * Finest \in Nat \ {0}
        <5>1. LotSize * Finest \in Int /\ 0 * Finest < LotSize * Finest
          BY <1>1
        <5> QED
          BY <1>1, <5>1
      <4> QED
        BY <1>5, <4>1, DivBounds
    <3>2. spent = k * LotSize
      OBVIOUS
    <3> HIDE DEF k, spent
    <3>3. spent * Finest < (amount + 1) * Finest
      <4>1. (amount + 1) * Finest = amount * Finest + Finest
            /\ amount * Finest \in Int /\ spent * Finest \in Int
        BY <1>1, <1>6
      <4> QED
        BY <1>1, <1>6, <2>1, <4>1
    <3>4. spent < amount + 1
      BY <1>1, <1>6, <3>3, CancelFactor
    <3>5. amount < more
      <4> HIDE DEF more
      <4> QED
        BY <1>1, <1>6, <1>7, <2>1, CancelFactor
    <3>6. k * LotSize <= amount /\ amount < k * LotSize + LotSize
      BY <1>1, <1>6, <3>2, <3>4, <3>5
    <3>7. amount \div LotSize = k
      BY <1>1, <3>1, <3>6, DivUnique
    <3> QED
      BY <3>2, <3>7
  <2>3. spent <= amount
    <3>1. (amount \div LotSize) * LotSize <= amount
      BY <1>1, DivBounds
    <3> QED
      BY <2>2, <3>1
  <2> HIDE DEF spent, more
  <2>4. beyond(spent) <= s * m
    <3>1. spent * s <= amount * s
      BY <1>1, <1>6, <2>3, MonotoneProduct
    <3>2. spent * s \in Int /\ amount * s \in Int
      BY <1>1, <1>6
    <3> DEFINE d == spent * s - b
    <3>3. d <= 0 /\ d \in Int
      BY <1>1, <1>9, <3>1, <3>2
    <3> HIDE DEF d
    <3>4. d * Finest <= 0 * Finest
      BY <1>1, <3>3, MonotoneProduct
    <3>5. d * Finest \in Int /\ 0 * Finest = 0
      BY <1>1, <3>3
    <3>6. s * m \in Nat
      BY <1>1
    <3>7. d * Finest <= s * m
      BY <3>4, <3>5, <3>6
    <3> QED
      BY <3>7 DEF d
  <2> QED
    BY <1>4, <2>2, <2>3, <2>4
<1> QED
  BY <1>8, <1>9

\* A set of natural numbers has a least element.
LEMMA LeastNumber ==
  ASSUME NEW S \in SUBSET Nat, S # {}
  PROVE  \E k \in S : \A j \in S : k <= j
<1>1. PICK k \in S : \A j \in S : ~(<<j, k>> \in OpToRel(<, Nat))
  BY WFMin, NatLessThanWellFounded
<1>2. \A j \in S : ~(j < k)
  BY <1>1 DEF OpToRel
<1> QED
  BY <1>2

\* f is the running sum of w up to k.
Sums(f, w, k) == f = [i \in 0..k |-> IF i = 0 THEN 0 ELSE f[i - 1] + w[i]]

\* Each running sum extends the one before it, so there is one of any length.
LEMMA SumsExist ==
  ASSUME NEW n \in Nat, NEW w
  PROVE  \E f : Sums(f, w, n)
<1> DEFINE Missing == {k \in Nat : ~\E f : Sums(f, w, k)}
<1> SUFFICES ASSUME Missing # {} PROVE FALSE
  OBVIOUS
<1>1. PICK k \in Missing : \A j \in Missing : k <= j
  BY LeastNumber
<1>2. k # 0
  <2> DEFINE f == [i \in 0..0 |-> 0]
  <2>1. Sums(f, w, 0)
    BY DEF Sums
  <2> QED
    BY <1>1, <2>1
<1>3. k \in Nat /\ k - 1 \in Nat /\ ~(k <= k - 1)
  BY <1>2
<1>4. PICK f : Sums(f, w, k - 1)
  BY <1>1, <1>3
<1> DEFINE g == [i \in 0..k |-> IF i = k THEN f[k - 1] + w[k] ELSE f[i]]
<1>5. Sums(g, w, k)
  <2>1. \A i \in 0..(k - 1) : g[i] = f[i]
    BY <1>3
  <2>2. \A i \in 0..(k - 1) : f[i] = IF i = 0 THEN 0 ELSE f[i - 1] + w[i]
    BY <1>4 DEF Sums
  <2>3. \A i \in 0..(k - 1) : g[i] = IF i = 0 THEN 0 ELSE g[i - 1] + w[i]
    BY <1>3, <2>1, <2>2
  <2>4. g[k] = g[k - 1] + w[k]
    BY <1>3, <2>1
  <2>5. \A i \in 0..k : g[i] = IF i = 0 THEN 0 ELSE g[i - 1] + w[i]
    <3> HIDE DEF g
    <3>1. \A i \in 0..k : i \in 0..(k - 1) \/ i = k
      BY <1>3
    <3> QED
      BY <1>2, <2>3, <2>4, <3>1
  <2>6. g = [i \in 0..k |-> g[i]]
    OBVIOUS
  <2> HIDE DEF g
  <2> QED
    BY <2>5, <2>6 DEF Sums
<1> QED
  BY <1>1, <1>5

BookLevels == Seq([size : Nat, price : 1..One])

LEMMA SeqFacts ==
  ASSUME NEW S, NEW s \in Seq(S)
  PROVE  Len(s) \in Nat /\ \A i \in 1..Len(s) : s[i] \in S
OBVIOUS

\* What matched holds when the loop over the levels has ended.
LEMMA MatchedIs ==
  ASSUME NEW side, NEW levels \in BookLevels, NEW errors
  PROVE  /\ Matched(side, levels, errors)[0] = 0
         /\ \A i \in 1..Len(levels) :
              Matched(side, levels, errors)[i] =
                Matched(side, levels, errors)[i - 1]
                  + (Worth(side, levels[Len(levels) + 1 - i]) * Finest + errors[i])
<1> DEFINE n == Len(levels)
           W(i) == Worth(side, levels[n + 1 - i]) * Finest + errors[i]
           w == [i \in 1..n |-> W(i)]
           m == Matched(side, levels, errors)
           F(f) == [i \in 0..n |-> IF i = 0 THEN 0 ELSE f[i - 1] + W(i)]
<1>1. n \in Nat
  BY DEF BookLevels
<1>2. m = CHOOSE f : f = F(f)
  BY DEF Matched
<1>3. \E f : f = F(f)
  <2> HIDE DEF W
  <2>1. PICK f : Sums(f, w, n)
    BY <1>1, SumsExist
  <2>2. \A i \in 0..n : i # 0 => w[i] = W(i)
    BY <1>1
  <2>3. f = F(f)
    BY <2>1, <2>2 DEF Sums
  <2> QED
    BY <2>3
<1>4. m = F(m)
  <2> HIDE DEF m, F
  <2> QED
    BY <1>2, <1>3
<1>5. \A i \in 0..n : m[i] = IF i = 0 THEN 0 ELSE m[i - 1] + W(i)
  <2> HIDE DEF m, W
  <2> QED
    BY <1>4
<1> HIDE DEF m
<1>6. m[0] = 0 /\ \A i \in 1..n : m[i] = m[i - 1] + W(i)
  <2> HIDE DEF W
  <2> QED
    BY <1>1, <1>5
<1> QED
  BY <1>6 DEF m

LEMMA WorthType ==
  ASSUME NEW side, NEW levels \in BookLevels, NEW i \in 1..Len(levels)
  PROVE  Worth(side, levels[i]) \in Nat
<1>1. levels[i] \in [size : Nat, price : 1..One]
  BY SeqFacts DEF BookLevels
<1>2. levels[i].size \in Nat /\ levels[i].price \in Nat
  BY <1>1, UnitsAssumption
<1> QED
  BY <1>2 DEF Worth

\* A limit one level lower admits the units of that level as well.
LEMMA AdmitsOneMore ==
  ASSUME NEW side, NEW levels \in BookLevels, NEW i \in 1..Len(levels),
         IsFiniteSet(Admits(side, levels, i + 1))
  PROVE  /\ IsFiniteSet(Admits(side, levels, i))
         /\ Cardinality(Admits(side, levels, i)) =
              Cardinality(Admits(side, levels, i + 1)) + Worth(side, levels[i])
<1> DEFINE w == Worth(side, levels[i])
           rest == Admits(side, levels, i + 1)
           own == {i} \X (1..w)
<1>1. Len(levels) \in Nat /\ w \in Nat
  BY SeqFacts, WorthType DEF BookLevels
<1>2. IsFiniteSet(own) /\ Cardinality(own) = w
  <2>1. IsFiniteSet({i}) /\ Cardinality({i}) = 1
    BY FS_Singleton
  <2>2. IsFiniteSet(1..w) /\ Cardinality(1..w) = w
    BY <1>1, FS_Interval
  <2> HIDE DEF w
  <2>3. IsFiniteSet(own) /\ Cardinality(own) = Cardinality({i}) * Cardinality(1..w)
    BY <2>1, <2>2, FS_Product
  <2> HIDE DEF own
  <2> QED
    BY <1>1, <2>1, <2>2, <2>3
<1>3. Admits(side, levels, i) = rest \cup own
  <2>1. i..Len(levels) = {i} \cup ((i + 1)..Len(levels))
    BY <1>1
  <2> QED
    BY <2>1 DEF Admits
<1>4. rest \cap own = {}
  BY <1>1 DEF Admits
<1>5. Cardinality(rest) \in Nat /\ Cardinality({}) = 0
  BY FS_CardinalityType, FS_EmptySet
<1> HIDE DEF w, rest, own
<1>6. /\ IsFiniteSet(rest \cup own)
      /\ Cardinality(rest \cup own) = Cardinality(rest) + Cardinality(own) - Cardinality(rest \cap own)
  BY <1>2, FS_Union DEF rest
<1>7. Cardinality(rest \cup own) = Cardinality(rest) + w
  <2>1. Cardinality(rest \cap own) = 0
    BY <1>4, <1>5
  <2>2. Cardinality(rest \cup own) = Cardinality(rest) + w - 0
    BY <1>2, <1>6, <2>1
  <2> QED
    BY <1>1, <1>5, <2>2
<1> QED
  BY <1>3, <1>6, <1>7 DEF w, rest

\* The errors of the rounds of the loop, each at most an Ulp.
RoundErrors(levels) == [DOMAIN levels -> -Ulp..Ulp]

\* After i levels the loop has matched what a limit at the last of them admits,
\* but for the errors of i rounds.
LEMMA MatchedIsAdmitted ==
  ASSUME NEW side, NEW levels \in BookLevels, NEW errors \in RoundErrors(levels),
         NEW i \in 0..Len(levels)
  PROVE  LET matched == Matched(side, levels, errors)[i]
             admitted == Cardinality(Admits(side, levels, Len(levels) + 1 - i))
         IN  /\ IsFiniteSet(Admits(side, levels, Len(levels) + 1 - i))
             /\ matched \in Int /\ admitted \in Nat
             /\ matched - admitted * Finest <= i * Ulp
             /\ admitted * Finest - matched <= i * Ulp
<1> DEFINE n == Len(levels)
           m == Matched(side, levels, errors)
           A(k) == Admits(side, levels, n + 1 - k)
           Agrees(k) == /\ IsFiniteSet(A(k)) /\ m[k] \in Int /\ Cardinality(A(k)) \in Nat
                        /\ m[k] - Cardinality(A(k)) * Finest <= k * Ulp
                        /\ Cardinality(A(k)) * Finest - m[k] <= k * Ulp
           Wrong == {k \in 0..n : ~Agrees(k)}
<1> HIDE DEF Agrees
<1> SUFFICES ASSUME Wrong # {} PROVE FALSE
  BY DEF Agrees
<1>1. n \in Nat /\ DOMAIN levels = 1..n /\ Ulp \in Nat /\ Finest \in Nat
  BY UnitTypes, InputsAssumption DEF BookLevels
<1>2. PICK k \in Wrong : \A j \in Wrong : k <= j
  <2>1. Wrong \in SUBSET Nat
    BY <1>1
  <2> HIDE DEF Wrong
  <2> QED
    BY <2>1, LeastNumber
<1>3. k # 0
  <2>1. A(0) = {}
    BY <1>1 DEF Admits
  <2>2. m[0] = 0
    BY MatchedIs
  <2> DEFINE c == Cardinality(A(0))
  <2>3. IsFiniteSet(A(0)) /\ c = 0
    BY <2>1, FS_EmptySet
  <2> HIDE DEF m, c
  <2>4. c \in Nat /\ m[0] \in Int /\ m[0] - c * Finest <= 0 * Ulp /\ c * Finest - m[0] <= 0 * Ulp
    BY <1>1, <2>2, <2>3
  <2>5. Agrees(0)
    BY <2>3, <2>4 DEF Agrees, c
  <2> QED
    BY <1>2, <2>5
<1>4. k \in 1..n /\ k - 1 \in 0..n /\ ~(k <= k - 1)
  BY <1>1, <1>2, <1>3
<1>5. Agrees(k - 1)
  BY <1>2, <1>4
<1> DEFINE l == n + 1 - k
           w == Worth(side, levels[l])
           err == errors[k]
           c == Cardinality(A(k))
           d == Cardinality(A(k - 1))
<1>6. l \in 1..n /\ n + 1 - (k - 1) = l + 1 /\ A(k - 1) = Admits(side, levels, l + 1)
  BY <1>1, <1>4
<1>7. m[k] = m[k - 1] + (w * Finest + err)
  BY <1>4, MatchedIs
<1>8. w \in Nat /\ err \in Int /\ -Ulp <= err /\ err <= Ulp
  <2>1. w \in Nat
    BY <1>6, WorthType
  <2> QED
    BY <1>1, <1>4, <2>1 DEF RoundErrors
<1>9. /\ IsFiniteSet(A(k - 1)) /\ m[k - 1] \in Int /\ d \in Nat
      /\ m[k - 1] - d * Finest <= (k - 1) * Ulp /\ d * Finest - m[k - 1] <= (k - 1) * Ulp
  BY <1>5 DEF Agrees
<1>10. IsFiniteSet(A(k)) /\ c = d + w
  BY <1>6, <1>9, AdmitsOneMore
<1> HIDE DEF w, err, c, d, m, n, l
<1>11. /\ (d + w) * Finest = d * Finest + w * Finest /\ (k - 1) * Ulp = k * Ulp - Ulp
       /\ d * Finest \in Int /\ w * Finest \in Int /\ k * Ulp \in Int
  BY <1>1, <1>4, <1>8, <1>9
<1>12. /\ c \in Nat /\ m[k] \in Int /\ m[k] - c * Finest <= k * Ulp /\ c * Finest - m[k] <= k * Ulp
  BY <1>1, <1>7, <1>8, <1>9, <1>10, <1>11
<1>13. Agrees(k)
  BY <1>10, <1>12 DEF Agrees, c
<1> QED
  BY <1>2, <1>13

\* The price of a market order is the best at which a limit admits levels worth
\* its amount, or the exception or the last price when no limit does, but for
\* the errors of the sum: for any book, side and amount, and any errors of its
\* rounds up to an Ulp (calculate_buy_ and calculate_sell_market_price).
THEOREM MarketPricesReach ==
  ASSUME NEW side, NEW levels \in BookLevels, NEW amount \in Nat, NEW fok \in BOOLEAN,
         NEW errors \in RoundErrors(levels)
  PROVE  PriceReaches(side, levels, amount, fok, errors)
<1> DEFINE n == Len(levels)
           matched == Matched(side, levels, errors)
           price == MarketPrice(side, levels, amount, fok, errors)
           goal == amount * Finest
           slack == n * Ulp
           enough == {i \in 1..n : matched[i] >= goal}
           C(i) == Cardinality(Admits(side, levels, i))
           beyond == [i \in DOMAIN levels |-> (C(i) - amount) * Finest]
           plenty == {i \in DOMAIN levels : beyond[i] >= slack}
<1>1. /\ n \in Nat /\ DOMAIN levels = 1..n /\ (n = 0 <=> levels = <<>>)
      /\ Ulp \in Nat /\ Finest \in Nat /\ goal \in Int /\ slack \in Int
  BY UnitTypes, InputsAssumption DEF BookLevels
<1>2. \A i \in 1..n : n + 1 - i \in 1..n /\ n + 1 - (n + 1 - i) = i
  BY <1>1
<1>3. ASSUME NEW i \in 1..n
      PROVE  /\ beyond[n + 1 - i] - slack <= matched[i] - goal
             /\ matched[i] - goal <= beyond[n + 1 - i] + slack
             /\ beyond[n + 1 - i] \in Int /\ matched[i] \in Int
  <2> DEFINE c == C(n + 1 - i)
  <2>1. /\ matched[i] \in Int /\ c \in Nat
        /\ matched[i] - c * Finest <= i * Ulp /\ c * Finest - matched[i] <= i * Ulp
    BY <1>1, MatchedIsAdmitted
  <2>2. beyond[n + 1 - i] = (c - amount) * Finest
    BY <1>1, <1>2
  <2> HIDE DEF c, matched, beyond
  <2>3. (c - amount) * Finest = c * Finest - goal /\ c * Finest \in Int
    BY <1>1, <2>1
  <2>4. i * Ulp <= slack /\ i * Ulp \in Int
    BY <1>1, MonotoneProduct
  <2> HIDE DEF goal, slack
  <2> QED
    BY <1>1, <2>1, <2>2, <2>3, <2>4
<1>4. price = IF enough # {} THEN levels[n + 1 - (CHOOSE i \in enough : \A j \in enough : i <= j)].price
              ELSE IF fok \/ n = 0 THEN 0 ELSE levels[1].price
  BY DEF MarketPrice
<1>5. PriceReaches(side, levels, amount, fok, errors) =
        (\/ \E i \in DOMAIN levels :
              price = levels[i].price /\ beyond[i] >= -slack /\ \A j \in plenty : j <= i
         \/ plenty = {} /\ price = IF fok \/ levels = <<>> THEN 0 ELSE levels[1].price)
  BY DEF PriceReaches
<1>6. plenty \subseteq 1..n /\ enough \subseteq 1..n
  BY <1>1
<1>7. \A i \in plenty : n + 1 - i \in enough
  <2> SUFFICES ASSUME NEW i \in plenty PROVE n + 1 - i \in enough
    OBVIOUS
  <2>1. i \in 1..n /\ beyond[i] >= slack
    BY <1>1
  <2>2. n + 1 - i \in 1..n /\ n + 1 - (n + 1 - i) = i
    BY <1>2, <2>1
  <2> HIDE DEF matched, beyond, goal, slack
  <2>3. beyond[i] - slack <= matched[n + 1 - i] - goal /\ beyond[i] \in Int
        /\ matched[n + 1 - i] \in Int
    BY <1>3, <2>2
  <2>4. matched[n + 1 - i] >= goal
    BY <1>1, <2>1, <2>3
  <2> QED
    BY <2>2, <2>4
<1>8. CASE enough = {}
  <2> HIDE DEF n, price, enough, plenty, beyond, slack, goal, matched
  <2>1. plenty = {}
    BY <1>7, <1>8
  <2> QED
    BY <1>1, <1>4, <1>5, <1>8, <2>1
<1>9. CASE enough # {}
  <2> DEFINE i == CHOOSE k \in enough : \A j \in enough : k <= j
             l == n + 1 - i
  <2>1. i \in enough /\ \A j \in enough : i <= j
    <3>1. enough \in SUBSET Nat
      BY <1>6
    <3>2. \E k \in enough : \A j \in enough : k <= j
      <4> HIDE DEF enough
      <4> QED
        BY <1>9, <3>1, LeastNumber
    <3> QED
      BY <3>2
  <2>2. price = levels[l].price
    BY <1>4, <1>9
  <2> HIDE DEF i
  <2>3. i \in 1..n /\ matched[i] >= goal /\ l \in DOMAIN levels
    BY <1>1, <1>2, <2>1
  <2>4. beyond[l] >= -slack
    <3> HIDE DEF matched, beyond, goal, slack
    <3> QED
      BY <1>1, <1>3, <2>3
  <2>5. \A j \in plenty : j <= l
    <3> SUFFICES ASSUME NEW j \in plenty PROVE j <= l
      OBVIOUS
    <3>1. j \in 1..n /\ n + 1 - j \in enough
      BY <1>6, <1>7
    <3>2. i <= n + 1 - j
      BY <2>1, <3>1
    <3> QED
      BY <1>1, <2>3, <3>1, <3>2
  <2> HIDE DEF price, enough, plenty, beyond, slack, l
  <2> QED
    BY <1>5, <2>2, <2>3, <2>4, <2>5
<1> QED
  BY <1>8, <1>9

-----------------------------------------------------------------------------
LEMMA EveryTickSizeIsExact == ExactTickSizes = TickSizes
<1> SUFFICES ASSUME NEW t \in TickSizes, NEW side \in {"BUY", "SELL"}, NEW size \in Sizes,
                    NEW e \in Errors, NEW price \in 1..One, PriceValid(price, t)
             PROVE  /\ LimitOrderExact(side, size, price, t, e)
                    /\ MarketOrderExact(side, size, price, t, e)
  BY DEF ExactTickSizes
<1>1. size \in Nat /\ e \in Int
  BY InputsAssumption
<1>2. price \in 0..One /\ price \in t..One
  BY ConfigType, UnitsAssumption DEF PriceValid
<1> QED
  BY <1>1, <1>2, LimitOrdersAreExact, MarketOrdersAreExact

LEMMA EveryMarketOrderFits == MarketOrdersFit
<1>1. ASSUME NEW amount \in Amounts, NEW balance \in Amounts \ {0}, NEW fee \in Fees,
             NEW e \in Errors
      PROVE  AdjustmentFits(amount, balance, fee.num, fee.den, e)
  <2>1. amount \in Nat /\ balance \in Nat /\ fee.num \in Nat /\ fee.den \in Nat \ {0}
        /\ e \in Int
    BY InputsAssumption
  <2> QED
    BY <2>1, AdjustedBuysFit
<1>2. ASSUME NEW side \in {"BUY", "SELL"}, NEW book \in Books, NEW amount \in Amounts,
             NEW fok \in BOOLEAN, NEW errors \in [DOMAIN book -> -Ulp..Ulp]
      PROVE  PriceReaches(side, book, amount, fok, errors)
  <2>1. book \in BookLevels /\ amount \in Nat
    BY InputsAssumption DEF BookLevels
  <2> QED
    BY <2>1, MarketPricesReach DEF RoundErrors
<1> QED
  BY <1>1, <1>2 DEF MarketOrdersFit

\* Whatever tick size the market gets, the amounts and prices of all orders for
\* it are what they must be for the errors of the floats they are computed with:
\* for any units, tick sizes, amounts, books, and errors
\* (get_order_amounts, get_market_order_amounts, adjust_market_buy_amount,
\* calculate_buy_ and calculate_sell_market_price).
THEOREM AmountsAlwaysExact == Spec => []AmountsAreExact
<1>1. TypeOK => AmountsAreExact
  BY EveryTickSizeIsExact, EveryMarketOrderFits DEF TypeOK, AmountsAreExact
<1> QED
  BY <1>1, TypeCorrect, PTL
=============================================================================
