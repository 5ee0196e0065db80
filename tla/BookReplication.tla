-------------------------- MODULE BookReplication ---------------------------
(***************************************************************************)
(* The market book store fed by one market connection: the exchange moves  *)
(* its books and publishes frames, the connection loses and re-opens its   *)
(* socket, and the reader applies each frame to the store before it queues *)
(* it for the callback (_observe_raw_market_message).                      *)
(*                                                                         *)
(* The exchange is external. What the code relies on is modelled: a "book" *)
(* frame is the whole book, a "price_change" frame lists the levels that   *)
(* changed with their new sizes, in any order, and may leave out a level   *)
(* that a quote of the list trades through (the store infers that one).    *)
(* Frames of one socket arrive in order; a lost socket loses what is on it.*)
(***************************************************************************)
EXTENDS LocalOrderBook, FiniteSets, SequencesExt

CONSTANTS
    MaxInFlight,     \* frames published and not yet read
    MaxChanges       \* levels that change in one move of the exchange

ASSUME BoundsAssumption == MaxInFlight \in Nat \ {0} /\ MaxChanges \in Nat \ {0}
ASSUME GivenUpAssumption == {"connection_closed", "parse_failure", "snapshot_stale"} \subseteq Reasons

VARIABLES
    market,          \* the exchange's books
    wire,            \* frames on the socket
    conn             \* "down", "up", or "lost": down but not torn down yet

vars == <<bookVars, market, wire, conn>>
storeVars == bookVars

-----------------------------------------------------------------------------
Level == [token : Tokens, side : {"BUY", "SELL"}, price : Prices]

SizeAt(m, l) ==
    IF l.side = "BUY" THEN m[l.token].bids[l.price] ELSE m[l.token].asks[l.price]

Changed(old, new) == {l \in Level : SizeAt(old, l) # SizeAt(new, l)}

\* The quote at level k of the new books trades through level l.
TradesThrough(new, k, l) ==
    /\ k.token = l.token /\ k.side # l.side
    /\ SizeAt(new, k) # 0
    /\ IF k.side = "BUY" THEN k.price > l.price ELSE k.price < l.price

\* The sets of levels a price_change frame for a move may list.
Listings(old, new) ==
    {L \in SUBSET Changed(old, new) :
        \A l \in Changed(old, new) \ L : \E k \in L : TradesThrough(new, k, l)}

ChangeItem(new, l) ==
    [token |-> l.token, side |-> l.side, price |-> l.price, size |-> SizeAt(new, l)]

\* The frames for a move: one item for each listed level, in every order.
PriceChanges(old, new) ==
    UNION { SetToSeqs({ChangeItem(new, l) : l \in L}) : L \in Listings(old, new) }

BookFrame(t) == [kind |-> "book", token |-> t, book |-> market[t]]
DeltaFrame(items) == [kind |-> "price_change", items |-> items]

-----------------------------------------------------------------------------
ReplicationInit ==
    /\ Init
    /\ market \in [Tokens -> SnapshotBooks]
    /\ wire = <<>>
    /\ conn = "down"

Publish(frame) ==
    IF conn = "up" THEN Len(wire) < MaxInFlight /\ wire' = Append(wire, frame)
                   ELSE wire' = wire

\* The exchange's books move, the books of several tokens at once if it likes.
Quote(new) ==
    /\ new # market
    /\ IsFiniteSet(Changed(market, new)) /\ Cardinality(Changed(market, new)) <= MaxChanges
    /\ market' = new
    /\ \E items \in PriceChanges(market, new) : Publish(DeltaFrame(items))
    /\ UNCHANGED <<storeVars, conn>>

\* The answer to the subscription, and the book published again later.
PublishBook(t) ==
    /\ conn = "up"
    /\ Publish(BookFrame(t))
    /\ UNCHANGED <<storeVars, market, conn>>

\* run() opens the socket and forgets the books before it subscribes.
Connect ==
    /\ conn = "down"
    /\ Invalidate("awaiting_initial_snapshot")
    /\ conn' = "up"
    /\ UNCHANGED <<market, wire>>

\* The socket dies with what is on it; the store is told only afterwards, when
\* run() has awaited the disconnect callback.
LoseSocket ==
    /\ conn = "up" /\ LockFree
    /\ conn' = "lost"
    /\ wire' = <<>>
    /\ UNCHANGED <<storeVars, market>>

TearDown ==
    /\ conn = "lost"
    /\ Invalidate("connection_closed")
    /\ conn' = "down"
    /\ UNCHANGED <<market, wire>>

NextFrame == conn = "up" /\ LockFree /\ wire # <<>> /\ wire' = Tail(wire)

ReceiveBook ==
    /\ NextFrame
    /\ Head(wire).kind = "book"
    /\ ApplySnapshot(Head(wire).token, Head(wire).book, None, None)
    /\ UNCHANGED <<market, conn>>

ReceiveDelta ==
    /\ NextFrame
    /\ Head(wire).kind = "price_change"
    /\ BeginDelta(Head(wire).items)
    /\ UNCHANGED <<market, conn>>

ApplyItem ==
    /\ DeltaItem
    /\ UNCHANGED <<market, wire, conn>>

\* Mutant of ReceiveGarbage: the frame is skipped and the books are kept.
GarbageSkipped ==
    /\ NextFrame
    /\ UNCHANGED <<storeVars, market, conn>>

\* json.loads raises on the frame: what it said is lost.
ReceiveGarbage ==
    /\ NextFrame
    /\ Invalidate("parse_failure")
    /\ UNCHANGED <<market, conn>>

\* The stale monitor gives the books up, and may leave the socket open.
FeedStale ==
    /\ conn = "up"
    /\ Invalidate("snapshot_stale")
    /\ UNCHANGED <<market, wire, conn>>

ReplicationNext ==
    \/ \E new \in [Tokens -> SnapshotBooks] : Quote(new)
    \/ \E t \in Tokens : PublishBook(t)
    \/ Connect \/ LoseSocket \/ TearDown
    \/ ReceiveBook \/ ReceiveDelta \/ ApplyItem \/ ReceiveGarbage
    \/ FeedStale

ReplicationSpec == ReplicationInit /\ [][ReplicationNext]_vars

-----------------------------------------------------------------------------
\* A reader that has caught up with the socket holds exactly the exchange's
\* book of every token it calls valid: across reconnects, lost and unreadable
\* frames, deltas that come before their snapshot, and levels _apply_delta had
\* to infer as gone.
CaughtUpMeansEqual ==
    conn = "up" /\ wire = <<>> /\ LockFree =>
        \A t \in Tokens : TokenValid(t) =>
            market[t] = [bids |-> bids[t], asks |-> asks[t]]
=============================================================================
