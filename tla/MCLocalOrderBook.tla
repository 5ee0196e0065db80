-------------------------- MODULE MCLocalOrderBook --------------------------
(***************************************************************************)
(* A small instance of LocalOrderBook for TLC: three prices, so that a     *)
(* crossing quote can clear one or two levels and leave one; two sizes, so *)
(* that a level can change without disappearing.                           *)
(***************************************************************************)
EXTENDS LocalOrderBook, TLC

Symmetry == Permutations(Tokens)

MCPrices == 1..3
MCSizes == {1, 2}

Side(f) == [p \in Prices |-> IF p \in DOMAIN f THEN f[p] ELSE 0]
Book(b, a) == [bids |-> Side(b), asks |-> Side(a)]

\* An empty book, a one-sided one, a wide one, a locked one and a deep ask side.
MCSnapshots == {
    Book(<<>>, <<>>),
    Book(<<1, 2>>, <<>>),
    Book(<<1>>, 3 :> 1),
    Book(2 :> 1, 2 :> 2 @@ 3 :> 1),
    Book(<<>>, <<2, 1, 1>>) }

Change(t, side, price, size) ==
    [token |-> t, side |-> side, price |-> price, size |-> size]

\* Every single change, and lists that cross, clear and re-add in one frame,
\* touch two tokens, or hold a side the store does not know.
MCMessages ==
    { <<Change(t, side, p, sz)>> :
        t \in Tokens, side \in {"BUY", "SELL"}, p \in Prices, sz \in {0, 1} }
    \cup { <<Change(t, "BUY", 3, 1), Change(u, "SELL", 1, 2)>> : t, u \in Tokens }
    \cup { <<Change(t, "SELL", 1, 1), Change(t, "BUY", 3, 0), Change(t, "OTHER", 2, 1)>> : t \in Tokens }
=============================================================================
