------------------------- MODULE MCBookReplication --------------------------
(***************************************************************************)
(* BookReplication with books chosen so that a move can trade through one  *)
(* or two levels of either side, only add a level, or empty a side.        *)
(***************************************************************************)
EXTENDS BookReplication

MCPrices == 1..3
Side(S) == [p \in Prices |-> IF p \in S THEN 1 ELSE 0]
Book(b, a) == [bids |-> Side(b), asks |-> Side(a)]

MCBooks == {
    Book({}, {2, 3}),
    Book({1}, {2, 3}),
    Book({3}, {}),
    Book({1, 2}, {3}),
    Book({}, {1}) }
NoMessages == {}
=============================================================================
