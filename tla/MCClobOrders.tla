---------------------------- MODULE MCClobOrders ----------------------------
(***************************************************************************)
(* ClobOrders on a small instance, and the arithmetic of OrderAmounts over *)
(* every small input: a unit is a hundredth, prices have two decimals,     *)
(* sizes one, and round_up leaves two more.                                *)
(***************************************************************************)
EXTENDS ClobOrders, TLC

Symmetry == Permutations(Callers) \cup Permutations(Orders)

\* Two calls that create, and may post; one of each kind; three that send.
MCWorkloads == {[create |-> 2, send |-> 0], [create |-> 1, send |-> 1],
                [create |-> 0, send |-> 3]}

\* Every order for less than ten lots, at every valid price, for errors of a
\* float that round_up absorbs, that make a quotient a unit too much, and that
\* are too large for the decimals; and every small book.
MCSizes == {0, 9, 10, 34, 70, 99}
MCErrors == {-Finest, -Fine, 1 - Fine, -7, 0, 1, 5, Fine - 1, Finest}
MCAmounts == 0..15 \cup {100}
MCFees == [num : 0..3, den : {4}]
MCLevels == [size : 0..2, price : {1, 2, 5}]
MCBooks == UNION {{b \in [1..n -> MCLevels] :
                     \A i, j \in 1..n : i # j => b[i].price # b[j].price} : n \in 0..3}
=============================================================================
