---------------------------- MODULE MCMarketFeed ----------------------------
(***************************************************************************)
(* MarketFeed with the ways of opening a connection that the runs look at. *)
(***************************************************************************)
EXTENDS MarketFeed

Opened(overflow, store, parsed, reconnect) ==
    [overflow |-> overflow, store |-> store, parsed |-> parsed, reconnect |-> reconnect]

\* A recorder without a store; a reader of the store that gets raw text; one
\* that gets events and reconnects whenever something is wrong.
MCOptions == {
    Opened("drop_oldest", FALSE, TRUE, FALSE),
    Opened("drop_oldest", TRUE, FALSE, TRUE),
    Opened("reconnect", TRUE, TRUE, TRUE) }

NoStore == {Opened("drop_oldest", FALSE, TRUE, FALSE)}
ParsedAndStore == {Opened("drop_oldest", TRUE, TRUE, TRUE)}
=============================================================================
