---------------------- MODULE MCRealTimeSubscriptions ----------------------
(* Two prices that share a symbol and may share an acknowledgement, and a  *)
(* topic of two types that nobody acknowledges.                            *)
EXTENDS RealTimeSubscriptions

Sub(topic, type, filters) == [topic |-> topic, type |-> type, filters |-> filters]

MCTypes == [crypto_prices |-> {"update"}, crypto_prices_chainlink |-> {"update"},
            activity |-> {"trades", "orders_matched"}]

Price == Sub("crypto_prices", "update", "btc")
Chainlink == Sub("crypto_prices_chainlink", "*", "btc")
Activity == Sub("activity", "*", "none")

MCInitial == {{Sub("activity", "trades", "none")}}
MCSubscribe == {{Chainlink}, {Price, Activity}}
MCUnsubscribe == {{Activity}}

=============================================================================
