-------------------------- MODULE MCExchangeViews --------------------------
(* Small instances of the exchange and of the pages read from it.          *)
EXTENDS ExchangeViews

CONSTANTS alice, bob, gold, wbtc, eth, exchange, nobody

Funds3 == [a \in Assets |-> [u \in Users |-> 3]]
Apart == [a \in Assets |-> [u \in Users |->
            IF (a = gold /\ u = alice) \/ (a = wbtc /\ u = bob) THEN 2 ELSE 0]]
=============================================================================
