------------------------------ MODULE MCLedger ------------------------------
(***************************************************************************)
(* Ledger for TLC.  alice bids with two orders, bob asks with one; a trade *)
(* may arrive twice, from the topic and from the gRPC call (whose event id *)
(* is the trade id), and once without order ids.                           *)
(***************************************************************************)
EXTENDS Ledger, TLC

CONSTANTS alice, bob, fees, bid1, bid2, ask, t1, t2, e1, e2

MCAccount == {alice, bob, fees}
MCOrder == {bid1, bid2, ask}
MCTrade == {t1, t2}
MCEvent == {e1, e2, t1}

MCOpening ==
    [k \in Key |-> CASE k = <<alice, Quote>> -> 5
                     [] k = <<bob, Base>>    -> 2
                     [] OTHER                -> 0]

Reserve(o, a, x, n) == [order |-> o, account |-> a, asset |-> x, amount |-> n]

MCReserveRequests ==
    { Reserve(bid1, alice, Quote, 2), Reserve(bid2, alice, Quote, 2),
      Reserve(bid2, alice, Quote, 3), Reserve(ask, bob, Base, 1),
      Reserve(ask, bob, Base, 2) }

Settle(t, e, mo, to, price) ==
    [trade |-> t, event |-> e, makerOrder |-> mo, takerOrder |-> to,
     maker |-> alice, taker |-> bob, makerSide |-> "buy",
     price |-> price, quantity |-> 1]

MCSettlements ==
    { Settle(t1, e1, bid1, ask, 2), Settle(t1, t1, bid1, ask, 2),
      Settle(t2, e2, bid2, ask, 1), Settle(t2, e2, bid2, ask, 2),
      [Settle(t2, e2, ask, NilOrder, 2) EXCEPT
            !.maker = bob, !.taker = alice, !.makerSide = "sell"] }
=============================================================================
