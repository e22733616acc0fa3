----------------------------- MODULE MCLedgerTx -----------------------------
(***************************************************************************)
(* LedgerTx for TLC.  bob's ask1 takes alice's bid1, and alice's bid2      *)
(* takes bob's ask2: the accounts meet in opposite roles.  The first trade *)
(* is settled from the topic and by a gRPC call whose event id is the      *)
(* trade id, while the filled bid1 is released.                            *)
(***************************************************************************)
EXTENDS LedgerTx, TLC

CONSTANTS alice, bob, fees, bid1, bid2, ask1, ask2, t1, t2, e1, e2,
          reserve1, reserve1Again, reserve2, reserve3, reserve4,
          settle1, settle1Twice, settle1Again, settle2, release1

MCAccount == {alice, bob, fees}
MCOrder == {bid1, bid2, ask1, ask2}
MCTrade == {t1, t2}
MCEvent == {e1, e2, t1}

MCOpening ==
    [k \in Key |-> CASE k = <<alice, Quote>> -> 5
                     [] k = <<bob, Base>>    -> 2
                     [] OTHER                -> 0]

Bid1 == [order |-> bid1, account |-> alice, asset |-> Quote, amount |-> 2]
Bid2 == [order |-> bid2, account |-> alice, asset |-> Quote, amount |-> 2]
Ask(o) == [order |-> o, account |-> bob, asset |-> Base, amount |-> 1]

Trade1(e) ==
    [trade |-> t1, event |-> e, makerOrder |-> bid1, takerOrder |-> ask1,
     maker |-> alice, taker |-> bob, makerSide |-> "buy", price |-> 1, quantity |-> 1]
Trade2 ==
    [trade |-> t2, event |-> e2, makerOrder |-> ask2, takerOrder |-> bid2,
     maker |-> bob, taker |-> alice, makerSide |-> "sell", price |-> 2, quantity |-> 1]

MCReserveRequests == {Bid1, Bid2, Ask(ask1), Ask(ask2)}
MCSettlements == {Trade1(e1), Trade1(t1), Trade2}

Settle(s, mf, tf) == [kind |-> "settle", req |-> s, makerFee |-> mf, takerFee |-> tf]

MCCall ==
    [t \in {reserve1, reserve1Again} |-> [kind |-> "reserve", req |-> Bid1]]
    @@ reserve2 :> [kind |-> "reserve", req |-> Bid2]
    @@ reserve3 :> [kind |-> "reserve", req |-> Ask(ask1)]
    @@ reserve4 :> [kind |-> "reserve", req |-> Ask(ask2)]
    @@ [t \in {settle1, settle1Twice} |-> Settle(Trade1(e1), 0, 1)]
    @@ settle1Again :> Settle(Trade1(t1), 0, 0)
    @@ settle2 :> Settle(Trade2, 0, 1)
    @@ release1 :> [kind |-> "release", order |-> bid1]

Reserving == {reserve1, reserve2, reserve3, reserve4}
MCTx == DOMAIN MCCall
OppositeRoles == Reserving \cup {settle1, settle2, release1}
Redelivered == {reserve1, reserve1Again, reserve3, settle1, settle1Again, release1}
Recorded == {reserve1, reserve3, settle1, settle1Twice, settle1Again}
MCBatches == {OppositeRoles, Redelivered, Recorded}
=============================================================================
