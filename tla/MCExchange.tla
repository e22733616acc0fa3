----------------------------- MODULE MCExchange -----------------------------
(***************************************************************************)
(* Exchange for TLC: ann sells; bea has money for one of two bids, or for  *)
(* both where one is filled for less than it reserved.  No account meets   *)
(* an order of its own.                                                    *)
(***************************************************************************)
EXTENDS Exchange, TLC

CONSTANTS ann, bea, fees, ask, bid, bid2

MCAccount == {ann, bea, fees}
MCOrder == {ask, bid, bid2}
MCTrade == MCOrder \X (0 .. 1)

MCOpening ==
    [k \in Key |-> CASE k = <<ann, Base>>  -> 2
                     [] k = <<bea, Quote>> -> 3
                     [] OTHER              -> 0]

Limit(account, side, price, quantity, tif) ==
    [account |-> account, side |-> side, type |-> "limit", price |-> price,
     quantity |-> quantity, tif |-> tif]

MCInfo ==
    ask :> Limit(ann, "sell", 1, 2, "GTC") @@ bid :> Limit(bea, "buy", 2, 1, "GTC")
    @@ bid2 :> Limit(bea, "buy", 3, 1, "IOC")

MCDeletes == ask :> 1 @@ bid :> 2 @@ bid2 :> 0
=============================================================================
