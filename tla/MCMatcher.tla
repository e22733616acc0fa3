----------------------------- MODULE MCMatcher ------------------------------
(***************************************************************************)
(* Matcher for TLC: asks at two prices, two of them at one price and from  *)
(* the account that later buys; bids of every kind.                        *)
(***************************************************************************)
EXTENDS Matcher, TLC

CONSTANTS ann, bea, ask1, ask2, ask3, ask4, bid1, bid2, fok, ioc, mkt

MCAccount == {ann, bea, NoAccount}
MCOrder == {ask1, ask2, ask3, ask4, bid1, bid2, fok, ioc, mkt}

Fields(account, side, type, price, quantity, tif) ==
    [account |-> account, side |-> side, type |-> type, price |-> price,
     quantity |-> quantity, tif |-> tif]

MCInfo ==
    ask1 :> Fields(ann, "sell", "limit", 1, 1, "GTC")
    @@ ask2 :> Fields(bea, "sell", "limit", 1, 2, "GTC")
    @@ ask3 :> Fields(NoAccount, "sell", "limit", 2, 1, "GTC")
    @@ ask4 :> Fields(ann, "sell", "limit", 2, 2, "GTC")
    @@ bid1 :> Fields(ann, "buy", "limit", 2, 3, "GTC")
    @@ bid2 :> Fields(bea, "buy", "limit", 2, 2, "GTC")
    @@ fok :> Fields(ann, "buy", "limit", 2, 2, "FOK")
    @@ ioc :> Fields(bea, "buy", "limit", 1, 2, "IOC")
    @@ mkt :> Fields(bea, "sell", "market", 0, 2, "GTC")
=============================================================================
