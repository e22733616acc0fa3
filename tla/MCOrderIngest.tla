---------------------------- MODULE MCOrderIngest ----------------------------
(***************************************************************************)
(* OrderIngest for TLC: an order, its retry with the same key, and an      *)
(* order of another key to trade with; cancellations of any of them.       *)
(***************************************************************************)
EXTENDS OrderIngest, TLC

CONSTANTS order, retry, other, key1, key2, del1, del2

MCRequest == {order, retry, other}
MCClient == order :> key1 @@ retry :> key1 @@ other :> key2
MCQuantity == order :> 1 @@ retry :> 1 @@ other :> 2
MCDelete == {del1, del2}

\* The two requests with key1 are alike and so are the two deletes: one of each
\* of the four kinds of choices.
MCTargets ==
    {del1 :> order @@ del2 :> o : o \in {order, retry, other}}
    \cup {del1 :> other @@ del2 :> other}
=============================================================================
