------------------------ MODULE MCSettlementConsumer ------------------------
(***************************************************************************)
(* SettlementConsumer for TLC: two symbols, hence two partitions, whose    *)
(* trades share the fee account and one trader.                            *)
(***************************************************************************)
EXTENDS SettlementConsumer, TLC

CONSTANTS alice, bob, fees, t1, t2, t3, btc, eth

MCAccount == {alice, bob, fees}
MCTrade == {t1, t2, t3}
MCAccounts == t1 :> {alice, fees} @@ t2 :> {alice, bob} @@ t3 :> {alice, fees}
MCPartition == {btc, eth}
MCLog == btc :> <<t1, t2>> @@ eth :> <<t3>>
=============================================================================
