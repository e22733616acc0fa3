--------------------------- MODULE MCUserService ----------------------------
(***************************************************************************)
(* UserService for TLC: a client walks through lists, where r1 and r2 are  *)
(* balances of one account and the other rows have ids of their own; or    *)
(* alice's key is revoked twice while bob makes a key too.                 *)
(***************************************************************************)
EXTENDS UserService, TLC

CONSTANTS r1, r2, r3, r4, r5, alice, bob,
          me, list, create, createByBob, revoke, revokeAgain, revokeByBob

MCRow == {r1, r2, r3, r4, r5}
MCId == r3 :> 1 @@ r1 :> 2 @@ r2 :> 2 @@ r4 :> 3 @@ r5 :> 4

ByBob == {createByBob, revokeByBob}
MCRequest == {me, list, create, revoke, revokeAgain} \cup ByBob
MCUserOf == [r \in MCRequest |-> IF r \in ByBob THEN bob ELSE alice]
MCKind ==
    [r \in MCRequest |-> CASE r = me -> "me"
                           [] r = list -> "list"
                           [] r \in {create, createByBob} -> "create"
                           [] OTHER -> "revoke"]
MCBatches ==
    { {}, {me, list}, {create, createByBob, revoke},
      {create, revoke, revokeAgain}, {create, createByBob, revokeByBob} }

Bounded == Rows = {} \/ \A r \in Request : step[r] = "ok" /\ target[r] = NoKey
=============================================================================
