SPECIFICATION UserSpec
CONSTANTS
    r1 = r1
    r2 = r2
    r3 = r3
    r4 = r4
    r5 = r5
    alice = alice
    bob = bob
    me = me
    list = list
    create = create
    createByBob = createByBob
    revoke = revoke
    revokeAgain = revokeAgain
    revokeByBob = revokeByBob
    Row <- MCRow
    Id <- MCId
    Balances = {r1, r2}
    Limit = 1
    MaxTime = 2
    Request <- MCRequest
    Kind <- MCKind
    UserOf <- MCUserOf
    Batches <- MCBatches
    Verifier = {v1}
    Prefix = {"p", "q"}
CONSTRAINT Bounded
INVARIANTS
    MissesOnlyCursors
    
CHECK_DEADLOCK FALSE
