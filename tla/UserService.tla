---------------------------- MODULE UserService -----------------------------
(***************************************************************************)
(* The user service: GET /me, the lists of Listing, and the API keys: they *)
(* are created, listed and revoked by requests that run concurrently, each *)
(* writing to audit_logs after its own statement, and verified as          *)
(* libs/apikey and the store provide for: GetAPIKeyByPrefix, VerifyAPIKey, *)
(* MarkAPIKeyUsed.                                                         *)
(*                                                                         *)
(* A key is named by the request that creates it.  Scopes and addresses    *)
(* never change once it exists: whether the secret and the client's        *)
(* address fit a key is left open.                                         *)
(***************************************************************************)
EXTENDS Listing

CONSTANTS
    Request,     \* requests with a valid token
    Kind,        \* "me", "create", "list" or "revoke"
    UserOf,      \* the token's user
    Batches,     \* which of the requests come: alternatives
    Verifier,    \* verifications of presented keys
    Prefix

VARIABLES
    keys,      \* api_keys
    step,      \* of each request: "new", "audit", "ok" or "failed"
    target,    \* the key a request has created or revoked
    audit,     \* audit_logs
    check      \* the verifications

keyVars == <<keys, step, target, audit, check>>
userVars == <<listVars, keyVars>>

NoKey == "none"
Never == -1
Unchecked == [step |-> "new", key |-> NoKey, at |-> Never]

UserInit ==
    /\ ListInit
    /\ keys = <<>>
    /\ \E batch \in Batches :
          step = [r \in Request |-> IF r \in batch THEN "new" ELSE "ok"]
    /\ target = [r \in Request |-> NoKey]
    /\ audit = {}
    /\ check = [v \in Verifier |-> Unchecked]

-----------------------------------------------------------------------------
Move(r, s, k) ==
    /\ step' = [step EXCEPT ![r] = s]
    /\ target' = [target EXCEPT ![r] = k]
    /\ UNCHANGED <<listVars, check>>

\* A statement has taken effect; its answer may still be lost.
Done(r, k) == \E s \in {"audit", "failed"} : Move(r, s, k)

\* No user id, an invalid payload or key id, or an error of the database.
Fail(r) ==
    /\ step[r] = "new"
    /\ Move(r, "failed", NoKey)
    /\ UNCHANGED <<keys, audit>>

ReadEntry == [action |-> "read", key |-> NoKey, by |-> "walk"]

\* Accounts and Balances
ListPage ==
    /\ List
    /\ audit' \in {audit, audit \cup {ReadEntry}}
    /\ UNCHANGED <<keys, step, target, check>>

Read(r) ==
    /\ step[r] = "new"
    /\ Move(r, "audit", NoKey)
    /\ UNCHANGED <<keys, audit>>

Me(r) == Kind[r] = "me" /\ Read(r)

ListAPIKeys(r) == Kind[r] = "list" /\ Read(r)

\* idx_api_keys_prefix is unique.
InsertKey(r, prefix) ==
    /\ \A k \in DOMAIN keys : keys[k].prefix # prefix
    /\ keys' = [k \in DOMAIN keys \cup {r} |->
                  IF k \in DOMAIN keys THEN keys[k]
                  ELSE [user |-> UserOf[r], prefix |-> prefix,
                        lastUsedAt |-> Never, revokedAt |-> Never]]

CreateAPIKey(r) ==
    /\ step[r] = "new" /\ Kind[r] = "create"
    /\ \E prefix \in Prefix : InsertKey(r, prefix)
    /\ Done(r, r)
    /\ UNCHANGED audit

\* WHERE id = $1 AND user_id = $2 AND revoked_at IS NULL
Revocable(r, k) == keys[k].user = UserOf[r] /\ keys[k].revokedAt = Never

RevokeAPIKey(r) ==
    /\ step[r] = "new" /\ Kind[r] = "revoke"
    /\ \E k \in DOMAIN keys :
          \/ /\ Revocable(r, k)
             /\ keys' = [keys EXCEPT ![k].revokedAt = now]
             /\ Done(r, k)
          \/ /\ ~ Revocable(r, k)
             /\ Move(r, "failed", NoKey)
             /\ UNCHANGED keys
    /\ UNCHANGED audit

\* An insert that fails is logged and changes nothing.
InsertAudit(r) ==
    /\ step[r] = "audit"
    /\ audit' \in {audit, audit \cup {[action |-> Kind[r], key |-> target[r], by |-> r]}}
    /\ Move(r, "ok", target[r])
    /\ UNCHANGED keys

-----------------------------------------------------------------------------
Checking(v, c) ==
    /\ check' = [check EXCEPT ![v] = c]
    /\ UNCHANGED <<listVars, step, target, audit>>

\* The record read is a copy.
GetAPIKeyByPrefix(v) ==
    /\ check[v].step = "new"
    /\ \E k \in DOMAIN keys :
          Checking(v, [step |-> "verify", key |-> k, at |-> now,
                       revokedAt |-> keys[k].revokedAt])
    /\ UNCHANGED keys

VerifyIgnoringRevocation(record) == {"accepted", "refused"}

\* Verify, of the record that was read: the hash, the revocation, the address.
Verify(record) ==
    {"refused"} \cup (IF record.revokedAt = Never THEN {"accepted"} ELSE {})

VerifyAPIKey(v) ==
    /\ check[v].step = "verify"
    /\ \E result \in Verify(check[v]) :
          Checking(v, [step |-> result, key |-> check[v].key, at |-> check[v].at])
    /\ UNCHANGED keys

MarkAPIKeyUsed(v) ==
    /\ check[v].step = "accepted"
    /\ keys' = [keys EXCEPT ![check[v].key].lastUsedAt = now]
    /\ Checking(v, [check[v] EXCEPT !.step = "used"])

UserNext ==
    \/ ListPage
    \/ (Tick \/ \E r \in Row : Write(r)) /\ UNCHANGED keyVars
    \/ \E r \in Request :
          \/ Fail(r) \/ Me(r) \/ ListAPIKeys(r) \/ CreateAPIKey(r) \/ RevokeAPIKey(r)
          \/ InsertAudit(r)
    \/ \E v \in Verifier : GetAPIKeyByPrefix(v) \/ VerifyAPIKey(v) \/ MarkAPIKeyUsed(v)

UserSpec == UserInit /\ [][UserNext]_userVars

-----------------------------------------------------------------------------
\* A key is used after its revocation only by a verification that had read its
\* record before: nothing that looks a revoked key up accepts it.
LateUseWasLookedUpBefore ==
    \A v \in Verifier : check[v].step \in {"accepted", "used"} =>
        LET k == check[v].key
        IN  keys[k].revokedAt # Never => check[v].at <= keys[k].revokedAt
=============================================================================
