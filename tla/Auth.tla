-------------------------------- MODULE Auth --------------------------------
(***************************************************************************)
(* The auth service (services/auth): concurrent POST /auth/login, refresh  *)
(* and logout requests over the refresh_tokens table, and the limiter that *)
(* admits logins.  Every call of the store is a step of its own;           *)
(* RotateToken is one transaction.                                         *)
(*                                                                         *)
(* A token stands for its hash.  Passwords and signatures are abstracted   *)
(* to their outcome.                                                       *)
(***************************************************************************)
EXTENDS Integers, Sequences, FiniteSets

CONSTANTS
    Request,      \* HTTP requests
    Address,      \* client IPs, the limiter's keys
    User, Token,  \* users, and the refresh tokens TokenGen may draw
    NoToken,
    Limit,        \* RateLimit.LoginLimit
    Window,       \* RateLimit.Window, in ticks
    RefreshTTL,   \* RefreshTokenTTL, in ticks
    MaxStale,     \* how old a clock reading is when the limiter's lock is taken
    MaxTime, MaxFaults, \* bounds
    Limiters      \* which limiter buildLimiter makes: alternatives

ASSUME AuthAssumption ==
    /\ NoToken \notin Token /\ IsFiniteSet(Token)
    /\ Limit \in Nat \ {0} /\ Window \in Nat \ {0} /\ RefreshTTL \in Nat
    /\ MaxStale \in 1 .. Window - 1
    /\ MaxTime \in Nat /\ MaxFaults \in Nat
    /\ Limiters \subseteq {"memory", "redis"}

VARIABLES
    clock,
    limiter, entry, lastCleanup,  \* the limiter: its counters by address
    row,                          \* refresh_tokens
    step, token, now, drawn,      \* each request: its next call, the token it
                                  \* presents, its clock reading, the new token
    issued,                       \* tokens clients were answered with
    admitted,                     \* sequence of <<address, time>> (history)
    faults

rate == <<limiter, entry, lastCleanup, admitted>>
request == <<step, token, now, drawn>>
vars == <<clock, rate, row, request, issued, faults>>

NoEntry == [count |-> 0, reset |-> 0]

NoRow == [user |-> "none"]

Never == -1

Exists(t) == row[t] # NoRow

Live(t) == Exists(t) /\ row[t].revokedAt = Never

Init ==
    /\ clock = 0
    /\ limiter \in Limiters
    /\ entry = [a \in Address |-> NoEntry] /\ lastCleanup = 0
    /\ row = [t \in Token |-> NoRow]
    /\ step = [r \in Request |-> "new"] /\ token = [r \in Request |-> NoToken]
    /\ now = [r \in Request |-> 0] /\ drawn = [r \in Request |-> NoToken]
    /\ issued = {} /\ admitted = <<>> /\ faults = 0

Fault == faults < MaxFaults /\ faults' = faults + 1

Goto(r, s) == step' = [step EXCEPT ![r] = s]

\* The request is answered.
Done(r) ==
    /\ Goto(r, "done")
    /\ token' = [token EXCEPT ![r] = NoToken]
    /\ now' = [now EXCEPT ![r] = 0]
    /\ drawn' = [drawn EXCEPT ![r] = NoToken]


-----------------------------------------------------------------------------
(***************************************************************************)
(* The limiters.  MemoryLimiter uses the caller's reading of the clock,    *)
(* taken before the lock; the script of RedisLimiter runs atomically with  *)
(* Redis' own clock, and a key that has expired is gone.                   *)
(***************************************************************************)
Login(r) ==
    /\ step[r] = "new"
    /\ Goto(r, "allow")
    /\ now' = [now EXCEPT ![r] = clock]
    /\ UNCHANGED <<clock, rate, row, token, drawn, issued, faults>>

Cleaned(at) ==
    IF at - lastCleanup >= Window
    THEN [a \in Address |-> IF at > entry[a].reset THEN NoEntry ELSE entry[a]]
    ELSE entry

AllowOneMore(e, at) ==
    IF e.count = 0 \/ at > e.reset THEN [count |-> 1, reset |-> at + Window]
    ELSE IF e.count > Limit THEN e
    ELSE [e EXCEPT !.count = @ + 1]

\* The entry after the call; it has changed exactly when the call is allowed.
AllowMemory(e, at) ==
    IF e.count = 0 \/ at > e.reset THEN [count |-> 1, reset |-> at + Window]
    ELSE IF e.count >= Limit THEN e
    ELSE [e EXCEPT !.count = @ + 1]

AllowRedis(e) ==
    IF e.count = 0 THEN [count |-> 1, reset |-> clock + Window]
    ELSE [e EXCEPT !.count = @ + 1]

Admit(r, a) ==
    /\ Goto(r, "login")
    /\ admitted' = Append(admitted, <<a, clock>>)
    /\ now' = [now EXCEPT ![r] = 0]
    /\ UNCHANGED <<token, drawn>>

Allow(r, a) ==
    /\ step[r] = "allow"
    /\ IF limiter = "memory"
       THEN LET e == Cleaned(now[r])[a]
                f == AllowMemory(e, now[r])
            IN  /\ entry' = [Cleaned(now[r]) EXCEPT ![a] = f]
                /\ lastCleanup' = IF now[r] - lastCleanup >= Window THEN now[r] ELSE lastCleanup
                /\ IF f # e THEN Admit(r, a) ELSE Done(r) /\ UNCHANGED admitted
       ELSE LET f == AllowRedis(entry[a])
            IN  /\ entry' = [entry EXCEPT ![a] = f]
                /\ IF f.count <= Limit THEN Admit(r, a) ELSE Done(r) /\ UNCHANGED admitted
                /\ UNCHANGED lastCleanup
    /\ UNCHANGED <<clock, limiter, row, issued, faults>>

\* Redis is unreachable: the login fails.
AllowFails(r) ==
    /\ step[r] = "allow" /\ limiter = "redis"
    /\ Fault
    /\ Done(r)
    /\ UNCHANGED <<clock, rate, row, issued>>

-----------------------------------------------------------------------------
(***************************************************************************)
(* Login, after the limiter.  Every row remembers the login its session    *)
(* began with, and whether its parent was revoked already (history).       *)
(***************************************************************************)
\* TokenGen.New: the tokens not drawn yet are all alike.
Fresh == {t \in Token : ~ Exists(t) /\ \A r \in Request : drawn[r] # t}

Drawn(t) == Fresh # {} /\ t = CHOOSE x \in Fresh : TRUE

NewRow(user, at, root, late) ==
    [user |-> user, expires |-> at + RefreshTTL, revokedAt |-> Never,
     replacedBy |-> NoToken, root |-> root, late |-> late]

Refuse(r) ==
    /\ step[r] = "login"
    /\ Done(r)
    /\ UNCHANGED <<clock, rate, row, issued, faults>>

CreateRefreshToken(r, u, t) ==
    /\ step[r] = "login" /\ Drawn(t)
    /\ LET inserted == [row EXCEPT ![t] = NewRow(u, clock, t, FALSE)]
       IN  \/ row' = inserted /\ issued' = issued \cup {t} /\ UNCHANGED faults
           \/ row' \in {row, inserted} /\ UNCHANGED issued /\ Fault
    /\ Done(r)
    /\ UNCHANGED <<clock, rate>>

-----------------------------------------------------------------------------
(***************************************************************************)
(* Refresh: look the token up; a revoked one ends all sessions of the user,*)
(* an expired one is revoked, any other is rotated.                        *)
(***************************************************************************)
Refresh(r, t) ==
    /\ step[r] = "new" /\ t \in issued
    /\ Goto(r, "lookup")
    /\ token' = [token EXCEPT ![r] = t]
    /\ UNCHANGED <<clock, rate, row, now, drawn, issued, faults>>

NextCallTrusting(t) == IF clock > row[t].expires THEN "expire" ELSE "rotate"

NextCall(t) ==
    IF ~ Live(t) THEN "reuse"
    ELSE IF clock > row[t].expires THEN "expire" ELSE "rotate"

GetRefreshTokenByHash(r) ==
    /\ step[r] = "lookup"
    /\ \/ /\ Goto(r, NextCall(token[r]))
          /\ now' = [now EXCEPT ![r] = clock]
          /\ UNCHANGED <<token, drawn, faults>>
       \/ Done(r) /\ Fault
    /\ UNCHANGED <<clock, rate, row, issued>>

Revoked(tokens) ==
    [t \in Token |-> IF t \in tokens /\ Live(t) THEN [row[t] EXCEPT !.revokedAt = clock]
                                                ELSE row[t]]

\* The errors of these two are ignored; the answer is 401 anyway.
RevokeAllTokens(r) ==
    /\ step[r] = "reuse"
    /\ \/ /\ row' = Revoked({t \in Token : Exists(t) /\ row[t].user = row[token[r]].user})
          /\ UNCHANGED faults
       \/ UNCHANGED row /\ Fault
    /\ Done(r)
    /\ UNCHANGED <<clock, rate, issued>>

RevokeExpired(r) ==
    /\ step[r] = "expire"
    /\ \/ row' = Revoked({token[r]}) /\ UNCHANGED faults
       \/ UNCHANGED row /\ Fault
    /\ Done(r)
    /\ UNCHANGED <<clock, rate, issued>>

\* INSERT the new row, UPDATE the old one WHERE id = $1, whatever it is now.
RotatedKeepsOld(r, t) ==
    LET old == token[r]
    IN  [row EXCEPT ![t] = NewRow(row[old].user, now[r], row[old].root, ~ Live(old)),
                    ![old].replacedBy = t]

Rotated(r, t) ==
    LET old == token[r]
    IN  [row EXCEPT ![t] = NewRow(row[old].user, now[r], row[old].root, ~ Live(old)),
                    ![old].revokedAt = clock, ![old].replacedBy = t]

RotateToken(r, t) ==
    /\ step[r] = "rotate" /\ Drawn(t)
    /\ \/ /\ row' = Rotated(r, t)
          /\ Goto(r, "sign")
          /\ drawn' = [drawn EXCEPT ![r] = t]
          /\ UNCHANGED <<token, now, faults>>
       \/ row' \in {row, Rotated(r, t)} /\ Done(r) /\ Fault
    /\ UNCHANGED <<clock, rate, issued>>

\* The access token; if signing fails the client never learns the new token.
NewAccessToken(r) ==
    /\ step[r] = "sign"
    /\ \/ issued' = issued \cup {drawn[r]} /\ UNCHANGED faults
       \/ UNCHANGED issued /\ Fault
    /\ Done(r)
    /\ UNCHANGED <<clock, rate, row>>

Logout(r, t) ==
    /\ step[r] = "new" /\ t \in issued
    /\ \/ row' = Revoked({t}) /\ UNCHANGED faults
       \/ row' \in {row, Revoked({t})} /\ Fault
    /\ Done(r)
    /\ UNCHANGED <<clock, rate, issued>>

-----------------------------------------------------------------------------
\* A request waits for the limiter's lock at most MaxStale ticks.
Tick ==
    /\ clock < MaxTime
    /\ \A r \in Request : step[r] = "allow" => clock - now[r] < MaxStale
    /\ clock' = clock + 1
    /\ entry' = IF limiter = "memory" THEN entry
                ELSE [a \in Address |-> IF clock' >= entry[a].reset THEN NoEntry ELSE entry[a]]
    /\ UNCHANGED <<limiter, lastCleanup, admitted, row, request, issued, faults>>

Handle(r) ==
    \/ Login(r) \/ AllowFails(r) \/ Refuse(r)
    \/ \E a \in Address : Allow(r, a)
    \/ \E u \in User, t \in Token : CreateRefreshToken(r, u, t)
    \/ \E t \in Token : Refresh(r, t) \/ Logout(r, t) \/ RotateToken(r, t)
    \/ GetRefreshTokenByHash(r) \/ RevokeAllTokens(r) \/ RevokeExpired(r)
    \/ NewAccessToken(r)

Next == Tick \/ \E r \in Request : Handle(r)

Spec == Init /\ [][Next]_vars

-----------------------------------------------------------------------------
Session(root) == {t \in Token : Exists(t) /\ row[t].root = root}

\* A session has one token that can be refreshed; more only as far as requests
\* with the same token overlapped: RotateToken does not look again whether the
\* token it replaces was revoked since the request looked it up.
OneLivePerSession ==
    \A root \in Token :
        Cardinality({t \in Session(root) : Live(t)})
            <= 1 + Cardinality({t \in Session(root) : row[t].late})

Ended(root) == Exists(root) /\ \A t \in Session(root) : ~ Live(t)

\* A session whose tokens are all revoked, by logout, expiry or reuse of an old
\* token, is over: a token is added to it only by a refresh that had looked its
\* token up before the last one was revoked.
EndedStaysEnded ==
    [][\A root \in Token :
        Ended(root) /\ Session(root)' # Session(root) =>
            \E r \in Request, t \in Session(root) :
                step[r] = "rotate" /\ step'[r] # "rotate" /\ now[r] <= row[t].revokedAt]_vars

AdmittedIn(a, from, to) ==
    {i \in DOMAIN admitted : admitted[i][1] = a /\ admitted[i][2] \in from .. to}

\* Any address is admitted at most twice the limit within the length of a
\* window, also across the reset of its counter, the cleanup of the map and
\* clock readings older than the lock.
AtMostTwiceTheLimit ==
    \A a \in Address, from \in 0 .. MaxTime :
        Cardinality(AdmittedIn(a, from, from + Window - MaxStale)) <= 2 * Limit
=============================================================================
