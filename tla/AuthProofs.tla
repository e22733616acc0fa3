----------------------------- MODULE AuthProofs -----------------------------
(***************************************************************************)
(* For every number of requests, users and tokens, and any failures: a     *)
(* session of the auth service that is over gets another token only from a *)
(* refresh that was under way when it ended, and has one live token, or    *)
(* more only as far as refreshes of one token overlapped; and an address   *)
(* is admitted to the login at most twice the limit within a window.       *)
(***************************************************************************)
EXTENDS Auth, FiniteSetTheorems, TLAPS

Row ==
    [user : User, expires : Int, revokedAt : Int, replacedBy : Token \cup {NoToken},
     root : Token, late : BOOLEAN]

Rows == [Token -> Row \cup {NoRow}]

Steps == {"new", "allow", "login", "lookup", "reuse", "expire", "rotate", "sign", "done"}

\* The steps at which a request presents a token.
Presenting == {"lookup", "reuse", "expire", "rotate"}

\* What a request knows of its tokens; the token it is going to rotate was live
\* when it looked.
Knows(r) ==
    /\ now[r] <= clock
    /\ step[r] \in Presenting => token[r] \in Token /\ Exists(token[r])
    /\ step[r] = "sign" => drawn[r] \in Token /\ Exists(drawn[r])
    /\ step[r] = "rotate" => Live(token[r]) \/ now[r] <= row[token[r]].revokedAt

RequestTypes ==
    /\ step \in [Request -> Steps]
    /\ token \in [Request -> Token \cup {NoToken}]
    /\ now \in [Request -> Nat]
    /\ drawn \in [Request -> Token \cup {NoToken}]

RowsRight ==
    /\ row \in Rows
    /\ \A t \in Token : Exists(t) => row[t].revokedAt <= clock

AuthInv ==
    /\ clock \in Nat
    /\ RowsRight
    /\ issued \subseteq {t \in Token : Exists(t)}
    /\ RequestTypes
    /\ \A r \in Request : Knows(r)

\* What a step may do to a row: it stays, in its session, and once revoked is
\* revoked for ever.
GoesOn(t) ==
    Exists(t) =>
        /\ Exists(t)' /\ row'[t].root = row[t].root
        /\ \/ Live(t) /\ Live(t)'
           \/ Live(t) /\ ~ Live(t)' /\ row'[t].revokedAt = clock
           \/ ~ Live(t) /\ ~ Live(t)' /\ row[t].revokedAt <= row'[t].revokedAt

RowStep == RowsRight' /\ \A t \in Token : GoesOn(t)

-----------------------------------------------------------------------------
\* A row that was inserted is not the absent row.
LEMMA RowIsNotNoRow == NoRow \notin Row
<1> SUFFICES ASSUME NoRow \in Row  PROVE FALSE
  OBVIOUS
<1>1. DOMAIN NoRow = {"user"}
  BY DEF NoRow
<1>2. \A x \in Row : "late" \in DOMAIN x
  BY DEF Row
<1> QED  BY <1>1, <1>2

\* The token TokenGen draws has no row yet.
LEMMA DrawnIsFresh == ASSUME NEW t \in Token, Drawn(t)  PROVE ~ Exists(t)
<1>1. t \in Fresh
  BY DEF Drawn
<1> QED  BY <1>1 DEF Fresh

\* A row that exists has the fields of refresh_tokens.
LEMMA ExistsIsRow == ASSUME row \in Rows, NEW t \in Token  PROVE Exists(t) <=> row[t] \in Row
BY RowIsNotNoRow DEF Rows, Exists

\* A step that leaves the rows alone.
LEMMA KeptRows ==
    ASSUME AuthInv, row' = row, clock' \in Nat, clock <= clock'
    PROVE  RowStep
<1>1. \A t \in Token : Exists(t)' = Exists(t) /\ Live(t)' = Live(t)
  BY DEF Exists, Live
<1>2. \A t \in Token : Exists(t) => row[t].revokedAt \in Int
  BY ExistsIsRow DEF AuthInv, RowsRight, Row
<1>3. RowsRight'
  BY <1>1, <1>2 DEF AuthInv, RowsRight
<1>4. \A t \in Token : GoesOn(t)
  BY <1>1, <1>2 DEF GoesOn
<1> QED  BY <1>3, <1>4 DEF RowStep

\* UPDATE ... SET revoked_at WHERE revoked_at IS NULL.
LEMMA RevokedRows ==
    ASSUME AuthInv, NEW S, row' = Revoked(S), clock' = clock
    PROVE  RowStep
<1>1. ASSUME NEW t \in Token
      PROVE  GoesOn(t) /\ row'[t] \in Row \cup {NoRow} /\ (Exists(t)' => row'[t].revokedAt <= clock)
  <2>1. CASE t \in S /\ Live(t)
    <3>1. row'[t] = [row[t] EXCEPT !.revokedAt = clock] /\ row[t] \in Row
      BY <2>1, ExistsIsRow, Zenon DEF Revoked, Live, AuthInv, RowsRight
    <3>2. /\ row'[t] \in Row /\ row'[t].revokedAt = clock /\ row'[t].root = row[t].root
          /\ clock \in Nat
      BY <3>1 DEF Row, AuthInv
    <3>3. Exists(t)' /\ ~ Live(t)'
      BY <3>2, RowIsNotNoRow DEF Exists, Live, Never
    <3> QED  BY <2>1, <3>2, <3>3 DEF GoesOn
  <2>2. CASE ~ (t \in S /\ Live(t))
    <3>1. row'[t] = row[t]
      BY <2>2 DEF Revoked
    <3>2. Exists(t)' = Exists(t) /\ Live(t)' = Live(t)
      BY <3>1, Zenon DEF Exists, Live
    <3>3. /\ row[t] \in Row \cup {NoRow}
          /\ Exists(t) => row[t].revokedAt \in Int /\ row[t].revokedAt <= clock
      BY ExistsIsRow DEF AuthInv, RowsRight, Rows, Row
    <3> QED  BY <3>1, <3>2, <3>3 DEF GoesOn
  <2> QED  BY <2>1, <2>2, Zenon
<1>2. row' \in Rows
  BY <1>1 DEF Revoked, Rows
<1> QED  BY <1>1, <1>2, Zenon DEF RowStep, RowsRight

\* INSERT of a row whose token was just drawn.
LEMMA InsertedRow ==
    ASSUME AuthInv, NEW t \in Token, ~ Exists(t), NEW x \in Row, x.revokedAt = Never,
           row' = [row EXCEPT ![t] = x], clock' = clock
    PROVE  RowStep /\ Exists(t)'
<1>1. row \in Rows /\ clock \in Nat
  BY DEF AuthInv, RowsRight
<1>2. row'[t] = x /\ row' \in Rows /\ \A u \in Token \ {t} : row'[u] = row[u]
  BY <1>1, Zenon DEF Rows
<1>3. Exists(t)' /\ row'[t].revokedAt <= clock
  BY <1>1, <1>2, RowIsNotNoRow DEF Exists, Never
<1>4. \A u \in Token \ {t} : Exists(u)' = Exists(u) /\ Live(u)' = Live(u)
  BY <1>2, Zenon DEF Exists, Live
<1>5. \A u \in Token : Exists(u) => row[u].revokedAt \in Int /\ row[u].revokedAt <= clock
  BY <1>1, ExistsIsRow, Zenon DEF AuthInv, RowsRight, Row
<1>6. RowsRight'
  BY <1>2, <1>3, <1>4, <1>5, Zenon DEF RowsRight
<1>7. \A u \in Token : GoesOn(u)
  BY <1>2, <1>4, <1>5 DEF GoesOn
<1> QED  BY <1>3, <1>6, <1>7, Zenon DEF RowStep

\* RotateToken: the new row is of the old one's session.
LEMMA RotatedRows ==
    ASSUME AuthInv, NEW r \in Request, step[r] = "rotate", NEW t \in Token, ~ Exists(t),
           row' = Rotated(r, t), clock' = clock
    PROVE  RowStep /\ Exists(t)'
<1>0. PICK old \in Token : old = token[r]
  BY DEF AuthInv, Knows, Presenting
<1> DEFINE x == NewRow(row[old].user, now[r], row[old].root, ~ Live(old))
<1>1. row \in Rows /\ clock \in Nat /\ old \in Token /\ Exists(old) /\ now[r] \in Nat
  BY <1>0, Zenon DEF AuthInv, RowsRight, RequestTypes, Knows, Presenting
<1>2. old # t /\ row[old] \in Row
  BY <1>1, ExistsIsRow, Zenon
<1>3. x \in Row /\ x.revokedAt = Never
  BY <1>1, <1>2, AuthAssumption DEF NewRow, Row, Never
<1> HIDE DEF x
<1>4. row' = [row EXCEPT ![t] = x, ![old].revokedAt = clock, ![old].replacedBy = t]
  BY <1>0, Zenon DEF Rotated, x
<1>5. /\ row'[t] = x
      /\ row'[old] = [row[old] EXCEPT !.revokedAt = clock, !.replacedBy = t]
      /\ \A u \in Token \ {t, old} : row'[u] = row[u]
      /\ DOMAIN row' = Token /\ row' = [u \in Token |-> row'[u]]
  BY <1>1, <1>2, <1>4, Zenon DEF Rows
<1>6. /\ row'[old] \in Row /\ row'[old].revokedAt = clock
      /\ row'[old].root = row[old].root
  <2> DEFINE y == [row[old] EXCEPT !.revokedAt = clock]
  <2>1. y \in Row /\ y.revokedAt = clock /\ y.root = row[old].root
    BY <1>1, <1>2 DEF Row
  <2>2. row'[old] = [y EXCEPT !.replacedBy = t]
    BY <1>5
  <2> HIDE DEF y
  <2> QED  BY <2>1, <2>2 DEF Row
<1>7. /\ Exists(t)' /\ row'[t].revokedAt <= clock
      /\ row'[old] # NoRow /\ row'[old].revokedAt # Never
  BY <1>1, <1>3, <1>5, <1>6, RowIsNotNoRow DEF Exists, Never
<1>8. \A u \in Token \ {t, old} : Exists(u)' = Exists(u) /\ Live(u)' = Live(u)
  BY <1>5 DEF Exists, Live
<1>9. \A u \in Token : Exists(u) => row[u].revokedAt \in Int /\ row[u].revokedAt <= clock
  BY <1>1, ExistsIsRow DEF AuthInv, RowsRight, Row
<1>10. RowsRight'
  <2>1. \A u \in Token : row'[u] \in Row \cup {NoRow}
    BY <1>1, <1>3, <1>5, <1>6 DEF Rows
  <2>2. row' \in Rows
    BY <1>5, <2>1 DEF Rows
  <2>3. ASSUME NEW u \in Token, row'[u] # NoRow  PROVE row'[u].revokedAt <= clock
    <3>1. CASE u \in {t, old}
      BY <1>1, <1>6, <1>7, <3>1
    <3>2. CASE u \notin {t, old}
      BY <1>5, <1>9, <2>3, <3>2, Zenon DEF Exists
    <3> QED  BY <3>1, <3>2
  <2> QED  BY <2>2, <2>3 DEF RowsRight, Exists
<1>11. \A u \in Token : GoesOn(u)
  <2>1. GoesOn(old)
    BY <1>1, <1>6, <1>7, <1>9, Zenon DEF GoesOn, Exists, Live
  <2>2. \A u \in Token \ {old} : GoesOn(u)
    BY <1>5, <1>8, <1>9 DEF GoesOn
  <2> QED  BY <2>1, <2>2, Zenon
<1> QED  BY <1>7, <1>10, <1>11, Zenon DEF RowStep

-----------------------------------------------------------------------------
\* A step of one request keeps what the others know.
LEMMA OneRequest ==
    ASSUME AuthInv, RowStep, clock' = clock, NEW r \in Request, RequestTypes', Knows(r)',
           \A q \in Request \ {r} : /\ step'[q] = step[q] /\ token'[q] = token[q]
                                    /\ now'[q] = now[q] /\ drawn'[q] = drawn[q],
           \A t \in issued' \ issued : t \in Token /\ Exists(t)'
    PROVE  AuthInv'
<1>1. issued' \subseteq {t \in Token : Exists(t)'}
  BY Zenon DEF AuthInv, RowStep, GoesOn
<1>2. ASSUME NEW q \in Request \ {r}  PROVE Knows(q)'
  <2>1. Knows(q) /\ now[q] \in Nat /\ clock \in Nat
    BY Zenon DEF AuthInv, RequestTypes
  <2>2. now'[q] <= clock'
    BY <2>1, Zenon DEF Knows
  <2>3. /\ step'[q] \in Presenting => token'[q] \in Token /\ Exists(token[q])'
        /\ step'[q] = "sign" => drawn'[q] \in Token /\ Exists(drawn[q])'
    BY <2>1 DEF Knows, RowStep, GoesOn, Exists
  <2>4. ASSUME step[q] = "rotate"
        PROVE  Live(token[q])' \/ now'[q] <= row'[token'[q]].revokedAt
    <3>1. /\ token[q] \in Token /\ Exists(token[q]) /\ token'[q] = token[q]
          /\ Live(token[q]) \/ now[q] <= row[token[q]].revokedAt
          /\ now[q] <= clock /\ now'[q] = now[q]
      BY <2>1, <2>4, Zenon DEF Knows, Presenting
    <3>2. GoesOn(token[q])
      BY <3>1, Zenon DEF RowStep
    <3>3. row[token[q]].revokedAt \in Int /\ row'[token[q]].revokedAt \in Int
      <4>1. row[token[q]] \in Row
        BY <3>1, ExistsIsRow, Zenon DEF AuthInv, RowsRight
      <4>2. row'[token[q]] \in Row
        <5>1. row'[token[q]] # NoRow
          BY <3>1, <3>2, Zenon DEF GoesOn, Exists
        <5>2. row' \in Rows
          BY Zenon DEF RowStep, RowsRight
        <5> QED  BY ONLY <3>1, <5>1, <5>2, Zenon DEF Rows
      <4> QED  BY <4>1, <4>2, Zenon DEF Row
    <3>4. Live(token[q])' <=> row'[token[q]] # NoRow /\ row'[token[q]].revokedAt = Never
      BY <3>1, Zenon DEF Live, Exists
    <3>5. /\ row'[token[q]] # NoRow
          /\ \/ Live(token[q]) /\ row'[token[q]].revokedAt = Never
             \/ row'[token[q]].revokedAt = clock
             \/ ~ Live(token[q]) /\ row[token[q]].revokedAt <= row'[token[q]].revokedAt
      BY <3>1, <3>2, Zenon DEF GoesOn, Live, Exists
    <3> QED  BY <2>1, <3>1, <3>3, <3>4, <3>5
  <2> QED  BY <2>2, <2>3, <2>4, Zenon DEF Knows
<1> QED  BY <1>1, <1>2, Zenon DEF AuthInv, RowStep

\* What a step of request r does to the requests.
OnlyOf(r) ==
    /\ RequestTypes'
    /\ \A q \in Request \ {r} : /\ step'[q] = step[q] /\ token'[q] = token[q]
                                /\ now'[q] = now[q] /\ drawn'[q] = drawn[q]

\* A request that is answered knows no token any more.
LEMMA AnsweredRequest ==
    ASSUME AuthInv, NEW r \in Request, Done(r), clock' = clock
    PROVE  OnlyOf(r) /\ Knows(r)'
<1>1. RequestTypes /\ clock \in Nat
  BY DEF AuthInv
<1>2. step'[r] = "done" /\ now'[r] = 0
  BY <1>1, Zenon DEF Done, Goto, RequestTypes
<1>3. OnlyOf(r)
  BY <1>1, Zenon DEF Done, Goto, RequestTypes, OnlyOf, Steps
<1> QED  BY <1>1, <1>2, <1>3 DEF Knows, Presenting

\* Login, limiter and refused logins leave the rows alone.
LEMMA LoginInv ==
    ASSUME AuthInv, NEW r \in Request,
           Login(r) \/ AllowFails(r) \/ Refuse(r) \/ \E a \in Address : Allow(r, a)
    PROVE  AuthInv'
<1>1. row' = row /\ clock' = clock /\ issued' = issued /\ clock \in Nat /\ RequestTypes
  BY DEF Login, AllowFails, Refuse, Allow, AuthInv
<1>2. RowStep
  BY <1>1, KeptRows
<1>3. \/ Done(r)
      \/ /\ step' = [step EXCEPT ![r] = "allow"] /\ now' = [now EXCEPT ![r] = clock]
         /\ UNCHANGED <<token, drawn>>
      \/ /\ step' = [step EXCEPT ![r] = "login"] /\ now' = [now EXCEPT ![r] = 0]
         /\ UNCHANGED <<token, drawn>>
  BY DEF Login, AllowFails, Refuse, Allow, Admit, Goto
<1>4. OnlyOf(r) /\ Knows(r)'
  <2>1. CASE Done(r)
    BY <1>1, <2>1, AnsweredRequest, Zenon
  <2>2. CASE ~ Done(r)
    <3>1. OnlyOf(r) /\ step'[r] \in {"allow", "login"} /\ now'[r] <= clock'
      BY <1>1, <1>3, <2>2 DEF OnlyOf, RequestTypes, Steps
    <3> QED  BY <3>1, Zenon DEF Knows, Presenting
  <2> QED  BY <2>1, <2>2, Zenon
<1> QED  BY <1>1, <1>2, <1>4, OneRequest, Zenon DEF OnlyOf

\* CreateRefreshToken inserts a row whose token was just drawn.
LEMMA CreateRefreshTokenInv ==
    ASSUME AuthInv, NEW r \in Request, NEW u \in User, NEW t \in Token, CreateRefreshToken(r, u, t)
    PROVE  AuthInv'
<1> DEFINE x == NewRow(u, clock, t, FALSE)
<1>1. /\ Done(r) /\ clock' = clock /\ ~ Exists(t) /\ clock \in Nat
      /\ \/ row' = [row EXCEPT ![t] = x] /\ issued' \subseteq issued \cup {t}
         \/ row' = row /\ issued' = issued
  BY DrawnIsFresh, Zenon DEF CreateRefreshToken, AuthInv
<1>2. x \in Row /\ x.revokedAt = Never
  BY <1>1, AuthAssumption DEF NewRow, Row, Never
<1> HIDE DEF x
<1>3. RowStep /\ \A y \in issued' \ issued : y \in Token /\ Exists(y)'
  <2>1. CASE row' = [row EXCEPT ![t] = x] /\ issued' \subseteq issued \cup {t}
    BY <1>1, <1>2, <2>1, InsertedRow, Zenon
  <2>2. CASE row' = row /\ issued' = issued
    BY <1>1, <2>2, KeptRows
  <2> QED  BY <1>1, <2>1, <2>2
<1>4. OnlyOf(r) /\ Knows(r)'
  BY <1>1, AnsweredRequest
<1> QED  BY <1>1, <1>3, <1>4, OneRequest, Zenon DEF OnlyOf

\* Refresh begins with a token that was issued, and looks it up.
LEMMA LookupInv ==
    ASSUME AuthInv, NEW r \in Request,
           (\E t \in Token : Refresh(r, t)) \/ GetRefreshTokenByHash(r)
    PROVE  AuthInv'
<1>1. row' = row /\ clock' = clock /\ issued' = issued /\ clock \in Nat /\ RequestTypes
  BY DEF Refresh, GetRefreshTokenByHash, AuthInv
<1>2. RowStep
  BY <1>1, KeptRows
<1>3. ASSUME NEW t \in Token, Refresh(r, t)
      PROVE  OnlyOf(r) /\ Knows(r)'
  <2>1. /\ step' = [step EXCEPT ![r] = "lookup"] /\ token' = [token EXCEPT ![r] = t]
        /\ UNCHANGED <<now, drawn>> /\ Exists(t)
    BY <1>3, Zenon DEF Refresh, Goto, AuthInv
  <2>2. OnlyOf(r) /\ step'[r] = "lookup" /\ token'[r] = t /\ now'[r] = now[r]
    BY <1>1, <2>1, Zenon DEF OnlyOf, RequestTypes, Steps
  <2>3. now[r] <= clock
    BY Zenon DEF AuthInv, Knows
  <2> QED  BY <1>1, <2>1, <2>2, <2>3, Zenon DEF Knows, Exists
<1>4. ASSUME GetRefreshTokenByHash(r), ~ Done(r)
      PROVE  OnlyOf(r) /\ Knows(r)'
  <2>1. /\ step[r] = "lookup" /\ step' = [step EXCEPT ![r] = NextCall(token[r])]
        /\ now' = [now EXCEPT ![r] = clock] /\ UNCHANGED <<token, drawn>>
    BY <1>4, Zenon DEF GetRefreshTokenByHash, Goto
  <2>2. /\ NextCall(token[r]) \in {"reuse", "expire", "rotate"}
        /\ NextCall(token[r]) = "rotate" => Live(token[r])
    BY Zenon DEF NextCall
  <2>3. /\ OnlyOf(r) /\ step'[r] = NextCall(token[r]) /\ token'[r] = token[r]
        /\ now'[r] = clock
    BY <1>1, <2>1, <2>2, Zenon DEF OnlyOf, RequestTypes, Steps
  <2>4. token[r] \in Token /\ Exists(token[r])
    BY <2>1, Zenon DEF AuthInv, Knows, Presenting
  <2> QED  BY <1>1, <2>2, <2>3, <2>4 DEF Knows, Exists, Live
<1>5. OnlyOf(r) /\ Knows(r)'
  BY <1>1, <1>3, <1>4, AnsweredRequest, Zenon
<1> QED  BY <1>1, <1>2, <1>5, OneRequest DEF OnlyOf

\* The revocations: reuse, expiry, logout.
LEMMA RevokeInv ==
    ASSUME AuthInv, NEW r \in Request,
           RevokeAllTokens(r) \/ RevokeExpired(r) \/ \E t \in Token : Logout(r, t)
    PROVE  AuthInv'
<1>1. /\ Done(r) /\ clock' = clock /\ issued' = issued /\ clock \in Nat
      /\ row' = row \/ \E S \in SUBSET Token : row' = Revoked(S)
  <2>1. \A t \in Token : {t} \in SUBSET Token
    BY Zenon
  <2>2. CASE RevokeAllTokens(r)
    BY <2>2, Zenon DEF RevokeAllTokens, AuthInv
  <2>3. CASE RevokeExpired(r)
    <3>1. token[r] \in Token
      BY <2>3, Zenon DEF RevokeExpired, AuthInv, Knows, Presenting
    <3> QED  BY <2>1, <2>3, <3>1, Zenon DEF RevokeExpired, AuthInv
  <2>4. CASE \E t \in Token : Logout(r, t)
    BY <2>1, <2>4, Zenon DEF Logout, AuthInv
  <2> QED  BY <2>2, <2>3, <2>4, Zenon
<1>2. RowStep
  BY <1>1, KeptRows, RevokedRows
<1>3. OnlyOf(r) /\ Knows(r)'
  BY <1>1, AnsweredRequest, Zenon
<1> QED  BY <1>1, <1>2, <1>3, OneRequest, Zenon DEF OnlyOf

\* RotateToken, whether or not the token has been revoked meanwhile.
LEMMA RotateTokenInv ==
    ASSUME AuthInv, NEW r \in Request, NEW t \in Token, RotateToken(r, t)
    PROVE  AuthInv'
<1>1. /\ step[r] = "rotate" /\ ~ Exists(t) /\ clock' = clock /\ issued' = issued
      /\ clock \in Nat /\ RequestTypes /\ row' \in {row, Rotated(r, t)}
  BY DrawnIsFresh, Zenon DEF RotateToken, AuthInv
<1>2. RowStep
  BY <1>1, KeptRows, RotatedRows
<1>3. ASSUME ~ Done(r)  PROVE OnlyOf(r) /\ Knows(r)'
  <2>1. /\ row' = Rotated(r, t) /\ step' = [step EXCEPT ![r] = "sign"]
        /\ drawn' = [drawn EXCEPT ![r] = t] /\ UNCHANGED <<token, now>>
    BY <1>3, Zenon DEF RotateToken, Goto
  <2>2. OnlyOf(r) /\ step'[r] = "sign" /\ drawn'[r] = t /\ now'[r] = now[r]
    BY <1>1, <2>1, Zenon DEF OnlyOf, RequestTypes, Steps
  <2>3. Exists(t)' /\ now[r] <= clock
    BY <1>1, <2>1, RotatedRows, Zenon DEF AuthInv, Knows
  <2> QED  BY <1>1, <2>2, <2>3, Zenon DEF Knows, Exists, Presenting
<1>4. OnlyOf(r) /\ Knows(r)'
  BY <1>1, <1>3, AnsweredRequest, Zenon
<1> QED  BY <1>1, <1>2, <1>4, OneRequest, Zenon DEF OnlyOf

\* NewAccessToken answers with the token that was drawn.
LEMMA NewAccessTokenInv ==
    ASSUME AuthInv, NEW r \in Request, NewAccessToken(r)
    PROVE  AuthInv'
<1>1. /\ Done(r) /\ clock' = clock /\ row' = row /\ clock \in Nat
      /\ issued' \subseteq issued \cup {drawn[r]}
      /\ drawn[r] \in Token /\ Exists(drawn[r])
  BY Zenon DEF NewAccessToken, AuthInv, Knows
<1>2. \A y \in issued' \ issued : y \in Token /\ Exists(y)'
  BY <1>1, Zenon DEF Exists
<1>3. OnlyOf(r) /\ Knows(r)'
  BY <1>1, AnsweredRequest, Zenon
<1> QED  BY <1>1, <1>2, <1>3, KeptRows, OneRequest DEF OnlyOf

\* Time passes, or nothing does.
LEMMA TickInv ==
    ASSUME AuthInv, Tick \/ UNCHANGED vars
    PROVE  AuthInv'
<1>1. /\ clock \in Nat /\ clock' \in Nat /\ clock <= clock' /\ row' = row /\ issued' = issued
      /\ step' = step /\ token' = token /\ now' = now /\ drawn' = drawn
  BY DEF Tick, vars, request, AuthInv
<1>2. RowsRight'
  BY <1>1, KeptRows, Zenon DEF RowStep
<1>3. RequestTypes' /\ issued' \subseteq {t \in Token : Exists(t)'}
  BY <1>1, Zenon DEF AuthInv, RequestTypes, Exists
<1>4. ASSUME NEW r \in Request  PROVE Knows(r)'
  <2>1. Knows(r) /\ now[r] \in Nat
    BY Zenon DEF AuthInv, RequestTypes
  <2>2. now'[r] <= clock'
    BY <1>1, <2>1 DEF Knows
  <2> QED  BY <1>1, <2>1, <2>2, Zenon DEF Knows, Exists, Live
<1> QED  BY <1>1, <1>2, <1>3, <1>4, Zenon DEF AuthInv

\* No token exists at first, and no request has begun.
LEMMA AuthInitInv == Init => AuthInv
<1> SUFFICES ASSUME Init  PROVE AuthInv
  BY Zenon
<1>1. clock = 0 /\ issued = {} /\ RequestTypes
  BY Zenon DEF Init, RequestTypes, Steps
<1>2. \A t \in Token : row[t] = NoRow
  BY Zenon DEF Init
<1>3. RowsRight
  BY <1>2, Zenon DEF Init, RowsRight, Rows, Exists
<1>4. \A r \in Request : step[r] = "new" /\ now[r] = 0
  BY Zenon DEF Init
<1>5. \A r \in Request : Knows(r)
  BY <1>1, <1>4 DEF Knows, Presenting
<1> QED  BY <1>1, <1>3, <1>5, Zenon DEF AuthInv

\* Every step keeps the invariant.
LEMMA AuthNextInv == AuthInv /\ [Next]_vars => AuthInv'
<1> SUFFICES ASSUME AuthInv, [Next]_vars  PROVE AuthInv'
  BY Zenon
<1>1. ASSUME NEW r \in Request, Handle(r)  PROVE AuthInv'
  BY <1>1, LoginInv, CreateRefreshTokenInv, LookupInv, RevokeInv, RotateTokenInv,
     NewAccessTokenInv, Zenon DEF Handle
<1> QED  BY <1>1, TickInv, Zenon DEF Next

-----------------------------------------------------------------------------
\* Only RotateToken adds a token to a session that exists.
LEMMA OnlyRotationExtends ==
    ASSUME AuthInv, NEW root \in Token, Exists(root), [Next]_vars,
           Session(root)' # Session(root)
    PROVE  \E r \in Request, t \in Token :
               /\ RotateToken(r, t)
               /\ row[token[r]].root = root
<1>1. ASSUME \A t \in Token : (Exists(t)' /\ row'[t].root = root) <=> (Exists(t) /\ row[t].root = root)
      PROVE  FALSE
  BY <1>1, Zenon DEF Session
<1>2. row' # row
  BY <1>1, Zenon DEF Exists
<1>3. \A S : row' # Revoked(S)
  <2> SUFFICES ASSUME NEW S, row' = Revoked(S)  PROVE FALSE
    BY Zenon
  <2>1. ASSUME NEW t \in Token
        PROVE  Exists(t)' = Exists(t) /\ (Exists(t) => row'[t].root = row[t].root)
    <3>1. CASE t \in S /\ Live(t)
      <4>1. row'[t] = [row[t] EXCEPT !.revokedAt = clock] /\ row[t] \in Row /\ Exists(t)
        BY <3>1, ExistsIsRow, Zenon DEF Revoked, Live, AuthInv, RowsRight
      <4>2. row'[t] \in Row /\ row'[t].root = row[t].root
        BY <4>1 DEF Row, AuthInv
      <4> QED  BY <4>1, <4>2, RowIsNotNoRow, Zenon DEF Exists
    <3>2. CASE ~ (t \in S /\ Live(t))
      BY <3>2, Zenon DEF Revoked, Exists
    <3> QED  BY <3>1, <3>2, Zenon
  <2> QED  BY <1>1, <2>1, Zenon
<1>4. ASSUME NEW r \in Request, NEW u \in User, NEW t \in Token, CreateRefreshToken(r, u, t)
      PROVE  FALSE
  <2>1. ~ Exists(t) /\ row' = [row EXCEPT ![t] = NewRow(u, clock, t, FALSE)] /\ row \in Rows
    BY <1>2, <1>4, DrawnIsFresh, Zenon DEF CreateRefreshToken, AuthInv, RowsRight
  <2>2. t # root /\ row'[t].root = t /\ \A y \in Token \ {t} : row'[y] = row[y]
    BY <2>1 DEF Rows, NewRow
  <2> QED  BY <1>1, <2>1, <2>2, Zenon DEF Exists
<1>5. PICK r \in Request, t \in Token : RotateToken(r, t)
  <2>1. PICK r \in Request : Handle(r)
    BY <1>2, Zenon DEF Next, Tick, vars
  <2> QED
    BY <1>2, <1>3, <1>4, <2>1, Zenon
    DEF Handle, Login, AllowFails, Refuse, Allow, Refresh, GetRefreshTokenByHash,
        RevokeAllTokens, RevokeExpired, NewAccessToken, Logout
<1>6. row[token[r]].root = root
  <2>0. PICK old \in Token : old = token[r] /\ Exists(old)
    BY <1>5, Zenon DEF RotateToken, AuthInv, Knows, Presenting
  <2>1. /\ ~ Exists(t) /\ step[r] = "rotate" /\ clock' = clock /\ row' = Rotated(r, t)
        /\ row \in Rows
    BY <1>2, <1>5, DrawnIsFresh, Zenon DEF RotateToken, AuthInv, RowsRight
  <2>2. old # t /\ row'[t].root = row[old].root
        /\ \A y \in Token \ {t, old} : row'[y] = row[y]
    BY <2>0, <2>1, Zenon DEF Rotated, Rows, NewRow
  <2>3. Exists(old)' /\ row'[old].root = row[old].root
    BY <2>0, <2>1, RotatedRows, Zenon DEF RowStep, GoesOn
  <2>4. \A y \in Token \ {t} : Exists(y)' = Exists(y) /\ row'[y].root = row[y].root
    BY <2>0, <2>2, <2>3, Zenon DEF Exists
  <2>5. row'[t].root = root
    BY <1>1, <2>1, <2>4, Zenon
  <2> QED  BY <2>0, <2>2, <2>5, Zenon
<1> QED  BY <1>5, <1>6, Zenon

(***************************************************************************)
(* A session all of whose tokens are revoked (logout, expiry, reuse of an  *)
(* old token) gets a new token only from a refresh that had looked its     *)
(* token up before it was revoked.                                         *)
(***************************************************************************)
THEOREM SessionsEnd == Spec => EndedStaysEnded
<1>1. AuthInv /\ [Next]_vars =>
        [\A root \in Token :
            Ended(root) /\ Session(root)' # Session(root) =>
              \E r \in Request, t \in Session(root) :
                step[r] = "rotate" /\ step'[r] # "rotate" /\ now[r] <= row[t].revokedAt]_vars
  <2> SUFFICES ASSUME AuthInv, [Next]_vars, NEW root \in Token, Ended(root),
                      Session(root)' # Session(root)
               PROVE  \E r \in Request, t \in Session(root) :
                        step[r] = "rotate" /\ step'[r] # "rotate" /\ now[r] <= row[t].revokedAt
    BY Zenon
  <2>1. PICK r \in Request, t \in Token : RotateToken(r, t) /\ row[token[r]].root = root
    BY OnlyRotationExtends, Zenon DEF Ended
  <2>2. step[r] = "rotate" /\ token[r] \in Token /\ Exists(token[r])
    BY <2>1, Zenon DEF RotateToken, AuthInv, Knows, Presenting
  <2>3. token[r] \in Session(root)
    BY <2>1, <2>2, Zenon DEF Session
  <2>4. now[r] <= row[token[r]].revokedAt
    BY <2>2, <2>3, Zenon DEF Ended, AuthInv, Knows
  <2>5. step'[r] # "rotate"
    BY <2>1, Zenon DEF RotateToken, Done, Goto, AuthInv, RequestTypes
  <2> QED  BY <2>2, <2>3, <2>4, <2>5, Zenon
<1> QED  BY <1>1, AuthInitInv, AuthNextInv, PTL DEF Spec, EndedStaysEnded

-----------------------------------------------------------------------------
(***************************************************************************)
(* How many tokens of a session are live.                                  *)
(***************************************************************************)
LiveOf(root) == {t \in Session(root) : Live(t)}

LateOf(root) == {t \in Session(root) : row[t].late}

\* Of finite sets: what a step that adds at most token t to both sets, or moves
\* from old to t in the first, does to their sizes.
LEMMA Counts ==
    ASSUME NEW A \in SUBSET Token, NEW B \in SUBSET Token,
           NEW C \in SUBSET Token, NEW D \in SUBSET Token, NEW t, NEW old,
           Cardinality(A) <= 1 + Cardinality(B),
           \/ C \subseteq A /\ B \subseteq D
           \/ A = {} /\ C \subseteq {t}
           \/ t \notin B /\ C \subseteq A \cup {t} /\ D = B \cup {t}
           \/ old \in A /\ C \subseteq (A \ {old}) \cup {t} /\ B \subseteq D
    PROVE  Cardinality(C) <= 1 + Cardinality(D)
<1>1. /\ IsFiniteSet(A) /\ IsFiniteSet(B) /\ IsFiniteSet(C) /\ IsFiniteSet(D)
      /\ IsFiniteSet(A \ {old})
  BY FS_Subset, AuthAssumption, Zenon
<1>2. /\ Cardinality(A) \in Nat /\ Cardinality(B) \in Nat /\ Cardinality(C) \in Nat
      /\ Cardinality(D) \in Nat /\ Cardinality(A \ {old}) \in Nat
  BY <1>1, FS_CardinalityType, Zenon
<1>3. CASE C \subseteq A /\ B \subseteq D
  BY <1>1, <1>2, <1>3, FS_Subset
<1>4. CASE A = {} /\ C \subseteq {t}
  <2>1. Cardinality(C) <= 1
    <3>1. IsFiniteSet({t}) /\ Cardinality({t}) = 1
      BY FS_Singleton, Zenon
    <3>2. Cardinality(C) <= Cardinality({t})
      BY <1>4, <3>1, FS_Subset
    <3> QED  BY <3>1, <3>2, Zenon
  <2> QED  BY <1>2, <2>1
<1>5. CASE t \notin B /\ C \subseteq A \cup {t} /\ D = B \cup {t}
  <2>1. Cardinality(D) = Cardinality(B) + 1
    BY <1>1, <1>5, FS_AddElement
  <2>2. IsFiniteSet(A \cup {t}) /\ Cardinality(A \cup {t}) \in {Cardinality(A), Cardinality(A) + 1}
    BY <1>1, FS_AddElement, Zenon
  <2>3. Cardinality(C) <= Cardinality(A \cup {t})
    BY <1>5, <2>2, FS_Subset, Zenon
  <2> QED  BY <1>2, <2>1, <2>2, <2>3
<1>6. CASE old \in A /\ C \subseteq (A \ {old}) \cup {t} /\ B \subseteq D
  <2>1. Cardinality(A \ {old}) = Cardinality(A) - 1
    BY <1>1, <1>6, FS_RemoveElement, Zenon
  <2>2. /\ IsFiniteSet((A \ {old}) \cup {t})
        /\ Cardinality((A \ {old}) \cup {t}) \in
              {Cardinality(A \ {old}), Cardinality(A \ {old}) + 1}
    BY <1>1, FS_AddElement, Zenon
  <2>3. Cardinality(C) <= Cardinality((A \ {old}) \cup {t}) /\ Cardinality(B) <= Cardinality(D)
    BY <1>1, <1>6, <2>2, FS_Subset
  <2> QED  BY <1>2, <2>1, <2>2, <2>3
<1> QED  BY <1>3, <1>4, <1>5, <1>6, Zenon

\* The root of a session has a row of its own.
RootsExist ==
    \A t \in Token : Exists(t) => row[t].root \in Token /\ Exists(row[t].root)

SessionInv == AuthInv /\ RootsExist /\ OneLivePerSession

\* All that steps do to the rows.
LEMMA RowChanges ==
    ASSUME AuthInv, [Next]_vars, row' # row
    PROVE  /\ clock' = clock
           /\ \/ \E S \in SUBSET Token : row' = Revoked(S)
              \/ \E u \in User, t \in Token :
                    ~ Exists(t) /\ row' = [row EXCEPT ![t] = NewRow(u, clock, t, FALSE)]
              \/ \E r \in Request, t \in Token :
                    step[r] = "rotate" /\ ~ Exists(t) /\ row' = Rotated(r, t)
<1>1. PICK r \in Request : Handle(r)
  BY DEF Next, Tick, vars
<1>2. \A t \in Token : {t} \in SUBSET Token
  OBVIOUS
<1>3. ASSUME NEW t \in Token, Logout(r, t)
      PROVE  clock' = clock /\ row' = Revoked({t})
  BY <1>3, Zenon DEF Logout
<1>4. ASSUME NEW t \in Token, RotateToken(r, t)
      PROVE  clock' = clock /\ step[r] = "rotate" /\ ~ Exists(t) /\ row' = Rotated(r, t)
  BY <1>4, DrawnIsFresh, Zenon DEF RotateToken
<1>5. ASSUME NEW u \in User, NEW t \in Token, CreateRefreshToken(r, u, t)
      PROVE  /\ clock' = clock /\ ~ Exists(t)
             /\ row' = [row EXCEPT ![t] = NewRow(u, clock, t, FALSE)]
  BY <1>5, DrawnIsFresh, Zenon DEF CreateRefreshToken
<1>6. CASE RevokeAllTokens(r)
  BY <1>6, Zenon DEF RevokeAllTokens
<1>7. CASE RevokeExpired(r)
  <2>1. token[r] \in Token
    BY <1>7 DEF RevokeExpired, AuthInv, Knows, Presenting
  <2> QED  BY <1>2, <1>7, <2>1, Zenon DEF RevokeExpired
<1>8. ~ (Login(r) \/ AllowFails(r) \/ Refuse(r) \/ (\E a \in Address : Allow(r, a))
         \/ (\E t \in Token : Refresh(r, t)) \/ GetRefreshTokenByHash(r) \/ NewAccessToken(r))
  BY Zenon DEF Login, AllowFails, Refuse, Allow, Refresh, GetRefreshTokenByHash, NewAccessToken
<1> QED  BY <1>1, <1>2, <1>3, <1>4, <1>5, <1>6, <1>7, <1>8, Zenon DEF Handle

\* Revocations.
LEMMA RevokedSessions ==
    ASSUME AuthInv, NEW S \in SUBSET Token, row' = Revoked(S), clock' = clock
    PROVE  \A u \in Token :
              /\ Exists(u)' <=> Exists(u)
              /\ Exists(u) => row'[u].root = row[u].root /\ row'[u].late = row[u].late
              /\ Live(u)' => Live(u)
<1> SUFFICES ASSUME NEW u \in Token
             PROVE  /\ Exists(u)' <=> Exists(u)
                    /\ Exists(u) => row'[u].root = row[u].root /\ row'[u].late = row[u].late
                    /\ Live(u)' => Live(u)
  BY Zenon
<1>1. CASE u \in S /\ Live(u)
  <2>1. row'[u] = [row[u] EXCEPT !.revokedAt = clock] /\ row[u] \in Row /\ Exists(u)
    BY <1>1, ExistsIsRow, Zenon DEF Revoked, Live, AuthInv, RowsRight
  <2>2. row'[u] \in Row /\ row'[u].root = row[u].root /\ row'[u].late = row[u].late
    BY <2>1 DEF Row, AuthInv
  <2> QED  BY <1>1, <2>1, <2>2, RowIsNotNoRow, Zenon DEF Exists
<1>2. CASE ~ (u \in S /\ Live(u))
  <2>1. row'[u] = row[u]
    BY <1>2, Zenon DEF Revoked
  <2> QED  BY <2>1, Zenon DEF Exists, Live
<1> QED  BY <1>1, <1>2, Zenon

\* A row that CreateRefreshToken or RotateToken inserts: the other rows but old
\* stay as they are.
Inserted(t, old) ==
    /\ ~ Exists(t) /\ Exists(t)' /\ Live(t)'
    /\ \A u \in Token \ {t} :
          /\ Exists(u)' <=> Exists(u)
          /\ Exists(u) => row'[u].root = row[u].root /\ row'[u].late = row[u].late
          /\ Live(u)' <=> Live(u) /\ u # old

\* CreateRefreshToken begins a session.
LEMMA CreatedSession ==
    ASSUME AuthInv, NEW u \in User, NEW t \in Token, ~ Exists(t), clock' = clock,
           row' = [row EXCEPT ![t] = NewRow(u, clock, t, FALSE)]
    PROVE  Inserted(t, t) /\ row'[t].root = t
<1> DEFINE x == NewRow(u, clock, t, FALSE)
<1>1. x \in Row /\ x.revokedAt = Never /\ x.root = t
  BY AuthAssumption DEF NewRow, Row, Never, AuthInv
<1> HIDE DEF x
<1>2. row'[t] = x /\ \A y \in Token \ {t} : row'[y] = row[y]
  BY DEF x, AuthInv, RowsRight, Rows
<1> QED  BY <1>1, <1>2, RowIsNotNoRow, Zenon DEF Inserted, Exists, Live

\* RotateToken goes on with one.
LEMMA RotatedSession ==
    ASSUME AuthInv, NEW r \in Request, step[r] = "rotate", NEW t \in Token, ~ Exists(t),
           row' = Rotated(r, t), clock' = clock, NEW old \in Token, old = token[r]
    PROVE  /\ Inserted(t, old) /\ Exists(old) /\ old # t
           /\ row'[t].root = row[old].root /\ row'[t].late = ~ Live(old)
<1> DEFINE x == NewRow(row[old].user, now[r], row[old].root, ~ Live(old))
<1>1. row \in Rows /\ clock \in Nat /\ Exists(old) /\ now[r] \in Nat
  BY DEF AuthInv, RowsRight, RequestTypes, Knows, Presenting
<1>2. old # t /\ row[old] \in Row
  BY <1>1, ExistsIsRow
<1>3. /\ x \in Row /\ x.revokedAt = Never /\ x.root = row[old].root
      /\ x.late = ~ Live(old)
  <2>1. row[old].user \in User /\ row[old].root \in Token
    BY ONLY <1>2 DEF Row
  <2>2. now[r] + RefreshTTL \in Int /\ -1 \in Int
    BY ONLY <1>1, AuthAssumption
  <2>3. (~ Live(old)) \in BOOLEAN
    BY ONLY TRUE, Zenon
  <2> QED  BY ONLY <2>1, <2>2, <2>3 DEF NewRow, Row, Never
<1>4. row' = [row EXCEPT ![t] = x, ![old].revokedAt = clock, ![old].replacedBy = t]
  BY Zenon DEF Rotated
<1> HIDE DEF x
<1>5. /\ row'[t] = x
      /\ row'[old] = [row[old] EXCEPT !.revokedAt = clock, !.replacedBy = t]
      /\ \A u \in Token \ {t, old} : row'[u] = row[u]
  BY <1>1, <1>2, <1>4, Zenon DEF Rows
<1>6. /\ row'[old] # NoRow /\ row'[old].revokedAt # Never
      /\ row'[old].root = row[old].root /\ row'[old].late = row[old].late
  <2> DEFINE y == [row[old] EXCEPT !.revokedAt = clock]
  <2>1. /\ y \in Row /\ y.revokedAt = clock /\ y.root = row[old].root
        /\ y.late = row[old].late
    BY <1>1, <1>2 DEF Row
  <2>2. row'[old] = [y EXCEPT !.replacedBy = t]
    BY <1>5
  <2> HIDE DEF y
  <2>3. /\ row'[old] \in Row /\ row'[old].revokedAt = clock
        /\ row'[old].root = row[old].root /\ row'[old].late = row[old].late
    BY <2>1, <2>2 DEF Row
  <2>4. row'[old] # NoRow /\ clock # Never
    BY ONLY <1>1, <2>3, RowIsNotNoRow DEF Never
  <2> QED  BY ONLY <2>3, <2>4
<1>7. Exists(t)' /\ Live(t)'
  BY <1>3, <1>5, RowIsNotNoRow, Zenon DEF Exists, Live
<1>8. /\ Exists(old)' /\ ~ Live(old)'
      /\ \A u \in Token \ {t, old} : (Exists(u)' <=> Exists(u)) /\ (Live(u)' <=> Live(u))
  BY <1>5, <1>6, Zenon DEF Exists, Live
<1> QED  BY <1>1, <1>2, <1>3, <1>5, <1>6, <1>7, <1>8, Zenon DEF Inserted

\* Roots keep their rows.
LEMMA RootsExistInv ==
    ASSUME SessionInv, [Next]_vars
    PROVE  RootsExist'
<1> SUFFICES ASSUME NEW u \in Token, Exists(u)'
             PROVE  row'[u].root \in Token /\ row'[row'[u].root] # NoRow
  BY Zenon DEF RootsExist, Exists
<1> USE DEF SessionInv, RootsExist
<1>1. CASE row' = row
  BY <1>1, Zenon DEF Exists
<1>2. CASE row' # row
  <2>1. ASSUME NEW S \in SUBSET Token, row' = Revoked(S), clock' = clock
        PROVE  row'[u].root \in Token /\ row'[row'[u].root] # NoRow
    <3>1. \A y \in Token :
              /\ Exists(y)' <=> Exists(y)
              /\ Exists(y) => row'[y].root = row[y].root
      BY <2>1, RevokedSessions, Zenon
    <3>2. Exists(u) /\ row'[u].root = row[u].root
      BY <3>1, Zenon
    <3>3. row[u].root \in Token /\ Exists(row[u].root)
      BY <3>2, Zenon
    <3>4. \A y \in Token : Exists(y) => row'[y] # NoRow
      BY <3>1, Zenon DEF Exists
    <3> QED  BY ONLY <3>2, <3>3, <3>4
  <2>2. ASSUME NEW t \in Token, NEW old \in Token, Inserted(t, old),
               row'[t].root = t \/ (Exists(old) /\ old # t /\ row'[t].root = row[old].root)
        PROVE  row'[u].root \in Token /\ row'[row'[u].root] # NoRow
    <3>1. \A y \in Token : Exists(y) => row'[y] # NoRow
      BY <2>2, Zenon DEF Inserted, Exists
    <3>2. row'[t] # NoRow
      BY <2>2, Zenon DEF Inserted, Exists
    <3>3. u # t => Exists(u) /\ row'[u].root = row[u].root
      BY <2>2, Zenon DEF Inserted
    <3> QED  BY <2>2, <3>1, <3>2, <3>3, Zenon
  <2>3. ASSUME NEW r \in Request, step[r] = "rotate"
        PROVE  token[r] \in Token
    BY <2>3, Zenon DEF AuthInv, Knows, Presenting
  <2> QED  BY <1>2, <2>1, <2>2, <2>3, RowChanges, CreatedSession, RotatedSession, Zenon
<1> QED  BY <1>1, <1>2, Zenon

\* An inserted row adds a live token only to its own session: to a new one, to
\* one whose live token it replaces, or, being late, to any.
LEMMA InsertedCounts ==
    ASSUME SessionInv, NEW t \in Token, NEW old \in Token, Inserted(t, old),
           \/ row'[t].root = t /\ old = t
           \/ /\ Exists(old) /\ old # t
              /\ row'[t].root = row[old].root /\ row'[t].late = ~ Live(old),
           NEW root \in Token
    PROVE  Cardinality(LiveOf(root)') <= 1 + Cardinality(LateOf(root)')
<1>1. /\ LiveOf(root) \in SUBSET Token /\ LateOf(root) \in SUBSET Token
      /\ LiveOf(root)' \in SUBSET Token /\ LateOf(root)' \in SUBSET Token
      /\ Cardinality(LiveOf(root)) <= 1 + Cardinality(LateOf(root))
  BY Zenon DEF LiveOf, LateOf, Session, SessionInv, OneLivePerSession
<1>2. /\ t \notin LiveOf(root) /\ t \notin LateOf(root)
      /\ LiveOf(root)' \subseteq (LiveOf(root) \ {old}) \cup {t}
      /\ LateOf(root) \subseteq LateOf(root)' /\ LateOf(root)' \subseteq LateOf(root) \cup {t}
  BY Zenon DEF LiveOf, LateOf, Session, Inserted
<1>3. CASE row'[t].root # root
  <2>1. LiveOf(root)' \subseteq LiveOf(root)
    BY <1>2, <1>3, Zenon DEF LiveOf, Session
  <2> QED  BY <1>1, <1>2, <2>1, Counts, Zenon
<1>4. CASE row'[t].root = root /\ old = t
  <2>1. Session(root) = {}
    <3>1. ~ Exists(root)
      BY <1>4, Zenon DEF Inserted
    <3>2. RootsExist
      BY Zenon DEF SessionInv
    <3> QED  BY ONLY <3>1, <3>2, Zenon DEF RootsExist, Session
  <2>2. LiveOf(root) = {}
    BY <2>1, Zenon DEF LiveOf
  <2> QED  BY <1>1, <1>2, <2>2, Counts, Zenon
<1>5. CASE row'[t].root = root /\ old # t /\ Live(old)
  <2>1. old \in LiveOf(root)
    BY <1>5 DEF LiveOf, Session
  <2> QED  BY <1>1, <1>2, <2>1, Counts, Zenon
<1>6. CASE row'[t].root = root /\ old # t /\ ~ Live(old)
  <2>1. t \in LateOf(root)'
    BY <1>6, Zenon DEF LateOf, Session, Inserted
  <2>2. LateOf(root)' = LateOf(root) \cup {t} /\ LiveOf(root)' \subseteq LiveOf(root) \cup {t}
    BY <1>2, <2>1
  <2> QED  BY <1>1, <1>2, <2>2, Counts, Zenon
<1> QED  BY <1>3, <1>4, <1>5, <1>6, Zenon

\* Every step keeps the count.
LEMMA SessionNextInv == SessionInv /\ [Next]_vars => SessionInv'
<1> SUFFICES ASSUME SessionInv, [Next]_vars  PROVE SessionInv'
  OBVIOUS
<1>1. AuthInv' /\ RootsExist'
  BY AuthNextInv, RootsExistInv DEF SessionInv
<1>2. ASSUME NEW root \in Token
      PROVE  Cardinality(LiveOf(root)') <= 1 + Cardinality(LateOf(root)')
  <2>1. /\ LiveOf(root) \in SUBSET Token /\ LateOf(root) \in SUBSET Token
        /\ LiveOf(root)' \in SUBSET Token /\ LateOf(root)' \in SUBSET Token
        /\ Cardinality(LiveOf(root)) <= 1 + Cardinality(LateOf(root))
    BY DEF LiveOf, LateOf, Session, SessionInv, OneLivePerSession
  <2>2. CASE row' = row
    <3>1. LiveOf(root)' = LiveOf(root) /\ LateOf(root)' = LateOf(root)
      BY <2>2 DEF LiveOf, LateOf, Session, Live, Exists
    <3> QED  BY <2>1, <3>1
  <2>3. ASSUME NEW S \in SUBSET Token, row' = Revoked(S), clock' = clock
        PROVE  Cardinality(LiveOf(root)') <= 1 + Cardinality(LateOf(root)')
    <3>1. \A u \in Token :
              /\ Exists(u)' <=> Exists(u)
              /\ Exists(u) => row'[u].root = row[u].root /\ row'[u].late = row[u].late
              /\ Live(u)' => Live(u)
      BY <2>3, RevokedSessions, Zenon DEF SessionInv
    <3>2. LiveOf(root)' \subseteq LiveOf(root) /\ LateOf(root) \subseteq LateOf(root)'
      BY <3>1, Zenon DEF LiveOf, LateOf, Session
    <3> QED  BY <2>1, <3>2, Counts, Zenon
  <2>4. ASSUME NEW u \in User, NEW t \in Token, ~ Exists(t), clock' = clock,
               row' = [row EXCEPT ![t] = NewRow(u, clock, t, FALSE)]
        PROVE  Cardinality(LiveOf(root)') <= 1 + Cardinality(LateOf(root)')
    BY <2>4, CreatedSession, InsertedCounts, Zenon DEF SessionInv
  <2>5. ASSUME NEW r \in Request, NEW t \in Token, step[r] = "rotate", ~ Exists(t),
               clock' = clock, row' = Rotated(r, t)
        PROVE  Cardinality(LiveOf(root)') <= 1 + Cardinality(LateOf(root)')
    <3>1. PICK old \in Token : old = token[r]
      BY <2>5 DEF SessionInv, AuthInv, Knows, Presenting
    <3>2. /\ Inserted(t, old) /\ Exists(old) /\ old # t
          /\ row'[t].root = row[old].root /\ row'[t].late = ~ Live(old)
      BY <2>5, <3>1, RotatedSession, Zenon DEF SessionInv
    <3> QED  BY <3>2, InsertedCounts
  <2> QED  BY <2>2, <2>3, <2>4, <2>5, RowChanges, Zenon DEF SessionInv
<1>3. OneLivePerSession'
  BY <1>2, Zenon DEF OneLivePerSession, LiveOf, LateOf
<1> QED  BY <1>1, <1>3 DEF SessionInv

(***************************************************************************)
(* A session has one token that can be refreshed, and one more for every   *)
(* RotateToken of a token that had been revoked since it was looked up.    *)
(***************************************************************************)
THEOREM OneLiveToken == Spec => []OneLivePerSession
<1>1. Init => SessionInv
  <2> SUFFICES ASSUME Init  PROVE SessionInv
    OBVIOUS
  <2>1. \A t \in Token : ~ Exists(t)
    BY Zenon DEF Init, Exists
  <2>2. \A root \in Token : Session(root) = {}
    BY <2>1, Zenon DEF Session
  <2>3. \A root \in Token : LiveOf(root) = {} /\ LateOf(root) = {}
    BY <2>2, Zenon DEF LiveOf, LateOf
  <2>4. OneLivePerSession
    <3>1. \A root \in Token : Cardinality(LiveOf(root)) <= 1 + Cardinality(LateOf(root))
      BY <2>3, FS_EmptySet
    <3> QED  BY ONLY <3>1, Zenon DEF OneLivePerSession, LiveOf, LateOf
  <2> QED  BY <2>1, <2>4, AuthInitInv, Zenon DEF SessionInv, RootsExist
<1>2. SessionInv => OneLivePerSession
  BY Zenon DEF SessionInv
<1> QED  BY <1>1, <1>2, SessionNextInv, PTL DEF Spec

-----------------------------------------------------------------------------
(***************************************************************************)
(* The limiter.  The admissions h of an address up to time c are P, those  *)
(* of the counter's period before, C, those of its period, and older ones, *)
(* which end more than a guaranteed window before the period began at s.   *)
(***************************************************************************)
History == Seq(Address \X Nat)

Guaranteed == Window - MaxStale

\* The history after an admission of a at time c, and a set of admissions with it.
Logged(h, a, c) == Append(h, <<a, c>>)

WithLast(h, C) == C \cup {Len(h) + 1}

Of(h, a) == {i \in DOMAIN h : h[i][1] = a}

In(h, a, from) == {i \in Of(h, a) : h[i][2] \in from .. from + Guaranteed}

Within(h, a) == \A from \in Nat : Cardinality(In(h, a, from)) <= 2 * Limit

Explains(h, c, a, P, C, s) ==
    /\ Cardinality(P) <= Limit /\ Cardinality(C) <= Limit /\ s <= c
    /\ \A i \in Of(h, a) : h[i][2] <= c
    /\ \A i \in P : h[i][2] <= s
    /\ \A i \in Of(h, a) \ (P \cup C) : h[i][2] + Guaranteed < s

\* What the counter e of the limiter says of the period.
Keeps(l, e, C, s) ==
    IF e.count = 0 THEN C = {}
    ELSE /\ Cardinality(C) <= e.count
         /\ l = "memory" => e.count <= Limit /\ s + Guaranteed <= e.reset
         /\ l = "redis" => s + Window <= e.reset

Entry == [count : Nat, reset : Nat]

\* The period of an address that its counter is about.
Period(l, e, h, c, a) ==
    \E P, C \in SUBSET Of(h, a), s \in Nat : Explains(h, c, a, P, C, s) /\ Keeps(l, e, C, s)

RateInv ==
    /\ limiter \in {"memory", "redis"}
    /\ entry \in [Address -> Entry]
    /\ admitted \in History
    /\ \A r \in Request : step[r] = "allow" => clock <= now[r] + MaxStale
    /\ \A a \in Address : Period(limiter, entry[a], admitted, clock, a)
    /\ \A a \in Address : Within(admitted, a)

\* The sets of admissions are finite.
LEMMA FiniteHistory ==
    ASSUME NEW h \in History, NEW a, NEW S \in SUBSET Of(h, a)
    PROVE  IsFiniteSet(S) /\ Cardinality(S) \in Nat
<1>1. DOMAIN h = 1 .. Len(h) /\ Len(h) \in Nat
  BY DEF History
<1>2. IsFiniteSet(1 .. Len(h))
  BY <1>1, FS_Interval
<1>3. S \subseteq 1 .. Len(h)
  BY <1>1 DEF Of
<1> QED  BY <1>2, <1>3, FS_Subset, FS_CardinalityType, Zenon

\* The period is over: the next one begins with no admission.
LEMMA NewPeriod ==
    ASSUME NEW h \in History, NEW c \in Nat, NEW a, NEW P \in SUBSET Of(h, a),
           NEW C \in SUBSET Of(h, a), NEW s \in Nat, Explains(h, c, a, P, C, s),
           NEW d \in Nat, c <= d, s + Guaranteed < d
    PROVE  Explains(h, d, a, C, {}, d) /\ {} \in SUBSET Of(h, a)
<1>1. \A i \in Of(h, a) : h[i][2] \in Nat
  BY DEF Of, History
<1>2. Guaranteed \in Nat /\ Limit \in Nat
  BY AuthAssumption DEF Guaranteed
<1>3. \A i \in Of(h, a) : h[i][2] <= d
  BY <1>1 DEF Explains
<1>4. \A i \in Of(h, a) \ C : h[i][2] + Guaranteed < d
  BY <1>1, <1>2 DEF Explains
<1>5. Cardinality({}) = 0
  BY FS_EmptySet, Zenon
<1> QED  BY <1>2, <1>3, <1>4, <1>5 DEF Explains

\* An admission more in the period, or the first of one that begins now.
LEMMA OneMore ==
    ASSUME NEW h \in History, NEW c \in Nat, NEW a \in Address, NEW P \in SUBSET Of(h, a),
           NEW C \in SUBSET Of(h, a), NEW s \in Nat, Explains(h, c, a, P, C, s),
           Cardinality(C) < Limit, Within(h, a)
    PROVE  /\ P \in SUBSET Of(Logged(h, a, c), a)
           /\ WithLast(h, C) \in SUBSET Of(Logged(h, a, c), a)
           /\ Cardinality(WithLast(h, C)) = Cardinality(C) + 1
           /\ Explains(Logged(h, a, c), c, a, P, WithLast(h, C), s)
           /\ Explains(Logged(h, a, c), c, a, P, WithLast(h, C), c)
           /\ Within(Logged(h, a, c), a)
<1> DEFINE h2 == Append(h, <<a, c>>)  n == Len(h) + 1  D == C \cup {n}
<1>1. h2 \in History /\ Len(h) \in Nat /\ DOMAIN h = 1 .. Len(h) /\ DOMAIN h2 = DOMAIN h \cup {n}
  BY DEF History
<1>2. h2[n] = <<a, c>> /\ \A i \in DOMAIN h : h2[i] = h[i] /\ h[i] \in Address \X Nat
  BY DEF History
<1>3. n \notin DOMAIN h
  BY <1>1
<1> HIDE DEF h2, n
<1>4. Of(h2, a) = Of(h, a) \cup {n}
  BY <1>1, <1>2, <1>3 DEF Of
<1>5. \A i \in Of(h, a) : h2[i] = h[i] /\ h[i][2] \in Nat
  BY <1>2, Zenon DEF Of
<1>6. h2[n][2] = c
  BY <1>2
<1>7. Guaranteed \in Nat /\ Limit \in Nat
  BY AuthAssumption DEF Guaranteed
<1>8. n \notin C /\ n \notin P 
  BY <1>3, Zenon DEF Of
<1>9. Cardinality(D) = Cardinality(C) + 1 /\ IsFiniteSet(D) /\ Cardinality(D) \in Nat
  <2>1. IsFiniteSet(C) /\ Cardinality(C) \in Nat
    BY FiniteHistory, Zenon
  <2> QED  BY <1>8, <2>1, FS_AddElement
<1>10. P \in SUBSET Of(h2, a) /\ D \in SUBSET Of(h2, a)
  BY <1>4, <1>8, Zenon
<1>11. ASSUME NEW s2 \in {s, c}  PROVE Explains(h2, c, a, P, D, s2)
  <2>1. Cardinality(D) <= Limit
    <3>1. Cardinality(C) \in Nat
      BY FiniteHistory, Zenon
    <3> QED  BY <1>7, <1>9, <3>1
  <2>2. \A i \in Of(h2, a) : h2[i][2] <= c
    BY <1>4, <1>5, <1>6 DEF Explains
  <2>3. \A i \in P : h2[i][2] <= s2
    BY <1>5, Zenon DEF Explains
  <2>4. \A i \in Of(h2, a) \ (P \cup D) : h2[i][2] + Guaranteed < s2
    BY <1>4, <1>5, <1>7, <1>8 DEF Explains
  <2> QED  BY <2>1, <2>2, <2>3, <2>4 DEF Explains
<1>12. Within(h2, a)
  <2> SUFFICES ASSUME NEW from \in Nat  PROVE Cardinality(In(h2, a, from)) <= 2 * Limit
    BY Zenon DEF Within
  <2>1. CASE c \in from .. from + Guaranteed
    <3>1. \A i \in Of(h2, a) \ (P \cup D) : h2[i][2] < from
      BY <1>4, <1>5, <1>7, <1>8, <2>1 DEF Explains
    <3>2. In(h2, a, from) \subseteq P \cup D
      <4>1. \A i \in Of(h2, a) \ (P \cup D) : h2[i][2] \in Nat
        BY <1>4, <1>5, <1>8, Zenon
      <4>2. \A i \in Of(h2, a) \ (P \cup D) : h2[i][2] \notin from .. from + Guaranteed
        BY <1>7, <3>1, <4>1
      <4> QED  BY <4>2, Zenon DEF In
    <3>3. IsFiniteSet(P) /\ Cardinality(P) \in Nat
      BY FiniteHistory, Zenon
    <3>4. IsFiniteSet(P \cup D) /\ Cardinality(P \cup D) <= Cardinality(P) + Cardinality(D)
      <4>1. /\ IsFiniteSet(P \cup D) /\ IsFiniteSet(P \cap D)
            /\ Cardinality(P \cup D) = Cardinality(P) + Cardinality(D) - Cardinality(P \cap D)
        BY <1>9, <3>3, FS_Union, FS_Intersection, Zenon
      <4>2. Cardinality(P \cap D) \in Nat
        BY <4>1, FS_CardinalityType
      <4> QED  BY <1>9, <3>3, <4>1, <4>2
    <3>5. Cardinality(In(h2, a, from)) <= Cardinality(P \cup D)
          /\ Cardinality(In(h2, a, from)) \in Nat /\ Cardinality(P \cup D) \in Nat
      BY <3>2, <3>4, FS_Subset, FS_CardinalityType
    <3>6. Cardinality(P) <= Limit /\ Cardinality(D) <= Limit
      BY <1>11 DEF Explains
    <3> QED  BY <1>7, <1>9, <3>3, <3>4, <3>5, <3>6
  <2>2. CASE c \notin from .. from + Guaranteed
    <3>1. In(h2, a, from) = In(h, a, from)
      BY <1>4, <1>5, <1>6, <2>2, Zenon DEF In
    <3> QED  BY <3>1, Zenon DEF Within
  <2> QED  BY <2>1, <2>2, Zenon
<1> QED  BY <1>9, <1>10, <1>11, <1>12, Zenon DEF h2, n, Logged, WithLast

\* Time alone changes nothing.
LEMMA Later ==
    ASSUME NEW l, NEW e, NEW h \in History, NEW c \in Nat, NEW d \in Nat, c <= d, NEW a,
           Period(l, e, h, c, a)
    PROVE  Period(l, e, h, d, a)
<1>1. PICK P \in SUBSET Of(h, a), C \in SUBSET Of(h, a), s \in Nat :
          Explains(h, c, a, P, C, s) /\ Keeps(l, e, C, s)
  BY Zenon DEF Period
<1>2. \A i \in Of(h, a) : h[i][2] \in Nat
  BY DEF Of, History
<1>3. \A i \in Of(h, a) : h[i][2] <= d
  BY <1>1, <1>2 DEF Explains
<1>4. Explains(h, d, a, P, C, s)
  BY <1>1, <1>3 DEF Explains
<1> QED  BY <1>1, <1>4, Zenon DEF Period

\* A counter that has run out may be deleted: by cleanup, whose reading of the
\* clock is not in the future, and by Redis, when the key expires.
LEMMA RunsOut ==
    ASSUME NEW l \in {"memory", "redis"}, NEW e \in Entry, NEW h \in History, NEW c \in Nat,
           NEW d \in Nat, c <= d, NEW a, Period(l, e, h, c, a),
           l = "memory" => e.reset < d, l = "redis" => e.reset <= d,
           NEW f, f.count = 0
    PROVE  Period(l, f, h, d, a)
<1>1. PICK P \in SUBSET Of(h, a), C \in SUBSET Of(h, a), s \in Nat :
          Explains(h, c, a, P, C, s) /\ Keeps(l, e, C, s)
  BY Zenon DEF Period
<1>2. CASE e.count = 0
  <2>1. Keeps(l, f, C, s)
    BY <1>1, <1>2, Zenon DEF Keeps
  <2>2. Period(l, f, h, c, a)
    BY <1>1, <2>1, Zenon DEF Period
  <2> QED  BY <2>2, Later, Zenon
<1>3. CASE e.count # 0
  <2>1. s + Guaranteed < d
    <3>1. Guaranteed \in Nat /\ Guaranteed < Window /\ Window \in Nat
      BY AuthAssumption DEF Guaranteed
    <3>2. e.reset \in Nat
      BY Zenon DEF Entry
    <3> QED  BY <1>1, <1>3, <3>1, <3>2 DEF Keeps
  <2>2. Explains(h, d, a, C, {}, d) /\ {} \in SUBSET Of(h, a)
    BY <1>1, <2>1, NewPeriod, Zenon
  <2>3. Keeps(l, f, {}, d)
    BY Zenon DEF Keeps
  <2> QED  BY <2>2, <2>3, Zenon DEF Period
<1> QED  BY <1>2, <1>3, Zenon

\* The first admission of a period, by a counter that is new.
LEMMA BeginsPeriod ==
    ASSUME NEW l \in {"memory", "redis"}, NEW e, e.count = 0, NEW h \in History, NEW c \in Nat,
           NEW a \in Address, Period(l, e, h, c, a), Within(h, a),
           NEW f \in Entry, f.count = 1, NEW at \in Nat, c <= at + MaxStale, f.reset = at + Window,
           l = "redis" => at = c
    PROVE  Period(l, f, Logged(h, a, c), c, a) /\ Within(Logged(h, a, c), a)
<1>1. PICK P \in SUBSET Of(h, a), C \in SUBSET Of(h, a), s \in Nat :
          Explains(h, c, a, P, C, s) /\ Keeps(l, e, C, s)
  BY Zenon DEF Period
<1>2. C = {} /\ Cardinality(C) = 0 /\ Limit \in Nat \ {0}
  BY <1>1, FS_EmptySet, AuthAssumption, Zenon DEF Keeps
<1> DEFINE h2 == Logged(h, a, c)  D == WithLast(h, C)
<1>3. Cardinality(C) < Limit
  BY <1>2
<1>4. /\ P \in SUBSET Of(h2, a) /\ D \in SUBSET Of(h2, a) /\ Cardinality(D) = Cardinality(C) + 1
      /\ Explains(h2, c, a, P, D, c) /\ Within(h2, a)
  <2>1. /\ h \in History /\ c \in Nat /\ a \in Address /\ P \in SUBSET Of(h, a)
        /\ C \in SUBSET Of(h, a) /\ s \in Nat /\ Explains(h, c, a, P, C, s)
        /\ Cardinality(C) < Limit /\ Within(h, a)
    BY <1>1, <1>3, Zenon
  <2> QED  BY ONLY <2>1, OneMore, ZenonT(30)
<1>5. Keeps(l, f, D, c)
  <2>1. Cardinality(D) = 1
    BY <1>2, <1>4
  <2>2. c + Guaranteed <= at + Window
    BY AuthAssumption DEF Guaranteed
  <2> HIDE DEF D
  <2> QED  BY <1>2, <2>1, <2>2, AuthAssumption DEF Keeps
<1> HIDE DEF h2, D
<1>6. Period(l, f, h2, c, a)
  BY <1>4, <1>5, Zenon DEF Period
<1> QED  BY <1>4, <1>6, Zenon DEF h2

\* One more admission of the period.
LEMMA GoesOnPeriod ==
    ASSUME NEW l \in {"memory", "redis"}, NEW e \in Entry, e.count # 0, NEW h \in History,
           NEW c \in Nat, NEW a \in Address, Period(l, e, h, c, a), Within(h, a),
           NEW f \in Entry, f.count = e.count + 1, f.reset = e.reset, f.count <= Limit
    PROVE  Period(l, f, Logged(h, a, c), c, a) /\ Within(Logged(h, a, c), a)
<1>1. PICK P \in SUBSET Of(h, a), C \in SUBSET Of(h, a), s \in Nat :
          Explains(h, c, a, P, C, s) /\ Keeps(l, e, C, s)
  BY Zenon DEF Period
<1> DEFINE h2 == Logged(h, a, c)  D == WithLast(h, C)
<1>2. Cardinality(C) \in Nat /\ Limit \in Nat /\ e.count \in Nat
  BY FiniteHistory, AuthAssumption, Zenon DEF Entry
<1>3. Cardinality(C) < Limit /\ Cardinality(C) <= e.count
  BY <1>1, <1>2 DEF Keeps
<1>4. /\ P \in SUBSET Of(h2, a) /\ D \in SUBSET Of(h2, a) /\ Cardinality(D) = Cardinality(C) + 1
      /\ Explains(h2, c, a, P, D, s) /\ Within(h2, a)
  <2>1. /\ h \in History /\ c \in Nat /\ a \in Address /\ P \in SUBSET Of(h, a)
        /\ C \in SUBSET Of(h, a) /\ s \in Nat /\ Explains(h, c, a, P, C, s)
        /\ Cardinality(C) < Limit /\ Within(h, a)
    BY <1>1, <1>3, Zenon
  <2> QED  BY ONLY <2>1, OneMore, ZenonT(30)
<1> HIDE DEF h2, D
<1>5. Keeps(l, f, D, s)
  BY <1>1, <1>2, <1>3, <1>4 DEF Keeps
<1>6. Period(l, f, h2, c, a)
  BY <1>4, <1>5 DEF Period
<1> QED  BY <1>4, <1>6, Zenon DEF h2

\* An admission is of one address.
LEMMA OtherAddress ==
    ASSUME NEW l, NEW e, NEW h \in History, NEW c \in Nat, NEW a \in Address,
           NEW b \in Address \ {a}
    PROVE  /\ Period(l, e, h, c, b) => Period(l, e, Logged(h, a, c), c, b)
           /\ Within(h, b) => Within(Logged(h, a, c), b)
<1> DEFINE h2 == Logged(h, a, c)
<1>1. Of(h2, b) = Of(h, b) /\ \A i \in Of(h, b) : h2[i] = h[i]
  <2>1. /\ DOMAIN h = 1 .. Len(h) /\ Len(h) \in Nat /\ DOMAIN h2 = DOMAIN h \cup {Len(h) + 1}
        /\ h2[Len(h) + 1] = <<a, c>> /\ \A i \in DOMAIN h : h2[i] = h[i]
    BY DEF History, Logged
  <2> HIDE DEF h2
  <2> QED  BY <2>1 DEF Of
<1> HIDE DEF h2
<1>2. \A from \in Nat : In(h2, b, from) = In(h, b, from)
  BY <1>1 DEF In
<1>3. \A P, C \in SUBSET Of(h, b), s \in Nat :
          Explains(h, c, b, P, C, s) => Explains(h2, c, b, P, C, s)
  BY <1>1, Zenon DEF Explains
<1>4. Period(l, e, h, c, b) => Period(l, e, h2, c, b)
  BY <1>1, <1>3, Zenon DEF Period
<1>5. Within(h, b) => Within(h2, b)
  BY <1>2, Zenon DEF Within
<1> QED  BY <1>4, <1>5 DEF h2

\* A call of MemoryLimiter.Allow for address a, of what its cleanup left.
LEMMA AllowMemoryPeriod ==
    ASSUME NEW e \in Entry, NEW h \in History, NEW c \in Nat, NEW a \in Address,
           NEW at \in Nat, at <= c, c <= at + MaxStale,
           Period("memory", e, h, c, a), Within(h, a)
    PROVE  /\ AllowMemory(e, at) \in Entry
           /\ IF AllowMemory(e, at) # e
              THEN /\ Period("memory", AllowMemory(e, at), Logged(h, a, c), c, a)
                   /\ Within(Logged(h, a, c), a)
              ELSE Period("memory", AllowMemory(e, at), h, c, a)
<1> DEFINE f == AllowMemory(e, at)
<1>1. Limit \in Nat /\ Window \in Nat /\ e.count \in Nat /\ e.reset \in Nat
  BY AuthAssumption, Zenon DEF Entry
<1>2. f \in Entry
  BY <1>1 DEF AllowMemory, Entry
<1>3. CASE e.count = 0
  <2>1. f.count = 1 /\ f.reset = at + Window
    BY <1>3, Zenon DEF AllowMemory
  <2> HIDE DEF f
  <2>2. f # e
    BY <1>3, <2>1
  <2>3. Period("memory", f, Logged(h, a, c), c, a) /\ Within(Logged(h, a, c), a)
    BY <1>2, <1>3, <2>1, BeginsPeriod, Zenon
  <2> QED  BY <1>2, <2>2, <2>3, Zenon DEF f
<1>4. CASE e.count # 0 /\ at > e.reset
  <2>1. f.count = 1 /\ f.reset = at + Window
    BY <1>4, Zenon DEF AllowMemory
  <2> HIDE DEF f
  <2>2. f # e
    BY <1>1, <1>4, <2>1
  <2>3. NoEntry.count = 0
    BY Zenon DEF NoEntry
  <2>4. e.reset < c
    BY <1>1, <1>4
  <2>5. Period("memory", NoEntry, h, c, a)
    BY <2>3, <2>4, RunsOut
  <2>6. Period("memory", f, Logged(h, a, c), c, a) /\ Within(Logged(h, a, c), a)
    BY <1>2, <2>1, <2>3, <2>5, BeginsPeriod, Zenon
  <2> QED  BY <1>2, <2>2, <2>6 DEF f
<1>5. CASE e.count # 0 /\ ~ (at > e.reset) /\ e.count < Limit
  <2>1. f.count = e.count + 1 /\ f.reset = e.reset
    BY <1>1, <1>5 DEF AllowMemory, Entry
  <2> HIDE DEF f
  <2>2. f # e /\ f.count <= Limit
    BY <1>1, <1>5, <2>1
  <2>3. Period("memory", f, Logged(h, a, c), c, a) /\ Within(Logged(h, a, c), a)
    BY <1>2, <1>5, <2>1, <2>2, GoesOnPeriod, Zenon
  <2> QED  BY <1>2, <2>2, <2>3, Zenon DEF f
<1>6. CASE e.count # 0 /\ ~ (at > e.reset) /\ ~ (e.count < Limit)
  <2>1. f = e
    BY <1>1, <1>6 DEF AllowMemory
  <2> QED  BY <1>2, <2>1, Zenon
<1> QED  BY <1>3, <1>4, <1>5, <1>6, Zenon

\* A call of RedisLimiter.Allow for address a.
LEMMA AllowRedisPeriod ==
    ASSUME NEW e \in Entry, NEW h \in History, clock \in Nat, NEW a \in Address,
           Period("redis", e, h, clock, a), Within(h, a)
    PROVE  /\ AllowRedis(e) \in Entry
           /\ IF AllowRedis(e).count <= Limit
              THEN /\ Period("redis", AllowRedis(e), Logged(h, a, clock), clock, a)
                   /\ Within(Logged(h, a, clock), a)
              ELSE Period("redis", AllowRedis(e), h, clock, a)
<1> DEFINE f == AllowRedis(e)
<1>1. /\ Limit \in Nat \ {0} /\ Window \in Nat /\ MaxStale \in Nat
      /\ e.count \in Nat /\ e.reset \in Nat
  BY AuthAssumption DEF Entry
<1>2. f \in Entry
  BY <1>1 DEF AllowRedis, Entry
<1>3. CASE e.count = 0
  <2>1. f.count = 1 /\ f.reset = clock + Window
    BY <1>3, Zenon DEF AllowRedis
  <2> HIDE DEF f
  <2>2. f.count <= Limit /\ clock <= clock + MaxStale
    BY <1>1, <2>1
  <2>3. Period("redis", f, Logged(h, a, clock), clock, a) /\ Within(Logged(h, a, clock), a)
    BY <1>2, <1>3, <2>1, <2>2, BeginsPeriod, Zenon
  <2> QED  BY <1>2, <2>2, <2>3, Zenon DEF f
<1>4. CASE e.count # 0
  <2>1. f.count = e.count + 1 /\ f.reset = e.reset
    BY <1>1, <1>4, Zenon DEF AllowRedis, Entry
  <2> HIDE DEF f
  <2>2. CASE f.count <= Limit
    <3>1. Period("redis", f, Logged(h, a, clock), clock, a) /\ Within(Logged(h, a, clock), a)
      BY <1>2, <1>4, <2>1, <2>2, GoesOnPeriod, Zenon
    <3> QED  BY <1>2, <2>2, <3>1, Zenon DEF f
  <2>3. CASE ~ (f.count <= Limit)
    <3>1. PICK P \in SUBSET Of(h, a), C \in SUBSET Of(h, a), s \in Nat :
              Explains(h, clock, a, P, C, s) /\ Keeps("redis", e, C, s)
      BY Zenon DEF Period
    <3>2. Cardinality(C) \in Nat
      BY FiniteHistory, Zenon
    <3>3. Keeps("redis", f, C, s)
      BY <1>1, <1>4, <2>1, <3>1, <3>2 DEF Keeps
    <3>4. Period("redis", f, h, clock, a)
      BY <3>1, <3>3, Zenon DEF Period
    <3> QED  BY <1>2, <2>3, <3>4, Zenon DEF f
  <2> QED  BY <2>2, <2>3, Zenon
<1> QED  BY <1>3, <1>4, Zenon

\* The cleanup of MemoryLimiter.
LEMMA CleanedPeriod ==
    ASSUME AuthInv, RateInv, limiter = "memory", NEW at \in Nat, at <= clock, NEW a \in Address
    PROVE  Cleaned(at)[a] \in Entry /\ Period("memory", Cleaned(at)[a], admitted, clock, a)
<1>1. /\ entry[a] \in Entry /\ Period("memory", entry[a], admitted, clock, a)
      /\ clock \in Nat /\ admitted \in History
  BY Zenon DEF RateInv, AuthInv
<1>2. NoEntry \in Entry /\ NoEntry.count = 0
  BY Zenon DEF NoEntry, Entry
<1>3. CASE Cleaned(at)[a] = entry[a]
  BY <1>1, <1>3, Zenon
<1>4. CASE Cleaned(at)[a] # entry[a]
  <2>1. Cleaned(at)[a] = NoEntry /\ at > entry[a].reset
    BY <1>4, Zenon DEF Cleaned
  <2>2. entry[a].reset \in Nat
    BY <1>1, Zenon DEF Entry
  <2>3. entry[a].reset < clock
    BY <1>1, <2>1, <2>2
  <2>4. Period("memory", NoEntry, admitted, clock, a)
    BY <1>1, <1>2, <2>3, RunsOut
  <2> QED  BY <1>2, <2>1, <2>4, Zenon
<1> QED  BY <1>3, <1>4, Zenon

\* What a step that ends a request's call of Allow does to the readings.
LEMMA ReadingsStay ==
    ASSUME AuthInv, RateInv, NEW r \in Request, clock' = clock, NEW s \in Steps \ {"allow"},
           Goto(r, s), \A q \in Request \ {r} : now'[q] = now[q]
    PROVE  (\A q \in Request : step[q] = "allow" => clock <= now[q] + MaxStale)'
<1>1. step \in [Request -> Steps] /\ now \in [Request -> Nat]
  BY Zenon DEF AuthInv, RequestTypes
<1>2. step'[r] = s /\ \A q \in Request \ {r} : step'[q] = step[q]
  BY <1>1, Zenon DEF Goto
<1> QED  BY <1>2, Zenon DEF RateInv

\* A call of Allow, for the address it is for and for those it cleans up.
LEMMA AllowRate ==
    ASSUME AuthInv, RateInv, NEW r \in Request, NEW a \in Address, Allow(r, a)
    PROVE  RateInv'
<1>1. /\ clock \in Nat /\ clock' = clock /\ limiter' = limiter /\ step[r] = "allow"
      /\ now[r] \in Nat /\ now[r] <= clock /\ clock <= now[r] + MaxStale
      /\ admitted \in History /\ entry \in [Address -> Entry] /\ Within(admitted, a)
  BY Zenon DEF Allow, AuthInv, RequestTypes, Knows, RateInv
<1>2. (\A q \in Request : step[q] = "allow" => clock <= now[q] + MaxStale)'
  <2>1. /\ \/ Goto(r, "login") \/ Goto(r, "done")
        /\ \A q \in Request \ {r} : now'[q] = now[q]
    BY Zenon DEF Allow, Admit, Done, AuthInv, RequestTypes
  <2>2. "login" \in Steps \ {"allow"} /\ "done" \in Steps \ {"allow"}
    BY Zenon DEF Steps
  <2> QED  BY <1>1, <2>1, <2>2, ReadingsStay, Zenon
<1> DEFINE before == IF limiter = "memory" THEN Cleaned(now[r]) ELSE entry
           f == entry'[a]
<1>3. /\ entry' = [before EXCEPT ![a] = f] /\ before \in [Address -> Entry]
      /\ \A b \in Address : Period(limiter, before[b], admitted, clock, b)
  <2>1. CASE limiter = "memory"
    <3>1. \A b \in Address : Cleaned(now[r])[b] \in Entry
                             /\ Period("memory", Cleaned(now[r])[b], admitted, clock, b)
      BY <1>1, <2>1, CleanedPeriod, Zenon
    <3>2. Cleaned(now[r]) \in [Address -> Entry]
      <4>1. Cleaned(now[r]) = [b \in Address |-> Cleaned(now[r])[b]]
        BY <1>1, Zenon DEF Cleaned
      <4> QED  BY <3>1, <4>1, Zenon
    <3>3. entry' = [Cleaned(now[r]) EXCEPT ![a] = entry'[a]]
      <4>1. \E g : entry' = [Cleaned(now[r]) EXCEPT ![a] = g]
        BY <2>1, Zenon DEF Allow
      <4> QED  BY <3>2, <4>1, Zenon
    <3> QED  BY <2>1, <3>1, <3>2, <3>3, Zenon
  <2>2. CASE limiter = "redis"
    <3>1. entry' = [entry EXCEPT ![a] = entry'[a]]
      <4>1. \E g : entry' = [entry EXCEPT ![a] = g]
        BY <2>2, Zenon DEF Allow
      <4> QED  BY <1>1, <4>1, Zenon
    <3> QED  BY <1>1, <2>2, <3>1, Zenon DEF RateInv
  <2> QED  BY <2>1, <2>2, Zenon DEF RateInv
<1>4. /\ f \in Entry
      /\ \/ /\ admitted' = Logged(admitted, a, clock)
            /\ Period(limiter, f, Logged(admitted, a, clock), clock, a)
            /\ Within(Logged(admitted, a, clock), a)
         \/ admitted' = admitted /\ Period(limiter, f, admitted, clock, a)
  <2>1. CASE limiter = "memory"
    <3> DEFINE e == Cleaned(now[r])[a]
    <3>1. e \in Entry /\ Period("memory", e, admitted, clock, a)
      BY <1>1, <2>1, CleanedPeriod, Zenon
    <3>2. before = Cleaned(now[r])
      BY <2>1, Zenon
    <3>3. f = AllowMemory(e, now[r])
      BY <1>3, <2>1, <3>2, Zenon DEF Allow
    <3>4. IF f # e THEN admitted' = Logged(admitted, a, clock) ELSE admitted' = admitted
      BY <2>1, <3>3, Zenon DEF Allow, Admit, Logged
    <3> HIDE DEF e, f
    <3>5. /\ f \in Entry
          /\ IF f # e
             THEN /\ Period("memory", f, Logged(admitted, a, clock), clock, a)
                  /\ Within(Logged(admitted, a, clock), a)
             ELSE Period("memory", f, admitted, clock, a)
      <4>1. /\ AllowMemory(e, now[r]) \in Entry
            /\ IF AllowMemory(e, now[r]) # e
               THEN /\ Period("memory", AllowMemory(e, now[r]), Logged(admitted, a, clock), clock, a)
                    /\ Within(Logged(admitted, a, clock), a)
               ELSE Period("memory", AllowMemory(e, now[r]), admitted, clock, a)
        BY <1>1, <3>1, AllowMemoryPeriod, Zenon
      <4> QED  BY <3>3, <4>1, Zenon
    <3> QED  BY <2>1, <3>4, <3>5, Zenon
  <2>2. CASE limiter = "redis"
    <3>1. entry[a] \in Entry /\ Period("redis", entry[a], admitted, clock, a)
      BY <1>1, <2>2, Zenon DEF RateInv
    <3>2. f = AllowRedis(entry[a])
      BY <1>1, <2>2, Zenon DEF Allow
    <3>3. IF f.count <= Limit THEN admitted' = Logged(admitted, a, clock)
                              ELSE admitted' = admitted
      BY <2>2, <3>2, Zenon DEF Allow, Admit, Logged
    <3> HIDE DEF f
    <3>4. /\ f \in Entry
          /\ IF f.count <= Limit
             THEN /\ Period("redis", f, Logged(admitted, a, clock), clock, a)
                  /\ Within(Logged(admitted, a, clock), a)
             ELSE Period("redis", f, admitted, clock, a)
      BY <1>1, <3>1, <3>2, AllowRedisPeriod, Zenon
    <3> QED  BY <2>2, <3>3, <3>4
  <2> QED  BY <2>1, <2>2, Zenon DEF RateInv
<1> HIDE DEF before, f
<1>5. entry' \in [Address -> Entry] /\ entry'[a] = f /\ \A b \in Address \ {a} : entry'[b] = before[b]
  BY <1>3, <1>4, Zenon DEF f
<1>6. admitted' \in History
  <2>1. Logged(admitted, a, clock) \in History
    BY <1>1 DEF Logged, History
  <2> QED  BY <1>1, <1>4, <2>1, Zenon
<1>7. ASSUME NEW b \in Address
      PROVE  Period(limiter', entry'[b], admitted', clock', b) /\ Within(admitted', b)
  <2>1. Within(admitted, b)
    BY Zenon DEF RateInv
  <2>2. CASE b = a
    BY <1>1, <1>4, <1>5, <2>2, Zenon
  <2>3. CASE b # a
    <3>1. Period(limiter, entry'[b], admitted, clock, b)
      BY <1>3, <1>5, <2>3, Zenon
    <3>2. /\ Period(limiter, entry'[b], admitted, clock, b) =>
                Period(limiter, entry'[b], Logged(admitted, a, clock), clock, b)
          /\ Within(admitted, b) => Within(Logged(admitted, a, clock), b)
      BY <1>1, <2>3, OtherAddress, Zenon
    <3> QED  BY <1>1, <1>4, <2>1, <3>1, <3>2, Zenon
  <2> QED  BY <2>2, <2>3, Zenon
<1>8. limiter' \in {"memory", "redis"}
  BY <1>1, Zenon DEF RateInv
<1> QED  BY <1>2, <1>5, <1>6, <1>7, <1>8, Zenon DEF RateInv

\* Time passes; the keys of Redis expire.
LEMMA TickRate ==
    ASSUME AuthInv, RateInv, Tick
    PROVE  RateInv'
<1>1. /\ clock \in Nat /\ clock' = clock + 1 /\ limiter' = limiter /\ admitted' = admitted
      /\ step' = step /\ now' = now /\ now \in [Request -> Nat]
      /\ admitted \in History /\ entry \in [Address -> Entry] /\ MaxStale \in Nat
      /\ limiter \in {"memory", "redis"}
  BY AuthAssumption DEF Tick, request, AuthInv, RequestTypes, RateInv
<1>2. (\A q \in Request : step[q] = "allow" => clock <= now[q] + MaxStale)'
  <2>1. \A q \in Request : step[q] = "allow" => clock - now[q] < MaxStale
    BY Zenon DEF Tick
  <2> QED  BY <1>1, <2>1
<1>3. ASSUME NEW a \in Address
      PROVE  entry'[a] \in Entry /\ Period(limiter, entry'[a], admitted, clock', a)
  <2>1. entry[a] \in Entry /\ Period(limiter, entry[a], admitted, clock, a)
    BY <1>1, Zenon DEF RateInv
  <2>2. NoEntry \in Entry /\ NoEntry.count = 0
    BY Zenon DEF NoEntry, Entry
  <2>3. clock' \in Nat /\ clock <= clock'
    BY <1>1
  <2>4. CASE entry'[a] = entry[a]
    BY <1>1, <2>1, <2>3, <2>4, Later, Zenon
  <2>5. CASE entry'[a] # entry[a]
    <3>1. limiter = "redis" /\ entry'[a] = NoEntry /\ clock' >= entry[a].reset
      BY <1>1, <2>5, Zenon DEF Tick
    <3>2. entry[a].reset <= clock'
      BY <2>1, <2>3, <3>1, Zenon DEF Entry
    <3>3. Period("redis", NoEntry, admitted, clock', a)
      BY <1>1, <2>1, <2>2, <2>3, <3>1, <3>2, RunsOut, Zenon
    <3> QED  BY <2>2, <3>1, <3>3, Zenon
  <2> QED  BY <2>4, <2>5, Zenon
<1>4. entry' \in [Address -> Entry]
  <2>1. entry' = [a \in Address |-> entry'[a]]
    BY <1>1, Zenon DEF Tick
  <2> QED  BY <1>3, <2>1, Zenon
<1>5. \A a \in Address : Within(admitted, a)
  BY Zenon DEF RateInv
<1> QED  BY <1>1, <1>2, <1>3, <1>4, <1>5, Zenon DEF RateInv

\* Nothing else touches the limiter.
LEMMA RateNextInv == ASSUME AuthInv, RateInv, [Next]_vars  PROVE RateInv'
<1>1. CASE Tick
  BY <1>1, TickRate, Zenon
<1>2. ASSUME NEW r \in Request, NEW a \in Address, Allow(r, a)
      PROVE  RateInv'
  BY <1>2, AllowRate, Zenon
<1>3. ASSUME rate' = rate, clock' = clock,
             (\A q \in Request : step[q] = "allow" => clock <= now[q] + MaxStale)'
      PROVE  RateInv'
  <2>1. limiter' = limiter /\ entry' = entry /\ admitted' = admitted
    BY <1>3, Zenon DEF rate
  <2> QED  BY <1>3, <2>1, Zenon DEF RateInv
<1>4. ASSUME NEW r \in Request, Login(r)
      PROVE  RateInv'
  <2>1. /\ step \in [Request -> Steps] /\ now \in [Request -> Nat] /\ clock \in Nat
        /\ MaxStale \in Nat
    BY AuthAssumption DEF AuthInv, RequestTypes
  <2>2. /\ now'[r] = clock /\ clock' = clock /\ rate' = rate
        /\ \A q \in Request \ {r} : step'[q] = step[q] /\ now'[q] = now[q]
    BY <1>4, <2>1, Zenon DEF Login, Goto
  <2>3. (\A q \in Request : step[q] = "allow" => clock <= now[q] + MaxStale)'
    BY <2>1, <2>2 DEF RateInv
  <2> QED  BY <1>3, <2>2, <2>3, Zenon
<1>5. ASSUME NEW r \in Request, rate' = rate, clock' = clock,
             \E s \in Steps \ {"allow"} : Goto(r, s),
             \A q \in Request \ {r} : now'[q] = now[q]
      PROVE  RateInv'
  <2>1. (\A q \in Request : step[q] = "allow" => clock <= now[q] + MaxStale)'
    BY <1>5, ReadingsStay, Zenon
  <2> QED  BY <1>3, <1>5, <2>1, Zenon
<1>6. ASSUME NEW r \in Request, Handle(r), ~ Login(r), \A a \in Address : ~ Allow(r, a)
      PROVE  RateInv'
  <2>1. {"done", "lookup", "reuse", "expire", "rotate", "sign"} \subseteq Steps \ {"allow"}
    BY Zenon DEF Steps
  <2>2. Done(r) => Goto(r, "done") /\ \A q \in Request \ {r} : now'[q] = now[q]
    BY Zenon DEF Done, AuthInv, RequestTypes
  <2>3. CASE AllowFails(r) \/ Refuse(r) \/ RevokeAllTokens(r) \/ RevokeExpired(r) \/ NewAccessToken(r)
    <3>1. Done(r) /\ rate' = rate /\ clock' = clock
      BY <2>3, Zenon DEF AllowFails, Refuse, RevokeAllTokens, RevokeExpired, NewAccessToken
    <3> QED  BY <1>5, <2>1, <2>2, <3>1, Zenon
  <2>4. ASSUME NEW u \in User, NEW t \in Token, CreateRefreshToken(r, u, t)  PROVE RateInv'
    <3>1. Done(r) /\ rate' = rate /\ clock' = clock
      BY <2>4, Zenon DEF CreateRefreshToken
    <3> QED  BY <1>5, <2>1, <2>2, <3>1, Zenon
  <2>5. ASSUME NEW t \in Token, Logout(r, t)  PROVE RateInv'
    <3>1. Done(r) /\ rate' = rate /\ clock' = clock
      BY <2>5, Zenon DEF Logout
    <3> QED  BY <1>5, <2>1, <2>2, <3>1, Zenon
  <2>6. ASSUME NEW t \in Token, Refresh(r, t)  PROVE RateInv'
    <3>1. Goto(r, "lookup") /\ now' = now /\ rate' = rate /\ clock' = clock
      BY <2>6, Zenon DEF Refresh
    <3> QED  BY <1>5, <2>1, <3>1, Zenon
  <2>7. ASSUME NEW t \in Token, RotateToken(r, t)  PROVE RateInv'
    <3>1. Done(r) \/ (Goto(r, "sign") /\ now' = now)
      BY <2>7, Zenon DEF RotateToken
    <3>2. rate' = rate /\ clock' = clock
      BY <2>7, Zenon DEF RotateToken
    <3> QED  BY <1>5, <2>1, <2>2, <3>1, <3>2, Zenon
  <2>8. CASE GetRefreshTokenByHash(r)
    <3>1. Done(r) \/ (Goto(r, NextCall(token[r])) /\ now' = [now EXCEPT ![r] = clock])
      BY <2>8, Zenon DEF GetRefreshTokenByHash
    <3>2. NextCall(token[r]) \in {"reuse", "expire", "rotate"}
      BY Zenon DEF NextCall
    <3>3. rate' = rate /\ clock' = clock
      BY <2>8, Zenon DEF GetRefreshTokenByHash
    <3>4. CASE Goto(r, NextCall(token[r])) /\ now' = [now EXCEPT ![r] = clock]
      <4>1. \A q \in Request \ {r} : now'[q] = now[q]
        BY <3>4, Zenon DEF AuthInv, RequestTypes
      <4>2. \E s \in Steps \ {"allow"} : Goto(r, s)
        BY <2>1, <3>2, <3>4, Zenon
      <4> QED  BY <1>5, <3>3, <4>1, <4>2, Zenon
    <3> QED  BY <1>5, <2>1, <2>2, <3>1, <3>3, <3>4, Zenon
  <2> QED  BY <1>6, <2>3, <2>4, <2>5, <2>6, <2>7, <2>8, Zenon DEF Handle
<1>7. CASE UNCHANGED vars
  BY <1>3, <1>7, Zenon DEF vars, request, RateInv
<1> QED  BY <1>1, <1>2, <1>4, <1>6, <1>7, Zenon DEF Next

\* No address has been admitted.
LEMMA RateInitInv == Init => RateInv
<1> SUFFICES ASSUME Init  PROVE RateInv
  OBVIOUS
<1>1. /\ limiter \in {"memory", "redis"} /\ entry \in [Address -> Entry] /\ admitted = <<>>
      /\ admitted \in History /\ clock = 0
      /\ \A r \in Request : step[r] = "new"
  BY AuthAssumption DEF Init, NoEntry, Entry, History
<1>2. \A a : Of(admitted, a) = {}
  BY <1>1 DEF Of
<1>3. Cardinality({}) = 0 /\ Limit \in Nat
  BY FS_EmptySet, AuthAssumption, Zenon
<1>4. ASSUME NEW a \in Address
      PROVE  Period(limiter, entry[a], admitted, clock, a) /\ Within(admitted, a)
  <2>1. entry[a].count = 0
    BY Zenon DEF Init, NoEntry
  <2>2. Explains(admitted, clock, a, {}, {}, 0) /\ Keeps(limiter, entry[a], {}, 0)
    BY <1>1, <1>2, <1>3, <2>1 DEF Explains, Keeps
  <2>3. \A from \in Nat : In(admitted, a, from) = {}
    BY <1>2, Zenon DEF In
  <2>4. 0 <= 2 * Limit
    BY <1>3
  <2>5. Within(admitted, a)
    BY <1>3, <2>3, <2>4, Zenon DEF Within
  <2> QED  BY <1>2, <2>2, <2>5, Zenon DEF Period
<1> QED  BY <1>1, <1>4, Zenon DEF RateInv

(***************************************************************************)
(* Whichever limiter buildLimiter made, an address is admitted to the      *)
(* login at most twice the limit within a window's length less the time a  *)
(* caller may wait for the limiter's lock with its reading of the clock:   *)
(* at most Limit times before and Limit times after its counter is reset,  *)
(* cleaned up or expires, wherever that falls.                             *)
(***************************************************************************)
THEOREM LoginsLimited == Spec => []AtMostTwiceTheLimit
<1>1. RateInv => AtMostTwiceTheLimit
  <2> SUFFICES ASSUME RateInv, NEW a \in Address, NEW from \in 0 .. MaxTime
               PROVE  Cardinality(AdmittedIn(a, from, from + Window - MaxStale)) <= 2 * Limit
    BY Zenon DEF AtMostTwiceTheLimit
  <2>1. from \in Nat /\ from + Guaranteed = from + Window - MaxStale
    BY AuthAssumption DEF Guaranteed
  <2>2. AdmittedIn(a, from, from + Window - MaxStale) = In(admitted, a, from)
    BY <2>1 DEF AdmittedIn, In, Of
  <2> QED  BY <2>1, <2>2, Zenon DEF RateInv, Within
<1> QED  BY <1>1, AuthInitInv, AuthNextInv, RateInitInv, RateNextInv, PTL DEF Spec
=============================================================================
