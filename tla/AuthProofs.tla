----------------------------- MODULE AuthProofs -----------------------------
(* What Auth guarantees for any users, links, tokens and requests.           *)
EXTENDS Auth, TLAPS

-----------------------------------------------------------------------------
(* The inductive invariant.                                                *)

\* What a handler has read of its row may be out of date, in one direction only,
\* and it keeps the row's user.
HeldRows ==
    \A h \in Requests :
        /\ pc[h] \in {"verified", "polled", "entered"} => links[item[h]] \in {"used", "gone"}
        /\ pc[h] = "rotated" => tokens[item[h]] \in {"revoked", "gone"}
        /\ pc[h] \in {"mark", "adminMark", "verified", "polled", "entered"}
             => who[h] = userOf[item[h]]

\* A token or session y that was given for something exists, and what it was given
\* for is spent: a link of the same user, or a token that was rotated.
Spent(y) ==
    /\ y \in Tokens /\ origin[y] # None => tokens[y] # "unborn"
    /\ y \in Sessions /\ origin[y] # None => sessions[y] # "unborn"
    /\ \A l \in Links :
         /\ origin[y] # <<"rotated", l>>
         /\ origin[y] \in {<<"verified", l>>, <<"polled", l>>, <<"entered", l>>}
              => links[l] \in {"used", "gone"} /\ userOf[y] = userOf[l]
    /\ \A p \in Tokens :
         /\ origin[y] # <<"verified", p>> /\ origin[y] # <<"entered", p>>
         /\ origin[y] = <<"rotated", p>> => tokens[p] \in {"revoked", "gone"}

OriginsSpent == \A y \in Tokens \union Sessions : Spent(y)

\* Request h is going to exchange x.
Claims(h, x) ==
    /\ item[h] = x
    /\ pc[h] \in {"mark", "adminMark", "verified", "entered", "rotate", "rotated"}

\* x was exchanged for y.
Given(y, x) == origin[y] \in {<<"verified", x>>, <<"entered", x>>, <<"rotated", x>>}

\* Two requests that exchange the same link or token contest it, and so do a
\* request and a token or session already given for it.
ClaimsContested ==
    \A x \in (Links \union Tokens) \ contested :
        /\ \A h, q \in Requests : Claims(h, x) /\ Claims(q, x) => h = q
        /\ \A h \in Requests, y \in Tokens \union Sessions : ~ (Claims(h, x) /\ Given(y, x))
        /\ \A y, z \in Tokens \union Sessions : Given(y, x) /\ Given(z, x) => y = z

\* Tokens that theft detection has found are dead, nobody is about to exchange
\* them, and none was given for them.
SweptDead ==
    \A p \in swept :
        /\ tokens[p] \in {"revoked", "gone"}
        /\ \A h \in Requests : pc[h] \in {"rotate", "rotated"} => item[h] # p
        /\ \A t \in Tokens : origin[t] # <<"rotated", p>>

-----------------------------------------------------------------------------

\* The initial state has the types.
LEMMA InitTyped == Init => TypeOK
BY DEF Init, TypeOK, Steps

\* Every step keeps the types.
LEMMA NextTyped == TypeOK /\ [Next]_vars => TypeOK'
<1> SUFFICES ASSUME TypeOK, [Next]_vars PROVE TypeOK'
    OBVIOUS
<1> USE AuthAssumption DEF TypeOK, Steps, handlers, rows, history
<1>1. ASSUME NEW h \in Requests, Handle(h)
      PROVE  TypeOK'
  <2>1. ASSUME NEW u \in Users, RequestMagicLink(h, u) \/ LoginSubmit(h, u)
        PROVE  TypeOK'
      BY <2>1 DEF RequestMagicLink, LoginSubmit, Begin
  <2>2. ASSUME NEW l \in Links, CreateMagicToken(h, l)
        PROVE  TypeOK'
      BY <2>2 DEF CreateMagicToken, Finish
  <2>3. ASSUME NEW l \in Links, VerifyMagicLink(h, l) \/ AdminVerify(h, l)
        PROVE  TypeOK'
    <3>1. contested' \subseteq Links \union Tokens
        BY <2>3 DEF VerifyMagicLink, AdminVerify, Contest
    <3> QED
        BY <2>3, <3>1 DEF VerifyMagicLink, AdminVerify, Begin, Contest
  <2>4. ASSUME NEW l \in Links, PollAuth(h, l)
        PROVE  TypeOK'
      BY <2>4 DEF PollAuth, Begin
  <2>5. ASSUME NEW t \in Tokens, Refresh(h, t)
        PROVE  TypeOK'
    <3>1. contested' \subseteq Links \union Tokens
        BY <2>5 DEF Refresh, Contest
    <3> QED
        BY <2>5, <3>1 DEF Refresh, Begin, Contest
  <2>6. ASSUME NEW t \in Tokens, Logout(h, t)
        PROVE  TypeOK'
      BY <2>6 DEF Logout, Begin
  <2>7. ASSUME NEW t \in Tokens, GenerateTokenPair(h, t)
        PROVE  TypeOK'
    <3>1. <<pc[h], item[h]>> \in Origin
        BY <2>7 DEF GenerateTokenPair, Minting, Origin
    <3> QED
        BY <2>7, <3>1 DEF GenerateTokenPair, Finish, Minting
  <2>8. CASE MarkMagicTokenUsed(h)
    <3>1. item[h] \in Links
        BY <2>8 DEF MarkMagicTokenUsed
    <3>2. links' \in [Links -> {"unsent", "fresh", "used", "gone"}]
        BY <2>8, <3>1 DEF MarkMagicTokenUsed
    <3>3. pc' \in [Requests -> Steps]
        BY <2>8 DEF MarkMagicTokenUsed, Marked
    <3>4. \A l \in Links : (links'[l] = "unsent") = (links[l] = "unsent")
        BY <2>8, <3>1 DEF MarkMagicTokenUsed
    <3>5. \A l \in Links : links[l] \in {"fresh", "used"} => links'[l] \in {"fresh", "used"}
        BY <2>8, <3>1 DEF MarkMagicTokenUsed
    <3> QED
        BY <2>8, <3>1, <3>2, <3>3, <3>4, <3>5 DEF MarkMagicTokenUsed, Marked
  <2>9. CASE RevokeRefreshToken(h)
      BY <2>9 DEF RevokeRefreshToken, Revoked, Finish
  <2>10. CASE RevokeAllRefreshTokens(h)
    <3>1. swept' \subseteq Tokens
        BY <2>10 DEF RevokeAllRefreshTokens, Sweep, TokensOf
    <3> QED
        BY <2>10, <3>1 DEF RevokeAllRefreshTokens, Revoked, Finish, Sweep
  <2>11. CASE Fails(h)
      BY <2>11 DEF Fails, Finish
  <2>12. ASSUME NEW x \in Sessions, CreateAdminSession(h, x)
         PROVE  TypeOK'
    <3>1. <<"entered", item[h]>> \in Origin
        BY <2>12 DEF CreateAdminSession, Origin
    <3>2. /\ sessions' \in [Sessions -> {"unborn", "live", "expired", "gone"}]
          /\ \A y \in Sessions : sessions'[y] # "unborn" => y = x \/ sessions[y] # "unborn"
        BY <2>12 DEF CreateAdminSession, CleanedSessions
    <3> QED
        BY <2>12, <3>1, <3>2 DEF CreateAdminSession, Finish
  <2> QED
      BY <1>1, <2>1, <2>2, <2>3, <2>4, <2>5, <2>6, <2>7, <2>8, <2>9, <2>10, <2>11, <2>12
      DEF Handle
<1>2. ASSUME NEW l \in Links, Expire(l)
      PROVE  TypeOK'
    BY <1>2 DEF Expire
<1>3. CASE CleanExpiredMagicTokens
  <2>1. links' \in [Links -> {"unsent", "fresh", "used", "gone"}]
      BY <1>3 DEF CleanExpiredMagicTokens
  <2>2. \A l \in Links : (links'[l] = "unsent") = (links[l] = "unsent")
      BY <1>3 DEF CleanExpiredMagicTokens
  <2>3. \A l \in pollable' \union expired' : links'[l] \in {"fresh", "used"}
      BY <1>3 DEF CleanExpiredMagicTokens
  <2> QED
      BY <1>3, <2>1, <2>2, <2>3 DEF CleanExpiredMagicTokens
<1>4. CASE CleanRevokedRefreshTokens
    BY <1>4 DEF CleanRevokedRefreshTokens
<1>5. ASSUME NEW u \in Users, DeleteMe(u)
      PROVE  TypeOK'
    BY <1>5 DEF DeleteMe
<1>6. CASE CleanExpiredAdminSessions
    BY <1>6 DEF CleanExpiredAdminSessions, CleanedSessions
<1>7. ASSUME NEW x \in Sessions, ExpireSession(x) \/ AdminLogout(x)
      PROVE  TypeOK'
    BY <1>7 DEF ExpireSession, AdminLogout
<1>8. CASE UNCHANGED vars
    BY <1>8 DEF vars
<1> QED
    BY <1>1, <1>2, <1>3, <1>4, <1>5, <1>6, <1>7, <1>8 DEF Next

\* Accounts, links, tokens and handlers have their types in
\* every reachable state, and every row belongs to a user.
THEOREM TypeCorrect == Spec => []TypeOK
BY InitTyped, NextTyped, PTL DEF Spec

-----------------------------------------------------------------------------
(* Rows only move forward, and a new token or session has an origin.       *)

\* A link, token or session never goes back to an earlier state, and keeps its user.
LEMMA RowsMoveForward ==
    ASSUME TypeOK, [Next]_vars
    PROVE  /\ \A l \in Links :
                /\ links[l] # "unsent" => links'[l] # "unsent" /\ userOf'[l] = userOf[l]
                /\ links[l] \in {"used", "gone"} => links'[l] \in {"used", "gone"}
           /\ \A t \in Tokens :
                /\ tokens[t] # "unborn" => tokens'[t] # "unborn" /\ userOf'[t] = userOf[t]
                /\ tokens[t] \in {"revoked", "gone"} => tokens'[t] \in {"revoked", "gone"}
           /\ \A x \in Sessions :
                sessions[x] # "unborn" => sessions'[x] # "unborn" /\ userOf'[x] = userOf[x]
<1> USE DEF TypeOK, handlers, rows
<1>1. ASSUME NEW h \in Requests, Handle(h),
             \A l \in Links : ~ CreateMagicToken(h, l),
             \A t \in Tokens : ~ GenerateTokenPair(h, t),
             \A x \in Sessions : ~ CreateAdminSession(h, x)
      PROVE  /\ userOf' = userOf
             /\ \A l \in Links : \/ links'[l] = links[l]
                                 \/ links[l] # "unsent" /\ links'[l] \in {"used", "gone"}
             /\ \A t \in Tokens : \/ tokens'[t] = tokens[t]
                                  \/ tokens[t] = "valid" /\ tokens'[t] = "revoked"
             /\ sessions' = sessions
  <2>1. CASE MarkMagicTokenUsed(h)
      BY <2>1 DEF MarkMagicTokenUsed
  <2>2. CASE RevokeRefreshToken(h) \/ RevokeAllRefreshTokens(h)
      BY <2>2 DEF RevokeRefreshToken, RevokeAllRefreshTokens, Revoked
  <2>3. CASE UNCHANGED rows
      BY <2>3
  <2> QED
      BY <1>1, <2>1, <2>2, <2>3
      DEF Handle, RequestMagicLink, LoginSubmit, VerifyMagicLink, AdminVerify, PollAuth,
          Refresh, Logout, Fails
<1>2. ASSUME NEW h \in Requests, NEW l \in Links, CreateMagicToken(h, l)
      PROVE  /\ tokens' = tokens /\ sessions' = sessions /\ links[l] = "unsent"
             /\ \A k \in Links : k # l => links'[k] = links[k] /\ userOf'[k] = userOf[k]
             /\ \A x \in Tokens \union Sessions : userOf'[x] = userOf[x]
    BY <1>2, AuthAssumption DEF CreateMagicToken
<1>3. ASSUME NEW h \in Requests, NEW t \in Tokens, GenerateTokenPair(h, t)
      PROVE  /\ links' = links /\ tokens[t] = "unborn"
             /\ \A x \in Links \union Sessions : userOf'[x] = userOf[x]
             /\ \A s \in Tokens : s # t => tokens'[s] = tokens[s] /\ userOf'[s] = userOf[s]
             /\ sessions' = sessions
    BY <1>3, AuthAssumption DEF GenerateTokenPair
<1>4. ASSUME NEW h \in Requests, NEW x \in Sessions, CreateAdminSession(h, x)
      PROVE  /\ links' = links /\ tokens' = tokens /\ sessions[x] = "unborn"
             /\ \A y \in Links \union Tokens : userOf'[y] = userOf[y]
             /\ \A y \in Sessions : y # x /\ sessions[y] # "unborn"
                  => sessions'[y] # "unborn" /\ userOf'[y] = userOf[y]
    BY <1>4, AuthAssumption DEF CreateAdminSession, CleanedSessions
<1>5. ASSUME CleanExpiredMagicTokens \/ CleanRevokedRefreshTokens \/ CleanExpiredAdminSessions
                \/ (\E u \in Users : DeleteMe(u)) \/ (\E l \in Links : Expire(l))
                \/ (\E x \in Sessions : ExpireSession(x) \/ AdminLogout(x))
                \/ UNCHANGED vars
      PROVE  /\ userOf' = userOf
             /\ \A l \in Links : links'[l] = links[l] \/ links'[l] = "gone"
             /\ \A t \in Tokens : tokens'[t] = tokens[t] \/ tokens'[t] = "gone"
             /\ \A x \in Sessions : sessions[x] # "unborn" => sessions'[x] # "unborn"
    BY <1>5 DEF CleanedSessions, CleanExpiredMagicTokens, CleanRevokedRefreshTokens, CleanExpiredAdminSessions,
                DeleteMe, Expire, ExpireSession, AdminLogout, vars
<1> QED
    BY <1>1, <1>2, <1>3, <1>4, <1>5 DEF Next

\* A step adds to the history, with an origin only for what is new.
LEMMA HistoryGrows ==
    ASSUME TypeOK, [Next]_vars
    PROVE  /\ contested \subseteq contested'
           /\ \/ UNCHANGED origin
              \/ \E h \in Requests, t \in Tokens : GenerateTokenPair(h, t)
              \/ \E h \in Requests, x \in Sessions : CreateAdminSession(h, x)
           /\ \/ UNCHANGED swept
              \/ \E h \in Requests : RevokeAllRefreshTokens(h)
<1> USE DEF handlers, rows, history
<1>1. ASSUME NEW h \in Requests, Handle(h)
      PROVE  /\ contested \subseteq contested'
             /\ \/ UNCHANGED origin
                \/ \E t \in Tokens : GenerateTokenPair(h, t)
                \/ \E x \in Sessions : CreateAdminSession(h, x)
             /\ UNCHANGED swept \/ RevokeAllRefreshTokens(h)
  <2>1. CASE \/ \E t \in Tokens : GenerateTokenPair(h, t)
             \/ \E x \in Sessions : CreateAdminSession(h, x)
      BY <2>1 DEF GenerateTokenPair, CreateAdminSession
  <2>2. CASE \E l \in Links : VerifyMagicLink(h, l) \/ AdminVerify(h, l)
      BY <2>2 DEF VerifyMagicLink, AdminVerify, Contest
  <2>3. CASE \E t \in Tokens : Refresh(h, t)
      BY <2>3 DEF Refresh, Contest
  <2>4. CASE RevokeAllRefreshTokens(h)
      BY <2>4 DEF RevokeAllRefreshTokens, Sweep
  <2> QED
      BY <1>1, <2>1, <2>2, <2>3, <2>4
      DEF Handle, RequestMagicLink, LoginSubmit, CreateMagicToken, PollAuth, Logout,
          MarkMagicTokenUsed, RevokeRefreshToken, Fails
<1> QED
    BY <1>1 DEF Next, Expire, ExpireSession, AdminLogout, CleanExpiredMagicTokens,
                CleanRevokedRefreshTokens, CleanExpiredAdminSessions, DeleteMe, vars

\* A step of the system changes at most one handler, in one of these ways.
LEMMA HandlerSteps ==
    ASSUME TypeOK, [Next]_vars
    PROVE  \/ UNCHANGED handlers
           \/ \E h \in Requests :
                /\ \A q \in Requests \ {h} :
                     pc'[q] = pc[q] /\ item'[q] = item[q] /\ who'[q] = who[q]
                /\ \/ pc'[h] = "idle"
                   \/ pc'[h] \in {"link", "adminLink", "reuse", "logout"}
                   \/ \E l \in Links : VerifyMagicLink(h, l) \/ AdminVerify(h, l)
                   \/ \E l \in Links : PollAuth(h, l)
                   \/ \E t \in Tokens : Refresh(h, t)
                   \/ MarkMagicTokenUsed(h)
                   \/ pc[h] = "rotate" /\ RevokeRefreshToken(h)
<1> USE DEF TypeOK, handlers
<1>1. ASSUME NEW h \in Requests, Handle(h)
      PROVE  \A q \in Requests \ {h} :
                pc'[q] = pc[q] /\ item'[q] = item[q] /\ who'[q] = who[q]
  <2>1. ASSUME NEW x, NEW u, NEW step, Begin(h, x, u, step)
        PROVE  \A q \in Requests \ {h} :
                  pc'[q] = pc[q] /\ item'[q] = item[q] /\ who'[q] = who[q]
      BY <2>1 DEF Begin
  <2>2. Finish(h) => \A q \in Requests \ {h} :
                        pc'[q] = pc[q] /\ item'[q] = item[q] /\ who'[q] = who[q]
      BY DEF Finish
  <2>3. CASE MarkMagicTokenUsed(h) \/ RevokeRefreshToken(h)
      BY <2>2, <2>3 DEF MarkMagicTokenUsed, RevokeRefreshToken
  <2> QED
      BY <1>1, <2>1, <2>2, <2>3
      DEF Handle, RequestMagicLink, LoginSubmit, CreateMagicToken, VerifyMagicLink,
          AdminVerify, PollAuth, Refresh, Logout, GenerateTokenPair, CreateAdminSession,
          RevokeAllRefreshTokens, Fails
<1>2. ASSUME NEW h \in Requests, Handle(h)
      PROVE  \/ pc'[h] \in {"idle", "link", "adminLink", "reuse", "logout"}
             \/ \E l \in Links : VerifyMagicLink(h, l) \/ AdminVerify(h, l)
             \/ \E l \in Links : PollAuth(h, l)
             \/ \E t \in Tokens : Refresh(h, t)
             \/ MarkMagicTokenUsed(h)
             \/ pc[h] = "rotate" /\ RevokeRefreshToken(h)
    BY <1>2 DEF Handle, RequestMagicLink, LoginSubmit, CreateMagicToken, Logout,
                GenerateTokenPair, CreateAdminSession, RevokeRefreshToken,
                RevokeAllRefreshTokens, Fails, Begin, Finish
<1> QED
    BY <1>1, <1>2 DEF Next, Expire, ExpireSession, AdminLogout, CleanExpiredMagicTokens,
                      CleanRevokedRefreshTokens, CleanExpiredAdminSessions, DeleteMe, vars

-----------------------------------------------------------------------------
(* The invariants.                                                         *)

\* What a handler holds stays spent.
LEMMA HeldRowsKept == TypeOK /\ HeldRows /\ [Next]_vars => HeldRows'
<1> SUFFICES ASSUME TypeOK, HeldRows, [Next]_vars,
                    NEW h \in Requests
             PROVE  /\ pc'[h] \in {"verified", "polled", "entered"}
                         => links'[item'[h]] \in {"used", "gone"}
                    /\ pc'[h] = "rotated" => tokens'[item'[h]] \in {"revoked", "gone"}
                    /\ pc'[h] \in {"mark", "adminMark", "verified", "polled", "entered"}
                         => who'[h] = userOf'[item'[h]]
    BY DEF HeldRows
<1>1. CASE pc'[h] = pc[h] /\ item'[h] = item[h] /\ who'[h] = who[h]
    BY <1>1, RowsMoveForward DEF HeldRows, TypeOK
<1>2. CASE MarkMagicTokenUsed(h)
  <2>1. /\ pc[h] \in {"mark", "adminMark"} /\ item[h] \in Links
        /\ pc'[h] \in {"verified", "entered"} /\ item' = item /\ who' = who /\ userOf' = userOf
        /\ links'[item[h]] \in {"used", "gone"}
      BY <1>2 DEF MarkMagicTokenUsed, Marked, TypeOK
  <2> QED
      BY <2>1 DEF HeldRows
<1>3. CASE pc[h] = "rotate" /\ RevokeRefreshToken(h)
  <2>1. item[h] \in Tokens /\ tokens[item[h]] \in {"valid", "revoked", "gone"}
      BY <1>3 DEF TypeOK
  <2>2. tokens'[item[h]] \in {"revoked", "gone"} /\ item'[h] = item[h] /\ pc'[h] = "rotated"
      BY <1>3, <2>1 DEF RevokeRefreshToken, Revoked, TypeOK
  <2> QED
      BY <2>2
<1>4. CASE \E l \in Links : PollAuth(h, l)
    BY <1>4 DEF PollAuth, Begin, TypeOK, rows
<1>5. CASE \E l \in Links : VerifyMagicLink(h, l) \/ AdminVerify(h, l)
    BY <1>5 DEF VerifyMagicLink, AdminVerify, Begin, TypeOK, rows
<1>6. CASE \E t \in Tokens : Refresh(h, t)
    BY <1>6 DEF Refresh, Begin, TypeOK
<1>7. CASE pc'[h] \in {"idle", "link", "adminLink", "reuse", "logout"}
    BY <1>7
<1> QED
    BY <1>1, <1>2, <1>3, <1>4, <1>5, <1>6, <1>7, HandlerSteps DEF handlers

\* A handler that gives y for the row it holds: that row is spent and its user's.
LEMMA NewIsOf ==
    ASSUME TypeOK, HeldRows, NEW h \in Requests, NEW y \in Tokens \union Sessions,
           pc[h] \in Minting \union {"entered"},
           origin' = [origin EXCEPT ![y] = <<pc[h], item[h]>>],
           userOf' = [userOf EXCEPT ![y] = who[h]]
    PROVE  /\ \A l \in Links :
                /\ origin'[y] # <<"rotated", l>>
                /\ origin'[y] \in {<<"verified", l>>, <<"polled", l>>, <<"entered", l>>}
                     => links[l] \in {"used", "gone"} /\ userOf'[y] = userOf[l]
           /\ \A p \in Tokens :
                /\ origin'[y] # <<"verified", p>> /\ origin'[y] # <<"entered", p>>
                /\ origin'[y] = <<"rotated", p>> => tokens[p] \in {"revoked", "gone"}
<1>1. origin'[y] = <<pc[h], item[h]>> /\ userOf'[y] = who[h]
    BY DEF TypeOK
<1>2. IF pc[h] = "rotated" THEN item[h] \in Tokens ELSE item[h] \in Links
    BY DEF TypeOK, Minting
<1> QED
    BY <1>1, <1>2, AuthAssumption DEF HeldRows

\* Where no origin is given, it stays none, or what it names stays spent.
LEMMA OldStaysSpent ==
    ASSUME TypeOK, OriginsSpent, [Next]_vars,
           NEW y \in Tokens \union Sessions, origin'[y] = origin[y]
    PROVE  Spent(y)'
<1>1. CASE origin[y] = None
  <2>1. \A how \in Minting \union {"entered"}, x \in Links \union Tokens : <<how, x>> # None
    <3>1. \A how \in Minting \union {"entered"}, x \in Links \union Tokens :
             <<how, x>> \in Origin
        BY DEF Origin
    <3> QED
        BY <3>1, AuthAssumption
  <2> QED
      BY <1>1, <2>1 DEF Spent, Minting
<1>2. CASE origin[y] # None
  <2>1. /\ y \in Tokens => tokens'[y] # "unborn"
        /\ y \in Sessions => sessions'[y] # "unborn"
        /\ userOf'[y] = userOf[y]
      BY <1>2, RowsMoveForward DEF OriginsSpent, Spent
  <2> QED
      BY <2>1, RowsMoveForward DEF OriginsSpent, Spent
<1> QED
    BY <1>1, <1>2

\* What tokens and sessions were given for stays spent.
LEMMA OriginsSpentKept ==
    TypeOK /\ HeldRows /\ OriginsSpent /\ [Next]_vars => OriginsSpent'
<1> SUFFICES ASSUME TypeOK, HeldRows, OriginsSpent, [Next]_vars,
                    NEW y \in Tokens \union Sessions, origin'[y] # origin[y]
             PROVE  Spent(y)'
    BY OldStaysSpent DEF OriginsSpent
<1>1. ASSUME NEW h \in Requests, NEW n \in Tokens, GenerateTokenPair(h, n)
      PROVE  Spent(y)'
  <2>1. /\ tokens' = [tokens EXCEPT ![n] = "valid"] /\ links' = links
        /\ origin' = [origin EXCEPT ![n] = <<pc[h], item[h]>>]
        /\ userOf' = [userOf EXCEPT ![n] = who[h]]
        /\ tokens[n] = "unborn" /\ pc[h] \in Minting
      BY <1>1 DEF GenerateTokenPair
  <2>2. y = n /\ y \notin Sessions
      BY <2>1, AuthAssumption DEF TypeOK
  <2>3. /\ tokens'[n] # "unborn"
        /\ \A l \in Links : userOf'[l] = userOf[l]
        /\ \A p \in Tokens : tokens[p] \in {"revoked", "gone"} => tokens'[p] = tokens[p]
      BY <2>1, AuthAssumption DEF TypeOK
  <2>4. /\ \A l \in Links :
             /\ origin'[n] # <<"rotated", l>>
             /\ origin'[n] \in {<<"verified", l>>, <<"polled", l>>, <<"entered", l>>}
                  => links[l] \in {"used", "gone"} /\ userOf'[n] = userOf[l]
        /\ \A p \in Tokens :
             /\ origin'[n] # <<"verified", p>> /\ origin'[n] # <<"entered", p>>
             /\ origin'[n] = <<"rotated", p>> => tokens[p] \in {"revoked", "gone"}
      BY <2>1, NewIsOf
  <2> QED
      BY <2>1, <2>2, <2>3, <2>4 DEF Spent
<1>2. ASSUME NEW h \in Requests, NEW n \in Sessions, CreateAdminSession(h, n)
      PROVE  Spent(y)'
  <2>1. /\ tokens' = tokens /\ links' = links
        /\ pc[h] = "entered"
        /\ origin' = [origin EXCEPT ![n] = <<pc[h], item[h]>>]
        /\ userOf' = [userOf EXCEPT ![n] = who[h]]
      BY <1>2 DEF CreateAdminSession
  <2>2. y = n /\ y \notin Tokens
      BY <2>1, AuthAssumption DEF TypeOK
  <2>3. sessions'[n] # "unborn"
      BY <1>2 DEF CreateAdminSession, CleanedSessions, TypeOK
  <2>4. \A l \in Links : userOf'[l] = userOf[l]
      BY <2>1, AuthAssumption
  <2> QED
      BY <2>1, <2>2, <2>3, <2>4, NewIsOf DEF Spent
<1> QED
    BY <1>1, <1>2, HistoryGrows

\* Two requests, or a request and a token or session, for the same row contest it.
LEMMA ClaimsContestedKept ==
    TypeOK /\ HeldRows /\ OriginsSpent /\ ClaimsContested /\ [Next]_vars => ClaimsContested'
<1> SUFFICES ASSUME TypeOK, HeldRows, OriginsSpent, ClaimsContested, [Next]_vars,
                    NEW x \in Links \union Tokens, x \notin contested'
             PROVE  /\ \A h, q \in Requests : Claims(h, x)' /\ Claims(q, x)' => h = q
                    /\ \A h \in Requests, y \in Tokens \union Sessions :
                         ~ (Claims(h, x)' /\ Given(y, x)')
                    /\ \A y, z \in Tokens \union Sessions : Given(y, x)' /\ Given(z, x)' => y = z
    BY DEF ClaimsContested
<1>1. x \notin contested
    BY HistoryGrows
<1>2. /\ \A h, q \in Requests : Claims(h, x) /\ Claims(q, x) => h = q
      /\ \A h \in Requests, y \in Tokens \union Sessions : ~ (Claims(h, x) /\ Given(y, x))
      /\ \A y, z \in Tokens \union Sessions : Given(y, x) /\ Given(z, x) => y = z
    BY <1>1 DEF ClaimsContested
<1>3. ASSUME NEW h \in Requests, Claims(h, x)', ~ Claims(h, x)
      PROVE  /\ \A q \in Requests \ {h} : ~ Claims(q, x) /\ ~ Claims(q, x)'
             /\ \A y \in Tokens \union Sessions : ~ Given(y, x)
             /\ UNCHANGED origin
  <2>1. \/ x \in Links /\ (VerifyMagicLink(h, x) \/ AdminVerify(h, x))
        \/ x \in Tokens /\ Refresh(h, x) /\ tokens[x] = "valid"
    <3>1. \/ \E l \in Links : VerifyMagicLink(h, l) \/ AdminVerify(h, l)
          \/ \E t \in Tokens : Refresh(h, t)
      <4>1. ~ (pc'[h] = pc[h] /\ item'[h] = item[h])
          BY <1>3 DEF Claims
      <4>2. pc'[h] \notin {"idle", "link", "adminLink", "reuse", "logout"}
          BY <1>3 DEF Claims
      <4>3. ~ \E l \in Links : PollAuth(h, l)
          BY <1>3 DEF Claims, PollAuth, Begin, TypeOK
      <4>4. ~ MarkMagicTokenUsed(h)
          BY <1>3 DEF Claims, MarkMagicTokenUsed, TypeOK
      <4>5. ~ (pc[h] = "rotate" /\ RevokeRefreshToken(h))
          BY <1>3 DEF Claims, RevokeRefreshToken, TypeOK
      <4> QED
          BY <4>1, <4>2, <4>3, <4>4, <4>5, HandlerSteps DEF handlers
    <3> QED
        BY <1>3, <3>1 DEF Claims, VerifyMagicLink, AdminVerify, Refresh, Begin, TypeOK
  <2>2. \A q \in Requests \ {h} : pc'[q] = pc[q] /\ item'[q] = item[q]
      BY <2>1 DEF VerifyMagicLink, AdminVerify, Refresh, Begin, TypeOK
  <2>3. UNCHANGED origin /\ pc[h] = "idle"
      BY <2>1 DEF VerifyMagicLink, AdminVerify, Refresh, Begin, Contest, history
  <2>4. \A q \in Requests : ~ (pc[q] \in {"mark", "adminMark", "rotate"} /\ item[q] = x)
      BY <2>1 DEF VerifyMagicLink, AdminVerify, Refresh, Contest
  <2>5. \/ x \in Links /\ links[x] = "fresh"
        \/ x \in Tokens /\ tokens[x] = "valid"
      BY <2>1 DEF VerifyMagicLink, AdminVerify
  <2>6. \A q \in Requests : ~ (pc[q] \in {"verified", "entered", "rotated"} /\ item[q] = x)
    <3>1. CASE x \in Links /\ links[x] = "fresh"
        BY <3>1, AuthAssumption DEF HeldRows, TypeOK
    <3>2. CASE x \in Tokens /\ tokens[x] = "valid"
        BY <3>2, AuthAssumption DEF HeldRows, TypeOK
    <3> QED
        BY <2>5, <3>1, <3>2
  <2>7. \A y \in Tokens \union Sessions : ~ Given(y, x)
    <3>1. CASE x \in Links /\ links[x] = "fresh"
        BY <3>1 DEF Given, OriginsSpent, Spent
    <3>2. CASE x \in Tokens /\ tokens[x] = "valid"
        BY <3>2 DEF Given, OriginsSpent, Spent
    <3> QED
        BY <2>5, <3>1, <3>2
  <2> QED
      BY <2>2, <2>3, <2>4, <2>6, <2>7 DEF Claims
<1>4. ASSUME NEW n \in Tokens \union Sessions, Given(n, x)', ~ Given(n, x)
      PROVE  /\ \A y \in (Tokens \union Sessions) \ {n} : ~ Given(y, x)'
             /\ \A q \in Requests : ~ Claims(q, x)'
  <2>1. PICK h \in Requests, m \in Tokens \union Sessions :
             /\ pc[h] \in Minting \union {"entered"}
             /\ origin' = [origin EXCEPT ![m] = <<pc[h], item[h]>>]
             /\ Finish(h)
    <3>1. CASE UNCHANGED origin
        BY <1>4, <3>1 DEF Given
    <3>2. CASE \E h \in Requests, t \in Tokens : GenerateTokenPair(h, t)
        BY <3>2 DEF GenerateTokenPair
    <3>3. CASE \E h \in Requests, y \in Sessions : CreateAdminSession(h, y)
        BY <3>3 DEF CreateAdminSession
    <3> QED
        BY <3>1, <3>2, <3>3, HistoryGrows
  <2>2. \A y \in Tokens \union Sessions : y # m => origin'[y] = origin[y]
      BY <2>1 DEF TypeOK
  <2>3. m = n
      BY <1>4, <2>2 DEF Given
  <2>4. origin'[n] = <<pc[h], item[h]>>
      BY <2>1, <2>3 DEF TypeOK
  <2>5. Claims(h, x)
      BY <1>4, <2>1, <2>4 DEF Given, Claims
  <2>6. pc'[h] = "idle" /\ \A q \in Requests \ {h} : pc'[q] = pc[q] /\ item'[q] = item[q]
      BY <2>1 DEF Finish, TypeOK
  <2>7. \A y \in Tokens \union Sessions : ~ Given(y, x)
      BY <1>2, <2>5
  <2>8. \A q \in Requests \ {h} : ~ Claims(q, x)
      BY <1>2, <2>5
  <2> QED
      BY <2>2, <2>3, <2>6, <2>7, <2>8 DEF Given, Claims
<1> QED
    BY <1>2, <1>3, <1>4

\* Tokens that theft detection has found stay dead and unexchanged.
LEMMA SweptDeadKept ==
    TypeOK /\ HeldRows /\ OriginsSpent /\ SweptDead /\ [Next]_vars => SweptDead'
<1> SUFFICES ASSUME TypeOK, HeldRows, OriginsSpent, SweptDead, [Next]_vars,
                    NEW p \in swept'
             PROVE  /\ tokens'[p] \in {"revoked", "gone"}
                    /\ \A h \in Requests : pc'[h] \in {"rotate", "rotated"} => item'[h] # p
                    /\ \A t \in Tokens : origin'[t] # <<"rotated", p>>
    BY DEF SweptDead
<1>1. CASE p \in swept
  <2>1. /\ tokens[p] \in {"revoked", "gone"} /\ p \in Tokens
        /\ \A h \in Requests : pc[h] \in {"rotate", "rotated"} => item[h] # p
        /\ \A t \in Tokens : origin[t] # <<"rotated", p>>
      BY <1>1 DEF SweptDead, TypeOK
  <2>2. tokens'[p] \in {"revoked", "gone"}
      BY <2>1, RowsMoveForward
  <2>3. ASSUME NEW h \in Requests, pc'[h] \in {"rotate", "rotated"}, item'[h] = p
        PROVE  FALSE
    <3>1. CASE \E t \in Tokens : Refresh(h, t)
        BY <2>1, <2>3, <3>1 DEF Refresh, Begin, TypeOK
    <3>2. CASE \E l \in Links : VerifyMagicLink(h, l) \/ AdminVerify(h, l) \/ PollAuth(h, l)
        BY <2>3, <3>2 DEF VerifyMagicLink, AdminVerify, PollAuth, Begin, TypeOK
    <3>3. CASE MarkMagicTokenUsed(h)
        BY <2>3, <3>3 DEF MarkMagicTokenUsed, Marked, TypeOK
    <3>4. CASE pc[h] = "rotate" /\ RevokeRefreshToken(h)
        BY <2>1, <2>3, <3>4 DEF RevokeRefreshToken, TypeOK
    <3>5. CASE pc'[h] = pc[h] /\ item'[h] = item[h]
        BY <2>1, <2>3, <3>5
    <3> QED
        BY <2>3, <3>1, <3>2, <3>3, <3>4, <3>5, HandlerSteps DEF handlers
  <2>4. \A t \in Tokens : origin'[t] # <<"rotated", p>>
    <3>1. CASE UNCHANGED origin
        BY <2>1, <3>1
    <3>2. ASSUME NEW h \in Requests, NEW n \in Tokens, GenerateTokenPair(h, n)
          PROVE  \A t \in Tokens : origin'[t] # <<"rotated", p>>
      <4>1. origin' = [origin EXCEPT ![n] = <<pc[h], item[h]>>]
          BY <3>2 DEF GenerateTokenPair
      <4>2. <<pc[h], item[h]>> # <<"rotated", p>>
          BY <2>1
      <4> QED
          BY <2>1, <4>1, <4>2 DEF TypeOK
    <3>3. ASSUME NEW h \in Requests, NEW n \in Sessions, CreateAdminSession(h, n)
          PROVE  \A t \in Tokens : origin'[t] # <<"rotated", p>>
      <4>1. origin' = [origin EXCEPT ![n] = <<"entered", item[h]>>]
          BY <3>3 DEF CreateAdminSession
      <4> QED
          BY <2>1, <4>1 DEF TypeOK
    <3> QED
        BY <3>1, <3>2, <3>3, HistoryGrows
  <2> QED
      BY <2>2, <2>3, <2>4
<1>2. CASE p \notin swept
  <2>1. PICK h \in Requests : RevokeAllRefreshTokens(h)
      BY <1>2, HistoryGrows
  <2>2. /\ p \in TokensOf(who[h]) /\ tokens[p] = "valid"
        /\ \A q \in Requests : ~ (pc[q] = "rotate" /\ item[q] = p)
      BY <1>2, <2>1 DEF RevokeAllRefreshTokens, Sweep
  <2>3. p \in Tokens
      BY <2>2 DEF TokensOf
  <2>4. tokens'[p] = "revoked"
      BY <2>1, <2>2, <2>3 DEF RevokeAllRefreshTokens, Revoked
  <2>5. \A q \in Requests : ~ (pc[q] = "rotated" /\ item[q] = p)
      BY <2>2, <2>3 DEF HeldRows
  <2>6. \A q \in Requests : pc'[q] \in {"rotate", "rotated"} => pc'[q] = pc[q] /\ item'[q] = item[q]
      BY <2>1 DEF RevokeAllRefreshTokens, Finish, TypeOK
  <2>7. origin' = origin /\ \A t \in Tokens : origin[t] # <<"rotated", p>>
      BY <2>1, <2>2, <2>3 DEF RevokeAllRefreshTokens, Sweep, OriginsSpent, Spent
  <2> QED
      BY <2>2, <2>4, <2>5, <2>6, <2>7
<1> QED
    BY <1>1, <1>2

-----------------------------------------------------------------------------
(* The theorems.                                                           *)

IInv == TypeOK /\ HeldRows /\ OriginsSpent /\ ClaimsContested /\ SweptDead

\* The inductive invariant holds in every reachable state.
THEOREM Invariant == Spec => []IInv
<1>1. Init => IInv
  <2> SUFFICES ASSUME Init
               PROVE  HeldRows /\ OriginsSpent /\ ClaimsContested /\ SweptDead
      BY InitTyped DEF IInv
  <2>1. \A y \in Tokens \union Sessions, x \in Links \union Tokens,
           how \in Minting \union {"entered"} : origin[y] # <<how, x>>
    <3>1. \A x \in Links \union Tokens, how \in Minting \union {"entered"} :
             <<how, x>> \in Origin
        BY DEF Origin
    <3> QED
        BY <3>1, AuthAssumption DEF Init
  <2>2. OriginsSpent
      BY <2>1 DEF Init, OriginsSpent, Spent, Minting
  <2>3. \A y \in Tokens \union Sessions, x \in Links \union Tokens : ~ Given(y, x)
      BY <2>1 DEF Given, Minting
  <2> QED
      BY <2>2, <2>3 DEF Init, HeldRows, ClaimsContested, Claims, SweptDead
<1>2. IInv /\ [Next]_vars => IInv'
    BY NextTyped, HeldRowsKept, OriginsSpentKept, ClaimsContestedKept, SweptDeadKept DEF IInv
<1> QED
    BY <1>1, <1>2, PTL DEF Spec

\* Opening a link or refreshing with a token gives one token or session and no second
\* one, unless two requests found it unused before either had marked it.  What is
\* polled for is not counted.
THEOREM UsedOnce == Spec => []OneUse
<1>1. IInv => OneUse
  <2> SUFFICES ASSUME IInv, NEW y \in Tokens \union Sessions, NEW z \in Tokens \union Sessions,
                      y # z, origin[y] # None, origin[z] # None,
                      origin[y][1] # "polled", origin[z][1] # "polled",
                      origin[y][2] = origin[z][2]
               PROVE  origin[y][2] \in contested
      BY DEF OneUse
  <2>1. origin[y] \in Origin /\ origin[z] \in Origin
      BY DEF IInv, TypeOK
  <2>2. ASSUME NEW v \in Tokens \union Sessions, origin[v] \in Origin,
               origin[v][1] # "polled"
        PROVE  origin[v][2] \in Links \union Tokens /\ Given(v, origin[v][2])
      BY <2>2 DEF Origin, Given, Minting
  <2> QED
      BY <2>1, <2>2 DEF IInv, ClaimsContested
<1> QED
    BY <1>1, Invariant, PTL

\* A token that a refresh has replaced is dead.
THEOREM ReplacedIsDead == Spec => []RotationRetires
<1>1. IInv => RotationRetires
    BY DEF IInv, OriginsSpent, Spent, RotationRetires
<1> QED
    BY <1>1, Invariant, PTL

\* Tokens and admin sessions come only from links that were opened, for their user.
THEOREM LoginNeedsOpenedLink == Spec => []OnlyOpenedLinksLogIn
<1>1. IInv => OnlyOpenedLinksLogIn
    BY DEF IInv, OriginsSpent, Spent, OnlyOpenedLinksLogIn
<1> QED
    BY <1>1, Invariant, PTL

\* The tokens that theft detection finds are dead for good and never exchanged.
THEOREM TheftEndsThem == Spec => []TheftEndsSessions
<1>1. IInv => TheftEndsSessions
    BY DEF IInv, SweptDead, TheftEndsSessions
<1> QED
    BY <1>1, Invariant, PTL

\* Whatever was in progress when an account was deleted, it has no link, token or
\* admin session.
THEOREM DeletedStaysOut == Spec => []DeletionEndsSessions
<1>1. Init => DeletionEndsSessions
    BY DEF Init, DeletionEndsSessions
<1>2. TypeOK /\ DeletionEndsSessions /\ [Next]_vars => DeletionEndsSessions'
  <2> SUFFICES ASSUME TypeOK, DeletionEndsSessions, [Next]_vars
               PROVE  DeletionEndsSessions'
      OBVIOUS
  <2> USE DEF TypeOK, DeletionEndsSessions, handlers, rows
  <2>1. ASSUME NEW h \in Requests, Handle(h)
        PROVE  DeletionEndsSessions'
    <3>1. ASSUME NEW u \in Users, RequestMagicLink(h, u) \/ LoginSubmit(h, u)
          PROVE  DeletionEndsSessions'
        BY <3>1 DEF RequestMagicLink, LoginSubmit
    <3>2. ASSUME NEW l \in Links, CreateMagicToken(h, l)
          PROVE  DeletionEndsSessions'
        BY <3>2, AuthAssumption DEF CreateMagicToken
    <3>3. ASSUME NEW t \in Tokens, GenerateTokenPair(h, t)
          PROVE  DeletionEndsSessions'
        BY <3>3, AuthAssumption DEF GenerateTokenPair, HasAccount
    <3>4. ASSUME NEW x \in Sessions, CreateAdminSession(h, x)
          PROVE  DeletionEndsSessions'
      <4>1. /\ accounts[who[h]] = "live" /\ userOf' = [userOf EXCEPT ![x] = who[h]]
            /\ UNCHANGED <<accounts, links, tokens>>
          BY <3>4 DEF CreateAdminSession, HasAccount
      <4>2. \A y \in Sessions : y # x => sessions'[y] \in {sessions[y], "gone"}
          BY <3>4 DEF CreateAdminSession, CleanedSessions
      <4> QED
          BY <4>1, <4>2, AuthAssumption
    <3>5. CASE MarkMagicTokenUsed(h)
        BY <3>5 DEF MarkMagicTokenUsed
    <3>6. CASE RevokeRefreshToken(h) \/ RevokeAllRefreshTokens(h)
        BY <3>6 DEF RevokeRefreshToken, RevokeAllRefreshTokens, Revoked
    <3>7. CASE UNCHANGED <<accounts, rows>>
        BY <3>7
    <3> QED
        BY <2>1, <3>1, <3>2, <3>3, <3>4, <3>5, <3>6, <3>7
        DEF Handle, VerifyMagicLink, AdminVerify, PollAuth, Refresh, Logout, Fails
  <2>2. ASSUME NEW l \in Links, Expire(l)
        PROVE  DeletionEndsSessions'
      BY <2>2 DEF Expire
  <2>3. CASE CleanExpiredMagicTokens
      BY <2>3 DEF CleanExpiredMagicTokens
  <2>4. CASE CleanRevokedRefreshTokens
      BY <2>4 DEF CleanRevokedRefreshTokens
  <2>5. ASSUME NEW u \in Users, DeleteMe(u)
        PROVE  DeletionEndsSessions'
    <3>1. \A t \in Tokens : tokens'[t] \in {"valid", "revoked"} => accounts'[userOf[t]] = "live"
        BY <2>5 DEF DeleteMe
    <3>2. \A l \in Links : links'[l] \in {"fresh", "used"} => accounts'[userOf[l]] = "live"
        BY <2>5 DEF DeleteMe
    <3>3. \A x \in Sessions :
             sessions'[x] \in {"live", "expired"} => accounts'[userOf[x]] = "live"
        BY <2>5 DEF DeleteMe
    <3> QED
        BY <2>5, <3>1, <3>2, <3>3 DEF DeleteMe
  <2>6. CASE CleanExpiredAdminSessions
      BY <2>6 DEF CleanExpiredAdminSessions, CleanedSessions
  <2>7. ASSUME NEW x \in Sessions, ExpireSession(x) \/ AdminLogout(x)
        PROVE  DeletionEndsSessions'
      BY <2>7 DEF ExpireSession, AdminLogout
  <2>8. CASE UNCHANGED vars
      BY <2>8 DEF vars
  <2> QED
      BY <2>1, <2>2, <2>3, <2>4, <2>5, <2>6, <2>7, <2>8 DEF Next
<1> QED
    BY <1>1, <1>2, TypeCorrect, PTL DEF Spec
=============================================================================
