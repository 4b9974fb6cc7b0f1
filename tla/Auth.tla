-------------------------------- MODULE Auth --------------------------------
(***************************************************************************)
(* Login links and sessions (internal/handler/auth.go and the login of     *)
(* internal/admin/handler.go): a link is mailed, opening it or polling for *)
(* it gives a refresh token, refreshing gives a new token for the old one, *)
(* and a token that comes back revokes all.  The admin's page has links in *)
(* the same table: the admin opens them at another address for a session.  *)
(* Each handler reads the row it is about, then writes with statements     *)
(* that do not look again; hourly clean-up, expiry and account deletion    *)
(* happen in between.                                                      *)
(*                                                                         *)
(* A link is a row of magic_tokens with its token and perhaps a poll token,*)
(* a token a row of refresh_tokens, a session one of admin_sessions.  All  *)
(* are random and never given out twice.  Whether an answer or a mail      *)
(* arrives makes no difference: one that does not is one nobody uses.      *)
(***************************************************************************)
EXTENDS Naturals, FiniteSets

CONSTANTS
    Users,                 \* account ids, a new one for each registration
    AdminUsers,            \* those registered with the admin's address
    Links, Tokens, Sessions,   \* random values to come
    Requests,              \* slots for handlers in progress
    None

\* The steps that give a token or a session, and what it is given for.
Minting == {"verified", "polled", "rotated"}
Origin == (Minting \union {"entered"}) \X (Links \union Tokens)

ASSUME AuthAssumption ==
    /\ AdminUsers \subseteq Users
    /\ None \notin Users \union Links \union Tokens \union Origin
    /\ Links \intersect Tokens = {}
    /\ Sessions \intersect (Links \union Tokens) = {}

VARIABLES
    accounts,    \* user id: "none", "live" or "deleted"
    links,       \* state of a link: unsent, fresh, used, or gone from the table
    pollable,    \* of them, those with a poll token: the app has asked for them
    expired,     \* of them, those whose expires_at is past
    tokens,      \* state of a refresh token: unborn, valid, revoked, or gone
    sessions,    \* state of an admin session: unborn, live, expired, or gone
    userOf,      \* user_id of a link, token or session
    pc,          \* of a handler: what it is about to do
    item, who,   \* the row it has read, and the user of that row
    origin,      \* history: what it was given for, <<how, link or token>>
    contested,   \* history: the links and tokens that two handlers found unused
    swept        \* history: the tokens that theft detection has found valid

handlers == <<pc, item, who>>
rows == <<links, pollable, expired, tokens, sessions, userOf>>
history == <<origin, contested, swept>>
vars == <<accounts, rows, handlers, history>>

Steps == {"idle", "link", "adminLink", "mark", "adminMark", "rotate", "reuse", "logout",
          "verified", "polled", "rotated", "entered"}

\* Every variable has its type.
TypeOK ==
    /\ accounts \in [Users -> {"none", "live", "deleted"}]
    /\ links \in [Links -> {"unsent", "fresh", "used", "gone"}]
    /\ {pollable, expired} \subseteq SUBSET Links
    /\ sessions \in [Sessions -> {"unborn", "live", "expired", "gone"}]
    /\ tokens \in [Tokens -> {"unborn", "valid", "revoked", "gone"}]
    /\ userOf \in [Links \union Tokens \union Sessions -> Users \union {None}]
    /\ pc \in [Requests -> Steps]
    /\ item \in [Requests -> Links \union Tokens \union {None}]
    /\ who \in [Requests -> Users \union {None}]
    /\ origin \in [Tokens \union Sessions -> Origin \union {None}]
    /\ contested \subseteq Links \union Tokens
    /\ swept \subseteq Tokens
    /\ \A l \in pollable \union expired : links[l] \in {"fresh", "used"}
    /\ \A l \in Links : links[l] # "unsent" => userOf[l] \in Users
    /\ \A t \in Tokens : tokens[t] # "unborn" => userOf[t] \in Users
    /\ \A x \in Sessions : sessions[x] # "unborn" => userOf[x] \in Users
    /\ \A h \in Requests :
         /\ pc[h] # "idle" => who[h] \in Users
         /\ pc[h] \in {"mark", "adminMark", "verified", "polled", "entered"}
              => item[h] \in Links /\ links[item[h]] # "unsent"
         /\ pc[h] \in {"rotate", "rotated", "logout"}
              => item[h] \in Tokens /\ tokens[item[h]] # "unborn"

Init ==
    /\ accounts = [u \in Users |-> "none"]
    /\ links = [l \in Links |-> "unsent"]
    /\ pollable = {}
    /\ expired = {}
    /\ tokens = [t \in Tokens |-> "unborn"]
    /\ sessions = [x \in Sessions |-> "unborn"]
    /\ userOf = [x \in Links \union Tokens \union Sessions |-> None]
    /\ pc = [h \in Requests |-> "idle"]
    /\ item = [h \in Requests |-> None]
    /\ who = [h \in Requests |-> None]
    /\ origin = [x \in Tokens \union Sessions |-> None]
    /\ contested = {}
    /\ swept = {}

-----------------------------------------------------------------------------

\* Mutant: the handler does not keep the user of the row.
BeginUserless(h, x, u, step) ==
    /\ pc[h] = "idle"
    /\ pc' = [pc EXCEPT ![h] = step]
    /\ item' = [item EXCEPT ![h] = x]
    /\ UNCHANGED who

\* A handler has read the row x and goes on with the given step.
Begin(h, x, u, step) ==
    /\ pc[h] = "idle"
    /\ pc' = [pc EXCEPT ![h] = step]
    /\ item' = [item EXCEPT ![h] = x]
    /\ who' = [who EXCEPT ![h] = u]

Finish(h) ==
    /\ pc' = [pc EXCEPT ![h] = "idle"]
    /\ item' = [item EXCEPT ![h] = None]
    /\ who' = [who EXCEPT ![h] = None]

\* A statement fails: an error, or, where the code ignores it, a normal answer.
Fails(h) ==
    /\ pc[h] # "idle"
    /\ Finish(h)
    /\ UNCHANGED <<accounts, rows, history>>

\* Another handler has found x unused as well, and is about to use it.
Contest(x) ==
    /\ contested' = contested \union
          {y \in {x} : \E q \in Requests : pc[q] \in {"mark", "adminMark", "rotate"} /\ item[q] = y}
    /\ UNCHANGED <<origin, swept>>

-----------------------------------------------------------------------------
(* RequestMagicLink, and LoginSubmit of the admin's page: GetOrCreateUser, *)
(* then the link.                                                          *)

\* Bound: a link is asked for only while there is a name for it.
MoreLinks ==
    Cardinality({h \in Requests : pc[h] \in {"link", "adminLink"}})
      < Cardinality({l \in Links : links[l] = "unsent"})

RequestMagicLink(h, u) ==
    /\ MoreLinks
    /\ accounts[u] # "deleted"
    /\ Begin(h, None, u, "link")
    /\ accounts' = [accounts EXCEPT ![u] = "live"]
    /\ UNCHANGED <<rows, history>>

\* Any other address gets the same answer, and nothing else.
LoginSubmit(h, u) ==
    /\ MoreLinks
    /\ u \in AdminUsers
    /\ accounts[u] # "deleted"
    /\ Begin(h, None, u, "adminLink")
    /\ accounts' = [accounts EXCEPT ![u] = "live"]
    /\ UNCHANGED <<rows, history>>

\* CreateMagicToken, or CreateMagicTokenWithPoll for the app.
CreateMagicToken(h, l) ==
    /\ pc[h] \in {"link", "adminLink"}
    /\ accounts[who[h]] = "live"
    /\ links[l] = "unsent"
    /\ links' = [links EXCEPT ![l] = "fresh"]
    /\ pollable' = IF pc[h] = "link" THEN pollable \union {l} ELSE pollable
    /\ userOf' = [userOf EXCEPT ![l] = who[h]]
    /\ Finish(h)
    /\ UNCHANGED <<accounts, expired, tokens, sessions, history>>

-----------------------------------------------------------------------------
(* VerifyMagicLink, Verify of the admin's page, and PollAuth.              *)

\* GetMagicToken: either address opens either kind of link.
VerifyMagicLink(h, l) ==
    /\ links[l] = "fresh"
    /\ l \notin expired
    /\ Begin(h, l, userOf[l], "mark")
    /\ Contest(l)
    /\ UNCHANGED <<accounts, rows>>

AdminVerify(h, l) ==
    /\ links[l] = "fresh"
    /\ l \notin expired
    /\ Begin(h, l, userOf[l], "adminMark")
    /\ Contest(l)
    /\ UNCHANGED <<accounts, rows>>

Marked(step) == IF step = "mark" THEN "verified" ELSE "entered"

\* Mutant: the link is not marked.
MarkNothing(h) ==
    /\ pc[h] \in {"mark", "adminMark"}
    /\ pc' = [pc EXCEPT ![h] = Marked(@)]
    /\ UNCHANGED <<accounts, rows, item, who, history>>

\* An UPDATE that succeeds also when the row is gone.
MarkMagicTokenUsed(h) ==
    /\ pc[h] \in {"mark", "adminMark"}
    /\ pc' = [pc EXCEPT ![h] = Marked(@)]
    /\ links' = [links EXCEPT ![item[h]] = IF @ = "gone" THEN "gone" ELSE "used"]
    /\ UNCHANGED <<accounts, pollable, expired, tokens, sessions, userOf, item, who, history>>

\* Mutant: whether the link was opened is not asked.
PollAnyLink(h, l) ==
    /\ links[l] \in {"fresh", "used"}
    /\ l \in pollable \ expired
    /\ Begin(h, l, userOf[l], "polled")
    /\ UNCHANGED <<accounts, rows, history>>

\* Before the link is opened, the answer is "pending".
PollAuth(h, l) ==
    /\ links[l] = "used"
    /\ l \in pollable \ expired
    /\ Begin(h, l, userOf[l], "polled")
    /\ UNCHANGED <<accounts, rows, history>>

\* Mutant: user_id has no foreign key and the user is not read.
HasAccountUnchecked(h) == TRUE

\* GetUserByID, and then the foreign key.
HasAccount(h) == accounts[who[h]] = "live"

CleanedSessions(S) == [x \in Sessions |-> IF S[x] = "expired" THEN "gone" ELSE S[x]]

\* The user is read after the link was marked: somebody else's link is spent for
\* nothing.  Old sessions are cleaned at the end, and an error of that ignored.
CreateAdminSession(h, x) ==
    LET created == [sessions EXCEPT ![x] = "live"]
    IN /\ pc[h] = "entered"
       /\ who[h] \in AdminUsers
       /\ HasAccount(h)
       /\ sessions[x] = "unborn"
       /\ sessions' \in {created, CleanedSessions(created)}
       /\ userOf' = [userOf EXCEPT ![x] = who[h]]
       /\ origin' = [origin EXCEPT ![x] = <<"entered", item[h]>>]
       /\ Finish(h)
       /\ UNCHANGED <<accounts, links, pollable, expired, tokens, contested, swept>>

\* RequireSession has let the request in.
AdminLogout(x) ==
    /\ sessions[x] = "live"
    /\ sessions' = [sessions EXCEPT ![x] = "gone"]
    /\ UNCHANGED <<accounts, links, pollable, expired, tokens, userOf, handlers, history>>

-----------------------------------------------------------------------------
(* Refresh and Logout.                                                     *)

Refresh(h, t) ==
    /\ tokens[t] \in {"valid", "revoked"}
    /\ IF tokens[t] = "revoked"
       THEN Begin(h, t, userOf[t], "reuse") /\ UNCHANGED history
       ELSE Begin(h, t, userOf[t], "rotate") /\ Contest(t)
    /\ UNCHANGED <<accounts, rows>>

\* With a revoked token, nothing changes.
Logout(h, t) ==
    /\ tokens[t] = "valid"
    /\ Begin(h, t, userOf[t], "logout")
    /\ UNCHANGED <<accounts, rows, history>>

Revoked(T) == [t \in Tokens |-> IF t \in T /\ tokens[t] = "valid" THEN "revoked" ELSE tokens[t]]

\* Mutant: only a logout revokes.
RevokeOnLogout(h) ==
    /\ \/ pc[h] = "rotate" /\ pc' = [pc EXCEPT ![h] = "rotated"]
            /\ UNCHANGED <<item, who, tokens>>
       \/ pc[h] = "logout" /\ Finish(h) /\ tokens' = Revoked({item[h]})
    /\ UNCHANGED <<accounts, links, pollable, expired, sessions, userOf, history>>

RevokeRefreshToken(h) ==
    /\ \/ pc[h] = "rotate" /\ pc' = [pc EXCEPT ![h] = "rotated"] /\ UNCHANGED <<item, who>>
       \/ pc[h] = "logout" /\ Finish(h)
    /\ tokens' = Revoked({item[h]})
    /\ UNCHANGED <<accounts, links, pollable, expired, sessions, userOf, history>>

TokensOf(u) == {t \in Tokens : tokens[t] # "unborn" /\ userOf[t] = u}

\* For the history: a theft has been detected, and the tokens of u are to end, but
\* for one that a refresh has read and is about to replace.
Sweep(u) ==
    /\ swept' = swept \union
          {t \in TokensOf(u) :
             /\ tokens[t] = "valid"
             /\ ~ \E q \in Requests : pc[q] = "rotate" /\ item[q] = t}
    /\ UNCHANGED <<origin, contested>>

\* Mutant: only the token that came back is revoked.
RevokeReused(h) ==
    /\ pc[h] = "reuse"
    /\ tokens' = Revoked({item[h]})
    /\ Sweep(who[h])
    /\ Finish(h)
    /\ UNCHANGED <<accounts, links, pollable, expired, sessions, userOf>>

RevokeAllRefreshTokens(h) ==
    /\ pc[h] = "reuse"
    /\ tokens' = Revoked(TokensOf(who[h]))
    /\ Sweep(who[h])
    /\ Finish(h)
    /\ UNCHANGED <<accounts, links, pollable, expired, sessions, userOf>>

-----------------------------------------------------------------------------
(* generateTokenPair, at the end of a login, a poll or a refresh.          *)

GenerateTokenPair(h, t) ==
    /\ pc[h] \in Minting
    /\ HasAccount(h)
    /\ tokens[t] = "unborn"
    /\ tokens' = [tokens EXCEPT ![t] = "valid"]
    /\ userOf' = [userOf EXCEPT ![t] = who[h]]
    /\ origin' = [origin EXCEPT ![t] = <<pc[h], item[h]>>]
    /\ Finish(h)
    /\ UNCHANGED <<accounts, links, pollable, expired, sessions, contested, swept>>

-----------------------------------------------------------------------------
(* Time, maintenance, and the end of an account.                           *)

Expire(l) ==
    /\ links[l] \in {"fresh", "used"}
    /\ expired' = expired \union {l}
    /\ UNCHANGED <<accounts, links, pollable, tokens, sessions, userOf, handlers, history>>

ExpireSession(x) ==
    /\ sessions[x] = "live"
    /\ sessions' = [sessions EXCEPT ![x] = "expired"]
    /\ UNCHANGED <<accounts, links, pollable, expired, tokens, userOf, handlers, history>>

CleanExpiredMagicTokens ==
    /\ links' = [l \in Links |->
                   IF links[l] = "used" \/ l \in expired THEN "gone" ELSE links[l]]
    /\ pollable' = {l \in pollable : links[l] = "fresh"} \ expired
    /\ expired' = {}
    /\ UNCHANGED <<accounts, tokens, sessions, userOf, handlers, history>>

CleanRevokedRefreshTokens ==
    /\ tokens' = [t \in Tokens |-> IF tokens[t] = "revoked" THEN "gone" ELSE tokens[t]]
    /\ UNCHANGED <<accounts, links, pollable, expired, sessions, userOf, handlers, history>>

CleanExpiredAdminSessions ==
    /\ sessions' = CleanedSessions(sessions)
    /\ UNCHANGED <<accounts, links, pollable, expired, tokens, userOf, handlers, history>>

\* Links, tokens and sessions go with the account.
DeleteMe(u) ==
    /\ accounts[u] = "live"
    /\ accounts' = [accounts EXCEPT ![u] = "deleted"]
    /\ links' = [l \in Links |-> IF userOf[l] = u THEN "gone" ELSE links[l]]
    /\ tokens' = [t \in Tokens |-> IF userOf[t] = u THEN "gone" ELSE tokens[t]]
    /\ sessions' = [x \in Sessions |-> IF userOf[x] = u THEN "gone" ELSE sessions[x]]
    /\ pollable' = {l \in pollable : userOf[l] # u}
    /\ expired' = {l \in expired : userOf[l] # u}
    /\ UNCHANGED <<userOf, handlers, history>>

-----------------------------------------------------------------------------

Handle(h) ==
    \/ \E u \in Users : RequestMagicLink(h, u) \/ LoginSubmit(h, u)
    \/ \E l \in Links : CreateMagicToken(h, l) \/ VerifyMagicLink(h, l)
                          \/ AdminVerify(h, l) \/ PollAuth(h, l)
    \/ \E t \in Tokens : Refresh(h, t) \/ Logout(h, t) \/ GenerateTokenPair(h, t)
    \/ \E x \in Sessions : CreateAdminSession(h, x)
    \/ MarkMagicTokenUsed(h) \/ RevokeRefreshToken(h) \/ RevokeAllRefreshTokens(h)
    \/ Fails(h)

Next ==
    \/ \E h \in Requests : Handle(h)
    \/ \E l \in Links : Expire(l)
    \/ \E x \in Sessions : ExpireSession(x) \/ AdminLogout(x)
    \/ CleanExpiredMagicTokens \/ CleanRevokedRefreshTokens \/ CleanExpiredAdminSessions
    \/ \E u \in Users : DeleteMe(u)

Spec == Init /\ [][Next]_vars

-----------------------------------------------------------------------------
(* Properties.                                                             *)

\* Opening a login link, wherever it is opened, and refreshing with a token give one
\* token or admin session and no second one, ever, unless two requests found the
\* link or token unused before either had marked it (auth.go, 82-181;
\* admin/handler.go, 84-174).  Polling is not counted: an app may poll an opened link
\* for more tokens until the link expires or is cleaned up (auth.go, 226-243).
OneUse ==
    \A x, y \in Tokens \union Sessions :
        /\ x # y
        /\ None \notin {origin[x], origin[y]}
        /\ "polled" \notin {origin[x][1], origin[y][1]}
        /\ origin[x][2] = origin[y][2]
        => origin[x][2] \in contested

\* The token that a refresh replaces is dead before the new one exists, however
\* the refresh interleaves with others (auth.go, 162-174).
RotationRetires ==
    \A t \in Tokens, p \in Tokens : origin[t] = <<"rotated", p>> => tokens[p] # "valid"

\* Nobody gets a token or an admin session for a link that was not opened and is
\* still in the mail, whether by the link or by polling, nor as another user than
\* the link's (auth.go, 95-101 and 226; admin/handler.go, 104-140).
OnlyOpenedLinksLogIn ==
    \A x \in Tokens \union Sessions, l \in Links :
        origin[x] \in {<<"verified", l>>, <<"polled", l>>, <<"entered", l>>}
          => links[l] \in {"used", "gone"} /\ userOf[x] = userOf[l]

\* Once its account is deleted, a user has no link, refresh token or admin session
\* again, whatever logins and refreshes were in progress (me.go, 31).
DeletionEndsSessions ==
    /\ \A t \in Tokens : tokens[t] \in {"valid", "revoked"} => accounts[userOf[t]] = "live"
    /\ \A l \in Links : links[l] \in {"fresh", "used"} => accounts[userOf[l]] = "live"
    /\ \A x \in Sessions : sessions[x] \in {"live", "expired"} => accounts[userOf[x]] = "live"

\* When a token has come back, the tokens that its user has are dead for good and
\* are never exchanged for another, whatever logins, refreshes and logouts were in
\* progress; only a refresh that had read its token before goes on (auth.go,
\* 155-160).
TheftEndsSessions ==
    \A p \in swept : tokens[p] # "valid" /\ \A t \in Tokens : origin[t] # <<"rotated", p>>

\* "can only be used once" (internal/email/smtp.go, 31): a login link.
LinkUsedOnce ==
    \A s, t \in Tokens :
        origin[s] # None /\ origin[s][1] = "verified" /\ origin[s] = origin[t] => s = t
=============================================================================
