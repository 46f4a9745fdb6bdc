------------------------------ MODULE Sessions ------------------------------
(***************************************************************************)
(* The sessions of one account.  A session lives in two tables: Django's   *)
(* Session row, which authenticates, and the UserSession record, which the *)
(* user sees in the list and revokes.  Views write them in statements that *)
(* commit one by one, and after every response SessionTrackingMiddleware   *)
(* writes the record once more, as valid, whatever happened meanwhile.     *)
(*                                                                         *)
(* Passwords are versions: set_password salts, so no two hashes are equal. *)
(* A request keeps, from its start to its end, the session and the user it *)
(* was authenticated with.                                                 *)
(***************************************************************************)
EXTENDS Naturals, FiniteSets

CONSTANTS
    Keys,        \* the session keys there will ever be
    NoKey,       \* the key of a request without a session
    Initial,     \* the sessions the account starts with
    Tokens,      \* the password reset tokens there will ever be
    Requests,    \* the requests, each served once
    Ops,         \* the operations the requests may ask for
    MaxVersion,  \* bound on the number of password changes
    MayInterrupt \* whether requests may be given up half way

SessionOps == {"visit", "list", "revoke", "logout", "change", "delete_account"}
AllOps     == SessionOps \cup {"login", "reset"}

ASSUME SessionAssumption ==
    /\ NoKey \notin Keys
    /\ Initial \subseteq Keys
    /\ Ops \subseteq AllOps
    /\ MaxVersion \in Nat
    /\ MayInterrupt \in BOOLEAN

VARIABLES
    account,   \* whether the User row is there
    password,  \* the version of the password in the User row
    versions,  \* how many have been set so far
    row,       \* each key's Session row, and whether it has expired
    hash,      \* the version of the password in the row
    record,    \* each key's UserSession record
    cookies,   \* the keys a client has been given
    tokens,    \* each PasswordResetToken
    req,       \* each request: what it does, how far it is, what it knows
    opened,    \* the version somebody proved to know when the key was made
    ended,     \* the keys that were revoked, logged out or replaced, to the end
    cut,       \* those whose ending was given up half way
    resets     \* how often each token has set a password

account_  == <<account, password, versions>>
session_  == <<row, hash, record, cookies>>
ghosts    == <<opened, ended, cut, resets>>
svars     == <<account_, session_, tokens, req, ghosts>>

Versions == 0 .. MaxVersion
Steps    == {"idle", "sync", "cleanup", "find", "mark", "drop", "audit", "leave", "flush",
             "erase", "change", "open", "track", "save", "token", "reset", "done"}

(* What a request knows: its session, the session it is to revoke, its user's *)
(* password.                                                                *)
Request == [op : AllOps \cup {"none"}, step : Steps, key : Keys \cup {NoKey},
            target : Keys \cup {NoKey}, knows : Versions, token : SUBSET Tokens]

Idle == [op |-> "none", step |-> "idle", key |-> NoKey, target |-> NoKey,
         knows |-> 0, token |-> {}]

SessionTypeOK ==
    /\ account \in BOOLEAN
    /\ password \in Versions /\ versions \in Versions
    /\ row \in [Keys -> {"unused", "live", "expired", "gone"}]
    /\ hash \in [Keys -> Versions] /\ opened \in [Keys -> Versions]
    /\ record \in [Keys -> {"none", "valid", "lapsed", "revoked"}]
    /\ cookies \subseteq Keys
    /\ tokens \in [Tokens -> {"none", "fresh", "used", "expired", "gone"}]
    /\ req \in [Requests -> Request]
    /\ ended \subseteq Keys /\ cut \subseteq Keys
    /\ resets \in [Tokens -> Nat]

SessionsInit ==
    /\ account = TRUE
    /\ password = 0
    /\ versions = 0
    /\ row = [k \in Keys |-> IF k \in Initial THEN "live" ELSE "unused"]
    /\ hash = [k \in Keys |-> 0]
    /\ record = [k \in Keys |-> IF k \in Initial THEN "valid" ELSE "none"]
    /\ cookies = Initial
    /\ tokens = [t \in Tokens |-> "none"]
    /\ req = [r \in Requests |-> Idle]
    /\ opened = [k \in Keys |-> 0]
    /\ ended = {}
    /\ cut = {}
    /\ resets = [t \in Tokens |-> 0]

----------------------------------------------------------------------------

At(r, step) == req[r].step = step

InFlight(r) == ~At(r, "idle") /\ ~At(r, "done")

Goto(r, step) == req' = [req EXCEPT ![r].step = step]

Begin(r, request) ==
    /\ request.op \in Ops
    /\ At(r, "idle")
    /\ req' = [req EXCEPT ![r] = request]

(* AuthenticationMiddleware: an unexpired row, whose hash is the user's.    *)
RequestAuthenticates(k) == account /\ row[k] = "live" /\ hash[k] = password

(* The socket asks for the row alone: it does not look at expire_date.      *)
SocketAuthenticates(k) == account /\ row[k] \in {"live", "expired"} /\ hash[k] = password

(* Postgres keeps the rows a reset has locked, until it commits.            *)
Locked(t) == \E r \in Requests : At(r, "reset") /\ t \in req[r].token
UserFree  == \A t \in Tokens : ~Locked(t)

(* Broken variant: sync_session_record before the session is saved, and not *)
(* by the middleware.                                                       *)
SyncNothing(k, previous) == UNCHANGED record

(* sync_session_record: the key's record is valid from now on, the previous *)
(* key's is not any more.                                                   *)
Sync(k, previous) ==
    record' = [j \in Keys |-> IF j = k THEN "valid"
                              ELSE IF j = previous /\ record[j] = "valid" THEN "revoked"
                              ELSE record[j]]

----------------------------------------------------------------------------
(* A request arrives with the cookie of a session.                          *)

FirstStep == [visit |-> "track", list |-> "sync", revoke |-> "sync", logout |-> "leave",
              change |-> "change", delete_account |-> "leave"]

Arrive(r, op, k, j) ==
    /\ k \in cookies
    /\ RequestAuthenticates(k)
    /\ op = "revoke" \/ j = k
    /\ Begin(r, [Idle EXCEPT !.op = op, !.step = FirstStep[op], !.key = k,
                             !.target = j, !.knows = password])
    /\ UNCHANGED <<account_, session_, tokens, ghosts>>

(* A session of another password is deleted when it is presented.           *)
ArriveStale(k) ==
    /\ k \in cookies
    /\ account /\ row[k] = "live" /\ hash[k] # password
    /\ row' = [row EXCEPT ![k] = "gone"]
    /\ UNCHANGED <<account_, hash, record, cookies, tokens, req, ghosts>>

(* SESSION_COOKIE_AGE after the last save.  The record's own date moves with *)
(* every request; no request lasts that long.                               *)
Expire(k) ==
    /\ row[k] = "live"
    /\ \A r \in Requests : InFlight(r) => req[r].key # k
    /\ row' = [row EXCEPT ![k] = "expired"]
    /\ UNCHANGED <<account_, hash, record, cookies, tokens, req, ghosts>>

----------------------------------------------------------------------------
(* SessionTrackingMiddleware, after the view; then SessionMiddleware, which  *)
(* saves a session the view has changed.                                    *)

Track(r) ==
    /\ At(r, "track")
    /\ account
    /\ Sync(req[r].key, NoKey)
    /\ Goto(r, IF req[r].op \in {"login", "change"} THEN "save" ELSE "done")
    /\ UNCHANGED <<account_, row, hash, cookies, tokens, ghosts>>

(* Broken variant: the save inserts the row when it is not there any more.  *)
SaveOrInsert(r) ==
    /\ At(r, "save")
    /\ row' = [row EXCEPT ![req[r].key] = "live"]
    /\ hash' = [hash EXCEPT ![req[r].key] = req[r].knows]
    /\ cookies' = cookies \cup {req[r].key}
    /\ Goto(r, "done")
    /\ UNCHANGED <<account_, record, tokens, ghosts>>

(* force_update: a session deleted meanwhile makes the request fail.        *)
Save(r) ==
    /\ At(r, "save")
    /\ IF row[req[r].key] = "live"
          THEN /\ hash' = [hash EXCEPT ![req[r].key] = req[r].knows]
               /\ cookies' = cookies \cup {req[r].key}
          ELSE UNCHANGED <<hash, cookies>>
    /\ Goto(r, "done")
    /\ UNCHANGED <<account_, row, record, tokens, ghosts>>

(* SessionListView and SessionDetailView write the record themselves first.  *)
SyncFirst(r) ==
    /\ At(r, "sync")
    /\ account
    /\ Sync(req[r].key, NoKey)
    /\ Goto(r, IF req[r].op = "list" THEN "cleanup" ELSE "find")
    /\ UNCHANGED <<account_, row, hash, cookies, tokens, ghosts>>

(* cleanup_expired_session_records: a record outlives its session's date.   *)
Cleanup(r, lapsed) ==
    /\ At(r, "cleanup")
    /\ \A k \in lapsed : row[k] # "live" /\ record[k] = "valid"
    /\ record' = [k \in Keys |-> IF k \in lapsed THEN "lapsed" ELSE record[k]]
    /\ Goto(r, "track")
    /\ UNCHANGED <<account_, row, hash, cookies, tokens, ghosts>>

----------------------------------------------------------------------------
(* SessionDetailView and revoke_session_record, for a record in the list.   *)

RevokeFind(r) ==
    /\ At(r, "find")
    /\ Goto(r, IF record[req[r].target] = "valid" THEN "mark" ELSE "track")
    /\ UNCHANGED <<account_, session_, tokens, ghosts>>

RevokeMark(r) ==
    /\ At(r, "mark")
    /\ account
    /\ record' = [record EXCEPT ![req[r].target] = "revoked"]
    /\ Goto(r, "drop")
    /\ UNCHANGED <<account_, row, hash, cookies, tokens, ghosts>>

(* find_session_key_by_hash looks at unexpired sessions only.               *)
RevokeDrop(r) ==
    /\ At(r, "drop")
    /\ row' = [row EXCEPT ![req[r].target] = IF @ = "live" THEN "gone" ELSE @]
    /\ Goto(r, "audit")
    /\ UNCHANGED <<account_, hash, record, cookies, tokens, ghosts>>

RevokeAudit(r) ==
    /\ At(r, "audit")
    /\ account
    /\ ended' = ended \cup {req[r].target}
    /\ Goto(r, IF req[r].target = req[r].key THEN "leave" ELSE "track")
    /\ UNCHANGED <<account_, session_, tokens, opened, cut, resets>>

(* revoke_current_session: for a revocation of one's own session, a logout  *)
(* and an account deletion.                                                 *)
Leave(r) ==
    /\ At(r, "leave")
    /\ record' = [record EXCEPT ![req[r].key] = IF @ = "valid" THEN "revoked" ELSE @]
    /\ Goto(r, "flush")
    /\ UNCHANGED <<account_, row, hash, cookies, tokens, ghosts>>

Flush(r) ==
    /\ At(r, "flush")
    /\ row' = [row EXCEPT ![req[r].key] = "gone"]
    /\ ended' = ended \cup {req[r].key}
    /\ Goto(r, IF req[r].op = "delete_account" THEN "erase" ELSE "done")
    /\ UNCHANGED <<account_, hash, record, cookies, tokens, opened, cut, resets>>

(* delete_account in its transaction: the sessions with a valid record are  *)
(* revoked, the records and the tokens go with the user.                    *)
Erase(r) ==
    /\ At(r, "erase")
    /\ UserFree
    /\ account' = FALSE
    /\ row' = [k \in Keys |-> IF record[k] = "valid" /\ row[k] = "live" THEN "gone" ELSE row[k]]
    /\ record' = [k \in Keys |-> "none"]
    /\ tokens' = [t \in Tokens |-> "gone"]
    /\ Goto(r, "done")
    /\ UNCHANGED <<password, versions, hash, cookies, ghosts>>

(* A message in a room that stays RESTRICTs the user: all of it is undone,  *)
(* and the user is logged out.                                              *)
EraseRestricted(r) ==
    /\ At(r, "erase")
    /\ Goto(r, "done")
    /\ UNCHANGED <<account_, session_, tokens, ghosts>>

----------------------------------------------------------------------------
(* change_password: the current password was checked on the user the request *)
(* came with.  The session moves to a new key; its row still has the old hash*)
(* until the middleware saves it.                                           *)

ChangePassword(r, new) ==
    /\ At(r, "change")
    /\ account
    /\ UserFree
    /\ versions < MaxVersion
    /\ row[new] = "unused"
    /\ versions' = versions + 1
    /\ password' = versions + 1
    /\ row' = [row EXCEPT ![new] = "live", ![req[r].key] = "gone"]
    /\ hash' = [hash EXCEPT ![new] = req[r].knows]
    /\ Sync(new, req[r].key)
    /\ opened' = [opened EXCEPT ![new] = versions + 1]
    /\ ended' = ended \cup {req[r].key}
    /\ req' = [req EXCEPT ![r].key = new, ![r].knows = versions + 1, ![r].step = "track"]
    /\ UNCHANGED <<account, cookies, tokens, cut, resets>>

(* LoginView.  The password is checked on a user that is not read again.    *)
Login(r) ==
    /\ account
    /\ Begin(r, [Idle EXCEPT !.op = "login", !.step = "open", !.knows = password])
    /\ UNCHANGED <<account_, session_, tokens, ghosts>>

(* A browser that is logged in already keeps its key.                       *)
LoginAgain(r, k) ==
    /\ k \in cookies
    /\ RequestAuthenticates(k)
    /\ Begin(r, [Idle EXCEPT !.op = "login", !.step = "open", !.key = k, !.knows = password])
    /\ UNCHANGED <<account_, session_, tokens, ghosts>>

(* Broken variant: the user is read again before the session takes its hash. *)
OpenRefreshed(r, new) ==
    /\ At(r, "open")
    /\ account
    /\ req[r].key = NoKey
    /\ row[new] = "unused"
    /\ row' = [row EXCEPT ![new] = "live"]
    /\ hash' = [hash EXCEPT ![new] = password]
    /\ Sync(new, NoKey)
    /\ opened' = [opened EXCEPT ![new] = req[r].knows]
    /\ req' = [req EXCEPT ![r].key = new, ![r].knows = password, ![r].step = "track"]
    /\ UNCHANGED <<account_, cookies, tokens, ended, cut, resets>>

(* create_authenticated_session, in its transaction.                        *)
Open(r, new) ==
    /\ At(r, "open")
    /\ account
    /\ UserFree
    /\ req[r].key = NoKey
    /\ row[new] = "unused"
    /\ row' = [row EXCEPT ![new] = "live"]
    /\ hash' = [hash EXCEPT ![new] = req[r].knows]
    /\ Sync(new, NoKey)
    /\ opened' = [opened EXCEPT ![new] = req[r].knows]
    /\ req' = [req EXCEPT ![r].key = new, ![r].step = "track"]
    /\ UNCHANGED <<account_, cookies, tokens, ended, cut, resets>>

OpenAgain(r) ==
    /\ At(r, "open")
    /\ account
    /\ UserFree
    /\ req[r].key # NoKey
    /\ IF row[req[r].key] = "live"
          THEN Sync(req[r].key, NoKey) /\ Goto(r, "track")
          ELSE Goto(r, "done") /\ UNCHANGED record
    /\ UNCHANGED <<account_, row, hash, cookies, tokens, ghosts>>

----------------------------------------------------------------------------
(* issue_password_reset, and reset_password under the lock of the token and  *)
(* of its user.                                                             *)

IssueToken(t) ==
    /\ account
    /\ tokens[t] = "none"
    /\ tokens' = [tokens EXCEPT ![t] = "fresh"]
    /\ UNCHANGED <<account_, session_, req, ghosts>>

ExpireToken(t) ==
    /\ tokens[t] = "fresh"
    /\ ~Locked(t)
    /\ tokens' = [tokens EXCEPT ![t] = "expired"]
    /\ UNCHANGED <<account_, session_, req, ghosts>>

Reset(r, t) ==
    /\ tokens[t] # "none"
    /\ Begin(r, [Idle EXCEPT !.op = "reset", !.step = "token", !.token = {t}])
    /\ UNCHANGED <<account_, session_, tokens, ghosts>>

(* Broken variant: the token is read without a lock.                        *)
ResetReadUnlocked(r) ==
    /\ At(r, "token")
    /\ Goto(r, IF \A t \in req[r].token : tokens[t] = "fresh" THEN "reset" ELSE "done")
    /\ UNCHANGED <<account_, session_, tokens, ghosts>>

ResetLock(r) ==
    /\ At(r, "token")
    /\ UserFree
    /\ Goto(r, IF \A t \in req[r].token : tokens[t] = "fresh" THEN "reset" ELSE "done")
    /\ UNCHANGED <<account_, session_, tokens, ghosts>>

ResetPassword(r) ==
    /\ At(r, "reset")
    /\ versions < MaxVersion
    /\ versions' = versions + 1
    /\ password' = versions + 1
    /\ tokens' = [t \in Tokens |-> IF t \in req[r].token THEN "used" ELSE tokens[t]]
    /\ resets' = [t \in Tokens |-> resets[t] + IF t \in req[r].token THEN 1 ELSE 0]
    /\ Goto(r, "done")
    /\ UNCHANGED <<account, session_, opened, ended, cut>>

----------------------------------------------------------------------------

(* Writes for a user who is gone: a foreign key or an update of nothing.    *)
FailWithoutAccount(r) ==
    /\ ~account
    /\ req[r].step \in {"sync", "mark", "audit", "change", "open", "track"}
    /\ Goto(r, "done")
    /\ UNCHANGED <<account_, session_, tokens, ghosts>>

(* The process dies between two statements.                                 *)
Interrupt(r) ==
    /\ MayInterrupt
    /\ InFlight(r)
    /\ Goto(r, "done")
    /\ cut' = cut \cup (IF At(r, "drop")  THEN {req[r].target} ELSE {})
                  \cup (IF At(r, "flush") THEN {req[r].key}    ELSE {})
    /\ UNCHANGED <<account_, session_, tokens, opened, ended, resets>>

(* Nothing is left to do, or only changes beyond the bounds.                *)
Rest ==
    /\ \A r \in Requests : InFlight(r) => req[r].step \in {"change", "open", "reset"}
    /\ UNCHANGED svars

Revoking(r) == RevokeFind(r) \/ RevokeMark(r) \/ RevokeDrop(r) \/ RevokeAudit(r)

Leaving(r) == Leave(r) \/ Flush(r) \/ Erase(r) \/ EraseRestricted(r)

Entering(r) ==
    \/ Login(r)
    \/ OpenAgain(r)
    \/ \E k \in Keys : LoginAgain(r, k) \/ Open(r, k) \/ ChangePassword(r, k)

Visiting(r) ==
    \/ \E op \in SessionOps, k, j \in Keys : Arrive(r, op, k, j)
    \/ Track(r)
    \/ Save(r)
    \/ SyncFirst(r)
    \/ \E lapsed \in SUBSET Keys : Cleanup(r, lapsed)

Resetting(r) == ResetLock(r) \/ ResetPassword(r) \/ \E t \in Tokens : Reset(r, t)

SessionsNext ==
    \/ \E r \in Requests :
         \/ Visiting(r) \/ Revoking(r) \/ Leaving(r) \/ Entering(r) \/ Resetting(r)
         \/ FailWithoutAccount(r) \/ Interrupt(r)
    \/ \E k \in Keys : ArriveStale(k) \/ Expire(k)
    \/ \E t \in Tokens : IssueToken(t) \/ ExpireToken(t)
    \/ Rest

SessionsSpec == SessionsInit /\ [][SessionsNext]_svars

----------------------------------------------------------------------------

(* A session that was revoked, logged out or replaced by a password change  *)
(* authenticates no request ever again, although requests that came with it  *)
(* go on, write its record as valid and save what they hold.  Nor does it   *)
(* open a socket, unless it had expired before it was revoked.              *)
EndedSessionsStayOut ==
    \A k \in ended : /\ ~RequestAuthenticates(k)
                     /\ SocketAuthenticates(k) => row[k] = "expired"

(* What authenticates can be seen in the list and revoked, but for a session *)
(* that is being ended and one whose ending was given up half way.  The     *)
(* converse fails: a late request leaves a valid record of a dead session.  *)
LiveSessionsAreListed ==
    \A k \in Keys :
        RequestAuthenticates(k) =>
            \/ record[k] = "valid"
            \/ k \in cut
            \/ \E r \in Requests : \/ At(r, "drop")  /\ req[r].target = k
                                   \/ At(r, "flush") /\ req[r].key = k

(* A session authenticates only whoever proved to know the password of now:  *)
(* one that is opened while the password changes is stillborn.              *)
SessionsFollowThePassword ==
    \A k \in Keys : RequestAuthenticates(k) => opened[k] = password

(* A token sets one password, whoever posts it and how often.               *)
TokensWorkOnce == \A t \in Tokens : resets[t] <= 1

============================================================================
