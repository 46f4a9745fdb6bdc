------------------------- MODULE SocialTransactions -------------------------
(***************************************************************************)
(* The requests of Social taken apart into their statements, several at    *)
(* once under READ COMMITTED, and the sending of a message in the dialog.  *)
(*                                                                         *)
(* What a transaction reads it remembers in its record and may act upon    *)
(* when it is no longer so; what it writes the others see from its commit  *)
(* on, the last step.  Rows are waited for where the statements wait:      *)
(*                                                                         *)
(*  - accept_friend_request selects the request FOR UPDATE with            *)
(*    select_related("from_user", "to_user"), which locks both users' rows *)
(*    too, until the commit; the others that insert a row referring to a   *)
(*    user (a request, a ban, a dialog, a message, an audit event) have    *)
(*    the reference checked when they commit, and wait there;              *)
(*  - a deleted friendship is held until the deleting request ends, and so *)
(*    is the PeerBan row of a ban or an unban.                             *)
(*                                                                         *)
(* The UPDATE of the dialog's row and the commit after it are one step.  A *)
(* ban holds that row while its commit waits for an accept, whose own      *)
(* UPDATE then waits for the row: PostgreSQL ends such a deadlock by       *)
(* rolling one of the two back, which RollBack allows at any time.         *)
(***************************************************************************)
EXTENDS Social

CONSTANTS
    Requests,    \* the requests, each served once
    Ops          \* the operations they may ask for

AllOps == {"request", "accept", "reject", "unfriend", "ban", "unban", "dialog", "send"}

ASSUME OpsAssumption == Ops \subseteq AllOps

VARIABLES
    req,         \* each request: what it does, how far it is, what it read
    apart,       \* the requests during which the two have not been friends
    barred       \* the requests during which there has always been a ban

svars == <<pairVars, req, apart, barred>>

Steps == {"idle", "ban_check", "friend_check", "mine_check", "theirs_check",
          "friendship", "friends_read", "bans_read", "delete", "upsert",
          "lock", "dialog_read", "commit", "done", "refused"}

Answered == {"done", "refused"}

Idle == [op |-> "none", actor |-> Low, step |-> "idle",
         friends |-> FALSE, banned |-> FALSE, fresh |-> FALSE, dialog |-> FALSE]

SocialRequestTypeOK ==
    /\ PairTypeOK
    /\ req \in [Requests -> [op : AllOps \cup {"none"}, actor : Pair, step : Steps,
                             friends : BOOLEAN, banned : BOOLEAN,
                             fresh : BOOLEAN, dialog : BOOLEAN]]
    /\ apart \subseteq Requests
    /\ barred \subseteq Requests

(* Any state the serial requests can have left.  (While a request is        *)
(* pending, only an unban renames the reason of a ban's freeze.)            *)
SInit ==
    /\ pending \in SUBSET Pair
    /\ friends \in BOOLEAN
    /\ peerBan \in [Pair -> PeerBanStates]
    /\ dialog \in DialogStates
    /\ pairAudit = [action |-> "none", actor |-> Low]
    /\ DialogFollowsTheRelation
    /\ OneRequestBetweenStrangers
    /\ (pending # {} /\ Banned /\ dialog = "friendship_required")
          => \E u \in Pair : peerBan[u] = "removed"
    /\ req = [r \in Requests |-> Idle]
    /\ apart = {r \in Requests : ~friends}
    /\ barred = {r \in Requests : Banned}

----------------------------------------------------------------------------

At(r, op, step) == req[r].op = op /\ req[r].step = step

InFlight(r) == req[r].step \notin Answered \cup {"idle"}

(* accept holds the request's row and the two users' rows throughout.       *)
Accepting(r) == req[r].op = "accept" /\ InFlight(r)
UsersFree(r) == \A q \in Requests \ {r} : ~Accepting(q)

(* The friendship this request deleted is still there for the others.       *)
Deleting(r) ==
    /\ req[r].op \in {"unfriend", "ban"}
    /\ req[r].friends
    /\ req[r].step \in {"upsert", "dialog_read", "commit"}
FriendshipFree(r) == \A q \in Requests \ {r} : ~Deleting(q)

HoldsBan(r, u) ==
    /\ req[r].actor = u
    /\ \/ req[r].op = "ban" /\ req[r].step \in {"dialog_read", "commit"}
       \/ req[r].op = "unban" /\ req[r].step \in {"friends_read", "bans_read", "commit"}

(* Broken variant: the ban is fetched without select_for_update, in a table *)
(* without its unique constraint.                                           *)
BanNeverHeld(r, u) == TRUE

BanFree(r, u) == \A q \in Requests \ {r} : ~HoldsBan(q, u)

----------------------------------------------------------------------------

Begin(r, op, u, step) ==
    /\ op \in Ops
    /\ req[r].step = "idle"
    /\ req' = [req EXCEPT ![r] = [Idle EXCEPT !.op = op, !.actor = u, !.step = step]]
    /\ UNCHANGED pairVars

Goto(r, step) == req' = [req EXCEPT ![r].step = step]

Check(r, op, step, condition, next) ==
    /\ At(r, op, step)
    /\ Goto(r, IF condition THEN next ELSE "refused")
    /\ UNCHANGED pairVars

----------------------------------------------------------------------------
(* create_friend_request *)

BeginRequest(r, u) == Begin(r, "request", u, "ban_check")

RequestBanCheck(r) == Check(r, "request", "ban_check", ~Banned, "friend_check")

RequestFriendCheck(r) == Check(r, "request", "friend_check", ~friends, "mine_check")

RequestMineCheck(r) ==
    Check(r, "request", "mine_check", req[r].actor \notin pending, "theirs_check")

RequestTheirsCheck(r) ==
    Check(r, "request", "theirs_check", Other(req[r].actor) \notin pending, "commit")

(* The constraint on pending requests looks at one direction. *)
RequestCommit(r) ==
    LET u == req[r].actor IN
    /\ At(r, "request", "commit")
    /\ UsersFree(r)
    /\ IF u \in pending
          THEN Goto(r, "refused") /\ UNCHANGED pairVars
          ELSE /\ Goto(r, "done")
               /\ pending' = pending \cup {u}
               /\ UNCHANGED <<friends, peerBan, dialog, pairAudit>>

----------------------------------------------------------------------------
(* accept_friend_request, with _refresh_dialog_state_for_pair at its end.   *)

BeginAccept(r, u) ==
    /\ Other(u) \in pending
    /\ UsersFree(r)
    /\ Begin(r, "accept", u, "friendship")

(* get_or_create: `fresh` if the row is to be inserted.                     *)
AcceptFriendship(r) ==
    /\ At(r, "accept", "friendship")
    /\ req' = [req EXCEPT ![r].fresh = ~friends, ![r].step = "friends_read"]
    /\ UNCHANGED pairVars

AcceptFriendsRead(r) ==
    /\ At(r, "accept", "friends_read")
    /\ req' = [req EXCEPT ![r].friends = req[r].fresh \/ friends, ![r].step = "bans_read"]
    /\ UNCHANGED pairVars

AcceptBansRead(r) ==
    /\ At(r, "accept", "bans_read")
    /\ req' = [req EXCEPT ![r].banned = Banned, ![r].step = "commit"]
    /\ UNCHANGED pairVars

AcceptCommit(r) ==
    LET q == req[r] IN
    /\ At(r, "accept", "commit")
    /\ Goto(r, "done")
    /\ pending' = pending \ {Other(q.actor)}
    /\ friends' = (q.fresh \/ friends)
    /\ dialog' = Refreshed(q.friends, q.banned)
    /\ UNCHANGED <<peerBan, pairAudit>>

(* Broken variant: the request's row is read without select_for_update. *)
RejectUnlocked(r, u) ==
    /\ "reject" \in Ops
    /\ req[r].step = "idle"
    /\ req' = [req EXCEPT ![r] = [Idle EXCEPT !.op = "reject", !.actor = u, !.step = "done"]]
    /\ RejectFriendRequest(u)

(* reject_friend_request holds its one row for one statement. *)
Reject(r, u) ==
    /\ "reject" \in Ops
    /\ req[r].step = "idle"
    /\ \A q \in Requests : Accepting(q) => req[q].actor # u
    /\ req' = [req EXCEPT ![r] = [Idle EXCEPT !.op = "reject", !.actor = u, !.step = "done"]]
    /\ RejectFriendRequest(u)

----------------------------------------------------------------------------
(* remove_friend and create_peer_ban start with the same DELETE and end     *)
(* with _freeze_dialog_for_pair: a SELECT and, if it found the dialog, an   *)
(* UPDATE.                                                                  *)

BeginUnfriend(r, u) == Begin(r, "unfriend", u, "delete")
BeginBan(r, u)      == Begin(r, "ban", u, "delete")

Unfriend(r) ==
    /\ At(r, "unfriend", "delete")
    /\ FriendshipFree(r)
    /\ req' = [req EXCEPT ![r].friends = friends,
                          ![r].step = IF friends THEN "dialog_read" ELSE "refused"]
    /\ UNCHANGED pairVars

BanUnfriend(r) ==
    /\ At(r, "ban", "delete")
    /\ FriendshipFree(r)
    /\ req' = [req EXCEPT ![r].friends = friends, ![r].step = "upsert"]
    /\ UNCHANGED pairVars

(* get_or_create under select_for_update. *)
BanUpsert(r) ==
    LET u == req[r].actor IN
    /\ BanFree(r, u)
    /\ Check(r, "ban", "upsert", peerBan[u] # "active", "dialog_read")

DialogRead(r) ==
    /\ req[r].step = "dialog_read"
    /\ req' = [req EXCEPT ![r].dialog = (dialog # "none"), ![r].step = "commit"]
    /\ UNCHANGED pairVars

Freeze(r, reason) == dialog' = IF req[r].dialog THEN reason ELSE dialog

UnfriendCommit(r) ==
    /\ At(r, "unfriend", "commit")
    /\ Goto(r, "done")
    /\ friends' = FALSE
    /\ Freeze(r, "friendship_required")
    /\ UNCHANGED <<pending, peerBan, pairAudit>>

(* Broken variant: nothing refers a ban to its users.                       *)
BanCommitUnreferenced(r) ==
    LET q == req[r] IN
    /\ At(r, "ban", "commit")
    /\ Goto(r, "done")
    /\ friends' = (friends /\ ~q.friends)
    /\ peerBan' = [peerBan EXCEPT ![q.actor] = "active"]
    /\ Freeze(r, "peer_ban")
    /\ pairAudit' = [action |-> "peer_ban_created", actor |-> q.actor]
    /\ UNCHANGED pending

BanCommit(r) ==
    LET q == req[r] IN
    /\ At(r, "ban", "commit")
    /\ UsersFree(r)
    /\ Goto(r, "done")
    /\ friends' = (friends /\ ~q.friends)
    /\ peerBan' = [peerBan EXCEPT ![q.actor] = "active"]
    /\ Freeze(r, "peer_ban")
    /\ pairAudit' = [action |-> "peer_ban_created", actor |-> q.actor]
    /\ UNCHANGED pending

----------------------------------------------------------------------------
(* remove_peer_ban: the row, the audit event, and the refresh.              *)

BeginUnban(r, u) == Begin(r, "unban", u, "lock")

UnbanLock(r) ==
    LET u == req[r].actor IN
    /\ BanFree(r, u)
    /\ Check(r, "unban", "lock", peerBan[u] = "active", "friends_read")

UnbanFriendsRead(r) ==
    /\ At(r, "unban", "friends_read")
    /\ req' = [req EXCEPT ![r].friends = friends, ![r].step = "bans_read"]
    /\ UNCHANGED pairVars

(* Broken variant: has_active_peer_ban is asked before the ban is lifted.   *)
UnbanBansReadBefore(r) ==
    /\ At(r, "unban", "bans_read")
    /\ req' = [req EXCEPT ![r].banned = Banned, ![r].step = "commit"]
    /\ UNCHANGED pairVars

UnbanBansRead(r) ==
    /\ At(r, "unban", "bans_read")
    /\ req' = [req EXCEPT ![r].banned = (peerBan[Other(req[r].actor)] = "active"),
                          ![r].step = "commit"]
    /\ UNCHANGED pairVars

UnbanCommit(r) ==
    LET q == req[r] IN
    /\ At(r, "unban", "commit")
    /\ UsersFree(r)
    /\ Goto(r, "done")
    /\ peerBan' = [peerBan EXCEPT ![q.actor] = "removed"]
    /\ dialog' = Refreshed(q.friends, q.banned)
    /\ pairAudit' = [action |-> "peer_ban_removed", actor |-> q.actor]
    /\ UNCHANGED <<pending, friends>>

----------------------------------------------------------------------------
(* get_or_create_dialog *)

BeginDialog(r, u) == Begin(r, "dialog", u, "ban_check")

DialogBanCheck(r) == Check(r, "dialog", "ban_check", ~Banned, "friend_check")

DialogFriendCheck(r) == Check(r, "dialog", "friend_check", friends, "commit")

DialogCommit(r) ==
    /\ At(r, "dialog", "commit")
    /\ dialog = "none" => UsersFree(r)
    /\ Goto(r, "done")
    /\ dialog' = IF dialog = "none" THEN "open" ELSE dialog
    /\ UNCHANGED <<pending, friends, peerBan, pairAudit>>

----------------------------------------------------------------------------
(* create_dialog_message: is_frozen is as old as the view's SELECT of the   *)
(* dialog; the friendship and the bans are asked for again.                 *)

BeginSend(r, u) ==
    /\ dialog = "open"
    /\ Begin(r, "send", u, "friend_check")

(* Broken variant: the freeze of the dialog is trusted. *)
SendFriendNoCheck(r) == Check(r, "send", "friend_check", TRUE, "ban_check")

SendFriendCheck(r) == Check(r, "send", "friend_check", friends, "ban_check")
SendBanCheck(r)    == Check(r, "send", "ban_check", ~Banned, "commit")

SendCommit(r) ==
    /\ At(r, "send", "commit")
    /\ UsersFree(r)
    /\ Goto(r, "done")
    /\ UNCHANGED pairVars

(* A transaction the database gives up is undone as a whole. *)
RollBack(r) ==
    /\ InFlight(r)
    /\ Goto(r, "refused")
    /\ UNCHANGED pairVars

----------------------------------------------------------------------------

Arrive(r) ==
    \E u \in Pair :
        \/ BeginRequest(r, u)
        \/ BeginAccept(r, u)
        \/ Reject(r, u)
        \/ BeginUnfriend(r, u)
        \/ BeginBan(r, u)
        \/ BeginUnban(r, u)
        \/ BeginDialog(r, u)
        \/ BeginSend(r, u)

Proceed(r) ==
    \/ RequestBanCheck(r) \/ RequestFriendCheck(r)
    \/ RequestMineCheck(r) \/ RequestTheirsCheck(r) \/ RequestCommit(r)
    \/ AcceptFriendship(r) \/ AcceptFriendsRead(r) \/ AcceptBansRead(r) \/ AcceptCommit(r)
    \/ Unfriend(r) \/ BanUnfriend(r) \/ BanUpsert(r) \/ DialogRead(r)
    \/ UnfriendCommit(r) \/ BanCommit(r)
    \/ UnbanLock(r) \/ UnbanFriendsRead(r) \/ UnbanBansRead(r) \/ UnbanCommit(r)
    \/ DialogBanCheck(r) \/ DialogFriendCheck(r) \/ DialogCommit(r)
    \/ SendFriendCheck(r) \/ SendBanCheck(r) \/ SendCommit(r)

(* For each request, how things have been since it arrived.                 *)
Observe ==
    /\ apart' = {r \in Requests : ~friends' /\ (InFlight(r) => r \in apart)}
    /\ barred' = {r \in Requests : Banned' /\ (InFlight(r) => r \in barred)}

Quiet == \A r \in Requests : ~InFlight(r)

Rest == Quiet /\ UNCHANGED svars

SNext ==
    \/ \E r \in Requests : (Arrive(r) \/ Proceed(r) \/ RollBack(r)) /\ Observe
    \/ Rest

SSpec == SInit /\ [][SNext]_svars

----------------------------------------------------------------------------

Commits(r) == req[r].step # "done" /\ req'[r].step = "done"

(* No message is written by a request during all of which the two were not  *)
(* friends, or during all of which one of them banned the other: even with  *)
(* a freeze that is stale, the two questions asked again keep it out.       *)
SeparatedSendersAreRefused ==
    [][\A r \in Requests :
         req[r].op = "send" /\ Commits(r) => r \notin apart /\ r \notin barred]_svars

(* A friend request has one answer: it cannot be accepted once it has been  *)
(* rejected, nor the other way round, however close the two calls are.      *)
RequestsAreAnsweredOnce ==
    [][\A r \in Requests :
         Commits(r) /\ req'[r].op \in {"accept", "reject"}
           => Other(req'[r].actor) \in pending]_svars

(* Bans and unbans by one user alternate: of two calls to ban somebody, or  *)
(* to lift the ban, one is told that there is nothing left to do.           *)
BansAndUnbansAlternate ==
    [][\A r \in Requests :
         Commits(r) =>
           /\ req[r].op = "ban" => peerBan[req[r].actor] # "active"
           /\ req[r].op = "unban" => peerBan[req[r].actor] = "active"]_svars

(* What Social says of a request that is served.                            *)
Served(op, u) ==
    \/ op = "request" /\ CreateFriendRequest(u)
    \/ op = "accept" /\ AcceptFriendRequest(u)
    \/ op = "reject" /\ RejectFriendRequest(u)
    \/ op = "unfriend" /\ RemoveFriend(u)
    \/ op = "ban" /\ CreatePeerBan(u)
    \/ op = "unban" /\ RemovePeerBan(u)
    \/ op = "dialog" /\ dialog = "none" /\ GetOrCreateDialog(u)
    \/ op = "dialog" /\ dialog # "none" /\ friends /\ ~Banned /\ UNCHANGED pairVars
    \/ op = "send" /\ UNCHANGED pairVars

Lone(r) == \A q \in Requests \ {r} : req[q].step = "idle"

(* A request with which no other overlaps does at its commit what Social    *)
(* says of it as a whole, and nothing before: the statements, read one      *)
(* after the other, decide and write what the serial request does.  (What   *)
(* was served before it is in the initial state, which is any there can be.)*)
LoneRequestsAreServed ==
    [][\A r \in Requests : Lone(r)' =>
          IF Commits(r) THEN Served(req'[r].op, req'[r].actor)
                        ELSE UNCHANGED pairVars]_svars

(* The dialog is open to two who are not friends, or between whom is a ban. *)
FreezeIsLost == dialog = "open" /\ ~(friends /\ ~Banned)

(* The freeze of a dialog is lost in two ways.  What opens a dialog has seen *)
(* the friendship, which was ended before it committed: an unban, the       *)
(* creation of the dialog, or an accept of a second request that found the  *)
(* friendship made.  Or what ends the friendship looked for a dialog before *)
(* there was one.  An accept that makes the friendship never loses it: it   *)
(* has both users' rows, and a ban waits for them.                          *)
FreezesAreLostByOverlaps ==
    [][~FreezeIsLost /\ FreezeIsLost' =>
         \E r \in Requests :
            /\ Commits(r)
            /\ \/ req[r].op \in {"unban", "dialog"} /\ r \notin apart
               \/ req[r].op = "accept" /\ ~req[r].fresh /\ r \notin apart
               \/ req[r].op \in {"unfriend", "ban"} /\ ~req[r].dialog]_svars

(* When nothing is under way, a dialog is open between friends without a    *)
(* ban only: banning and unfriending freeze direct messaging.               *)
FreezeHoldsAtRest ==
    Quiet /\ dialog = "open" => friends /\ ~Banned

============================================================================
