------------------------------- MODULE Social -------------------------------
(***************************************************************************)
(* What two users are to each other: friend requests, the friendship, the  *)
(* bans each may put on the other, and the dialog between them with its    *)
(* freeze, as social/services.py and get_or_create_dialog change them when *)
(* requests run one after the other.                                       *)
(*                                                                         *)
(* Two pairs of users share no row but the users', so one pair, in the     *)
(* canonical order the tables use, stands for each of them.                *)
(***************************************************************************)

CONSTANTS
    Low, High    \* the two users, in the order of _canonical_user_pair

ASSUME PairAssumption == Low # High

VARIABLES
    pending,     \* the users whose FriendRequest to the other is pending
    friends,     \* whether the Friendship row exists
    peerBan,     \* the PeerBan row each user is the source of
    dialog,      \* the Dialog row: absent, open, or frozen with its reason
    pairAudit        \* the last ModerationEvent written

pairVars == <<pending, friends, peerBan, dialog, pairAudit>>

Pair    == {Low, High}
Other(u) == IF u = Low THEN High ELSE Low

PeerBanStates    == {"none", "active", "removed"}
FrozenStates == {"friendship_required", "peer_ban"}
DialogStates == {"none", "open"} \cup FrozenStates
AuditActions == {"peer_ban_created", "peer_ban_removed"}
Audits       == [action : AuditActions, actor : Pair]
                  \cup {[action |-> "none", actor |-> Low]}

PairTypeOK ==
    /\ pending \subseteq Pair
    /\ friends \in BOOLEAN
    /\ peerBan \in [Pair -> PeerBanStates]
    /\ dialog \in DialogStates
    /\ pairAudit \in Audits

PairInit ==
    /\ pending = {}
    /\ friends = FALSE
    /\ peerBan = [u \in Pair |-> "none"]
    /\ dialog = "none"
    /\ pairAudit = [action |-> "none", actor |-> Low]

----------------------------------------------------------------------------

(* has_active_peer_ban: in either direction. *)
Banned == \E u \in Pair : peerBan[u] = "active"

(* _freeze_dialog_for_pair *)
Frozen(reason) == IF dialog = "none" THEN "none" ELSE reason

(* _refresh_dialog_state_for_pair, from what it read. *)
Refreshed(areFriends, areBanned) ==
    IF dialog = "none" THEN "none"
    ELSE IF areFriends /\ ~areBanned THEN "open"
    ELSE "friendship_required"

(* Broken variants of the requests. *)
CreateFriendRequestOneWay(u) ==
    /\ ~Banned
    /\ ~friends
    /\ u \notin pending
    /\ pending' = pending \cup {u}
    /\ UNCHANGED <<friends, peerBan, dialog, pairAudit>>

AcceptFriendRequestUnfreezing(u) ==
    /\ Other(u) \in pending
    /\ pending' = pending \ {Other(u)}
    /\ friends' = TRUE
    /\ dialog' = Refreshed(TRUE, FALSE)
    /\ UNCHANGED <<peerBan, pairAudit>>

----------------------------------------------------------------------------

CreateFriendRequest(u) ==
    /\ ~Banned
    /\ ~friends
    /\ pending = {}
    /\ pending' = pending \cup {u}
    /\ UNCHANGED <<friends, peerBan, dialog, pairAudit>>

(* Accepting asks for no ban: a request sent before the ban is still good.  *)
AcceptFriendRequest(u) ==
    /\ Other(u) \in pending
    /\ pending' = pending \ {Other(u)}
    /\ friends' = TRUE
    /\ dialog' = Refreshed(TRUE, Banned)
    /\ UNCHANGED <<peerBan, pairAudit>>

RejectFriendRequest(u) ==
    /\ Other(u) \in pending
    /\ pending' = pending \ {Other(u)}
    /\ UNCHANGED <<friends, peerBan, dialog, pairAudit>>

RemoveFriend(u) ==
    /\ friends
    /\ friends' = FALSE
    /\ dialog' = Frozen("friendship_required")
    /\ UNCHANGED <<pending, peerBan, pairAudit>>

(* A second ban by the same user is a conflict, and rolls the end of the    *)
(* friendship back with it.                                                 *)
CreatePeerBan(u) ==
    /\ peerBan[u] # "active"
    /\ friends' = FALSE
    /\ peerBan' = [peerBan EXCEPT ![u] = "active"]
    /\ dialog' = Frozen("peer_ban")
    /\ pairAudit' = [action |-> "peer_ban_created", actor |-> u]
    /\ UNCHANGED pending

RemovePeerBan(u) ==
    /\ peerBan[u] = "active"
    /\ peerBan' = [peerBan EXCEPT ![u] = "removed"]
    /\ dialog' = Refreshed(friends, peerBan[Other(u)] = "active")
    /\ pairAudit' = [action |-> "peer_ban_removed", actor |-> u]
    /\ UNCHANGED <<pending, friends>>

GetOrCreateDialog(u) ==
    /\ ~Banned
    /\ friends
    /\ dialog = "none"
    /\ dialog' = "open"
    /\ UNCHANGED <<pending, friends, peerBan, pairAudit>>

PairNext ==
    \E u \in Pair :
        \/ CreateFriendRequest(u)
        \/ AcceptFriendRequest(u)
        \/ RejectFriendRequest(u)
        \/ RemoveFriend(u)
        \/ CreatePeerBan(u)
        \/ RemovePeerBan(u)
        \/ GetOrCreateDialog(u)

PairSpec == PairInit /\ [][PairNext]_pairVars

----------------------------------------------------------------------------

(* The freeze is a copy, kept in the dialog's row, of what two other tables *)
(* say: the dialog is open exactly while the two are friends and neither    *)
(* bans the other, whatever the order of the requests that led there, and   *)
(* "peer_ban" is the reason only while a ban keeps two strangers apart.     *)
DialogFollowsTheRelation ==
    dialog # "none" => /\ dialog = "open" <=> friends /\ ~Banned
                       /\ dialog = "peer_ban" => Banned /\ ~friends

(* Between two users there is one request at most, and none once they are   *)
(* friends, although the table's constraint looks at one direction only.    *)
OneRequestBetweenStrangers ==
    pending # {} => ~friends /\ \E u \in Pair : pending = {u}

============================================================================
