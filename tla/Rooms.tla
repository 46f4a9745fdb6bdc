------------------------------- MODULE Rooms -------------------------------
(***************************************************************************)
(* One chat room: who belongs to it with which role, who is banned from    *)
(* it, who holds a pending invitation and who has a read marker, as the    *)
(* service functions of chat/services.py change them.                      *)
(*                                                                         *)
(* Every service function runs in one database transaction.  This module   *)
(* is what those transactions promise when they run one after the other:   *)
(* one action is one whole request, from the view's lookup of the room to  *)
(* the commit.  RoomTransactions takes the same requests apart into their  *)
(* statements.                                                             *)
(*                                                                         *)
(* Rooms share no row but the users', so one room stands for each of them; *)
(* deleting it and creating it again is a new room in the same place.      *)
(***************************************************************************)

CONSTANTS
    Users,       \* the accounts that may touch the room
    NoUser       \* "no such user": the room's owner while there is no room

ASSUME UsersAssumption == NoUser \notin Users

VARIABLES
    visibility,  \* Room.visibility, "none" while the room does not exist
    owner,       \* Room.owner_user
    role,        \* RoomMembership.role of each user, "none" without a row
    ban,         \* the RoomBan row of each user: absent, active or removed
    invited,     \* the users with a pending RoomInvitation
    readStates,  \* the users with a RoomReadState row
    audit        \* the last ModerationEvent written

vars == <<visibility, owner, role, ban, invited, readStates, audit>>

----------------------------------------------------------------------------

Visibilities == {"public", "private"}
RoomRoles    == {"owner", "admin", "member"}
Roles        == RoomRoles \cup {"none"}
BanStates    == {"none", "active", "removed"}

(* The events about the room itself name no target.                        *)
BanActions == {"member_removed", "member_banned"}
Actions    == BanActions \cup
              {"room_created", "room_updated", "room_deleted",
               "member_unbanned", "admin_promoted", "admin_demoted"}

Event(action, actor, target) ==
    [action |-> action, actor |-> actor, target |-> target]

NoEvent == Event("none", NoUser, NoUser)

TypeOK ==
    /\ visibility \in Visibilities \cup {"none"}
    /\ owner \in Users \cup {NoUser}
    /\ role \in [Users -> Roles]
    /\ ban \in [Users -> BanStates]
    /\ invited \subseteq Users
    /\ readStates \subseteq Users
    /\ audit \in [action : Actions \cup {"none"},
                  actor  : Users \cup {NoUser},
                  target : Users \cup {NoUser}]

Init ==
    /\ visibility = "none"
    /\ owner = NoUser
    /\ role = [u \in Users |-> "none"]
    /\ ban = [u \in Users |-> "none"]
    /\ invited = {}
    /\ readStates = {}
    /\ audit = NoEvent

----------------------------------------------------------------------------

Exists      == visibility # "none"
IsMember(u) == role[u] # "none"
IsBanned(u) == ban[u] = "active"

(* require_room_admin_or_owner *)
Moderates(u) == role[u] \in {"owner", "admin"}

(* require_room_message_access: what a user needs to read, post, edit or    *)
(* delete messages and to move the read marker.                             *)
HasMessageAccess(u) == IsMember(u) /\ ~IsBanned(u)

(* get_room_for_detail and _room_action_view: a private room is hidden from *)
(* those who are not in it.                                                 *)
VisibleTo(u) == Exists /\ (visibility = "private" => IsMember(u))

(* A broken variant of the next one: admins may act against each other. *)
MayModerateAdmins(actor, target) ==
    /\ Moderates(actor)
    /\ IsMember(target)
    /\ role[target] # "owner"

(* _get_room_member_for_moderation: `actor` may remove or ban `target`.     *)
MayModerate(actor, target) ==
    /\ Moderates(actor)
    /\ IsMember(target)
    /\ role[target] # "owner"
    /\ ~(role[actor] = "admin" /\ role[target] = "admin")

----------------------------------------------------------------------------

(* Broken variants, one per way the code could slip.  No action uses them:  *)
(* each takes the place of the operator it is named after in a mutation run.*)

(* Any existing room may be joined directly. *)
JoinAnyRoom(u) ==
    /\ Exists
    /\ ~IsBanned(u)
    /\ ~IsMember(u)
    /\ role' = [role EXCEPT ![u] = "member"]
    /\ UNCHANGED <<visibility, owner, ban, invited, readStates, audit>>

(* An invitation is honoured whatever happened since it was sent. *)
AcceptStaleInvitation(u) ==
    /\ u \in invited
    /\ role' = [role EXCEPT ![u] = IF IsMember(u) THEN @ ELSE "member"]
    /\ invited' = invited \ {u}
    /\ UNCHANGED <<visibility, owner, ban, readStates, audit>>

----------------------------------------------------------------------------

CreateRoom(u, v) ==
    /\ ~Exists
    /\ visibility' = v
    /\ owner' = u
    /\ role' = [role EXCEPT ![u] = "owner"]
    /\ audit' = Event("room_created", u, NoUser)
    /\ UNCHANGED <<ban, invited, readStates>>

UpdateRoom(actor, v) ==
    /\ VisibleTo(actor)
    /\ owner = actor
    /\ visibility' = v
    /\ audit' = Event("room_updated", actor, NoUser)
    /\ UNCHANGED <<owner, role, ban, invited, readStates>>

(* The rows that reference the room go with it (CASCADE). *)
DeleteRoom(actor) ==
    /\ VisibleTo(actor)
    /\ owner = actor
    /\ visibility' = "none"
    /\ owner' = NoUser
    /\ role' = [u \in Users |-> "none"]
    /\ ban' = [u \in Users |-> "none"]
    /\ invited' = {}
    /\ readStates' = {}
    /\ audit' = Event("room_deleted", actor, NoUser)

JoinRoom(u) ==
    /\ visibility = "public"
    /\ ~IsBanned(u)
    /\ ~IsMember(u)
    /\ role' = [role EXCEPT ![u] = "member"]
    /\ UNCHANGED <<visibility, owner, ban, invited, readStates, audit>>

LeaveRoom(u) ==
    /\ Exists
    /\ IsMember(u)
    /\ role[u] # "owner" /\ owner # u
    /\ role' = [role EXCEPT ![u] = "none"]
    /\ readStates' = readStates \ {u}
    /\ UNCHANGED <<visibility, owner, ban, invited, audit>>

CreateInvitation(actor, target) ==
    /\ VisibleTo(actor)
    /\ Moderates(actor)
    /\ visibility = "private"
    /\ target # actor
    /\ ~IsBanned(target)
    /\ ~IsMember(target)
    /\ target \notin invited
    /\ invited' = invited \cup {target}
    /\ UNCHANGED <<visibility, owner, role, ban, readStates, audit>>

(* get_or_create: an invited user who is a member already keeps the role.   *)
AcceptInvitation(u) ==
    /\ u \in invited
    /\ ~IsBanned(u)
    /\ role' = [role EXCEPT ![u] = IF IsMember(u) THEN @ ELSE "member"]
    /\ invited' = invited \ {u}
    /\ UNCHANGED <<visibility, owner, ban, readStates, audit>>

RejectInvitation(u) ==
    /\ u \in invited
    /\ invited' = invited \ {u}
    /\ UNCHANGED <<visibility, owner, role, ban, readStates, audit>>

PromoteAdmin(actor, target) ==
    /\ VisibleTo(actor)
    /\ role[actor] = "owner"
    /\ role[target] = "member"
    /\ role' = [role EXCEPT ![target] = "admin"]
    /\ audit' = Event("admin_promoted", actor, target)
    /\ UNCHANGED <<visibility, owner, ban, invited, readStates>>

DemoteAdmin(actor, target) ==
    /\ VisibleTo(actor)
    /\ Moderates(actor)
    /\ role[target] = "admin"
    /\ ~(role[actor] = "admin" /\ target = actor)
    /\ role' = [role EXCEPT ![target] = "member"]
    /\ audit' = Event("admin_demoted", actor, target)
    /\ UNCHANGED <<visibility, owner, ban, invited, readStates>>

(* "Remove member" and "ban" are the same service call; an active ban makes *)
(* it fail and rolls the removal back with it.                              *)
CreateBan(actor, target, action) ==
    /\ VisibleTo(actor)
    /\ MayModerate(actor, target)
    /\ ~IsBanned(target)
    /\ role' = [role EXCEPT ![target] = "none"]
    /\ readStates' = readStates \ {target}
    /\ ban' = [ban EXCEPT ![target] = "active"]
    /\ audit' = Event(action, actor, target)
    /\ UNCHANGED <<visibility, owner, invited>>

RemoveBan(actor, target) ==
    /\ VisibleTo(actor)
    /\ Moderates(actor)
    /\ IsBanned(target)
    /\ ban' = [ban EXCEPT ![target] = "removed"]
    /\ audit' = Event("member_unbanned", actor, target)
    /\ UNCHANGED <<visibility, owner, role, invited, readStates>>

MarkRead(u) ==
    /\ VisibleTo(u)
    /\ HasMessageAccess(u)
    /\ readStates' = readStates \cup {u}
    /\ UNCHANGED <<visibility, owner, role, ban, invited, audit>>

----------------------------------------------------------------------------

Lifecycle(u) ==
    \/ \E v \in Visibilities : CreateRoom(u, v) \/ UpdateRoom(u, v)
    \/ DeleteRoom(u)

Membership(u) ==
    \/ JoinRoom(u)
    \/ LeaveRoom(u)
    \/ AcceptInvitation(u)
    \/ RejectInvitation(u)
    \/ MarkRead(u)

Moderation(u, target) ==
    \/ CreateInvitation(u, target)
    \/ PromoteAdmin(u, target)
    \/ DemoteAdmin(u, target)
    \/ \E action \in BanActions : CreateBan(u, target, action)
    \/ RemoveBan(u, target)

Next ==
    \E u \in Users :
        \/ Lifecycle(u)
        \/ Membership(u)
        \/ \E target \in Users : Moderation(u, target)

Spec == Init /\ [][Next]_vars

----------------------------------------------------------------------------

(* Room.owner_user and the "owner" membership are two columns of two        *)
(* tables: create_room writes both and nothing may pull them apart, or the  *)
(* checks that use one (update_room, delete_room) and those that use the    *)
(* other (require_room_owner) would answer to different people.             *)
OwnerIsTheOneOwner ==
    \A u \in Users : role[u] = "owner" <=> Exists /\ owner = u

(* A banned user has no membership: join_room and accept_room_invitation    *)
(* refuse the banned, and create_room_ban removes what it bans.             *)
BannedUsersAreOut ==
    \A u \in Users : IsBanned(u) => ~IsMember(u)

(* Whoever leaves or is banned leaves no read marker behind: a marker that  *)
(* survived would hide the messages posted in between after a return.       *)
ReadersAreMembers ==
    \A u \in readStates : IsMember(u)

(* A room that does not exist has no rows left. *)
NothingOutlivesTheRoom ==
    ~Exists => /\ owner = NoUser
               /\ invited = {} /\ readStates = {}
               /\ \A u \in Users : role[u] = "none" /\ ban[u] = "none"

RoomInv ==
    /\ TypeOK
    /\ OwnerIsTheOneOwner
    /\ BannedUsersAreOut
    /\ ReadersAreMembers
    /\ NothingOutlivesTheRoom

(* The same room from any state the invariant allows.  A transaction cannot *)
(* tell how the rows it reads came about, so this is the promise a          *)
(* concurrent execution is compared with.                                   *)
SpecFromAnyState == RoomInv /\ [][Next]_vars

(* A private room is entered only through an invitation, which the entry    *)
(* consumes: a visibility change never opens a second door.                 *)
PrivateRoomsAreEnteredByInvitation ==
    [][\A u \in Users :
          (visibility = "private" /\ ~IsMember(u) /\ IsMember(u)')
            => u \in invited /\ u \notin invited']_vars

(* The hierarchy, told by the audit trail: whatever happens to the rank or  *)
(* the ban of a user is recorded with that user as target and an actor of   *)
(* higher standing: the owner for a promotion or against an admin who is    *)
(* banned, at least an admin who is somebody else for the rest.  (A user    *)
(* who leaves loses the rank too; that is no moderation.)                   *)
ActedUponBySuperior(u) ==
    /\ audit'.target = u
    /\ audit'.actor # u
    /\ Moderates(audit'.actor)

RankChangeIsAudited(u) ==
    (/\ role[u] \in {"admin", "member"} /\ role'[u] # role[u]
     /\ IsMember(u)' \/ IsBanned(u)')
    => /\ ActedUponBySuperior(u)
       /\ (role'[u] = "admin" \/ (role[u] = "admin" /\ role'[u] = "none"))
             => audit'.actor = owner

BanChangeIsAudited(u) ==
    ban'[u] # ban[u] => ActedUponBySuperior(u)

ModerationFollowsTheHierarchy ==
    [][Exists' => \A u \in Users : RankChangeIsAudited(u) /\ BanChangeIsAudited(u)]_vars

============================================================================
