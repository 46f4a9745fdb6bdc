----------------------------- MODULE RoomsProofs -----------------------------
(***************************************************************************)
(* What holds of a room whoever its users are and however many: the safety *)
(* invariants of Rooms from one inductive invariant, RoomInv, and the two  *)
(* action properties from the same invariant.                              *)
(*                                                                         *)
(* RoomInv is inductive only as a whole.  That a ban keeps its user out    *)
(* needs nothing else, but "the owner is the one owner" rests on           *)
(* NothingOutlivesTheRoom when a room is created over the remains of an    *)
(* old one, and the hierarchy rests on BannedUsersAreOut: it is what keeps *)
(* a banned admin from lifting the own ban.                                *)
(***************************************************************************)
EXTENDS Rooms, TLAPS

----------------------------------------------------------------------------

(* The empty database satisfies the invariant. *)
LEMMA InitEstablishesRoomInv == Init => RoomInv
  BY UsersAssumption
  DEF Init, RoomInv, TypeOK, OwnerIsTheOneOwner, BannedUsersAreOut,
      ReadersAreMembers, NothingOutlivesTheRoom, Visibilities, Roles,
      RoomRoles, BanStates, Actions, BanActions, NoEvent, Event, Exists,
      IsMember, IsBanned

(* Creation, update and deletion of the room preserve the invariant. *)
LEMMA LifecyclePreservesRoomInv ==
  ASSUME RoomInv, NEW u \in Users, Lifecycle(u)
  PROVE  RoomInv'
<1> USE UsersAssumption
    DEF RoomInv, TypeOK, OwnerIsTheOneOwner, BannedUsersAreOut,
        ReadersAreMembers, NothingOutlivesTheRoom, Visibilities, Roles,
        RoomRoles, BanStates, Actions, BanActions, Event, Exists,
        IsMember, IsBanned
<1>1. ASSUME NEW v \in Visibilities, CreateRoom(u, v) PROVE RoomInv'
  BY <1>1 DEF CreateRoom
<1>2. ASSUME NEW v \in Visibilities, UpdateRoom(u, v) PROVE RoomInv'
  BY <1>2 DEF UpdateRoom, VisibleTo
<1>3. CASE DeleteRoom(u)
  BY <1>3 DEF DeleteRoom
<1> QED
  BY <1>1, <1>2, <1>3 DEF Lifecycle

(* What users do about their own membership preserves the invariant. *)
LEMMA MembershipPreservesRoomInv ==
  ASSUME RoomInv, NEW u \in Users, Membership(u)
  PROVE  RoomInv'
<1> USE UsersAssumption
    DEF RoomInv, TypeOK, OwnerIsTheOneOwner, BannedUsersAreOut,
        ReadersAreMembers, NothingOutlivesTheRoom, Visibilities, Roles,
        RoomRoles, BanStates, Exists, IsMember, IsBanned
<1>1. CASE JoinRoom(u)
  BY <1>1 DEF JoinRoom
<1>2. CASE LeaveRoom(u)
  BY <1>2 DEF LeaveRoom
<1>3. CASE AcceptInvitation(u)
  BY <1>3 DEF AcceptInvitation
<1>4. CASE RejectInvitation(u)
  BY <1>4 DEF RejectInvitation
<1>5. CASE MarkRead(u)
  BY <1>5 DEF MarkRead, VisibleTo, HasMessageAccess
<1> QED
  BY <1>1, <1>2, <1>3, <1>4, <1>5 DEF Membership

(* What moderators do to others preserves the invariant. *)
LEMMA ModerationPreservesRoomInv ==
  ASSUME RoomInv, NEW u \in Users, NEW target \in Users,
         Moderation(u, target)
  PROVE  RoomInv'
<1> USE UsersAssumption
    DEF RoomInv, TypeOK, OwnerIsTheOneOwner, BannedUsersAreOut,
        ReadersAreMembers, NothingOutlivesTheRoom, Visibilities, Roles,
        RoomRoles, BanStates, Actions, BanActions, Event, Exists,
        IsMember, IsBanned
<1>1. CASE CreateInvitation(u, target)
  BY <1>1 DEF CreateInvitation
<1>2. CASE PromoteAdmin(u, target)
  BY <1>2 DEF PromoteAdmin
<1>3. CASE DemoteAdmin(u, target)
  BY <1>3 DEF DemoteAdmin
<1>4. ASSUME NEW action \in BanActions, CreateBan(u, target, action)
      PROVE  RoomInv'
  BY <1>4 DEF CreateBan, MayModerate
<1>5. CASE RemoveBan(u, target)
  BY <1>5 DEF RemoveBan
<1> QED
  BY <1>1, <1>2, <1>3, <1>4, <1>5 DEF Moderation

(* Every request preserves the invariant. *)
LEMMA NextPreservesRoomInv == RoomInv /\ [Next]_vars => RoomInv'
<1> SUFFICES ASSUME RoomInv, [Next]_vars PROVE RoomInv'
  OBVIOUS
<1>1. CASE UNCHANGED vars
  BY <1>1
  DEF vars, RoomInv, TypeOK, OwnerIsTheOneOwner, BannedUsersAreOut,
      ReadersAreMembers, NothingOutlivesTheRoom, Exists, IsMember, IsBanned
<1>2. CASE Next
  BY <1>2, LifecyclePreservesRoomInv, MembershipPreservesRoomInv,
     ModerationPreservesRoomInv DEF Next
<1> QED
  BY <1>1, <1>2

(* Spec implies the inductive invariant in every state. *)
THEOREM RoomInvariant == Spec => []RoomInv
  BY InitEstablishesRoomInv, NextPreservesRoomInv, PTL DEF Spec

----------------------------------------------------------------------------

(* Types, and the rows of a room that does not exist. *)
THEOREM RoomTypes == Spec => [](TypeOK /\ NothingOutlivesTheRoom)
<1>1. RoomInv => TypeOK /\ NothingOutlivesTheRoom
  BY DEF RoomInv
<1> QED
  BY <1>1, RoomInvariant, PTL

(* The owner column and the owner membership name the same account. *)
THEOREM OwnershipIsUnambiguous == Spec => []OwnerIsTheOneOwner
<1>1. RoomInv => OwnerIsTheOneOwner
  BY DEF RoomInv
<1> QED
  BY <1>1, RoomInvariant, PTL

(* No banned account is a member, so none passes the message access check.  *)
THEOREM BansKeepOut == Spec => []BannedUsersAreOut
<1>1. RoomInv => BannedUsersAreOut
  BY DEF RoomInv
<1> QED
  BY <1>1, RoomInvariant, PTL

(* Read markers belong to members. *)
THEOREM MarkersBelongToMembers == Spec => []ReadersAreMembers
<1>1. RoomInv => ReadersAreMembers
  BY DEF RoomInv
<1> QED
  BY <1>1, RoomInvariant, PTL

----------------------------------------------------------------------------

(* Entering a private room consumes an invitation: of all the steps that    *)
(* make a membership row only accept_room_invitation runs while the room    *)
(* stays private.                                                           *)
THEOREM PrivateRoomsNeedInvitations ==
  Spec => PrivateRoomsAreEnteredByInvitation
<1> DEFINE Entry ==
      \A u \in Users :
        (visibility = "private" /\ ~IsMember(u) /\ IsMember(u)')
          => u \in invited /\ u \notin invited'
<1>1. RoomInv /\ [Next]_vars => [Entry]_vars
  <2> SUFFICES ASSUME RoomInv, Next, NEW w \in Users,
                      visibility = "private", ~IsMember(w), IsMember(w)'
               PROVE  w \in invited /\ w \notin invited'
    OBVIOUS
  <2> USE DEF RoomInv, TypeOK, IsMember, Exists
  <2>1. ASSUME NEW u \in Users, Lifecycle(u)
        PROVE  FALSE
    BY <2>1 DEF Lifecycle, CreateRoom, UpdateRoom, DeleteRoom
  <2>2. ASSUME NEW u \in Users, Membership(u)
        PROVE  w \in invited /\ w \notin invited'
    BY <2>2
    DEF Membership, JoinRoom, LeaveRoom, AcceptInvitation, RejectInvitation,
        MarkRead
  <2>3. ASSUME NEW u \in Users, NEW target \in Users, Moderation(u, target)
        PROVE  FALSE
    BY <2>3
    DEF Moderation, CreateInvitation, PromoteAdmin, DemoteAdmin, CreateBan,
        RemoveBan
  <2> QED
    BY <2>1, <2>2, <2>3 DEF Next
<1> QED
  BY <1>1, RoomInvariant, PTL DEF Spec, PrivateRoomsAreEnteredByInvitation

(* Nobody's rank or ban changes without an audited actor of higher          *)
(* standing.  The last conjunct of the property, that a ban is never lifted *)
(* by the banned, holds because the banned are not members.                 *)
THEOREM ModerationNeedsStanding == Spec => ModerationFollowsTheHierarchy
<1> DEFINE
    Hierarchy ==
      Exists' => \A u \in Users : RankChangeIsAudited(u) /\ BanChangeIsAudited(u)
<1>1. RoomInv /\ [Next]_vars => [Hierarchy]_vars
  <2> SUFFICES ASSUME RoomInv, Next, Exists', NEW w \in Users
               PROVE  RankChangeIsAudited(w) /\ BanChangeIsAudited(w)
    OBVIOUS
  <2> USE DEF RoomInv, TypeOK, IsMember, IsBanned, Exists,
              RankChangeIsAudited, BanChangeIsAudited, ActedUponBySuperior
  <2>1. ASSUME NEW u \in Users, Lifecycle(u)
        PROVE  RankChangeIsAudited(w) /\ BanChangeIsAudited(w)
    <3>1. ASSUME NEW v \in Visibilities, CreateRoom(u, v)
          PROVE  RankChangeIsAudited(w) /\ BanChangeIsAudited(w)
      BY <3>1 DEF CreateRoom, NothingOutlivesTheRoom
    <3>2. ASSUME NEW v \in Visibilities, UpdateRoom(u, v)
          PROVE  RankChangeIsAudited(w) /\ BanChangeIsAudited(w)
      BY <3>2 DEF UpdateRoom
    <3>3. CASE DeleteRoom(u)
      BY <3>3 DEF DeleteRoom
    <3> QED
      BY <2>1, <3>1, <3>2, <3>3 DEF Lifecycle
  <2>2. ASSUME NEW u \in Users, Membership(u)
        PROVE  RankChangeIsAudited(w) /\ BanChangeIsAudited(w)
    <3>1. CASE JoinRoom(u)
      BY <3>1 DEF JoinRoom
    <3>2. CASE LeaveRoom(u)
      BY <3>2 DEF LeaveRoom, BannedUsersAreOut
    <3>3. CASE AcceptInvitation(u)
      BY <3>3 DEF AcceptInvitation
    <3>4. CASE RejectInvitation(u) \/ MarkRead(u)
      BY <3>4 DEF RejectInvitation, MarkRead
    <3> QED
      BY <2>2, <3>1, <3>2, <3>3, <3>4 DEF Membership
  <2>3. ASSUME NEW u \in Users, NEW target \in Users, Moderation(u, target)
        PROVE  RankChangeIsAudited(w) /\ BanChangeIsAudited(w)
    <3> USE DEF Moderates, Event
    <3>1. CASE CreateInvitation(u, target)
      BY <3>1 DEF CreateInvitation
    <3>2. CASE PromoteAdmin(u, target)
      BY <3>2 DEF PromoteAdmin, OwnerIsTheOneOwner
    <3>3. CASE DemoteAdmin(u, target)
      BY <3>3 DEF DemoteAdmin
    <3>4. ASSUME NEW action \in BanActions, CreateBan(u, target, action)
          PROVE  RankChangeIsAudited(w) /\ BanChangeIsAudited(w)
      BY <3>4 DEF CreateBan, MayModerate, OwnerIsTheOneOwner, Roles, RoomRoles
    <3>5. CASE RemoveBan(u, target)
      BY <3>5 DEF RemoveBan, BannedUsersAreOut
    <3> QED
      BY <2>3, <3>1, <3>2, <3>3, <3>4, <3>5 DEF Moderation
  <2> QED
    BY <2>1, <2>2, <2>3 DEF Next
<1> QED
  BY <1>1, RoomInvariant, PTL DEF Spec, ModerationFollowsTheHierarchy

(* The same invariant for the room taken up in any state it allows: the     *)
(* form in which concurrent executions are compared with this module.       *)
THEOREM RoomInvariantFromAnyState == SpecFromAnyState => []RoomInv
  BY NextPreservesRoomInv, PTL DEF SpecFromAnyState

============================================================================
