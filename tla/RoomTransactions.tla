-------------------------- MODULE RoomTransactions --------------------------
(***************************************************************************)
(* The requests of Rooms taken apart into their statements, for several    *)
(* requests at once under PostgreSQL's READ COMMITTED isolation, the level *)
(* the settings leave in force:                                            *)
(*                                                                         *)
(*  - a plain SELECT sees what is committed when it runs, and nothing      *)
(*    keeps that true afterwards;                                          *)
(*  - SELECT ... FOR UPDATE and DELETE wait for the row and hold it until  *)
(*    the transaction ends;                                                *)
(*  - writes are seen by the others when the transaction commits.          *)
(*                                                                         *)
(* No transaction here reads back a row it has written, so the writes of a *)
(* request are applied in one step, its last, which is the commit.  What   *)
(* another may wait for before that is a step of its own: the row a        *)
(* moderation locks, the room and the invitation an accept locks, and the  *)
(* (room, user) key that the INSERT of a join takes in the unique index    *)
(* and keeps until its transaction ends.  (The keys of an invitation and   *)
(* of a read marker are waited for by their like alone, which come to the  *)
(* same end at the commit.)                                                *)
(*                                                                         *)
(* One lock is wider than it looks.  accept_room_invitation locks its      *)
(* invitation with select_for_update().select_related("room", ...), and    *)
(* PostgreSQL then locks the joined room row too, FOR UPDATE.  Every       *)
(* insert that references the room (a membership, an invitation, a ban, a  *)
(* read marker, a ModerationEvent) checks its foreign key at the commit    *)
(* with a KEY SHARE lock on that row, and waits.  An accept therefore      *)
(* excludes the commits of every other writer of the room, and a reject    *)
(* only those of the same invitation.  And an accept that inserts waits    *)
(* for the key of a join of the same user, while that join's commit waits  *)
(* for the room: the one cycle there is, until the database gives one of   *)
(* the two up.                                                             *)
(***************************************************************************)
EXTENDS Rooms, Naturals, FiniteSets

CONSTANTS
    Requests,  \* the HTTP requests being served at the same time
    Ops        \* the operations they may ask for

ModerationOps == {"promote", "demote", "ban", "unban"}
AllOps == ModerationOps \cup
          {"join", "leave", "invite", "accept", "reject", "read", "update", "delete"}

ASSUME OpsAssumption == Ops \subseteq AllOps

VARIABLES
    req,     \* each request: what it does, where it is, what it has read
    rowId    \* the identity of the membership row each user has or had last

tvars == <<vars, req, rowId>>
requestVars == <<req, rowId>>
----------------------------------------------------------------------------

Answered == {"done", "refused"}

(* The statement a request runs next. *)
Steps == Answered \cup
    {"idle", "role_check", "ban_check", "member_check", "lock", "insert", "commit"}

Idle == [op |-> "none", actor |-> NoUser, target |-> NoUser, step |-> "idle",
         rank |-> "none", row |-> 0]

(* At most one membership row per request, plus the one a user starts with. *)
RowIds == 0 .. Cardinality(Requests)

RowHolders(u) ==
    {r \in Requests : /\ req[r].op \in {"promote", "demote", "ban"}
                      /\ req[r].step = "commit"
                      /\ req[r].target = u}

RoomHolders ==
    {r \in Requests : /\ req[r].op = "accept"
                      /\ req[r].step \in {"ban_check", "commit"}}

KeyHolders(u) ==
    {r \in Requests : /\ req[r].op = "join"
                      /\ req[r].step = "commit"
                      /\ req[r].actor = u}

RequestTypeOK ==
    /\ TypeOK
    /\ req \in [Requests -> [op : Ops \cup {"none"},
                             actor : Users \cup {NoUser},
                             target : Users \cup {NoUser},
                             step : Steps,
                             rank : Roles,
                             row : RowIds]]
    /\ rowId \in [Users -> RowIds]
    /\ \A u \in Users : /\ Cardinality(RowHolders(u)) <= 1
                         /\ Cardinality(KeyHolders(u)) <= 1
    /\ Cardinality(RoomHolders) <= 1

(* The requests arrive at any room the serial requests can have left.  The  *)
(* owner is never banned or invited; "removed" bans behave like none.       *)
TInit ==
    /\ visibility \in Visibilities
    /\ owner \in Users
    /\ role \in {f \in [Users -> Roles] :
                    \A u \in Users : f[u] = "owner" <=> u = owner}
    /\ ban \in {f \in [Users -> {"none", "active"}] :
                    \A u \in Users : f[u] = "active" => role[u] = "none"}
    /\ invited \in SUBSET (Users \ {owner})
    /\ readStates = {u \in Users : IsMember(u)}
    /\ audit = Event("room_created", owner, NoUser)
    /\ req = [r \in Requests |-> Idle]
    /\ rowId = [u \in Users |-> 0]

----------------------------------------------------------------------------

(* Nobody holds the user's membership row; a broken variant is a moderation *)
(* that reads it without select_for_update.                                 *)
RowNeverHeld(u) == TRUE
RowFree(u)      == RowHolders(u) = {}

(* No accept holds the room row; a broken variant is an accept that locks   *)
(* its invitation alone (select_for_update(of=("self",))).                  *)
RoomNeverHeld == TRUE
RoomFree      == RoomHolders = {}

(* No INSERT of the user's membership is waiting for its commit. *)
KeyFree(u) == KeyHolders(u) = {}

InvitationFree(u) == \A r \in RoomHolders : req[r].actor # u

At(r, op, step) == req[r].op = op /\ req[r].step = step

Goto(r, step) == req' = [req EXCEPT ![r].step = step]

(* A request reads something and goes on if it likes what it sees. *)
Check(r, op, step, condition, next) ==
    /\ At(r, op, step)
    /\ Goto(r, IF condition THEN next ELSE "refused")
    /\ UNCHANGED <<vars, rowId>>

Begin(r, op, actor, target, step) ==
    /\ op \in Ops
    /\ req[r].step = "idle"
    /\ req' = [req EXCEPT ![r] = [Idle EXCEPT !.op = op, !.actor = actor,
                                              !.target = target, !.step = step]]
    /\ UNCHANGED <<vars, rowId>>

(* A commit that finds a constraint violated instead is an error response.  *)
Commit(r, op, waits, possible, Effect) ==
    /\ At(r, op, "commit")
    /\ waits
    /\ IF possible
          THEN Goto(r, "done") /\ Effect
          ELSE Goto(r, "refused") /\ UNCHANGED <<vars, rowId>>

----------------------------------------------------------------------------
(* join_room: the visibility comes with the Room the view loaded, then one  *)
(* query for the ban and one for the membership.  The INSERT fails on a row  *)
(* that is there and waits for one that may be; the foreign key is checked   *)
(* at the commit.                                                            *)

BeginJoin(r, u) ==
    /\ visibility = "public"
    /\ Begin(r, "join", u, u, "ban_check")

JoinBanCheck(r) ==
    Check(r, "join", "ban_check", ~IsBanned(req[r].actor), "member_check")

JoinMemberCheck(r) ==
    Check(r, "join", "member_check", ~IsMember(req[r].actor), "insert")

JoinInsert(r) ==
    LET u == req[r].actor IN
    /\ KeyFree(u)
    /\ Check(r, "join", "insert", ~IsMember(u), "commit")

NewMember(u) ==
    /\ role' = [role EXCEPT ![u] = "member"]
    /\ rowId' = [rowId EXCEPT ![u] = @ + 1]
    /\ UNCHANGED <<visibility, owner, ban, readStates, audit>>

(* Broken variant: nothing refers a membership to its room. *)
JoinCommitUnreferenced(r) ==
    Commit(r, "join", TRUE, TRUE, NewMember(req[r].actor) /\ UNCHANGED invited)

JoinCommit(r) ==
    Commit(r, "join", RoomFree, Exists, NewMember(req[r].actor) /\ UNCHANGED invited)

----------------------------------------------------------------------------
(* leave_room: the row is read, and then deleted by its id.                 *)

BeginLeave(r, u) ==
    /\ Exists
    /\ Begin(r, "leave", u, u, "member_check")

(* Broken variant: the owner is let go. *)
LeaveMemberCheckAnybody(r) ==
    LET u == req[r].actor IN
    /\ At(r, "leave", "member_check")
    /\ req' = [req EXCEPT ![r].step = IF IsMember(u) THEN "commit" ELSE "refused",
                          ![r].row = rowId[u]]
    /\ UNCHANGED <<vars, rowId>>

LeaveMemberCheck(r) ==
    LET u == req[r].actor IN
    /\ At(r, "leave", "member_check")
    /\ req' = [req EXCEPT ![r].step = IF IsMember(u) /\ role[u] # "owner" /\ owner # u
                                         THEN "commit" ELSE "refused",
                          ![r].row = rowId[u]]
    /\ UNCHANGED <<vars, rowId>>

(* Broken variant: the DELETE does not wait for whoever holds the row. *)
LeaveCommitAtOnce(r) ==
    LET u == req[r].actor IN
    Commit(r, "leave", TRUE, TRUE,
           /\ role' = [role EXCEPT ![u] = IF rowId[u] = req[r].row THEN "none" ELSE @]
           /\ readStates' = readStates \ {u}
           /\ UNCHANGED <<visibility, owner, ban, invited, audit, rowId>>)

LeaveCommit(r) ==
    LET u == req[r].actor IN
    Commit(r, "leave", RowFree(u), TRUE,
           /\ role' = [role EXCEPT ![u] = IF rowId[u] = req[r].row THEN "none" ELSE @]
           /\ readStates' = readStates \ {u}
           /\ UNCHANGED <<visibility, owner, ban, invited, audit, rowId>>)

----------------------------------------------------------------------------
(* create_room_invitation *)

BeginInvite(r, a, t) ==
    /\ VisibleTo(a)
    /\ visibility = "private"
    /\ t # a
    /\ Begin(r, "invite", a, t, "role_check")

InviteRoleCheck(r) ==
    Check(r, "invite", "role_check", Moderates(req[r].actor), "ban_check")

(* Broken variant: it is the inviter who is looked up among the banned.     *)
InviteBanCheckOfActor(r) ==
    Check(r, "invite", "ban_check", ~IsBanned(req[r].actor), "member_check")

InviteBanCheck(r) ==
    Check(r, "invite", "ban_check", ~IsBanned(req[r].target), "member_check")

InviteMemberCheck(r) ==
    Check(r, "invite", "member_check", ~IsMember(req[r].target), "commit")

InviteCommit(r) ==
    LET t == req[r].target IN
    Commit(r, "invite", RoomFree, Exists /\ t \notin invited,
           /\ invited' = invited \cup {t}
           /\ UNCHANGED <<visibility, owner, role, ban, readStates, audit, rowId>>)

----------------------------------------------------------------------------
(* accept_room_invitation locks the invitation and the room before it reads *)
(* the ban; then get_or_create finds the membership or inserts it, which     *)
(* waits for the key.  reject_room_invitation is over in one locked row.     *)

BeginAccept(r, u) ==
    /\ u \in invited
    /\ RoomFree
    /\ Begin(r, "accept", u, u, "ban_check")

AcceptBanCheck(r) ==
    Check(r, "accept", "ban_check", ~IsBanned(req[r].actor), "commit")

AcceptedBy(u) ==
    /\ IF IsMember(u)
          THEN UNCHANGED <<visibility, owner, role, ban, readStates, audit, rowId>>
          ELSE NewMember(u)
    /\ invited' = invited \ {u}

(* Broken variant: the membership is fetched with select_for_update too. *)
AcceptCommitLockingTheRow(r) ==
    LET u == req[r].actor IN
    Commit(r, "accept", RowFree(u) /\ KeyFree(u), TRUE, AcceptedBy(u))

AcceptCommit(r) ==
    LET u == req[r].actor IN
    Commit(r, "accept", KeyFree(u), TRUE, AcceptedBy(u))

Reject(r, u) ==
    /\ "reject" \in Ops
    /\ req[r].step = "idle"
    /\ InvitationFree(u)
    /\ req' = [req EXCEPT ![r] = [Idle EXCEPT !.op = "reject", !.actor = u,
                                              !.target = u, !.step = "done"]]
    /\ RejectInvitation(u)
    /\ UNCHANGED rowId

----------------------------------------------------------------------------
(* Moderation: the actor's rank is read first and never again, the target's *)
(* membership row is locked, and everything is written at the commit.       *)

BeginModeration(r, op, a, t) ==
    /\ VisibleTo(a)
    /\ Begin(r, op, a, t, "role_check")

RoleCheck(r, op, allowed) ==
    /\ At(r, op, "role_check")
    /\ req' = [req EXCEPT
                 ![r].rank = role[req[r].actor],
                 ![r].step = IF role[req[r].actor] \notin allowed THEN "refused"
                             ELSE IF op = "unban" THEN "commit" ELSE "lock"]
    /\ UNCHANGED <<vars, rowId>>

Lock(r, op, acceptable) ==
    /\ RowFree(req[r].target)
    /\ Check(r, op, "lock", acceptable, "commit")

PromoteLock(r) == Lock(r, "promote", role[req[r].target] = "member")

PromoteCommit(r) ==
    LET t == req[r].target IN
    Commit(r, "promote", RoomFree, TRUE,
           /\ role' = [role EXCEPT ![t] = "admin"]
           /\ audit' = Event("admin_promoted", req[r].actor, t)
           /\ UNCHANGED <<visibility, owner, ban, invited, readStates, rowId>>)

DemoteLock(r) ==
    LET q == req[r] IN
    Lock(r, "demote", role[q.target] = "admin" /\ ~(q.rank = "admin" /\ q.target = q.actor))

DemoteCommit(r) ==
    LET t == req[r].target IN
    Commit(r, "demote", RoomFree, TRUE,
           /\ role' = [role EXCEPT ![t] = "member"]
           /\ audit' = Event("admin_demoted", req[r].actor, t)
           /\ UNCHANGED <<visibility, owner, ban, invited, readStates, rowId>>)

BanLock(r) ==
    LET q == req[r] IN
    Lock(r, "ban", /\ role[q.target] \in {"admin", "member"}
                   /\ ~(q.rank = "admin" /\ role[q.target] = "admin"))

(* Broken variant: the read marker of the banned stays behind. *)
BanCommitKeepingMarker(r, action) ==
    LET t == req[r].target IN
    Commit(r, "ban", RoomFree, ~IsBanned(t),
           /\ role' = [role EXCEPT ![t] = "none"]
           /\ ban' = [ban EXCEPT ![t] = "active"]
           /\ audit' = Event(action, req[r].actor, t)
           /\ UNCHANGED <<visibility, owner, invited, readStates, rowId>>)

BanCommit(r, action) ==
    LET t == req[r].target IN
    Commit(r, "ban", RoomFree, ~IsBanned(t),
           /\ role' = [role EXCEPT ![t] = "none"]
           /\ readStates' = readStates \ {t}
           /\ ban' = [ban EXCEPT ![t] = "active"]
           /\ audit' = Event(action, req[r].actor, t)
           /\ UNCHANGED <<visibility, owner, invited, rowId>>)

(* The ban row is locked, checked and written without another read between. *)
UnbanCommit(r) ==
    LET t == req[r].target IN
    Commit(r, "unban", RoomFree, Exists /\ IsBanned(t),
           /\ ban' = [ban EXCEPT ![t] = "removed"]
           /\ audit' = Event("member_unbanned", req[r].actor, t)
           /\ UNCHANGED <<visibility, owner, role, invited, readStates, rowId>>)

----------------------------------------------------------------------------
(* mark_room_read checks the access and writes the marker.                  *)

BeginRead(r, u) ==
    /\ VisibleTo(u)
    /\ Begin(r, "read", u, u, "member_check")

ReadMemberCheck(r) ==
    Check(r, "read", "member_check", IsMember(req[r].actor), "ban_check")

ReadBanCheck(r) ==
    Check(r, "read", "ban_check", ~IsBanned(req[r].actor), "commit")

ReadCommit(r) ==
    Commit(r, "read", RoomFree, Exists,
           /\ readStates' = readStates \cup {req[r].actor}
           /\ UNCHANGED <<visibility, owner, role, ban, invited, audit, rowId>>)

(* The owner column never changes, so the check of update_room and          *)
(* delete_room cannot go stale; the write waits for every row it touches.   *)
OwnerRequest(r, op, u) ==
    /\ op \in Ops
    /\ req[r].step = "idle"
    /\ RoomFree
    /\ req' = [req EXCEPT ![r] = [Idle EXCEPT !.op = op, !.actor = u, !.step = "done"]]
    /\ UNCHANGED rowId

Update(r, u, v) == OwnerRequest(r, "update", u) /\ UpdateRoom(u, v)

Delete(r, u) ==
    /\ \A w \in Users : RowFree(w)
    /\ OwnerRequest(r, "delete", u)
    /\ DeleteRoom(u)

(* The database gives a transaction up (a deadlock victim, a lost           *)
(* connection, a worker that dies) and all of it is undone.                 *)
RollBack(r) ==
    /\ req[r].step \notin Answered \cup {"idle"}
    /\ Goto(r, "refused")
    /\ UNCHANGED <<vars, rowId>>

----------------------------------------------------------------------------

Arrive(r) ==
    \E u \in Users :
        \/ BeginJoin(r, u)
        \/ BeginLeave(r, u)
        \/ BeginAccept(r, u)
        \/ Reject(r, u)
        \/ BeginRead(r, u)
        \/ \E v \in Visibilities : Update(r, u, v)
        \/ Delete(r, u)
        \/ \E t \in Users :
              \/ BeginInvite(r, u, t)
              \/ \E op \in ModerationOps : BeginModeration(r, op, u, t)

Proceed(r) ==
    \/ JoinBanCheck(r) \/ JoinMemberCheck(r) \/ JoinInsert(r) \/ JoinCommit(r)
    \/ LeaveMemberCheck(r) \/ LeaveCommit(r)
    \/ InviteRoleCheck(r) \/ InviteBanCheck(r) \/ InviteMemberCheck(r) \/ InviteCommit(r)
    \/ AcceptBanCheck(r) \/ AcceptCommit(r)
    \/ RoleCheck(r, "promote", {"owner"}) \/ PromoteLock(r) \/ PromoteCommit(r)
    \/ RoleCheck(r, "demote", {"owner", "admin"}) \/ DemoteLock(r) \/ DemoteCommit(r)
    \/ RoleCheck(r, "ban", {"owner", "admin"}) \/ BanLock(r)
    \/ \E action \in BanActions : BanCommit(r, action)
    \/ RoleCheck(r, "unban", {"owner", "admin"}) \/ UnbanCommit(r)
    \/ ReadMemberCheck(r) \/ ReadBanCheck(r) \/ ReadCommit(r)

(* Nothing in flight: the only state the system may rest in.                *)
Quiet ==
    /\ \A r \in Requests : req[r].step \in Answered \cup {"idle"}
    /\ UNCHANGED tvars

TNext ==
    \/ \E r \in Requests : Arrive(r) \/ Proceed(r) \/ RollBack(r)
    \/ Quiet

(* A request that has arrived is executed: its worker thread runs on.       *)
TSpec == TInit /\ [][TNext]_tvars /\ \A r \in Requests : WF_tvars(Proceed(r))

----------------------------------------------------------------------------

Commits(r) == req[r].step # "done" /\ req'[r].step = "done"

(* What a moderation decided about its target is still so when it commits:  *)
(* the row it locked was not promoted, demoted or deleted under it.         *)
DecisionsMatchTheRow ==
    [][\A r \in Requests :
         LET q == req[r] t == req[r].target IN
         Commits(r) =>
           /\ q.op = "promote" => role[t] = "member"
           /\ q.op = "demote" => role[t] = "admin"
           /\ q.op = "ban" => /\ role[t] \in {"admin", "member"}
                              /\ q.rank = "admin" => role[t] = "member"]_tvars

(* An invitation never lets a banned user in, however its acceptance is     *)
(* interleaved with the ban: the lock on the room row makes the ban check   *)
(* of accept_room_invitation last until its commit.                         *)
InvitationsAdmitNoBanned ==
    [][\A r \in Requests :
         req[r].op = "accept" /\ Commits(r) => ~IsBanned(req[r].actor)]_tvars

(* A membership deleted under a request does not come back by it: who was   *)
(* out gets in only by joining or accepting, in person.                     *)
OnlyTheUserEnters ==
    [][\A u \in Users :
         ~IsMember(u) /\ IsMember(u)' =>
           \E r \in Requests : /\ Commits(r)
                               /\ req[r].actor = u
                               /\ req[r].op \in {"join", "accept"}]_tvars

(* A join and an accept of one user that wait for each other: the join has  *)
(* the key of the membership and its commit needs the room, the accept has   *)
(* the room and needs the key.                                              *)
Deadlock(u) ==
    \E r, s \in Requests : At(r, "join", "commit") /\ req[r].actor = u
                         /\ At(s, "accept", "commit") /\ req[s].actor = u

(* Every request is answered, unless the user it is for, or the one it      *)
(* stands behind, joins and accepts an invitation at the same time.  In all *)
(* other cases the locks are taken in one order, membership row before room *)
(* row, and no request waits for ever.                                      *)
EveryRequestIsAnswered ==
    \A r \in Requests :
        req[r].step # "idle" ~> \/ req[r].step \in Answered
                               \/ \E u \in Users : Deadlock(u)

(* What keeps a request from its next statement.                            *)
Waits(r) ==
    \/ /\ req[r].step = "lock" \/ At(r, "leave", "commit")
       /\ ~RowFree(req[r].target)
    \/ /\ At(r, "join", "insert") \/ At(r, "accept", "commit")
       /\ ~KeyFree(req[r].actor)
    \/ /\ req[r].step = "commit" /\ req[r].op \notin {"leave", "accept"}
       /\ ~RoomFree

UnderWay(r) == req[r].step \notin Answered \cup {"idle"}

(* However many requests are under way, one of them can go on, or a join    *)
(* and an accept of one user wait for each other: there is no other cycle.  *)
NoOtherDeadlock ==
    (\E r \in Requests : UnderWay(r)) =>
        \/ \E r \in Requests : UnderWay(r) /\ ~Waits(r)
        \/ \E u \in Users : Deadlock(u)

(* What a request decides by still holds when it commits: it looks at rows  *)
(* it has locked, or at the owner, who does not change.  A join, an         *)
(* invitation, a read marker and an admin's moderation look at more.        *)
Holds(r) ==
    /\ req[r].op \notin {"join", "invite", "read"}
    /\ req[r].op \in ModerationOps => req[r].rank # "admin"

(* As long as all the requests are of that kind, every step is a whole      *)
(* serial request or changes no row, whatever the interleaving.             *)
SerialSteps ==
    /\ RoomInv
    /\ [][(\A r \in Requests : Holds(r))' => [Next]_vars]_tvars

(* What Rooms says of a request that is served.                             *)
Served(q) ==
    \/ q.op = "join" /\ JoinRoom(q.actor)
    \/ q.op = "leave" /\ LeaveRoom(q.actor)
    \/ q.op = "invite" /\ CreateInvitation(q.actor, q.target)
    \/ q.op = "accept" /\ AcceptInvitation(q.actor)
    \/ q.op = "reject" /\ RejectInvitation(q.actor)
    \/ q.op = "promote" /\ PromoteAdmin(q.actor, q.target)
    \/ q.op = "demote" /\ DemoteAdmin(q.actor, q.target)
    \/ q.op = "ban" /\ \E action \in BanActions : CreateBan(q.actor, q.target, action)
    \/ q.op = "unban" /\ RemoveBan(q.actor, q.target)
    \/ q.op = "read" /\ MarkRead(q.actor)
    \/ q.op = "update" /\ \E v \in Visibilities : UpdateRoom(q.actor, v)
    \/ q.op = "delete" /\ DeleteRoom(q.actor)

Lone(r) == \A q \in Requests \ {r} : req[q].step = "idle"

(* A request of any kind with which no other overlaps does at its commit    *)
(* what Rooms says of it as a whole, and nothing before.  (What was served  *)
(* before it is in the initial state, which is any there can be.)           *)
LoneRequestsAreServed ==
    [][\A r \in Requests : Lone(r)' =>
          IF Commits(r) THEN Served(req'[r]) ELSE UNCHANGED vars]_tvars

(* What a race can leave behind in the rows of a room.                      *)
BannedMember(u) == IsMember(u) /\ IsBanned(u)
OldMarker(u)    == u \in readStates /\ ~IsMember(u)

(* Requests that overlap leave two traces and no other.  A banned member    *)
(* comes of the user's own join alone, and nobody gets rid of one but the   *)
(* user who leaves, the one who lifts the ban and the owner who deletes the *)
(* room: who tries to ban again is refused.  A read marker without its      *)
(* membership comes of mark_room_read alone, never of the end of the        *)
(* membership, and waits for the user's return, or for a second leave.      *)
RacesLeaveTwoTraces ==
    [][\A u \in Users :
         /\ ~BannedMember(u) /\ BannedMember(u)' =>
               \E r \in Requests : Commits(r) /\ req'[r].op = "join" /\ req'[r].actor = u
         /\ BannedMember(u) /\ ~BannedMember(u)' =>
               \E r \in Requests :
                  /\ Commits(r)
                  /\ \/ req'[r].op = "leave" /\ req'[r].actor = u
                     \/ req'[r].op = "unban" /\ req'[r].target = u
                     \/ req'[r].op = "delete"
         /\ ~OldMarker(u) /\ OldMarker(u)' =>
               \E r \in Requests : Commits(r) /\ req'[r].op = "read" /\ req'[r].actor = u
         /\ OldMarker(u) /\ ~OldMarker(u)' =>
               \E r \in Requests :
                  /\ Commits(r)
                  /\ \/ req'[r].op \in {"join", "accept", "leave"} /\ req'[r].actor = u
                     \/ req'[r].op = "delete"]_tvars

============================================================================
