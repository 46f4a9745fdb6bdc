----------------------- MODULE RoomTransactionsProofs -----------------------
(***************************************************************************)
(* What the locks of the room requests are worth, for any numbers of users *)
(* and of requests at once: the decisions they protect, and that as long   *)
(* as every request decides by what it has locked, each step of any        *)
(* interleaving is a whole request of Rooms.                               *)
(***************************************************************************)
EXTENDS RoomTransactions, RoomsProofs

RowOps == {"promote", "demote", "ban"}

(* The requests as RequestTypeOK has them, without the bound on row numbers.*)
RequestRecords ==
    [op : AllOps \cup {"none"}, actor : Users \cup {NoUser},
     target : Users \cup {NoUser}, step : Steps, rank : Roles, row : Nat]

(* What a moderation has decided about the membership row it holds.         *)
Decided(q) ==
    /\ q.op = "promote" => role[q.target] = "member"
    /\ q.op = "demote" => role[q.target] = "admin"
    /\ q.op = "ban" => /\ role[q.target] \in {"admin", "member"}
                       /\ q.rank = "admin" => role[q.target] = "member"

(* What its rank still means: an owner's never goes stale.                  *)
Ranked(q) ==
    /\ q.rank \in {"owner", "admin"}
    /\ q.op = "promote" => q.rank = "owner"
    /\ q.rank = "owner" /\ Exists => owner = q.actor

HoldsRow(q, u) == q.op \in RowOps /\ q.step = "commit" /\ q.target = u
HoldsRoom(q)   == q.op = "accept" /\ q.step \in {"ban_check", "commit"}
HoldsKey(q, u) == q.op = "join" /\ q.step = "commit" /\ q.actor = u

(* The inductive invariant: a row has one holder, so has the key of a       *)
(* membership that is being inserted, and there is no such membership yet;  *)
(* and what a request found out about what it holds, or about the owner, is *)
(* so until it ends.                                                        *)
RequestsAreTyped ==
    /\ TypeOK
    /\ rowId \in [Users -> Nat]
    /\ req \in [Requests -> RequestRecords]
    /\ \A r \in Requests :
          /\ req[r].step = "idle" => req[r] = Idle
          /\ req[r].step = "role_check" => req[r].rank = "none"
          /\ req[r].step \notin Answered \cup {"idle"}
                => req[r].actor \in Users /\ req[r].target \in Users
RowsAreHeldOnce ==
    \A r, s \in Requests : \A u \in Users :
        HoldsRow(req[r], u) /\ HoldsRow(req[s], u) => r = s
RoomIsHeldOnce ==
    \A r, s \in Requests : HoldsRoom(req[r]) /\ HoldsRoom(req[s]) => r = s
KeysAreHeldOnce ==
    \A r, s \in Requests : \A u \in Users :
        HoldsKey(req[r], u) /\ HoldsKey(req[s], u) => r = s
JoinersAreNew ==
    \A r \in Requests : \A u \in Users : HoldsKey(req[r], u) => role[u] = "none"
DecisionsStand ==
    \A r \in Requests :
        req[r].op \in RowOps /\ req[r].step = "commit" => Decided(req[r])
RanksStand ==
    \A r \in Requests :
        req[r].op \in ModerationOps /\ req[r].step \in {"lock", "commit"}
           => Ranked(req[r])
InvitationsStand ==
    \A r \in Requests :
        HoldsRoom(req[r]) =>
           /\ req[r].actor \in invited
           /\ req[r].step = "commit" => ~IsBanned(req[r].actor)
LeaversAreNoOwners ==
    \A r \in Requests : At(r, "leave", "commit") => owner # req[r].actor

TransactionInv ==
    /\ RequestsAreTyped
    /\ RowsAreHeldOnce
    /\ RoomIsHeldOnce
    /\ KeysAreHeldOnce
    /\ JoinersAreNew
    /\ DecisionsStand
    /\ RanksStand
    /\ InvitationsStand
    /\ LeaversAreNoOwners
    /\ OwnerIsTheOneOwner
    /\ NothingOutlivesTheRoom

(* Requests arrive at a room in order, none of them under way.              *)
LEMMA TransactionsStart == TInit => TransactionInv
<1> SUFFICES ASSUME TInit PROVE TransactionInv
  OBVIOUS
<1> USE UsersAssumption DEF TInit
<1>1. \A r \in Requests : req[r] = Idle
  OBVIOUS
<1>2. TypeOK
  BY DEF TypeOK, Visibilities, Roles, RoomRoles, BanStates, Actions, BanActions, Event
<1>3. Idle \in RequestRecords
  BY DEF Idle, RequestRecords, Steps, Roles, Answered
<1>4. RequestsAreTyped
  BY <1>1, <1>2, <1>3 DEF RequestsAreTyped, Idle
<1>5. /\ RowsAreHeldOnce /\ RoomIsHeldOnce /\ KeysAreHeldOnce /\ JoinersAreNew
      /\ DecisionsStand /\ RanksStand /\ InvitationsStand /\ LeaversAreNoOwners
  BY <1>1 DEF RowsAreHeldOnce, RoomIsHeldOnce, KeysAreHeldOnce, JoinersAreNew,
              DecisionsStand, RanksStand, InvitationsStand, LeaversAreNoOwners,
              HoldsRow, HoldsRoom, HoldsKey, Idle, At
<1>6. OwnerIsTheOneOwner /\ NothingOutlivesTheRoom
  BY DEF OwnerIsTheOneOwner, NothingOutlivesTheRoom, Exists, Visibilities
<1> QED BY <1>4, <1>5, <1>6 DEF TransactionInv

----------------------------------------------------------------------------
(* Two kinds of steps.  A request looks at the rows and goes on: what it    *)
(* will be entitled to is so when it looks.                                 *)
Others(r) == \A s \in Requests \ {r} : req'[s] = req[s]

(* What it does and as whom stays as it is once it is known.                *)
SameRequest(r) ==
    req[r].op # "none" => /\ req'[r].op = req[r].op
                          /\ req[r].rank = "admin" => req'[r].rank = "admin"

Entitled(r, q) ==
    /\ q \in RequestRecords /\ q.step \notin {"idle", "done"}
    /\ q.step = "role_check" => q.rank = "none"
    /\ q.step # "refused" => q.actor \in Users /\ q.target \in Users
    /\ q.op \in RowOps /\ q.step = "commit" => RowFree(q.target) /\ Decided(q)
    /\ q.op \in ModerationOps /\ q.step \in {"lock", "commit"} => Ranked(q)
    /\ HoldsRoom(q) => /\ RoomFree \/ r \in RoomHolders
                       /\ q.actor \in invited
                       /\ q.step = "commit" => ~IsBanned(q.actor)
    /\ q.op = "join" /\ q.step = "commit" => KeyFree(q.actor) /\ role[q.actor] = "none"
    /\ q.op = "leave" /\ q.step = "commit" =>
          owner # q.actor /\ q.row = rowId[q.actor]

LooksOnly(r) ==
    /\ Others(r)
    /\ req' = [req EXCEPT ![r] = req'[r]]
    /\ Entitled(r, req'[r])
    /\ SameRequest(r)
    /\ UNCHANGED <<vars, rowId>>

(* A look keeps the invariant: what is new was so when it was seen.         *)
LEMMA LookingKeepsInv ==
    ASSUME TransactionInv, NEW r \in Requests, LooksOnly(r)
    PROVE  TransactionInv'
<1> USE DEF TransactionInv
<1>0. UNCHANGED <<visibility, owner, role, ban, invited, readStates, audit, rowId>>
  BY DEF LooksOnly, vars
<1>o. \A s \in Requests : s # r => req'[s] = req[s]
  BY DEF LooksOnly, Others
<1>e. Entitled(r, req'[r])
  BY DEF LooksOnly
<1>d. /\ \A q : Decided(q) <=> Decided(q)'
      /\ \A q : Ranked(q) <=> Ranked(q)'
      /\ \A u : IsBanned(u) <=> IsBanned(u)'
  BY <1>0 DEF Decided, Ranked, IsBanned, Exists
<1>1. RequestsAreTyped'
  <2>1. TypeOK'
    BY <1>0 DEF RequestsAreTyped, TypeOK
  <2>2. req' \in [Requests -> RequestRecords]
    BY <1>e DEF RequestsAreTyped, Entitled, LooksOnly
  <2>3. ASSUME NEW s \in Requests
        PROVE  /\ req'[s].step = "idle" => req'[s] = Idle
               /\ req'[s].step = "role_check" => req'[s].rank = "none"
               /\ req'[s].step \notin Answered \cup {"idle"}
                     => req'[s].actor \in Users /\ req'[s].target \in Users
    BY <1>o, <1>e DEF RequestsAreTyped, Entitled, Answered
  <2> QED BY <1>0, <2>1, <2>2, <2>3 DEF RequestsAreTyped
<1>2. RowsAreHeldOnce'
  <2> SUFFICES ASSUME NEW x \in Requests, NEW s \in Requests, NEW u \in Users,
                      HoldsRow(req'[x], u), HoldsRow(req'[s], u)
               PROVE  x = s
    BY DEF RowsAreHeldOnce
  <2>1. ASSUME HoldsRow(req'[r], u), NEW y \in Requests, y # r, HoldsRow(req[y], u)
        PROVE  FALSE
    BY <1>e, <2>1 DEF Entitled, HoldsRow, RowFree, RowHolders, RowOps
  <2> QED BY <1>o, <2>1 DEF RowsAreHeldOnce
<1>3. RoomIsHeldOnce'
  <2> SUFFICES ASSUME NEW x \in Requests, NEW s \in Requests,
                      HoldsRoom(req'[x]), HoldsRoom(req'[s])
               PROVE  x = s
    BY DEF RoomIsHeldOnce
  <2>1. ASSUME HoldsRoom(req'[r]), NEW y \in Requests, y # r, HoldsRoom(req[y])
        PROVE  FALSE
    BY <1>e, <2>1 DEF Entitled, HoldsRoom, RoomFree, RoomHolders, RoomIsHeldOnce
  <2> QED BY <1>o, <2>1 DEF RoomIsHeldOnce
<1>9. KeysAreHeldOnce'
  <2> SUFFICES ASSUME NEW x \in Requests, NEW s \in Requests, NEW u \in Users,
                      HoldsKey(req'[x], u), HoldsKey(req'[s], u)
               PROVE  x = s
    BY DEF KeysAreHeldOnce
  <2>1. ASSUME HoldsKey(req'[r], u), NEW y \in Requests, y # r, HoldsKey(req[y], u)
        PROVE  FALSE
    BY <1>e, <2>1 DEF Entitled, HoldsKey, KeyFree, KeyHolders
  <2> QED BY <1>o, <2>1 DEF KeysAreHeldOnce
<1>10. JoinersAreNew'
  BY <1>0, <1>o, <1>e DEF JoinersAreNew, HoldsKey, Entitled
<1>4. DecisionsStand'
  <2> SUFFICES ASSUME NEW s \in Requests, req'[s].op \in RowOps, req'[s].step = "commit"
               PROVE  Decided(req'[s])
    BY <1>d DEF DecisionsStand, Decided
  <2> QED BY <1>o, <1>e DEF Entitled, DecisionsStand
<1>5. RanksStand'
  <2> SUFFICES ASSUME NEW s \in Requests, req'[s].op \in ModerationOps,
                      req'[s].step \in {"lock", "commit"}
               PROVE  Ranked(req'[s])
    BY <1>0 DEF RanksStand, Ranked, Exists
  <2> QED BY <1>o, <1>e DEF Entitled, RanksStand
<1>6. InvitationsStand'
  <2> SUFFICES ASSUME NEW s \in Requests, HoldsRoom(req'[s])
               PROVE  /\ req'[s].actor \in invited
                      /\ req'[s].step = "commit" => ~IsBanned(req'[s].actor)
    BY <1>0 DEF InvitationsStand, IsBanned
  <2> QED BY <1>o, <1>e DEF Entitled, InvitationsStand
<1>7. LeaversAreNoOwners'
  BY <1>0, <1>o, <1>e DEF LeaversAreNoOwners, Entitled, At
<1>8. OwnerIsTheOneOwner' /\ NothingOutlivesTheRoom'
  BY <1>0 DEF OwnerIsTheOneOwner, NothingOutlivesTheRoom, Exists
<1> QED BY <1>9, <1>10, <1>1, <1>2, <1>3, <1>4, <1>5, <1>6, <1>7, <1>8

(* Or it ends, and changes nothing that another has locked, nor the owner,  *)
(* nor brings a deleted room back.                                          *)
Ends(r) ==
    /\ Others(r)
    /\ req' = [req EXCEPT ![r] = req'[r]]
    /\ req'[r] \in RequestRecords /\ req'[r].step \in Answered

SparesTheOthers(r) ==
    /\ \A s \in Requests \ {r} : \A u \in Users :
          HoldsRow(req[s], u) => role'[u] = role[u]
    /\ \A s \in Requests \ {r} :
          HoldsRoom(req[s]) => /\ req[s].actor \in invited'
                               /\ ban'[req[s].actor] = ban[req[s].actor]
    /\ \A s \in Requests \ {r} : \A u \in Users :
          HoldsKey(req[s], u) => role'[u] = "none"
    /\ Exists' => Exists /\ owner' = owner

(* An end keeps it, if it spares what the others hold.                      *)
LEMMA EndingKeepsInv ==
    ASSUME TransactionInv, NEW r \in Requests, Ends(r), SparesTheOthers(r),
           TypeOK', rowId' \in [Users -> Nat],
           OwnerIsTheOneOwner', NothingOutlivesTheRoom'
    PROVE  TransactionInv'
<1> USE DEF TransactionInv
<1>o. \A s \in Requests : s # r => req'[s] = req[s]
  BY DEF Ends, Others
<1>e. req'[r] \in RequestRecords /\ req'[r].step \in {"done", "refused"}
  BY DEF Ends, Answered
<1>1. RequestsAreTyped'
  <2>2. req' \in [Requests -> RequestRecords]
    BY <1>e DEF RequestsAreTyped, Ends
  <2>3. ASSUME NEW s \in Requests
        PROVE  /\ req'[s].step = "idle" => req'[s] = Idle
               /\ req'[s].step = "role_check" => req'[s].rank = "none"
               /\ req'[s].step \notin Answered \cup {"idle"}
                     => req'[s].actor \in Users /\ req'[s].target \in Users
    BY <1>o, <1>e DEF RequestsAreTyped, Answered
  <2> QED BY <2>2, <2>3 DEF RequestsAreTyped
<1>2. RowsAreHeldOnce' /\ RoomIsHeldOnce' /\ KeysAreHeldOnce' /\ JoinersAreNew'
  BY <1>o, <1>e DEF RowsAreHeldOnce, RoomIsHeldOnce, KeysAreHeldOnce, JoinersAreNew,
                    SparesTheOthers, HoldsRow, HoldsRoom, HoldsKey
<1>t. ASSUME NEW s \in Requests, req'[s].step \notin {"done", "refused"}, req'[s].step # "idle"
      PROVE  /\ s # r /\ req'[s] = req[s]
             /\ req[s].actor \in Users /\ req[s].target \in Users
  BY <1>o, <1>e, <1>t DEF RequestsAreTyped, Answered
<1>4. DecisionsStand'
  <2> SUFFICES ASSUME NEW s \in Requests, req'[s].op \in RowOps, req'[s].step = "commit"
               PROVE  Decided(req[s])'
    BY DEF DecisionsStand
  <2>1. s # r /\ req'[s] = req[s] /\ req[s].target \in Users
    BY <1>t
  <2>2. role'[req[s].target] = role[req[s].target]
    BY <2>1 DEF SparesTheOthers, HoldsRow
  <2>3. Decided(req[s])
    BY <2>1 DEF DecisionsStand
  <2> QED BY <2>1, <2>2, <2>3 DEF Decided
<1>5. RanksStand'
  <2> SUFFICES ASSUME NEW s \in Requests, req'[s].op \in ModerationOps,
                      req'[s].step \in {"lock", "commit"}
               PROVE  Ranked(req[s])'
    BY DEF RanksStand
  <2>1. s # r /\ req'[s] = req[s]
    BY <1>t
  <2>2. Ranked(req[s])
    BY <2>1 DEF RanksStand
  <2> QED BY <2>1, <2>2 DEF Ranked, SparesTheOthers
<1>6. InvitationsStand'
  <2> SUFFICES ASSUME NEW s \in Requests, HoldsRoom(req'[s])
               PROVE  /\ req'[s].actor \in invited'
                      /\ req'[s].step = "commit" => ~IsBanned(req[s].actor)'
    BY DEF InvitationsStand
  <2>1. s # r /\ req'[s] = req[s]
    BY <1>t DEF HoldsRoom
  <2> QED BY <2>1 DEF InvitationsStand, SparesTheOthers, IsBanned
<1>7. LeaversAreNoOwners'
  <2> SUFFICES ASSUME NEW s \in Requests, At(s, "leave", "commit")'
               PROVE  owner' # req'[s].actor
    BY DEF LeaversAreNoOwners
  <2>1. /\ s # r /\ req'[s] = req[s] /\ req[s].actor \in Users
        /\ At(s, "leave", "commit")
    BY <1>t DEF At
  <2> QED BY <2>1, UsersAssumption DEF LeaversAreNoOwners, SparesTheOthers, NothingOutlivesTheRoom
<1> QED BY <1>1, <1>2, <1>4, <1>5, <1>6, <1>7

----------------------------------------------------------------------------
(* The actions, one by one.  Going to another statement changes that only.  *)
Keeps(q, p) ==
    /\ q.op = p.op /\ q.actor = p.actor /\ q.target = p.target
    /\ q.rank = p.rank /\ q.row = p.row

(* A step that only goes on keeps the rest of the request and the others.   *)
LEMMA GoingOn ==
    ASSUME RequestsAreTyped, NEW r \in Requests, NEW step \in Steps, Goto(r, step)
    PROVE  /\ Others(r)
           /\ req' = [req EXCEPT ![r] = req'[r]]
           /\ req'[r] \in RequestRecords
           /\ req'[r].step = step
           /\ Keeps(req'[r], req[r])
<1>1. req \in [Requests -> RequestRecords] /\ req[r] \in RequestRecords
  BY DEF RequestsAreTyped
<1>2. req' = [req EXCEPT ![r] = [req[r] EXCEPT !.step = step]]
  BY DEF Goto
<1>3. req'[r] = [req[r] EXCEPT !.step = step]
  BY <1>1, <1>2
<1>4. req'[r] \in RequestRecords /\ req'[r].step = step /\ Keeps(req'[r], req[r])
  BY <1>1, <1>3 DEF RequestRecords, Keeps
<1> QED BY <1>1, <1>2, <1>3, <1>4 DEF Others

(* A request arrives: who asks and for whom, and the first statement.       *)
LEMMA Beginning ==
    ASSUME RequestsAreTyped, NEW r \in Requests, NEW op, NEW u \in Users,
           NEW t \in Users, NEW step \in Steps, Begin(r, op, u, t, step)
    PROVE  /\ Others(r)
           /\ req' = [req EXCEPT ![r] = req'[r]]
           /\ req'[r] \in RequestRecords
           /\ req'[r].op = op /\ req'[r].step = step
           /\ req'[r].actor = u /\ req'[r].target = t
           /\ req'[r].rank = "none" /\ SameRequest(r)
           /\ UNCHANGED <<vars, rowId>>
<1>1. req' = [req EXCEPT ![r] = [Idle EXCEPT !.op = op, !.actor = u,
                                             !.target = t, !.step = step]]
  BY DEF Begin
<1>2. req \in [Requests -> RequestRecords] /\ op \in AllOps
  BY OpsAssumption DEF Begin, RequestsAreTyped
<1> DEFINE q == [Idle EXCEPT !.op = op, !.actor = u, !.target = t, !.step = step]
<1>3. Idle \in [op : {"none"}, actor : {NoUser}, target : {NoUser}, step : {"idle"},
                rank : {"none"}, row : {0}]
  BY DEF Idle
<1>5. q.op = op /\ q.step = step /\ q.actor = u /\ q.target = t /\ q.rank = "none"
  BY <1>3
<1>6. q \in RequestRecords
  <2>1. q \in [op : {op}, actor : {u}, target : {t}, step : {step},
               rank : {"none"}, row : {0}]
    BY <1>3
  <2> HIDE DEF q
  <2> QED BY <1>2, <2>1 DEF RequestRecords, Roles
<1>7. req'[r] = q
  BY <1>1, <1>2
<1>4. req'[r] \in RequestRecords
  BY <1>6, <1>7
<1>8. SameRequest(r)
  BY DEF Begin, RequestsAreTyped, Idle, SameRequest
<1> QED BY <1>1, <1>2, <1>4, <1>5, <1>7, <1>8 DEF Others, Begin

(* Every arrival is a look; only an accept is entitled to something yet.    *)
LEMMA ArrivalsLook ==
    ASSUME TransactionInv, NEW r \in Requests, NEW u \in Users, NEW t \in Users,
           \/ BeginJoin(r, u) \/ BeginLeave(r, u) \/ BeginRead(r, u) \/ BeginAccept(r, u)
           \/ BeginInvite(r, u, t)
           \/ \E op \in ModerationOps : BeginModeration(r, op, u, t)
    PROVE  LooksOnly(r)
<1> USE DEF TransactionInv
<1>1. ASSUME NEW op, NEW w \in Users, NEW step \in {"ban_check", "member_check", "role_check"},
             op # "accept", Begin(r, op, u, w, step)
      PROVE  LooksOnly(r)
  <2>1. step \in Steps
    BY DEF Steps
  <2>2. /\ req'[r].step = step /\ req'[r].op = op /\ req'[r].rank = "none"
        /\ req'[r].actor = u /\ req'[r].target = w
    BY <1>1, <2>1, Beginning
  <2>3. req'[r] \in RequestRecords
    BY <1>1, <2>1, Beginning
  <2>4. Entitled(r, req'[r])
    BY <1>1, <2>2, <2>3 DEF Entitled, HoldsRoom
  <2> QED BY <1>1, <2>1, <2>4, Beginning DEF LooksOnly
<1>2. CASE BeginAccept(r, u)
  <2>1. "ban_check" \in Steps /\ Begin(r, "accept", u, u, "ban_check")
    BY <1>2 DEF Steps, BeginAccept
  <2>2. /\ req'[r].step = "ban_check" /\ req'[r].op = "accept"
        /\ req'[r].actor = u /\ req'[r].target = u
    BY <2>1, Beginning
  <2>3. Entitled(r, req'[r])
    BY <1>2, <2>1, <2>2, Beginning DEF Entitled, HoldsRoom, BeginAccept, RowOps, ModerationOps
  <2> QED BY <2>1, <2>3, Beginning DEF LooksOnly
<1> QED BY <1>1, <1>2 DEF BeginJoin, BeginLeave, BeginRead, BeginInvite,
                        BeginModeration, ModerationOps

(* A check that entitles to nothing but the next statement.                 *)
LEMMA ChecksLook ==
    ASSUME TransactionInv, NEW r \in Requests, NEW step \in Steps, Goto(r, step),
           UNCHANGED <<vars, rowId>>, step \notin {"idle", "done", "role_check"},
           req[r].step \notin Answered \cup {"idle"},
           \/ step = "refused"
           \/ req[r].op \in {"invite", "read"}
           \/ req[r].op = "join" /\ step # "commit"
    PROVE  LooksOnly(r)
<1> USE DEF TransactionInv
<1>1. Entitled(r, req'[r])
  BY GoingOn DEF Entitled, Keeps, HoldsRoom, RowOps, ModerationOps, RequestsAreTyped
<1> QED BY <1>1, GoingOn DEF LooksOnly, SameRequest, Keeps

(* join, invite and read look at two or three things and lock none of them. *)
LEMMA UnlockedChecksLook ==
    ASSUME TransactionInv, NEW r \in Requests,
           \/ JoinBanCheck(r) \/ JoinMemberCheck(r)
           \/ InviteRoleCheck(r) \/ InviteBanCheck(r) \/ InviteMemberCheck(r)
           \/ ReadMemberCheck(r) \/ ReadBanCheck(r)
           \/ RollBack(r)
    PROVE  LooksOnly(r)
<1>1. ASSUME NEW op \in {"join", "invite", "read"},
             NEW step \in {"role_check", "ban_check", "member_check"}, NEW condition,
             NEW next \in {"ban_check", "member_check", "insert", "commit"},
             op = "join" => next # "commit",
             Check(r, op, step, condition, next)
      PROVE  LooksOnly(r)
  <2>1. \E to \in {next, "refused"} : Goto(r, to)
    BY <1>1 DEF Check
  <2>2. {next, "refused"} \subseteq Steps \ {"idle", "done", "role_check"}
    BY DEF Steps, Answered
  <2>3. req[r].op = op /\ req[r].step = step
    BY <1>1 DEF Check, At
  <2> QED BY <1>1, <2>1, <2>2, <2>3, ChecksLook DEF Check, Answered
<1>2. CASE RollBack(r)
  BY <1>2, ChecksLook DEF RollBack, Steps, Answered
<1> QED BY <1>1, <1>2 DEF JoinBanCheck, JoinMemberCheck, InviteRoleCheck, InviteBanCheck,
           InviteMemberCheck, ReadMemberCheck, ReadBanCheck, IsBanned, IsMember, Moderates

(* The insert of a join takes the key, which nobody has, for a user who is  *)
(* no member.                                                               *)
LEMMA JoinInsertLooks ==
    ASSUME TransactionInv, NEW r \in Requests, JoinInsert(r)
    PROVE  LooksOnly(r)
<1> USE DEF TransactionInv
<1> DEFINE u == req[r].actor
<1>1. At(r, "join", "insert") /\ UNCHANGED <<vars, rowId>> /\ KeyFree(u)
  BY DEF JoinInsert, Check
<1>2. PICK step \in {"commit", "refused"} : Goto(r, step) /\ (step = "commit" => ~IsMember(u))
  BY DEF JoinInsert, Check
<1>3. step \in Steps
  BY DEF Steps, Answered
<1>4. u \in Users /\ req[r].target \in Users
  BY <1>1 DEF At, RequestsAreTyped, Answered
<1>5. Entitled(r, req'[r])
  BY <1>1, <1>2, <1>3, <1>4, GoingOn
  DEF Entitled, Keeps, At, HoldsRoom, RowOps, ModerationOps, IsMember
<1> QED BY <1>1, <1>2, <1>3, <1>5, GoingOn DEF LooksOnly, SameRequest, Keeps

(* A leave reads its row, and that it is not the owner's.                   *)
LEMMA LeaveLooks ==
    ASSUME TransactionInv, NEW r \in Requests, LeaveMemberCheck(r)
    PROVE  LooksOnly(r)
<1> USE DEF TransactionInv
<1> DEFINE u == req[r].actor
           step == IF IsMember(u) /\ role[u] # "owner" /\ owner # u THEN "commit" ELSE "refused"
           q == [req[r] EXCEPT !.step = step, !.row = rowId[u]]
<1>1. req[r] \in RequestRecords /\ req \in [Requests -> RequestRecords]
  BY DEF RequestsAreTyped
<1>2. req[r].op = "leave" /\ req[r].step = "member_check"
  BY DEF LeaveMemberCheck, At
<1>3. req[r].actor \in Users /\ req[r].target \in Users /\ rowId[u] \in Nat
  BY <1>2 DEF RequestsAreTyped, Answered
<1>4. req' = [req EXCEPT ![r] = q] /\ UNCHANGED <<vars, rowId>>
  BY DEF LeaveMemberCheck
<1>5. req'[r] = q
  BY <1>1, <1>4
<1>6. /\ q \in RequestRecords /\ q.step = step /\ q.row = rowId[u]
      /\ q.op = "leave" /\ q.actor = u /\ q.target = req[r].target
      /\ q.rank = req[r].rank
  BY <1>1, <1>2, <1>3 DEF RequestRecords, Steps, Answered
<1>7. Entitled(r, q)
  BY <1>3, <1>6 DEF Entitled, HoldsRoom, RowOps, ModerationOps
<1> QED BY <1>1, <1>4, <1>5, <1>6, <1>7 DEF LooksOnly, Others, SameRequest

(* An accept that finds no ban keeps what it holds.                         *)
LEMMA AcceptLooks ==
    ASSUME TransactionInv, NEW r \in Requests, AcceptBanCheck(r)
    PROVE  LooksOnly(r)
<1> USE DEF TransactionInv
<1>1. At(r, "accept", "ban_check") /\ UNCHANGED <<vars, rowId>>
  BY DEF AcceptBanCheck, Check
<1>2. PICK step \in {"commit", "refused"} :
         Goto(r, step) /\ (step = "commit" => ~IsBanned(req[r].actor))
  BY DEF AcceptBanCheck, Check
<1>3. step \in Steps
  BY DEF Steps, Answered
<1>4. req[r].actor \in invited /\ req[r].actor \in Users /\ req[r].target \in Users
  BY <1>1 DEF At, InvitationsStand, HoldsRoom, RequestsAreTyped, Answered
<1>5. r \in RoomHolders
  BY <1>1 DEF At, RoomHolders
<1>6. Entitled(r, req'[r])
  BY <1>1, <1>2, <1>3, <1>4, <1>5, GoingOn DEF Entitled, Keeps, At, HoldsRoom, RowOps, ModerationOps
<1> QED BY <1>1, <1>2, <1>3, <1>6, GoingOn DEF LooksOnly, SameRequest, Keeps

(* A moderator's rank: an owner's is the owner column's.                    *)
LEMMA RoleCheckLooks ==
    ASSUME TransactionInv, NEW r \in Requests, NEW op \in ModerationOps,
           NEW allowed, allowed \subseteq {"owner", "admin"},
           op = "promote" => allowed = {"owner"},
           RoleCheck(r, op, allowed)
    PROVE  LooksOnly(r)
<1> USE DEF TransactionInv
<1> DEFINE u == req[r].actor
           step == IF role[u] \notin allowed THEN "refused"
                   ELSE IF op = "unban" THEN "commit" ELSE "lock"
           q == [req[r] EXCEPT !.rank = role[u], !.step = step]
<1>1. req[r] \in RequestRecords /\ req \in [Requests -> RequestRecords]
  BY DEF RequestsAreTyped
<1>2. req[r].op = op /\ req[r].step = "role_check" /\ req[r].rank = "none"
  BY DEF RoleCheck, At, RequestsAreTyped
<1>3. req[r].actor \in Users /\ req[r].target \in Users /\ role[u] \in Roles
  BY <1>2 DEF RequestsAreTyped, Answered, TypeOK
<1>4. req' = [req EXCEPT ![r] = q] /\ UNCHANGED <<vars, rowId>>
  BY DEF RoleCheck
<1>5. req'[r] = q
  BY <1>1, <1>4
<1>6. /\ q \in RequestRecords /\ q.step = step /\ q.rank = role[u]
      /\ q.op = op /\ q.actor = u /\ q.target = req[r].target
  BY <1>1, <1>2, <1>3 DEF RequestRecords, Steps, Answered
<1>7. q.step \in {"lock", "commit"} => Ranked(q)
  BY <1>3, <1>6 DEF Ranked, OwnerIsTheOneOwner
<1>8. op \in RowOps => q.step # "commit"
  BY <1>6 DEF RowOps
<1>9. q.step \in {"lock", "commit", "refused"}
  BY <1>6
<1>10. Entitled(r, q)
  BY <1>3, <1>6, <1>7, <1>8, <1>9 DEF Entitled, HoldsRoom, RowOps, ModerationOps
<1> QED BY <1>1, <1>2, <1>4, <1>5, <1>6, <1>10 DEF LooksOnly, Others, SameRequest

(* The target's row, taken when nobody holds it, and judged.                *)
LEMMA LocksLook ==
    ASSUME TransactionInv, NEW r \in Requests,
           PromoteLock(r) \/ DemoteLock(r) \/ BanLock(r)
    PROVE  LooksOnly(r)
<1> USE DEF TransactionInv
<1> DEFINE q == req[r]
<1>1. q.op \in RowOps /\ q.step = "lock" /\ RowFree(q.target)
  BY DEF PromoteLock, DemoteLock, BanLock, Lock, Check, At, RowOps
<1>2. UNCHANGED <<vars, rowId>>
  BY DEF PromoteLock, DemoteLock, BanLock, Lock, Check
<1>3. q.actor \in Users /\ q.target \in Users
  BY <1>1 DEF RequestsAreTyped, Answered
<1>4. Ranked(q)
  BY <1>1 DEF RanksStand, RowOps, ModerationOps
<1>5. PICK step \in {"commit", "refused"} : Goto(r, step) /\ (step = "commit" => Decided(q))
  <2>1. CASE PromoteLock(r)
    BY <2>1 DEF PromoteLock, Lock, Check, At, Decided
  <2>2. CASE DemoteLock(r)
    BY <2>2 DEF DemoteLock, Lock, Check, At, Decided
  <2>3. CASE BanLock(r)
    BY <2>3 DEF BanLock, Lock, Check, At, Decided
  <2> QED BY <2>1, <2>2, <2>3
<1>6. step \in Steps
  BY DEF Steps, Answered
<1>7. Keeps(req'[r], q) /\ req'[r].step = step /\ req'[r] \in RequestRecords
  BY <1>5, <1>6, GoingOn
<1>8. /\ Ranked(req'[r]) /\ (step = "commit" => Decided(req'[r]))
      /\ ~HoldsRoom(req'[r]) /\ req'[r].op \notin {"leave", "join"}
  BY <1>1, <1>4, <1>5, <1>7 DEF Ranked, Decided, Keeps, HoldsRoom, RowOps
<1>9. Entitled(r, req'[r])
  BY <1>1, <1>3, <1>7, <1>8 DEF Entitled, Keeps
<1> QED BY <1>2, <1>5, <1>6, <1>9, GoingOn DEF LooksOnly, SameRequest, Keeps

----------------------------------------------------------------------------
(* The writes.  What is free is held by nobody, and what a request holds,   *)
(* by nobody else.                                                          *)
LEMMA WhatIsFree ==
    /\ \A u : RowFree(u) => \A s \in Requests : ~HoldsRow(req[s], u)
    /\ RoomFree => \A s \in Requests : ~HoldsRoom(req[s])
    /\ \A u : KeyFree(u) => \A s \in Requests : ~HoldsKey(req[s], u)
  BY DEF RowFree, RowHolders, HoldsRow, RowOps, RoomFree, RoomHolders, HoldsRoom,
         KeyFree, KeyHolders, HoldsKey

(* A moderation that is about to commit: its row is its own, and what it    *)
(* decided about the row and by its rank is so.                             *)
LEMMA WhatIsHeld ==
    ASSUME TransactionInv, NEW r \in Requests, req[r].step = "commit",
           req[r].op \in RowOps
    PROVE  /\ \A s \in Requests \ {r} : ~HoldsRow(req[s], req[r].target)
           /\ Decided(req[r]) /\ Ranked(req[r])
           /\ role[req[r].target] \in {"admin", "member"} /\ Exists
           /\ owner # req[r].target
<1>1. req[r].target \in Users
  BY DEF TransactionInv, RequestsAreTyped, Answered
<1>2. HoldsRow(req[r], req[r].target)
  BY DEF HoldsRow
<1>3. \A s \in Requests \ {r} : ~HoldsRow(req[s], req[r].target)
  BY <1>1, <1>2 DEF TransactionInv, RowsAreHeldOnce
<1>4. Decided(req[r]) /\ Ranked(req[r])
  BY DEF TransactionInv, DecisionsStand, RanksStand, RowOps, ModerationOps
<1>5. role[req[r].target] \in {"admin", "member"}
  BY <1>4 DEF Decided, RowOps
<1>6. Exists /\ owner # req[r].target
  BY <1>1, <1>5 DEF TransactionInv, NothingOutlivesTheRoom, OwnerIsTheOneOwner
<1> QED BY <1>3, <1>4, <1>5, <1>6

(* An accept that is about to commit holds the room and an invitation, and  *)
(* its user is not banned.                                                  *)
LEMMA AcceptHolds ==
    ASSUME TransactionInv, NEW r \in Requests, At(r, "accept", "commit")
    PROVE  /\ \A s \in Requests \ {r} : ~HoldsRoom(req[s])
           /\ req[r].actor \in invited /\ ~IsBanned(req[r].actor) /\ Exists
<1>1. HoldsRoom(req[r])
  BY DEF HoldsRoom, At
<1>2. \A s \in Requests \ {r} : ~HoldsRoom(req[s])
  BY <1>1 DEF TransactionInv, RoomIsHeldOnce
<1>3. req[r].actor \in invited /\ ~IsBanned(req[r].actor)
  BY <1>1 DEF TransactionInv, InvitationsStand, At
<1> QED BY <1>2, <1>3 DEF TransactionInv, NothingOutlivesTheRoom

(* A commit is done, or refused by a constraint and changes nothing.        *)
LEMMA Committing ==
    ASSUME TransactionInv, NEW r \in Requests, req[r].step = "commit", Goto(r, "done")
    PROVE  Ends(r)
<1>1. "done" \in Steps
  BY DEF Steps, Answered
<1> QED BY <1>1, GoingOn DEF TransactionInv, Ends, Answered

(* A constraint that is violated at the commit undoes all of it.            *)
LEMMA Refusing ==
    ASSUME TransactionInv, NEW r \in Requests, req[r].step = "commit",
           Goto(r, "refused"), UNCHANGED <<vars, rowId>>
    PROVE  TransactionInv'
  BY ChecksLook, LookingKeepsInv DEF Steps, Answered

(* Who commits, and about whom, are accounts.                               *)
LEMMA Participants ==
    ASSUME TransactionInv, NEW r \in Requests, req[r].step = "commit"
    PROVE  req[r].actor \in Users /\ req[r].target \in Users
  BY DEF TransactionInv, RequestsAreTyped, Answered

(* The row a moderation holds is a member's.                                *)
LEMMA RowsHaveMembers ==
    ASSUME TransactionInv, NEW s \in Requests, NEW u \in Users, HoldsRow(req[s], u)
    PROVE  role[u] # "none"
  BY WhatIsHeld DEF HoldsRow

(* A join that has the key is the only one, and its user no member.         *)
LEMMA JoinHolds ==
    ASSUME TransactionInv, NEW r \in Requests, At(r, "join", "commit")
    PROVE  /\ role[req[r].actor] = "none"
           /\ \A s \in Requests \ {r} : ~HoldsKey(req[s], req[r].actor)
<1>1. req[r].actor \in Users /\ HoldsKey(req[r], req[r].actor)
  BY Participants DEF At, HoldsKey
<1> QED BY <1>1 DEF TransactionInv, JoinersAreNew, KeysAreHeldOnce

(* A join commits its key, while there is no accept.                        *)
LEMMA JoinCommitKeepsInv ==
    ASSUME TransactionInv, NEW r \in Requests, JoinCommit(r)
    PROVE  TransactionInv'
<1> DEFINE u == req[r].actor
<1>1. req[r].op = "join" /\ req[r].step = "commit"
  BY DEF JoinCommit, Commit, At
<1>2. CASE Goto(r, "refused") /\ UNCHANGED <<vars, rowId>>
  BY <1>1, <1>2, Refusing
<1>3. CASE ~(Goto(r, "refused") /\ UNCHANGED <<vars, rowId>>)
  <2>1. u \in Users /\ req[r].actor \in Users /\ Goto(r, "done")
    BY <1>1, <1>3, Participants DEF JoinCommit, Commit
  <2>2. /\ Exists
        /\ role[u] = "none"
        /\ \A s \in Requests \ {r} : ~HoldsKey(req[s], u)
        /\ RoomFree
        /\ role' = [role EXCEPT ![u] = "member"]
        /\ rowId' = [rowId EXCEPT ![u] = @ + 1]
        /\ UNCHANGED <<visibility, owner, ban, invited, readStates, audit>>
    BY <1>1, <1>3, <2>1, JoinHolds DEF JoinCommit, Commit, At, NewMember
  <2>4. TypeOK' /\ rowId' \in [Users -> Nat]
    BY <2>1, <2>2, UsersAssumption
    DEF TransactionInv, RequestsAreTyped, TypeOK, Visibilities, Roles,
        RoomRoles, BanStates, Actions, BanActions, Event
  <2>5. OwnerIsTheOneOwner' /\ NothingOutlivesTheRoom'
    BY <2>1, <2>2, UsersAssumption
    DEF TransactionInv, RequestsAreTyped, TypeOK, OwnerIsTheOneOwner,
        NothingOutlivesTheRoom, Exists, IsMember
  <2>3. \A s \in Requests : ~HoldsRow(req[s], u)
    BY <2>1, <2>2, RowsHaveMembers
  <2>6. SparesTheOthers(r)
    BY <2>1, <2>2, <2>3, WhatIsFree
    DEF TransactionInv, RequestsAreTyped, TypeOK, InvitationsStand, JoinersAreNew,
        SparesTheOthers, Exists
  <2> QED BY <1>1, <2>1, <2>4, <2>5, <2>6, Committing, EndingKeepsInv
<1> QED BY <1>2, <1>3

(* A leave deletes the row it read, which nobody holds and is no owner's.   *)
LEMMA LeaveCommitKeepsInv ==
    ASSUME TransactionInv, NEW r \in Requests, LeaveCommit(r)
    PROVE  TransactionInv'
<1> DEFINE u == req[r].actor
<1>1. req[r].op = "leave" /\ req[r].step = "commit"
  BY DEF LeaveCommit, Commit, At
<1>2. CASE Goto(r, "refused") /\ UNCHANGED <<vars, rowId>>
  BY <1>1, <1>2, Refusing
<1>3. CASE ~(Goto(r, "refused") /\ UNCHANGED <<vars, rowId>>)
  <2>1. u \in Users /\ req[r].actor \in Users /\ Goto(r, "done")
    BY <1>1, <1>3, Participants DEF LeaveCommit, Commit
  <2>2. /\ owner # u
        /\ RowFree(u)
        /\ role' = [role EXCEPT ![u] = IF rowId[u] = req[r].row THEN "none" ELSE @]
        /\ readStates' = readStates \ {u}
        /\ UNCHANGED <<visibility, owner, ban, invited, audit, rowId>>
    BY <1>1, <1>3, <2>1 DEF TransactionInv, LeaveCommit, Commit, At, LeaversAreNoOwners
  <2>4. TypeOK' /\ rowId' \in [Users -> Nat]
    BY <2>1, <2>2, UsersAssumption
    DEF TransactionInv, RequestsAreTyped, TypeOK, Visibilities, Roles,
        RoomRoles, BanStates, Actions, BanActions, Event
  <2>5. OwnerIsTheOneOwner' /\ NothingOutlivesTheRoom'
    BY <2>1, <2>2, UsersAssumption
    DEF TransactionInv, RequestsAreTyped, TypeOK, OwnerIsTheOneOwner,
        NothingOutlivesTheRoom, Exists, IsMember
  <2>6. SparesTheOthers(r)
    BY <2>1, <2>2, WhatIsFree
    DEF TransactionInv, RequestsAreTyped, TypeOK, InvitationsStand, JoinersAreNew,
        SparesTheOthers, Exists, IsMember
  <2> QED BY <1>1, <2>1, <2>4, <2>5, <2>6, Committing, EndingKeepsInv
<1> QED BY <1>2, <1>3

(* An invitation is written while no accept holds the room.                 *)
LEMMA InviteCommitKeepsInv ==
    ASSUME TransactionInv, NEW r \in Requests, InviteCommit(r)
    PROVE  TransactionInv'
<1> DEFINE u == req[r].target
<1>1. req[r].op = "invite" /\ req[r].step = "commit"
  BY DEF InviteCommit, Commit, At
<1>2. CASE Goto(r, "refused") /\ UNCHANGED <<vars, rowId>>
  BY <1>1, <1>2, Refusing
<1>3. CASE ~(Goto(r, "refused") /\ UNCHANGED <<vars, rowId>>)
  <2>1. u \in Users /\ req[r].actor \in Users /\ Goto(r, "done")
    BY <1>1, <1>3, Participants DEF InviteCommit, Commit
  <2>2. /\ Exists
        /\ RoomFree
        /\ invited' = invited \cup {u}
        /\ UNCHANGED <<visibility, owner, role, ban, readStates, audit, rowId>>
    BY <1>1, <1>3, <2>1 DEF TransactionInv, InviteCommit, Commit, At
  <2>4. TypeOK' /\ rowId' \in [Users -> Nat]
    BY <2>1, <2>2, UsersAssumption
    DEF TransactionInv, RequestsAreTyped, TypeOK, Visibilities, Roles,
        RoomRoles, BanStates, Actions, BanActions, Event
  <2>5. OwnerIsTheOneOwner' /\ NothingOutlivesTheRoom'
    BY <2>1, <2>2, UsersAssumption
    DEF TransactionInv, RequestsAreTyped, TypeOK, OwnerIsTheOneOwner,
        NothingOutlivesTheRoom, Exists, IsMember
  <2>6. SparesTheOthers(r)
    BY <2>1, <2>2, WhatIsFree
    DEF TransactionInv, RequestsAreTyped, TypeOK, InvitationsStand, JoinersAreNew,
        SparesTheOthers, Exists, IsMember
  <2> QED BY <1>1, <2>1, <2>4, <2>5, <2>6, Committing, EndingKeepsInv
<1> QED BY <1>2, <1>3

(* An accept makes a membership where nobody holds one.                     *)
LEMMA AcceptCommitKeepsInv ==
    ASSUME TransactionInv, NEW r \in Requests, AcceptCommit(r)
    PROVE  TransactionInv'
<1> DEFINE u == req[r].actor
<1>1. req[r].op = "accept" /\ req[r].step = "commit"
  BY DEF AcceptCommit, Commit, At
<1>2. CASE Goto(r, "refused") /\ UNCHANGED <<vars, rowId>>
  BY <1>1, <1>2, Refusing
<1>3. CASE ~(Goto(r, "refused") /\ UNCHANGED <<vars, rowId>>)
  <2>1. u \in Users /\ req[r].actor \in Users /\ Goto(r, "done")
    BY <1>1, <1>3, Participants DEF AcceptCommit, Commit
  <2>2. /\ KeyFree(u)
        /\ invited' = invited \ {u}
        /\ UNCHANGED <<visibility, owner, ban, readStates, audit>>
        /\ role' = [role EXCEPT ![u] = IF IsMember(u) THEN @ ELSE "member"]
        /\ rowId' \in [Users -> Nat]
    BY <1>1, <1>3, <2>1 DEF TransactionInv, AcceptCommit, Commit, At, AcceptedBy, NewMember, RequestsAreTyped, TypeOK
  <2>3. /\ \A s \in Requests \ {r} : ~HoldsRoom(req[s])
        /\ u \in invited /\ Exists
    BY <1>1, AcceptHolds DEF At
  <2>4. TypeOK' /\ rowId' \in [Users -> Nat]
    BY <2>1, <2>2, UsersAssumption
    DEF TransactionInv, RequestsAreTyped, TypeOK, Visibilities, Roles,
        RoomRoles, BanStates, Actions, BanActions, Event
  <2>5. OwnerIsTheOneOwner' /\ NothingOutlivesTheRoom'
    BY <2>1, <2>2, <2>3, UsersAssumption
    DEF TransactionInv, RequestsAreTyped, TypeOK, OwnerIsTheOneOwner,
        NothingOutlivesTheRoom, Exists, IsMember
  <2>6. SparesTheOthers(r)
    BY <2>1, <2>2, <2>3, WhatIsFree, RowsHaveMembers
    DEF TransactionInv, RequestsAreTyped, TypeOK, InvitationsStand, JoinersAreNew,
        SparesTheOthers, Exists, IsMember
  <2> QED BY <1>1, <2>1, <2>4, <2>5, <2>6, Committing, EndingKeepsInv
<1> QED BY <1>2, <1>3

(* A promotion writes the member's row it holds.                            *)
LEMMA PromoteCommitKeepsInv ==
    ASSUME TransactionInv, NEW r \in Requests, PromoteCommit(r)
    PROVE  TransactionInv'
<1> DEFINE u == req[r].target
<1>1. req[r].op = "promote" /\ req[r].step = "commit"
  BY DEF PromoteCommit, Commit, At
<1>2. CASE Goto(r, "refused") /\ UNCHANGED <<vars, rowId>>
  BY <1>1, <1>2, Refusing
<1>3. CASE ~(Goto(r, "refused") /\ UNCHANGED <<vars, rowId>>)
  <2>1. u \in Users /\ req[r].actor \in Users /\ Goto(r, "done")
    BY <1>1, <1>3, Participants DEF PromoteCommit, Commit
  <2>2. /\ RoomFree
        /\ role' = [role EXCEPT ![u] = "admin"]
        /\ audit' = Event("admin_promoted", req[r].actor, u)
        /\ UNCHANGED <<visibility, owner, ban, invited, readStates, rowId>>
    BY <1>1, <1>3, <2>1 DEF TransactionInv, PromoteCommit, Commit, At, RowOps
  <2>3. /\ \A s \in Requests \ {r} : ~HoldsRow(req[s], u)
        /\ role[u] \in {"admin", "member"} /\ Exists /\ owner # u
    BY <1>1, WhatIsHeld DEF RowOps
  <2>4. TypeOK' /\ rowId' \in [Users -> Nat]
    BY <2>1, <2>2, UsersAssumption
    DEF TransactionInv, RequestsAreTyped, TypeOK, Visibilities, Roles,
        RoomRoles, BanStates, Actions, BanActions, Event
  <2>5. OwnerIsTheOneOwner' /\ NothingOutlivesTheRoom'
    BY <2>1, <2>2, <2>3, UsersAssumption
    DEF TransactionInv, RequestsAreTyped, TypeOK, OwnerIsTheOneOwner,
        NothingOutlivesTheRoom, Exists, IsMember
  <2>6. SparesTheOthers(r)
    BY <2>1, <2>2, <2>3, WhatIsFree
    DEF TransactionInv, RequestsAreTyped, TypeOK, InvitationsStand, JoinersAreNew,
        SparesTheOthers, Exists, IsMember
  <2> QED BY <1>1, <2>1, <2>4, <2>5, <2>6, Committing, EndingKeepsInv
<1> QED BY <1>2, <1>3

(* A demotion writes the admin's row it holds.                              *)
LEMMA DemoteCommitKeepsInv ==
    ASSUME TransactionInv, NEW r \in Requests, DemoteCommit(r)
    PROVE  TransactionInv'
<1> DEFINE u == req[r].target
<1>1. req[r].op = "demote" /\ req[r].step = "commit"
  BY DEF DemoteCommit, Commit, At
<1>2. CASE Goto(r, "refused") /\ UNCHANGED <<vars, rowId>>
  BY <1>1, <1>2, Refusing
<1>3. CASE ~(Goto(r, "refused") /\ UNCHANGED <<vars, rowId>>)
  <2>1. u \in Users /\ req[r].actor \in Users /\ Goto(r, "done")
    BY <1>1, <1>3, Participants DEF DemoteCommit, Commit
  <2>2. /\ RoomFree
        /\ role' = [role EXCEPT ![u] = "member"]
        /\ audit' = Event("admin_demoted", req[r].actor, u)
        /\ UNCHANGED <<visibility, owner, ban, invited, readStates, rowId>>
    BY <1>1, <1>3, <2>1 DEF TransactionInv, DemoteCommit, Commit, At, RowOps
  <2>3. /\ \A s \in Requests \ {r} : ~HoldsRow(req[s], u)
        /\ role[u] \in {"admin", "member"} /\ Exists /\ owner # u
    BY <1>1, WhatIsHeld DEF RowOps
  <2>4. TypeOK' /\ rowId' \in [Users -> Nat]
    BY <2>1, <2>2, UsersAssumption
    DEF TransactionInv, RequestsAreTyped, TypeOK, Visibilities, Roles,
        RoomRoles, BanStates, Actions, BanActions, Event
  <2>5. OwnerIsTheOneOwner' /\ NothingOutlivesTheRoom'
    BY <2>1, <2>2, <2>3, UsersAssumption
    DEF TransactionInv, RequestsAreTyped, TypeOK, OwnerIsTheOneOwner,
        NothingOutlivesTheRoom, Exists, IsMember
  <2>6. SparesTheOthers(r)
    BY <2>1, <2>2, <2>3, WhatIsFree
    DEF TransactionInv, RequestsAreTyped, TypeOK, InvitationsStand, JoinersAreNew,
        SparesTheOthers, Exists, IsMember
  <2> QED BY <1>1, <2>1, <2>4, <2>5, <2>6, Committing, EndingKeepsInv
<1> QED BY <1>2, <1>3

(* A ban deletes the row it holds, which is not the owner's.                *)
LEMMA BanCommitKeepsInv ==
    ASSUME TransactionInv, NEW r \in Requests, NEW action \in BanActions, BanCommit(r, action)
    PROVE  TransactionInv'
<1> DEFINE u == req[r].target
<1>1. req[r].op = "ban" /\ req[r].step = "commit"
  BY DEF BanCommit, Commit, At
<1>2. CASE Goto(r, "refused") /\ UNCHANGED <<vars, rowId>>
  BY <1>1, <1>2, Refusing
<1>3. CASE ~(Goto(r, "refused") /\ UNCHANGED <<vars, rowId>>)
  <2>1. u \in Users /\ req[r].actor \in Users /\ Goto(r, "done")
    BY <1>1, <1>3, Participants DEF BanCommit, Commit
  <2>2. /\ RoomFree
        /\ role' = [role EXCEPT ![u] = "none"]
        /\ readStates' = readStates \ {u}
        /\ ban' = [ban EXCEPT ![u] = "active"]
        /\ audit' = Event(action, req[r].actor, u)
        /\ UNCHANGED <<visibility, owner, invited, rowId>>
    BY <1>1, <1>3, <2>1 DEF TransactionInv, BanCommit, Commit, At, RowOps
  <2>3. /\ \A s \in Requests \ {r} : ~HoldsRow(req[s], u)
        /\ role[u] \in {"admin", "member"} /\ Exists /\ owner # u
    BY <1>1, WhatIsHeld DEF RowOps
  <2>4. TypeOK' /\ rowId' \in [Users -> Nat]
    BY <2>1, <2>2, UsersAssumption
    DEF TransactionInv, RequestsAreTyped, TypeOK, Visibilities, Roles,
        RoomRoles, BanStates, Actions, BanActions, Event
  <2>5. OwnerIsTheOneOwner' /\ NothingOutlivesTheRoom'
    BY <2>1, <2>2, <2>3, UsersAssumption
    DEF TransactionInv, RequestsAreTyped, TypeOK, OwnerIsTheOneOwner,
        NothingOutlivesTheRoom, Exists, IsMember
  <2>6. SparesTheOthers(r)
    BY <2>1, <2>2, <2>3, WhatIsFree
    DEF TransactionInv, RequestsAreTyped, TypeOK, InvitationsStand, JoinersAreNew,
        SparesTheOthers, Exists, IsMember
  <2> QED BY <1>1, <2>1, <2>4, <2>5, <2>6, Committing, EndingKeepsInv
<1> QED BY <1>2, <1>3

(* An unban writes the ban while no accept holds the room.                  *)
LEMMA UnbanCommitKeepsInv ==
    ASSUME TransactionInv, NEW r \in Requests, UnbanCommit(r)
    PROVE  TransactionInv'
<1> DEFINE u == req[r].target
<1>1. req[r].op = "unban" /\ req[r].step = "commit"
  BY DEF UnbanCommit, Commit, At
<1>2. CASE Goto(r, "refused") /\ UNCHANGED <<vars, rowId>>
  BY <1>1, <1>2, Refusing
<1>3. CASE ~(Goto(r, "refused") /\ UNCHANGED <<vars, rowId>>)
  <2>1. u \in Users /\ req[r].actor \in Users /\ Goto(r, "done")
    BY <1>1, <1>3, Participants DEF UnbanCommit, Commit
  <2>2. /\ Exists
        /\ RoomFree
        /\ ban' = [ban EXCEPT ![u] = "removed"]
        /\ audit' = Event("member_unbanned", req[r].actor, u)
        /\ UNCHANGED <<visibility, owner, role, invited, readStates, rowId>>
    BY <1>1, <1>3, <2>1 DEF TransactionInv, UnbanCommit, Commit, At
  <2>4. TypeOK' /\ rowId' \in [Users -> Nat]
    BY <2>1, <2>2, UsersAssumption
    DEF TransactionInv, RequestsAreTyped, TypeOK, Visibilities, Roles,
        RoomRoles, BanStates, Actions, BanActions, Event
  <2>5. OwnerIsTheOneOwner' /\ NothingOutlivesTheRoom'
    BY <2>1, <2>2, UsersAssumption
    DEF TransactionInv, RequestsAreTyped, TypeOK, OwnerIsTheOneOwner,
        NothingOutlivesTheRoom, Exists, IsMember
  <2>6. SparesTheOthers(r)
    BY <2>1, <2>2, WhatIsFree
    DEF TransactionInv, RequestsAreTyped, TypeOK, InvitationsStand, JoinersAreNew,
        SparesTheOthers, Exists, IsMember
  <2> QED BY <1>1, <2>1, <2>4, <2>5, <2>6, Committing, EndingKeepsInv
<1> QED BY <1>2, <1>3

(* A read marker disturbs nobody.                                           *)
LEMMA ReadCommitKeepsInv ==
    ASSUME TransactionInv, NEW r \in Requests, ReadCommit(r)
    PROVE  TransactionInv'
<1> DEFINE u == req[r].actor
<1>1. req[r].op = "read" /\ req[r].step = "commit"
  BY DEF ReadCommit, Commit, At
<1>2. CASE Goto(r, "refused") /\ UNCHANGED <<vars, rowId>>
  BY <1>1, <1>2, Refusing
<1>3. CASE ~(Goto(r, "refused") /\ UNCHANGED <<vars, rowId>>)
  <2>1. u \in Users /\ req[r].actor \in Users /\ Goto(r, "done")
    BY <1>1, <1>3, Participants DEF ReadCommit, Commit
  <2>2. /\ Exists
        /\ RoomFree
        /\ readStates' = readStates \cup {u}
        /\ UNCHANGED <<visibility, owner, role, ban, invited, audit, rowId>>
    BY <1>1, <1>3, <2>1 DEF TransactionInv, ReadCommit, Commit, At
  <2>4. TypeOK' /\ rowId' \in [Users -> Nat]
    BY <2>1, <2>2, UsersAssumption
    DEF TransactionInv, RequestsAreTyped, TypeOK, Visibilities, Roles,
        RoomRoles, BanStates, Actions, BanActions, Event
  <2>5. OwnerIsTheOneOwner' /\ NothingOutlivesTheRoom'
    BY <2>1, <2>2, UsersAssumption
    DEF TransactionInv, RequestsAreTyped, TypeOK, OwnerIsTheOneOwner,
        NothingOutlivesTheRoom, Exists, IsMember
  <2>6. SparesTheOthers(r)
    BY <2>1, <2>2, WhatIsFree
    DEF TransactionInv, RequestsAreTyped, TypeOK, InvitationsStand, JoinersAreNew,
        SparesTheOthers, Exists, IsMember
  <2> QED BY <1>1, <2>1, <2>4, <2>5, <2>6, Committing, EndingKeepsInv
<1> QED BY <1>2, <1>3

(* Requests of one statement: a reject, and what only the owner may do.     *)
LEMMA AtOnce ==
    ASSUME RequestsAreTyped, NEW r \in Requests, NEW op \in AllOps,
           NEW u \in Users, NEW t \in Users \cup {NoUser},
           NEW q \in [op : {op}, actor : {u}, target : {t}, step : {"done"},
                      rank : {"none"}, row : {0}],
           req' = [req EXCEPT ![r] = q]
    PROVE  Ends(r)
<1>2. req \in [Requests -> RequestRecords]
  BY DEF RequestsAreTyped
<1>4. q \in RequestRecords /\ q.step \in Answered
  BY DEF RequestRecords, Roles, Steps, Answered
<1> QED BY <1>2, <1>4 DEF Ends, Others

(* A reject is over in one statement.                                       *)
LEMMA RejectEnds ==
    ASSUME TransactionInv, NEW r \in Requests, NEW u \in Users, Reject(r, u)
    PROVE  Ends(r)
<1> DEFINE q == [Idle EXCEPT !.op = "reject", !.actor = u, !.target = u, !.step = "done"]
<1>1. q \in [op : {"reject"}, actor : {u}, target : {u}, step : {"done"},
             rank : {"none"}, row : {0}]
  BY DEF Idle
<1>2. req' = [req EXCEPT ![r] = q]
  BY DEF Reject
<1> HIDE DEF q
<1> QED BY <1>1, <1>2, AtOnce DEF TransactionInv, AllOps

(* It takes an invitation that no accept holds.                             *)
LEMMA RejectKeepsInv ==
    ASSUME TransactionInv, NEW r \in Requests, NEW u \in Users, Reject(r, u)
    PROVE  TransactionInv'
<1>1. Ends(r)
  BY RejectEnds
<1>2. /\ invited' = invited \ {u} /\ u \in invited /\ InvitationFree(u)
      /\ UNCHANGED <<visibility, owner, role, ban, readStates, audit, rowId>>
  BY DEF Reject, RejectInvitation
<1>3. TypeOK' /\ rowId' \in [Users -> Nat]
  BY <1>2 DEF TransactionInv, RequestsAreTyped, TypeOK
<1>4. OwnerIsTheOneOwner' /\ NothingOutlivesTheRoom'
  BY <1>2 DEF TransactionInv, OwnerIsTheOneOwner, NothingOutlivesTheRoom, Exists
<1>5. \A s \in Requests : HoldsRoom(req[s]) => req[s].actor \in invited'
  BY <1>2 DEF TransactionInv, InvitationsStand, HoldsRoom, InvitationFree, RoomHolders
<1>6. SparesTheOthers(r)
  BY <1>2, <1>5 DEF TransactionInv, JoinersAreNew, SparesTheOthers, Exists
<1> QED BY <1>1, <1>3, <1>4, <1>6, EndingKeepsInv

(* So is a request of the owner, which waits for the room row.              *)
LEMMA OwnerRequestEnds ==
    ASSUME TransactionInv, NEW r \in Requests, NEW u \in Users, NEW op,
           OwnerRequest(r, op, u)
    PROVE  Ends(r) /\ RoomFree /\ rowId' = rowId
<1> DEFINE q == [Idle EXCEPT !.op = op, !.actor = u, !.step = "done"]
<1>1. op \in AllOps
  BY OpsAssumption DEF OwnerRequest
<1>2. q \in [op : {op}, actor : {u}, target : {NoUser}, step : {"done"},
             rank : {"none"}, row : {0}]
  BY DEF Idle
<1>3. req' = [req EXCEPT ![r] = q]
  BY DEF OwnerRequest
<1> HIDE DEF q
<1>4. Ends(r)
  BY <1>1, <1>2, <1>3, AtOnce DEF TransactionInv
<1> QED BY <1>4 DEF OwnerRequest

(* An update changes the visibility of a room that stays.                   *)
LEMMA UpdateKeepsInv ==
    ASSUME TransactionInv, NEW r \in Requests, NEW u \in Users,
           NEW v \in Visibilities, Update(r, u, v)
    PROVE  TransactionInv'
<1>1. Ends(r) /\ RoomFree /\ rowId' = rowId
  BY OwnerRequestEnds DEF Update
<1>2. /\ Exists /\ visibility' = v
      /\ audit' = Event("room_updated", u, NoUser)
      /\ UNCHANGED <<owner, role, ban, invited, readStates>>
  BY DEF Update, UpdateRoom, VisibleTo
<1>3. TypeOK' /\ rowId' \in [Users -> Nat]
  BY <1>1, <1>2, UsersAssumption DEF TransactionInv, RequestsAreTyped, TypeOK, Event, Actions
<1>4. OwnerIsTheOneOwner' /\ NothingOutlivesTheRoom'
  BY <1>2 DEF TransactionInv, OwnerIsTheOneOwner, NothingOutlivesTheRoom, Exists, Visibilities
<1>6. SparesTheOthers(r)
  BY <1>1, <1>2, WhatIsFree DEF TransactionInv, JoinersAreNew, SparesTheOthers, Exists
<1> QED BY <1>1, <1>3, <1>4, <1>6, EndingKeepsInv

(* A deletion waits for every holder and leaves nothing.                    *)
LEMMA DeleteKeepsInv ==
    ASSUME TransactionInv, NEW r \in Requests, NEW u \in Users, Delete(r, u)
    PROVE  TransactionInv'
<1>1. Ends(r) /\ RoomFree /\ rowId' = rowId /\ \A w \in Users : RowFree(w)
  BY OwnerRequestEnds DEF Delete
<1>2. DeleteRoom(u)
  BY DEF Delete
<1>3. TypeOK' /\ rowId' \in [Users -> Nat]
  BY <1>1, <1>2, UsersAssumption
  DEF DeleteRoom, TransactionInv, RequestsAreTyped, TypeOK, Event, Actions, Roles, BanStates
<1>4. OwnerIsTheOneOwner' /\ NothingOutlivesTheRoom'
  BY <1>2, UsersAssumption DEF DeleteRoom, OwnerIsTheOneOwner, NothingOutlivesTheRoom, Exists
<1>6. SparesTheOthers(r)
  BY <1>1, <1>2, WhatIsFree DEF DeleteRoom, SparesTheOthers, Exists
<1> QED BY <1>1, <1>3, <1>4, <1>6, EndingKeepsInv

----------------------------------------------------------------------------

(* What a request does before its commit, whichever it is.                  *)
Looks(r) ==
    \/ \E u, t \in Users :
          \/ BeginJoin(r, u) \/ BeginLeave(r, u) \/ BeginRead(r, u) \/ BeginAccept(r, u)
          \/ BeginInvite(r, u, t)
          \/ \E op \in ModerationOps : BeginModeration(r, op, u, t)
    \/ JoinBanCheck(r) \/ JoinMemberCheck(r) \/ JoinInsert(r)
    \/ InviteRoleCheck(r) \/ InviteBanCheck(r) \/ InviteMemberCheck(r)
    \/ ReadMemberCheck(r) \/ ReadBanCheck(r)
    \/ RollBack(r)
    \/ LeaveMemberCheck(r) \/ AcceptBanCheck(r)
    \/ RoleCheck(r, "promote", {"owner"}) \/ RoleCheck(r, "demote", {"owner", "admin"})
    \/ RoleCheck(r, "ban", {"owner", "admin"}) \/ RoleCheck(r, "unban", {"owner", "admin"})
    \/ PromoteLock(r) \/ DemoteLock(r) \/ BanLock(r)

(* And how it ends.                                                         *)
Writes(r) ==
    \/ JoinCommit(r) \/ LeaveCommit(r) \/ InviteCommit(r) \/ AcceptCommit(r)
    \/ PromoteCommit(r) \/ DemoteCommit(r)
    \/ \E action \in BanActions : BanCommit(r, action)
    \/ UnbanCommit(r) \/ ReadCommit(r)

DecidesAtOnce(r) ==
    \E u \in Users :
       Reject(r, u) \/ Delete(r, u) \/ \E v \in Visibilities : Update(r, u, v)

(* There is no other step of a request.                                     *)
LEMMA KindsOfSteps ==
    ASSUME NEW r \in Requests, Arrive(r) \/ Proceed(r) \/ RollBack(r)
    PROVE  Looks(r) \/ Writes(r) \/ DecidesAtOnce(r)
<1>1. CASE Arrive(r)
  BY <1>1 DEF Arrive, Looks, DecidesAtOnce
<1>2. CASE Proceed(r)
  BY <1>2 DEF Proceed, Looks, Writes
<1>3. CASE RollBack(r)
  BY <1>3 DEF Looks
<1> QED BY <1>1, <1>2, <1>3

(* Every step before the commit only looks.                                 *)
LEMMA LooksLook ==
    ASSUME TransactionInv, NEW r \in Requests, Looks(r)
    PROVE  LooksOnly(r)
<1>1. ASSUME NEW op \in ModerationOps, NEW allowed \in SUBSET {"owner", "admin"},
             op = "promote" => allowed = {"owner"}, RoleCheck(r, op, allowed)
      PROVE  LooksOnly(r)
  BY <1>1, RoleCheckLooks
<1>2. CASE \/ RoleCheck(r, "promote", {"owner"}) \/ RoleCheck(r, "demote", {"owner", "admin"})
           \/ RoleCheck(r, "ban", {"owner", "admin"}) \/ RoleCheck(r, "unban", {"owner", "admin"})
  BY <1>1, <1>2 DEF ModerationOps
<1> QED BY <1>2, ArrivalsLook, UnlockedChecksLook, JoinInsertLooks, LeaveLooks,
           AcceptLooks, LocksLook DEF Looks

(* Every step keeps the invariant.                                          *)
LEMMA TransactionSteps == TransactionInv /\ [TNext]_tvars => TransactionInv'
<1> SUFFICES ASSUME TransactionInv, [TNext]_tvars
             PROVE  TransactionInv'
  OBVIOUS
<1>1. ASSUME NEW r \in Requests, Arrive(r) \/ Proceed(r) \/ RollBack(r)
      PROVE  TransactionInv'
  <2>1. CASE Looks(r)
    BY <2>1, LooksLook, LookingKeepsInv
  <2>2. CASE Writes(r)
    BY <2>2, JoinCommitKeepsInv, LeaveCommitKeepsInv, InviteCommitKeepsInv,
       AcceptCommitKeepsInv, PromoteCommitKeepsInv, DemoteCommitKeepsInv,
       BanCommitKeepsInv, UnbanCommitKeepsInv, ReadCommitKeepsInv DEF Writes
  <2>3. CASE DecidesAtOnce(r)
    BY <2>3, RejectKeepsInv, UpdateKeepsInv, DeleteKeepsInv DEF DecidesAtOnce
  <2> QED BY <1>1, <2>1, <2>2, <2>3, KindsOfSteps
<1>2. CASE UNCHANGED tvars
  BY <1>2 DEF tvars, vars, TransactionInv, RequestsAreTyped, RowsAreHeldOnce, RoomIsHeldOnce,
     KeysAreHeldOnce, JoinersAreNew, DecisionsStand, RanksStand, InvitationsStand, LeaversAreNoOwners, OwnerIsTheOneOwner,
     NothingOutlivesTheRoom, TypeOK, Exists, IsBanned, Decided, Ranked, At
<1> QED BY <1>1, <1>2 DEF TNext, Quiet

(* The bookkeeping of locks and decisions holds through every interleaving. *)
THEOREM TransactionInvariant == TSpec => []TransactionInv
  BY TransactionsStart, TransactionSteps, PTL DEF TSpec

(* The owner column and the owner membership stay together whatever runs    *)
(* at once: no promotion, demotion, ban or leave gets at the owner's row.   *)
THEOREM ConcurrentOwnership == TSpec => []OwnerIsTheOneOwner
<1>1. TransactionInv => OwnerIsTheOneOwner
  BY DEF TransactionInv
<1> QED BY <1>1, TransactionInvariant, PTL

(* A deletion that overlaps joins, invitations and markers leaves none of   *)
(* their rows: each commit asks whether the room it refers to is there.     *)
THEOREM DeletionsLeaveNothing == TSpec => []NothingOutlivesTheRoom
<1>1. TransactionInv => NothingOutlivesTheRoom
  BY DEF TransactionInv
<1> QED BY <1>1, TransactionInvariant, PTL

(* What each request is kept waiting by can itself go on, except where an   *)
(* accept that has the room waits for the key of a join.  Of any number of  *)
(* requests under way one can go on, or those two wait for each other.      *)
THEOREM NoOtherDeadlocks == TSpec => []NoOtherDeadlock
<1>1. TransactionInv => NoOtherDeadlock
  <2> SUFFICES ASSUME TransactionInv, NEW r \in Requests, UnderWay(r),
                      \A s \in Requests : UnderWay(s) => Waits(s)
               PROVE  \E u \in Users : Deadlock(u)
    BY DEF NoOtherDeadlock
  <2>1. CASE ~RoomFree
    <3>1. PICK s \in Requests : req[s].op = "accept" /\ req[s].step \in {"ban_check", "commit"}
      BY <2>1 DEF RoomFree, RoomHolders
    <3>2. Waits(s)
      BY <3>1 DEF UnderWay, Answered
    <3>3. At(s, "accept", "commit") /\ ~KeyFree(req[s].actor)
      BY <3>1, <3>2 DEF Waits, At
    <3>4. PICK j \in Requests : At(j, "join", "commit") /\ req[j].actor = req[s].actor
      BY <3>3 DEF KeyFree, KeyHolders, At
    <3>5. req[s].actor \in Users
      BY <3>3, Participants DEF At
    <3> QED BY <3>3, <3>4, <3>5 DEF Deadlock
  <2>2. CASE RoomFree
    <3>1. ASSUME NEW s \in Requests, req[s].step = "commit",
                 req[s].op \in {"join", "promote", "demote", "ban"}
          PROVE  FALSE
      BY <2>2, <3>1 DEF UnderWay, Waits, Answered, At
    <3>2. /\ ~At(r, "accept", "commit")
          /\ \A u : RowFree(u) /\ KeyFree(u)
      BY <2>2, <3>1 DEF RoomFree, RoomHolders, RowFree, RowHolders, KeyFree, KeyHolders, At
    <3> QED BY <2>2, <3>2 DEF UnderWay, Waits
  <2> QED BY <2>1, <2>2
<1> QED BY <1>1, TransactionInvariant, PTL

----------------------------------------------------------------------------
(* What commits.                                                            *)

(* Only the request itself ends it, and with several statements, at commit. *)
LEMMA EndsAtCommit ==
    ASSUME TransactionInv, TNext, NEW r \in Requests, Commits(r), req[r].op # "none"
    PROVE  req[r].step = "commit" /\ Writes(r)
<1> USE DEF TransactionInv
<1>1. PICK s \in Requests : Arrive(s) \/ Proceed(s) \/ RollBack(s)
  BY DEF TNext, Quiet, tvars, Commits
<1>2. CASE Looks(s)
  <2>1. LooksOnly(s)
    BY <1>2, LooksLook
  <2> QED BY <2>1 DEF LooksOnly, Others, Entitled, Commits
<1>3. CASE DecidesAtOnce(s)
  <2>1. req[s].step = "idle"
    BY <1>3 DEF DecidesAtOnce, Reject, Delete, Update, OwnerRequest
  <2>2. s # r
    BY <2>1 DEF RequestsAreTyped, Idle
  <2>3. Ends(s)
    BY <1>3, OwnerRequestEnds, RejectEnds DEF DecidesAtOnce, Delete, Update
  <2> QED BY <2>2, <2>3 DEF Ends, Others, Commits
<1>4. CASE Writes(s)
  <2>1. /\ req[s].step = "commit"
        /\ Goto(s, "done") \/ Goto(s, "refused")
    BY <1>4 DEF Writes, JoinCommit, LeaveCommit, InviteCommit, AcceptCommit, PromoteCommit,
       DemoteCommit, BanCommit, UnbanCommit, ReadCommit, Commit, At
  <2>2. s = r
    BY <2>1 DEF Goto, Commits, RequestsAreTyped
  <2> QED BY <1>4, <2>1, <2>2
<1> QED BY <1>1, <1>2, <1>3, <1>4, KindsOfSteps

(* What a moderation decided about its target is so when it commits, for    *)
(* the row it locked was free and is its own until then.                    *)
THEOREM DecisionsLast == TSpec => DecisionsMatchTheRow
<1> DEFINE Match(r) ==
      LET q == req[r] t == req[r].target IN
         Commits(r) =>
           /\ q.op = "promote" => role[t] = "member"
           /\ q.op = "demote" => role[t] = "admin"
           /\ q.op = "ban" => /\ role[t] \in {"admin", "member"}
                              /\ q.rank = "admin" => role[t] = "member"
<1>1. TransactionInv /\ [TNext]_tvars => [\A r \in Requests : Match(r)]_tvars
  <2> SUFFICES ASSUME TransactionInv, TNext, NEW r \in Requests
               PROVE  Match(r)
    OBVIOUS
  <2>1. CASE Commits(r) /\ req[r].op \in RowOps
    <3>1. req[r].step = "commit"
      BY <2>1, EndsAtCommit DEF RowOps
    <3>2. Decided(req[r])
      BY <2>1, <3>1, WhatIsHeld
    <3> QED BY <3>2 DEF Decided
  <2> QED BY <2>1 DEF RowOps
<1> QED BY <1>1, TransactionInvariant, PTL DEF TSpec, DecisionsMatchTheRow

(* An accept keeps every ban out of its room until it has committed.        *)
THEOREM AcceptsAreNotBanned == TSpec => InvitationsAdmitNoBanned
<1>1. TransactionInv /\ [TNext]_tvars =>
        [\A r \in Requests :
            req[r].op = "accept" /\ Commits(r) => ~IsBanned(req[r].actor)]_tvars
  <2> SUFFICES ASSUME TransactionInv, TNext, NEW r \in Requests,
                      req[r].op = "accept", Commits(r)
               PROVE  ~IsBanned(req[r].actor)
    OBVIOUS
  <2>1. At(r, "accept", "commit")
    BY EndsAtCommit DEF At
  <2> QED BY <2>1, AcceptHolds
<1> QED BY <1>1, TransactionInvariant, PTL DEF TSpec, InvitationsAdmitNoBanned

(* A member who was none before came in by the own join or accept: the      *)
(* other writes of a membership go to a row that is held.                   *)
THEOREM EntriesAreOwn == TSpec => OnlyTheUserEnters
<1> DEFINE Own ==
      \A u \in Users :
         ~IsMember(u) /\ IsMember(u)' =>
           \E r \in Requests : /\ Commits(r)
                               /\ req[r].actor = u
                               /\ req[r].op \in {"join", "accept"}
<1>1. TransactionInv /\ [TNext]_tvars => [Own]_tvars
  <2> SUFFICES ASSUME TransactionInv, TNext, NEW u \in Users, ~IsMember(u), IsMember(u)'
               PROVE  \E r \in Requests : /\ Commits(r)
                                          /\ req[r].actor = u
                                          /\ req[r].op \in {"join", "accept"}
    OBVIOUS
  <2> USE DEF IsMember
  <2>1. PICK r \in Requests : Arrive(r) \/ Proceed(r) \/ RollBack(r)
    BY DEF TNext, Quiet, tvars, vars
  <2>2. ~Looks(r)
    BY LooksLook DEF LooksOnly, vars
  <2>3. ~DecidesAtOnce(r)
    BY DEF DecidesAtOnce, Reject, RejectInvitation, Delete, DeleteRoom, Update, UpdateRoom
  <2>4. Writes(r)
    BY <2>1, <2>2, <2>3, KindsOfSteps
  <2>5. role \in [Users -> Roles] /\ req \in [Requests -> RequestRecords]
    BY DEF TransactionInv, RequestsAreTyped, TypeOK
  <2>6. req[r].step = "commit"
    BY <2>4 DEF Writes, JoinCommit, LeaveCommit, InviteCommit, AcceptCommit, PromoteCommit,
       DemoteCommit, BanCommit, UnbanCommit, ReadCommit, Commit, At
  <2>7. req[r].op \in RowOps => role[req[r].target] # "none"
    BY <2>6, WhatIsHeld
  <2>8. JoinCommit(r) \/ AcceptCommit(r)
    <3>1. ~LeaveCommit(r) /\ ~InviteCommit(r) /\ ~UnbanCommit(r) /\ ~ReadCommit(r)
      BY <2>5 DEF LeaveCommit, InviteCommit, UnbanCommit, ReadCommit, Commit, vars
    <3>2. ~PromoteCommit(r) /\ ~DemoteCommit(r) /\ \A action \in BanActions : ~BanCommit(r, action)
      BY <2>5, <2>7 DEF PromoteCommit, DemoteCommit, BanCommit, Commit, vars, At, RowOps
    <3> QED BY <2>4, <3>1, <3>2 DEF Writes
  <2>9. req[r].actor = u /\ req[r].op \in {"join", "accept"} /\ Goto(r, "done")
    BY <2>5, <2>8 DEF JoinCommit, AcceptCommit, Commit, At, vars, NewMember, AcceptedBy
  <2>10. Commits(r)
    BY <2>5, <2>6, <2>9, Committing, GoingOn DEF Commits, Goto
  <2> QED BY <2>9, <2>10
<1> QED BY <1>1, TransactionInvariant, PTL DEF TSpec, OnlyTheUserEnters

----------------------------------------------------------------------------
(* What races leave behind.                                                 *)

(* What RacesLeaveTwoTraces says of a step of one request and of one user.  *)
Traces(r, u) ==
    /\ ~BannedMember(u) /\ BannedMember(u)' =>
          Commits(r) /\ req'[r].op = "join" /\ req'[r].actor = u
    /\ BannedMember(u) /\ ~BannedMember(u)' =>
          /\ Commits(r)
          /\ \/ req'[r].op = "leave" /\ req'[r].actor = u
             \/ req'[r].op = "unban" /\ req'[r].target = u
             \/ req'[r].op = "delete"
    /\ ~OldMarker(u) /\ OldMarker(u)' =>
          Commits(r) /\ req'[r].op = "read" /\ req'[r].actor = u
    /\ OldMarker(u) /\ ~OldMarker(u)' =>
          /\ Commits(r)
          /\ \/ req'[r].op \in {"join", "accept", "leave"} /\ req'[r].actor = u
             \/ req'[r].op = "delete"

(* Who reads leaves none.                                                   *)
LEMMA ReadersLeaveNoTrace ==
    ASSUME NEW r \in Requests, NEW u \in Users, UNCHANGED vars
    PROVE  Traces(r, u)
BY DEF Traces, BannedMember, OldMarker, IsMember, IsBanned, vars

(* A commit is known by its request, and a moderation by the row it holds.  *)
LEMMA CommitsSay ==
    ASSUME TransactionInv, NEW r \in Requests, Goto(r, "done"), req[r].step = "commit"
    PROVE  /\ Commits(r) /\ req'[r].op = req[r].op
           /\ req'[r].actor = req[r].actor /\ req'[r].target = req[r].target
<1>1. "done" \in Steps /\ RequestsAreTyped
  BY DEF Steps, Answered, TransactionInv
<1> QED BY <1>1, GoingOn DEF Keeps, Commits

(* The commits of a user's own requests.                                    *)
LEMMA OwnCommitsLeaveTraces ==
    ASSUME TransactionInv, NEW r \in Requests, NEW u \in Users,
           JoinCommit(r) \/ LeaveCommit(r) \/ AcceptCommit(r) \/ ReadCommit(r)
    PROVE  Traces(r, u)
<1>1. TypeOK
  BY DEF TransactionInv, RequestsAreTyped
<1> USE <1>1 DEF Traces, BannedMember, OldMarker, IsMember, IsBanned, TypeOK, Commit, At
<1>2. CASE JoinCommit(r) /\ Goto(r, "done") /\ ~UNCHANGED vars
  BY <1>2, CommitsSay DEF JoinCommit, NewMember
<1>3. CASE LeaveCommit(r) /\ Goto(r, "done") /\ ~UNCHANGED vars
  BY <1>3, CommitsSay DEF LeaveCommit
<1>4. CASE AcceptCommit(r) /\ Goto(r, "done") /\ ~UNCHANGED vars
  <2>1. req[r].op = "accept" /\ req[r].step = "commit"
    BY <1>4 DEF AcceptCommit
  <2>2. ~IsBanned(req[r].actor)
    BY <2>1, AcceptHolds
  <2> QED BY <1>4, <2>1, <2>2, CommitsSay DEF AcceptCommit, AcceptedBy, NewMember
<1>5. CASE ReadCommit(r) /\ Goto(r, "done") /\ ~UNCHANGED vars
  BY <1>5, CommitsSay DEF ReadCommit
<1>6. CASE UNCHANGED vars
  BY <1>6, ReadersLeaveNoTrace
<1> QED BY <1>2, <1>3, <1>4, <1>5, <1>6 DEF JoinCommit, LeaveCommit, AcceptCommit, ReadCommit

(* The commits of those who invite, promote, demote, ban and unban.         *)
LEMMA ModerationsLeaveTraces ==
    ASSUME TransactionInv, NEW r \in Requests, NEW u \in Users,
           \/ InviteCommit(r) \/ PromoteCommit(r) \/ DemoteCommit(r) \/ UnbanCommit(r)
           \/ \E action \in BanActions : BanCommit(r, action)
    PROVE  Traces(r, u)
<1>1. TypeOK
  BY DEF TransactionInv, RequestsAreTyped
<1>2. req[r].op \in RowOps /\ req[r].step = "commit" => role[req[r].target] # "none"
  BY WhatIsHeld
<1> USE <1>1 DEF Traces, BannedMember, OldMarker, IsMember, IsBanned, TypeOK, Commit, At
<1>3. CASE InviteCommit(r) /\ Goto(r, "done") /\ ~UNCHANGED vars
  BY <1>3 DEF InviteCommit
<1>4. CASE PromoteCommit(r) /\ Goto(r, "done") /\ ~UNCHANGED vars
  BY <1>2, <1>4 DEF PromoteCommit, RowOps
<1>5. CASE DemoteCommit(r) /\ Goto(r, "done") /\ ~UNCHANGED vars
  BY <1>2, <1>5 DEF DemoteCommit, RowOps
<1>6. CASE UnbanCommit(r) /\ Goto(r, "done") /\ ~UNCHANGED vars
  BY <1>6, CommitsSay DEF UnbanCommit
<1>7. ASSUME NEW action \in BanActions, BanCommit(r, action), Goto(r, "done"), ~UNCHANGED vars
      PROVE  Traces(r, u)
  BY <1>2, <1>7 DEF BanCommit, RowOps
<1>8. CASE UNCHANGED vars
  BY <1>8, ReadersLeaveNoTrace
<1>9. \/ InviteCommit(r) /\ (Goto(r, "done") \/ UNCHANGED vars)
      \/ PromoteCommit(r) /\ (Goto(r, "done") \/ UNCHANGED vars)
      \/ DemoteCommit(r) /\ (Goto(r, "done") \/ UNCHANGED vars)
      \/ UnbanCommit(r) /\ (Goto(r, "done") \/ UNCHANGED vars)
      \/ \E action \in BanActions : BanCommit(r, action) /\ (Goto(r, "done") \/ UNCHANGED vars)
  BY DEF InviteCommit, PromoteCommit, DemoteCommit, UnbanCommit, BanCommit
<1> QED BY <1>3, <1>4, <1>5, <1>6, <1>7, <1>8, <1>9

(* What is over in one statement: a deletion takes both traces along.       *)
LEMMA OwnersLeaveTraces ==
    ASSUME TransactionInv, NEW r \in Requests, NEW u \in Users, DecidesAtOnce(r)
    PROVE  Traces(r, u)
<1>1. TypeOK /\ req \in [Requests -> RequestRecords]
  BY DEF TransactionInv, RequestsAreTyped
<1> USE <1>1 DEF Traces, BannedMember, OldMarker, IsMember, IsBanned, TypeOK
<1>2. ASSUME NEW w \in Users, Delete(r, w)
      PROVE  Traces(r, u)
  <2>1. /\ req[r].step = "idle"
        /\ req' = [req EXCEPT ![r] = [Idle EXCEPT !.op = "delete", !.actor = w, !.step = "done"]]
    BY <1>2 DEF Delete, OwnerRequest
  <2>2. Commits(r) /\ req'[r].op = "delete"
    BY <2>1 DEF Commits, Idle
  <2>3. ~BannedMember(u)' /\ ~OldMarker(u)'
    BY <1>2 DEF Delete, DeleteRoom
  <2> QED BY <2>2, <2>3
<1>3. ASSUME NEW w \in Users, NEW v \in Visibilities, Update(r, w, v)
      PROVE  Traces(r, u)
  BY <1>3 DEF Update, UpdateRoom
<1>4. ASSUME NEW w \in Users, Reject(r, w)
      PROVE  Traces(r, u)
  BY <1>4 DEF Reject, RejectInvitation
<1> QED BY <1>2, <1>3, <1>4 DEF DecidesAtOnce

(* However many requests overlap, the two traces come and go as stated.     *)
THEOREM RacesLeaveNothingElse == TSpec => RacesLeaveTwoTraces
<1>1. TransactionInv /\ [TNext]_tvars =>
        [\A u \in Users :
         /\ ~BannedMember(u) /\ BannedMember(u)' =>
               \E r \in Requests : Commits(r) /\ req'[r].op = "join" /\ req'[r].actor = u
         /\ BannedMember(u) /\ ~BannedMember(u)' =>
               \E r \in Requests :
                  /\ Commits(r)
                  /\ \/ req'[r].op = "leave" /\ req'[r].actor = u
                     \/ req'[r].op = "unban" /\ req'[r].target = u
                     \/ req'[r].op = "delete"
         /\ ~OldMarker(u) /\ OldMarker(u)' =>
               \E r \in Requests : Commits(r) /\ req'[r].op = "read" /\ req'[r].actor = u
         /\ OldMarker(u) /\ ~OldMarker(u)' =>
               \E r \in Requests :
                  /\ Commits(r)
                  /\ \/ req'[r].op \in {"join", "accept", "leave"} /\ req'[r].actor = u
                     \/ req'[r].op = "delete"]_tvars
  <2> SUFFICES ASSUME TransactionInv, TNext, NEW u \in Users
               PROVE  \/ UNCHANGED vars
                      \/ \E r \in Requests : Traces(r, u)
    BY ReadersLeaveNoTrace DEF Traces, BannedMember, OldMarker, IsMember, IsBanned, vars
  <2>1. CASE Quiet
    BY <2>1 DEF Quiet, tvars
  <2>2. ASSUME NEW r \in Requests, Arrive(r) \/ Proceed(r) \/ RollBack(r)
        PROVE  UNCHANGED vars \/ Traces(r, u)
    <3>1. CASE Looks(r)
      BY <3>1, LooksLook DEF LooksOnly
    <3>2. CASE DecidesAtOnce(r)
      BY <3>2, OwnersLeaveTraces
    <3>3. CASE Writes(r)
      BY <3>3, OwnCommitsLeaveTraces, ModerationsLeaveTraces DEF Writes
    <3> QED BY <2>2, <3>1, <3>2, <3>3, KindsOfSteps
  <2> QED BY <2>1, <2>2 DEF TNext
<1> QED BY <1>1, TransactionInvariant, PTL DEF TSpec, RacesLeaveTwoTraces

----------------------------------------------------------------------------
(* Requests that decide by what they hold run as if one after the other.    *)
AllHold == \A r \in Requests : Holds(r)

(* A leave whose row is not the member's any more finds no marker either.   *)
MarkersOfLeavers ==
    \A r \in Requests :
        At(r, "leave", "commit") /\ rowId[req[r].actor] # req[r].row
           => req[r].actor \notin readStates

Tidy == BannedUsersAreOut /\ ReadersAreMembers /\ MarkersOfLeavers

SerialInv == AllHold => Tidy

(* The requests start in a state of the serial room.                        *)
LEMMA SerialStart == TInit => RoomInv /\ SerialInv
<1> SUFFICES ASSUME TInit PROVE RoomInv /\ Tidy
  BY DEF SerialInv
<1>1. TransactionInv
  BY TransactionsStart
<1>2. BannedUsersAreOut /\ ReadersAreMembers
  BY DEF TInit, BannedUsersAreOut, ReadersAreMembers, IsBanned, IsMember
<1>3. MarkersOfLeavers
  BY DEF TInit, MarkersOfLeavers, At, Idle
<1> QED BY <1>1, <1>2, <1>3 DEF TransactionInv, RequestsAreTyped, RoomInv, Tidy

(* Requests keep what they are, so they held before as well.                *)
LEMMA HeldBefore ==
    ASSUME TransactionInv, NEW r \in Requests, Arrive(r) \/ Proceed(r) \/ RollBack(r),
           AllHold'
    PROVE  AllHold
<1>1. /\ \A s \in Requests \ {r} : req'[s] = req[s]
      /\ SameRequest(r)
  <2>1. CASE Looks(r)
    BY <2>1, LooksLook DEF LooksOnly, Others
  <2>2. CASE Writes(r)
    <3>1. req[r].step = "commit" /\ \E to \in {"done", "refused"} : Goto(r, to)
      BY <2>2 DEF Writes, JoinCommit, LeaveCommit, InviteCommit, AcceptCommit, PromoteCommit,
         DemoteCommit, BanCommit, UnbanCommit, ReadCommit, Commit, At
    <3>2. {"done", "refused"} \subseteq Steps
      BY DEF Steps, Answered
    <3> QED BY <3>1, <3>2, GoingOn DEF TransactionInv, Others, SameRequest, Keeps
  <2>3. CASE DecidesAtOnce(r)
    <3>1. Ends(r)
      BY <2>3, OwnerRequestEnds, RejectEnds DEF DecidesAtOnce, Delete, Update
    <3>2. req[r] = Idle
      BY <2>3 DEF DecidesAtOnce, Reject, Delete, Update, OwnerRequest, TransactionInv,
         RequestsAreTyped
    <3> QED BY <3>1, <3>2 DEF Ends, Others, SameRequest, Idle
  <2> QED BY <2>1, <2>2, <2>3, KindsOfSteps
<1> SUFFICES ASSUME NEW s \in Requests PROVE Holds(s)
  BY DEF AllHold
<1>2. Holds(s)'
  BY DEF AllHold
<1>3. CASE s # r
  BY <1>1, <1>2, <1>3 DEF Holds
<1>4. CASE s = r
  BY <1>1, <1>2, <1>4 DEF Holds, SameRequest, ModerationOps
<1> QED BY <1>3, <1>4

(* A commit that has done its work is the serial request, or nothing at all.*)
LEMMA WritesAreSerial ==
    ASSUME TransactionInv, AllHold, Tidy, NEW r \in Requests, Writes(r)
    PROVE  [Next]_vars /\ readStates' \subseteq readStates
             /\ \A u \in Users : rowId'[u] # rowId[u] => u \notin readStates
<1> USE DEF Tidy
<1> DEFINE a == req[r].actor
           t == req[r].target
<1>1. req[r].step = "commit" /\ Holds(r) /\ a \in Users /\ t \in Users
  BY Participants DEF AllHold, Writes, JoinCommit, LeaveCommit, InviteCommit, AcceptCommit,
     PromoteCommit, DemoteCommit, BanCommit, UnbanCommit, ReadCommit, Commit, At
<1>2. /\ role \in [Users -> Roles] /\ rowId \in [Users -> Nat] /\ readStates \subseteq Users
      /\ OwnerIsTheOneOwner /\ NothingOutlivesTheRoom
  BY DEF TransactionInv, RequestsAreTyped, TypeOK
<1>3. SUFFICES ASSUME ~UNCHANGED <<vars, rowId>>
      PROVE  [Next]_vars /\ readStates' \subseteq readStates
               /\ \A u \in Users : rowId'[u] # rowId[u] => u \notin readStates
  BY DEF vars
<1>4. ASSUME req[r].op \in {"promote", "demote", "ban", "unban"}, Exists
      PROVE  role[a] = "owner" /\ VisibleTo(a)
  <2>1. Ranked(req[r]) /\ req[r].rank # "admin"
    BY <1>1, <1>4 DEF TransactionInv, RanksStand, ModerationOps, Holds
  <2>2. owner = a
    BY <1>4, <2>1 DEF Ranked
  <2> QED BY <1>1, <1>2, <1>4, <2>2 DEF OwnerIsTheOneOwner, VisibleTo, IsMember
<1>5. ~JoinCommit(r) /\ ~InviteCommit(r) /\ ~ReadCommit(r)
  BY <1>1 DEF Holds, JoinCommit, InviteCommit, ReadCommit, Commit, At
<1>6. CASE LeaveCommit(r)
  <2>1. /\ role' = [role EXCEPT ![a] = IF rowId[a] = req[r].row THEN "none" ELSE @]
        /\ readStates' = readStates \ {a}
        /\ UNCHANGED <<visibility, owner, ban, invited, audit, rowId>>
    BY <1>3, <1>6 DEF LeaveCommit, Commit
  <2>2. At(r, "leave", "commit") /\ owner # a
    BY <1>6 DEF LeaveCommit, Commit, TransactionInv, LeaversAreNoOwners
  <2>3. CASE rowId[a] = req[r].row /\ IsMember(a)
    <3>1. LeaveRoom(a)
      BY <1>1, <1>2, <2>1, <2>2, <2>3
      DEF LeaveRoom, OwnerIsTheOneOwner, NothingOutlivesTheRoom, IsMember
    <3> QED BY <1>1, <2>1, <3>1 DEF Next, Membership
  <2>4. CASE ~(rowId[a] = req[r].row /\ IsMember(a))
    <3>1. a \notin readStates
      BY <2>2, <2>4 DEF MarkersOfLeavers, ReadersAreMembers
    <3>2. role' = role
      BY <1>1, <1>2, <2>1, <2>4 DEF IsMember
    <3> QED BY <1>1, <2>1, <3>1, <3>2 DEF vars
  <2> QED BY <2>3, <2>4
<1>7. CASE AcceptCommit(r)
  <2>1. a \in invited /\ ~IsBanned(a)
    BY <1>1, <1>7, AcceptHolds DEF AcceptCommit, Commit
  <2>2. AcceptedBy(a)
    BY <1>3, <1>7 DEF AcceptCommit, Commit
  <2>3. AcceptInvitation(a)
    BY <1>1, <1>2, <2>1, <2>2 DEF AcceptInvitation, AcceptedBy, NewMember
  <2>4. \A u \in Users : rowId'[u] # rowId[u] => u \notin readStates
    BY <1>1, <1>2, <2>2 DEF AcceptedBy, NewMember, ReadersAreMembers
  <2> QED BY <1>1, <2>3, <2>4 DEF Next, Membership, AcceptInvitation
<1>8. CASE PromoteCommit(r)
  <2>1. Decided(req[r]) /\ Exists /\ req[r].op = "promote"
    BY <1>1, <1>8, WhatIsHeld DEF PromoteCommit, Commit, At, RowOps
  <2>2. PromoteAdmin(a, t) /\ rowId' = rowId
    BY <1>3, <1>4, <1>8, <2>1 DEF PromoteAdmin, PromoteCommit, Commit, Decided
  <2> QED BY <1>1, <2>2 DEF Next, Moderation, PromoteAdmin
<1>9. CASE DemoteCommit(r)
  <2>1. Decided(req[r]) /\ Exists /\ req[r].op = "demote"
    BY <1>1, <1>9, WhatIsHeld DEF DemoteCommit, Commit, At, RowOps
  <2>2. DemoteAdmin(a, t) /\ rowId' = rowId
    BY <1>3, <1>4, <1>9, <2>1 DEF DemoteAdmin, DemoteCommit, Commit, Decided, Moderates
  <2> QED BY <1>1, <2>2 DEF Next, Moderation, DemoteAdmin
<1>10. ASSUME NEW action \in BanActions, BanCommit(r, action)
       PROVE  [Next]_vars /\ readStates' \subseteq readStates
                /\ \A u \in Users : rowId'[u] # rowId[u] => u \notin readStates
  <2>1. Decided(req[r]) /\ Exists /\ req[r].op = "ban"
    BY <1>1, <1>10, WhatIsHeld DEF BanCommit, Commit, At, RowOps
  <2>2. CreateBan(a, t, action) /\ rowId' = rowId
    BY <1>3, <1>4, <1>10, <2>1
    DEF CreateBan, BanCommit, Commit, Decided, MayModerate, Moderates, IsMember
  <2> QED BY <1>1, <1>10, <2>2 DEF Next, Moderation, CreateBan
<1>11. CASE UnbanCommit(r)
  <2>1. Exists /\ IsBanned(t) /\ req[r].op = "unban"
    BY <1>3, <1>11 DEF UnbanCommit, Commit, At
  <2>2. RemoveBan(a, t) /\ rowId' = rowId
    BY <1>3, <1>4, <1>11, <2>1 DEF RemoveBan, UnbanCommit, Commit, Moderates
  <2> QED BY <1>1, <2>2 DEF Next, Moderation, RemoveBan
<1> QED BY <1>5, <1>6, <1>7, <1>8, <1>9, <1>10, <1>11 DEF Writes

(* With every request of that kind, a step is serial and leaves the room    *)
(* tidy for the next.                                                       *)
LEMMA SerialStep ==
    TransactionInv /\ SerialInv /\ [TNext]_tvars =>
        SerialInv' /\ [AllHold' => [Next]_vars]_tvars
<1> SUFFICES ASSUME TransactionInv, SerialInv, [TNext]_tvars, AllHold'
             PROVE  Tidy' /\ [Next]_vars
  BY DEF SerialInv
<1>1. CASE UNCHANGED tvars
  <2>1. AllHold
    BY <1>1 DEF AllHold, Holds, tvars
  <2>2. Tidy
    BY <2>1 DEF SerialInv
  <2> QED BY <1>1, <2>2 DEF tvars, vars, Tidy, BannedUsersAreOut, ReadersAreMembers,
          MarkersOfLeavers, IsBanned, IsMember, At
<1>2. ASSUME NEW r \in Requests, Arrive(r) \/ Proceed(r) \/ RollBack(r)
      PROVE  Tidy' /\ [Next]_vars
  <2>1. AllHold /\ Tidy
    BY <1>2, HeldBefore DEF SerialInv
  <2>2. RoomInv
    BY <2>1 DEF RoomInv, TransactionInv, RequestsAreTyped, Tidy
  <2>3. CASE Looks(r)
    <3>1. LooksOnly(r)
      BY <2>3, LooksLook
    <3>2. UNCHANGED <<vars, rowId>>
      BY <3>1 DEF LooksOnly
    <3>3. BannedUsersAreOut' /\ ReadersAreMembers'
      BY <2>1, <3>2 DEF vars, Tidy, BannedUsersAreOut, ReadersAreMembers, IsBanned, IsMember
    <3>4. MarkersOfLeavers'
      BY <2>1, <3>1, <3>2 DEF vars, Tidy, MarkersOfLeavers, At, LooksOnly, Others, Entitled
    <3> QED BY <3>2, <3>3, <3>4 DEF Tidy
  <2>4. CASE Writes(r) \/ DecidesAtOnce(r)
    <3>1. /\ [Next]_vars /\ readStates' \subseteq readStates
          /\ \A u \in Users : rowId'[u] # rowId[u] => u \notin readStates
      <4>1. ASSUME NEW u \in Users, Reject(r, u)
            PROVE  Next /\ readStates' = readStates /\ rowId' = rowId
        BY <4>1 DEF Reject, RejectInvitation, Next, Membership
      <4>2. ASSUME NEW u \in Users, Delete(r, u)
            PROVE  Next /\ readStates' = {} /\ rowId' = rowId
        BY <4>2 DEF Delete, OwnerRequest, DeleteRoom, Next, Lifecycle
      <4>3. ASSUME NEW u \in Users, NEW v \in Visibilities, Update(r, u, v)
            PROVE  Next /\ readStates' = readStates /\ rowId' = rowId
        BY <4>3 DEF Update, OwnerRequest, UpdateRoom, Next, Lifecycle
      <4> QED BY <2>1, <2>4, <4>1, <4>2, <4>3, WritesAreSerial DEF DecidesAtOnce
    <3>2. BannedUsersAreOut' /\ ReadersAreMembers'
      BY <2>2, <3>1, NextPreservesRoomInv DEF RoomInv
    <3>3. \A s \in Requests : At(s, "leave", "commit")' => req'[s] = req[s] /\ s # r
      <4>1. CASE Writes(r)
        <5>1. \E to \in {"done", "refused"} : Goto(r, to)
          BY <4>1 DEF Writes, JoinCommit, LeaveCommit, InviteCommit, AcceptCommit, PromoteCommit,
             DemoteCommit, BanCommit, UnbanCommit, ReadCommit, Commit
        <5> QED BY <5>1 DEF Goto, At, TransactionInv, RequestsAreTyped
      <4>2. CASE DecidesAtOnce(r)
        <5>1. Ends(r)
          BY <4>2, OwnerRequestEnds, RejectEnds DEF DecidesAtOnce, Delete, Update
        <5> QED BY <5>1 DEF Ends, Others, At, Answered
      <4> QED BY <2>4, <4>1, <4>2
    <3>4. MarkersOfLeavers'
      <4> SUFFICES ASSUME NEW s \in Requests, At(s, "leave", "commit")',
                          rowId'[req'[s].actor] # req'[s].row
                   PROVE  req'[s].actor \notin readStates'
        BY DEF MarkersOfLeavers
      <4>1. req'[s] = req[s] /\ At(s, "leave", "commit")
        BY <3>3 DEF At
      <4>2. req[s].actor \in Users
        BY <4>1, Participants DEF At
      <4> QED BY <2>1, <3>1, <4>1, <4>2 DEF Tidy, MarkersOfLeavers
    <3> QED BY <3>1, <3>2, <3>4 DEF Tidy
  <2> QED BY <1>2, <2>3, <2>4, KindsOfSteps
<1> QED BY <1>1, <1>2 DEF TNext, Quiet

(* Serializability: started in any state of the room, and as long as every  *)
(* request decides by what it holds, every step of every interleaving is a  *)
(* whole request of Rooms or changes no row.                                *)
THEOREM LockedRequestsAreSerial == TSpec => SerialSteps
<1>2. TInit => RoomInv
  BY SerialStart
<1>3. TSpec => [](TransactionInv /\ SerialInv)
  BY TransactionsStart, SerialStart, TransactionSteps, SerialStep, PTL DEF TSpec
<1>4. TransactionInv /\ SerialInv /\ [TNext]_tvars
        => [(\A r \in Requests : Holds(r))' => [Next]_vars]_tvars
  BY SerialStep DEF AllHold
<1> QED BY <1>2, <1>3, <1>4, PTL DEF TSpec, SerialSteps

----------------------------------------------------------------------------
(* A request alone does what Rooms says of it.  What it has read so far is  *)
(* so, for nobody else writes.                                              *)
Current(q) ==
    /\ q.op = "join" =>
          /\ q.step \in {"ban_check", "member_check", "insert", "commit"}
                => visibility = "public"
          /\ q.step \in {"member_check", "insert", "commit"} => ~IsBanned(q.actor)
          /\ q.step \in {"insert", "commit"} => ~IsMember(q.actor)
    /\ q.op = "leave" =>
          /\ q.step \in {"member_check", "commit"} => Exists
          /\ q.step = "commit" => /\ IsMember(q.actor) /\ role[q.actor] # "owner"
                                  /\ owner # q.actor /\ q.row = rowId[q.actor]
    /\ q.op = "invite" =>
          /\ q.step \in {"role_check", "ban_check", "member_check", "commit"} =>
                VisibleTo(q.actor) /\ visibility = "private" /\ q.target # q.actor
          /\ q.step \in {"ban_check", "member_check", "commit"} => Moderates(q.actor)
          /\ q.step \in {"member_check", "commit"} => ~IsBanned(q.target)
          /\ q.step = "commit" => ~IsMember(q.target)
    /\ q.op \in ModerationOps =>
          /\ q.step \in {"role_check", "lock", "commit"} => VisibleTo(q.actor)
          /\ q.step \in {"lock", "commit"} => q.rank = role[q.actor]
    /\ q.op = "demote" /\ q.step = "commit" => ~(q.rank = "admin" /\ q.target = q.actor)
    /\ q.op = "read" =>
          /\ q.step \in {"member_check", "ban_check", "commit"} => VisibleTo(q.actor)
          /\ q.step \in {"ban_check", "commit"} => IsMember(q.actor)
          /\ q.step = "commit" => ~IsBanned(q.actor)

LoneInv == \A r \in Requests : Lone(r) => Current(req[r])

(* A step forward is that of the request: those of the others end its being *)
(* alone.                                                                   *)
LEMMA LoneSteps ==
    ASSUME TransactionInv, NEW r \in Requests, NEW s \in Requests, Lone(s)',
           Arrive(r) \/ Proceed(r) \/ RollBack(r)
    PROVE  s = r /\ Lone(r)
<1>1. CASE Looks(r)
  <2>1. LooksOnly(r)
    BY <1>1, LooksLook
  <2> QED BY <2>1 DEF LooksOnly, Others, Entitled, Lone
<1>2. CASE DecidesAtOnce(r)
  <2>1. Ends(r)
    BY <1>2, OwnerRequestEnds, RejectEnds DEF DecidesAtOnce, Delete, Update
  <2> QED BY <2>1 DEF Ends, Others, Answered, Lone
<1>3. CASE Writes(r)
  <2>1. \E to \in {"done", "refused"} : Goto(r, to)
    BY <1>3 DEF Writes, JoinCommit, LeaveCommit, InviteCommit, AcceptCommit, PromoteCommit,
       DemoteCommit, BanCommit, UnbanCommit, ReadCommit, Commit
  <2>2. {"done", "refused"} \subseteq Steps
    BY DEF Steps, Answered
  <2> QED BY <2>1, <2>2, GoingOn DEF TransactionInv, Others, Lone
<1> QED BY <1>1, <1>2, <1>3, KindsOfSteps

(* An arrival knows what the view looked at before it called the service.   *)
LEMMA ArrivalsAreCurrent ==
    ASSUME TransactionInv, NEW r \in Requests, NEW u \in Users, NEW t \in Users,
           \/ BeginJoin(r, u) \/ BeginLeave(r, u) \/ BeginRead(r, u) \/ BeginAccept(r, u)
           \/ BeginInvite(r, u, t)
           \/ \E op \in ModerationOps : BeginModeration(r, op, u, t)
    PROVE  Current(req[r])' /\ UNCHANGED vars /\ ~Commits(r)
<1>1. ASSUME NEW op, NEW w \in Users, NEW step \in {"ban_check", "member_check", "role_check"},
             Begin(r, op, u, w, step)
      PROVE  /\ req'[r].op = op /\ req'[r].step = step
             /\ req'[r].actor = u /\ req'[r].target = w
             /\ UNCHANGED vars /\ ~Commits(r)
  <2>1. step \in Steps
    BY DEF Steps
  <2> QED BY <1>1, <2>1, Beginning DEF TransactionInv, Commits
<1> USE DEF Current, ModerationOps, vars, VisibleTo, IsMember, Exists
<1>2. CASE BeginJoin(r, u)
  BY <1>1, <1>2 DEF BeginJoin
<1>3. CASE BeginLeave(r, u)
  BY <1>1, <1>3 DEF BeginLeave
<1>4. CASE BeginRead(r, u)
  BY <1>1, <1>4 DEF BeginRead
<1>5. CASE BeginAccept(r, u)
  BY <1>1, <1>5 DEF BeginAccept
<1>6. CASE BeginInvite(r, u, t)
  BY <1>1, <1>6 DEF BeginInvite
<1>7. ASSUME NEW op \in ModerationOps, BeginModeration(r, op, u, t)
      PROVE  Current(req[r])' /\ UNCHANGED vars /\ ~Commits(r)
  BY <1>1, <1>7 DEF BeginModeration
<1> QED BY <1>2, <1>3, <1>4, <1>5, <1>6, <1>7

(* What a check has found is so.                                            *)
LEMMA ChecksAreCurrent ==
    ASSUME TransactionInv, NEW r \in Requests, Current(req[r]),
           \/ JoinBanCheck(r) \/ JoinMemberCheck(r) \/ JoinInsert(r)
           \/ InviteRoleCheck(r) \/ InviteBanCheck(r) \/ InviteMemberCheck(r)
           \/ ReadMemberCheck(r) \/ ReadBanCheck(r) \/ AcceptBanCheck(r)
           \/ PromoteLock(r) \/ DemoteLock(r) \/ BanLock(r)
           \/ RollBack(r)
    PROVE  Current(req[r])' /\ UNCHANGED vars /\ ~Commits(r)
<1>0. /\ RequestsAreTyped
      /\ {"refused", "insert", "commit", "ban_check", "member_check"} \subseteq Steps
  BY DEF TransactionInv, Steps, Answered
<1>u. UNCHANGED <<vars, rowId>>
  BY DEF JoinBanCheck, JoinMemberCheck, JoinInsert, InviteRoleCheck, InviteBanCheck, InviteMemberCheck,
         ReadMemberCheck, ReadBanCheck, AcceptBanCheck, PromoteLock, DemoteLock, BanLock,
         Lock, RollBack, Check
<1>k. ASSUME NEW step \in {"refused", "insert", "commit", "ban_check", "member_check"}, Goto(r, step)
      PROVE  /\ req'[r].step = step /\ req'[r].op = req[r].op /\ req'[r].row = req[r].row
             /\ req'[r].actor = req[r].actor /\ req'[r].target = req[r].target
             /\ req'[r].rank = req[r].rank /\ ~Commits(r)
  BY <1>0, <1>k, GoingOn DEF Keeps, Commits
<1>r. ASSUME Goto(r, "refused") PROVE Current(req[r])' /\ ~Commits(r)
  BY <1>k, <1>r DEF Current
<1> USE DEF Check, At, Current, vars, VisibleTo, IsMember, IsBanned, Moderates, Exists,
            ModerationOps
<1>1. CASE JoinBanCheck(r) /\ ~Goto(r, "refused")
  BY <1>k, <1>1, <1>u DEF JoinBanCheck
<1>2. CASE JoinMemberCheck(r) /\ ~Goto(r, "refused")
  BY <1>k, <1>2, <1>u DEF JoinMemberCheck
<1>3. CASE InviteRoleCheck(r) /\ ~Goto(r, "refused")
  BY <1>k, <1>3, <1>u DEF InviteRoleCheck
<1>4. CASE InviteBanCheck(r) /\ ~Goto(r, "refused")
  BY <1>k, <1>4, <1>u DEF InviteBanCheck
<1>5. CASE InviteMemberCheck(r) /\ ~Goto(r, "refused")
  BY <1>k, <1>5, <1>u DEF InviteMemberCheck
<1>6. CASE ReadMemberCheck(r) /\ ~Goto(r, "refused")
  BY <1>k, <1>6, <1>u DEF ReadMemberCheck
<1>7. CASE ReadBanCheck(r) /\ ~Goto(r, "refused")
  BY <1>k, <1>7, <1>u DEF ReadBanCheck
<1>8. CASE AcceptBanCheck(r) /\ ~Goto(r, "refused")
  BY <1>k, <1>8, <1>u DEF AcceptBanCheck
<1>9. CASE PromoteLock(r) /\ ~Goto(r, "refused")
  BY <1>k, <1>9, <1>u DEF PromoteLock, Lock
<1>10. CASE DemoteLock(r) /\ ~Goto(r, "refused")
  BY <1>k, <1>10, <1>u DEF DemoteLock, Lock
<1>11. CASE BanLock(r) /\ ~Goto(r, "refused")
  BY <1>k, <1>11, <1>u DEF BanLock, Lock
<1>13. CASE JoinInsert(r) /\ ~Goto(r, "refused")
  BY <1>k, <1>13, <1>u DEF JoinInsert
<1>12. CASE RollBack(r)
  BY <1>12, <1>r DEF RollBack
<1> QED BY <1>13, <1>u, <1>r, <1>1, <1>2, <1>3, <1>4, <1>5, <1>6, <1>7, <1>8, <1>9, <1>10, <1>11, <1>12

(* What is remembered is what was there: the row of a leave, the rank of a  *)
(* moderator.                                                               *)
LEMMA ReadsAreCurrent ==
    ASSUME TransactionInv, NEW r \in Requests, Current(req[r]),
           \/ LeaveMemberCheck(r)
           \/ \E op \in ModerationOps, allowed \in SUBSET {"owner", "admin"} :
                 RoleCheck(r, op, allowed)
    PROVE  Current(req[r])' /\ UNCHANGED vars /\ ~Commits(r)
<1> DEFINE u == req[r].actor
<1>0. req \in [Requests -> RequestRecords] /\ req[r] \in RequestRecords
  BY DEF TransactionInv, RequestsAreTyped
<1> USE DEF At, Current, vars, VisibleTo, IsMember, Exists, ModerationOps, RequestRecords,
            Commits
<1>1. CASE LeaveMemberCheck(r)
  <2> DEFINE step == IF IsMember(u) /\ role[u] # "owner" /\ owner # u
                        THEN "commit" ELSE "refused"
  <2>1. req'[r] = [req[r] EXCEPT !.step = step, !.row = rowId[u]]
    BY <1>0, <1>1 DEF LeaveMemberCheck
  <2>2. /\ req'[r].step = step /\ req'[r].row = rowId[u]
        /\ req'[r].op = "leave" /\ req'[r].actor = u
    BY <1>0, <1>1, <2>1 DEF LeaveMemberCheck
  <2>3. UNCHANGED <<vars, rowId>> /\ Exists
    BY <1>1 DEF LeaveMemberCheck
  <2> QED BY <2>2, <2>3
<1>2. ASSUME NEW op \in ModerationOps, NEW allowed \in SUBSET {"owner", "admin"},
             RoleCheck(r, op, allowed)
      PROVE  Current(req[r])' /\ UNCHANGED vars /\ ~Commits(r)
  <2> DEFINE step == IF role[u] \notin allowed THEN "refused"
                     ELSE IF op = "unban" THEN "commit" ELSE "lock"
  <2>1. req'[r] = [req[r] EXCEPT !.rank = role[u], !.step = step]
    BY <1>0, <1>2 DEF RoleCheck
  <2>2. /\ req'[r].step = step /\ req'[r].rank = role[u]
        /\ req'[r].op = op /\ req'[r].actor = u
    BY <1>0, <1>2, <2>1 DEF RoleCheck
  <2>3. UNCHANGED <<vars, rowId>> /\ VisibleTo(u)
    BY <1>2 DEF RoleCheck
  <2> QED BY <2>2, <2>3
<1> QED BY <1>1, <1>2

(* A commit that goes through is the request as a whole.                    *)
LEMMA CommitsAreWhole ==
    ASSUME TransactionInv, NEW r \in Requests, Current(req[r]), Writes(r)
    PROVE  /\ Current(req[r])'
           /\ IF Commits(r) THEN Served(req'[r]) ELSE UNCHANGED vars
<1> DEFINE a == req[r].actor
           t == req[r].target
<1>0. /\ req[r].step = "commit" /\ a \in Users /\ t \in Users
      /\ \/ Goto(r, "done")
         \/ Goto(r, "refused") /\ UNCHANGED <<vars, rowId>>
  BY Participants DEF Writes, JoinCommit, LeaveCommit, InviteCommit, AcceptCommit,
     PromoteCommit, DemoteCommit, BanCommit, UnbanCommit, ReadCommit, Commit, At
<1>k. ASSUME NEW step \in {"refused", "done"}, Goto(r, step)
      PROVE  /\ req'[r].step = step /\ req'[r].op = req[r].op
             /\ req'[r].actor = a /\ req'[r].target = t
             /\ Current(req[r])'
  <2>1. step \in Steps /\ RequestsAreTyped
    BY DEF Steps, Answered, TransactionInv
  <2> QED BY <1>k, <2>1, GoingOn DEF Keeps, Current
<1>r. CASE Goto(r, "refused") /\ UNCHANGED <<vars, rowId>>
  BY <1>k, <1>r DEF Commits
<1>d. SUFFICES ASSUME Goto(r, "done"), ~Goto(r, "refused")
               PROVE  Served(req'[r])
  BY <1>0, <1>k, <1>r DEF Commits
<1>f. req'[r].op = req[r].op /\ req'[r].actor = a /\ req'[r].target = t
  BY <1>d, <1>k
<1>t. role \in [Users -> Roles] /\ NothingOutlivesTheRoom
  BY DEF TransactionInv, RequestsAreTyped, TypeOK
<1>w. ASSUME req[r].op \in RowOps
      PROVE  Decided(req[r]) /\ Ranked(req[r]) /\ Exists
  BY <1>0, <1>w, WhatIsHeld
<1>m. ASSUME req[r].op \in ModerationOps
      PROVE  VisibleTo(a) /\ req[r].rank = role[a] /\ role[a] \in {"owner", "admin"}
  BY <1>0, <1>m DEF Current, TransactionInv, RanksStand, Ranked
<1> USE DEF Commit, At
<1>1. CASE JoinCommit(r)
  <2>1. JoinRoom(a)
    BY <1>0, <1>d, <1>1 DEF JoinCommit, NewMember, Current, JoinRoom
  <2> QED BY <1>1, <1>f, <2>1 DEF JoinCommit, Served
<1>2. CASE LeaveCommit(r)
  <2>1. LeaveRoom(a)
    BY <1>0, <1>d, <1>2 DEF LeaveCommit, Current, LeaveRoom
  <2> QED BY <1>2, <1>f, <2>1 DEF LeaveCommit, Served
<1>3. CASE InviteCommit(r)
  <2>1. CreateInvitation(a, t)
    BY <1>0, <1>d, <1>3 DEF InviteCommit, Current, CreateInvitation
  <2> QED BY <1>3, <1>f, <2>1 DEF InviteCommit, Served
<1>4. CASE AcceptCommit(r)
  <2>1. a \in invited /\ ~IsBanned(a)
    BY <1>4, AcceptHolds DEF AcceptCommit
  <2>2. AcceptInvitation(a)
    BY <1>0, <1>d, <1>t, <1>4, <2>1 DEF AcceptCommit, AcceptedBy, NewMember, AcceptInvitation
  <2> QED BY <1>4, <1>f, <2>2 DEF AcceptCommit, Served
<1>5. CASE PromoteCommit(r)
  <2>1. req[r].op = "promote"
    BY <1>5 DEF PromoteCommit
  <2>2. PromoteAdmin(a, t)
    BY <1>d, <1>w, <1>m, <1>5, <2>1
    DEF PromoteCommit, RowOps, ModerationOps, Decided, Ranked, PromoteAdmin
  <2> QED BY <1>f, <2>1, <2>2 DEF Served
<1>6. CASE DemoteCommit(r)
  <2>1. req[r].op = "demote"
    BY <1>6 DEF DemoteCommit
  <2>2. ~(role[a] = "admin" /\ t = a) /\ role[t] = "admin"
    BY <1>0, <1>w, <1>m, <2>1 DEF RowOps, ModerationOps, Decided, Current
  <2>3. DemoteAdmin(a, t)
    BY <1>d, <1>m, <1>6, <2>1, <2>2
    DEF DemoteCommit, ModerationOps, DemoteAdmin, Moderates
  <2> QED BY <1>f, <2>1, <2>3 DEF Served
<1>7. ASSUME NEW action \in BanActions, BanCommit(r, action)
      PROVE  Served(req'[r])
  <2>1. req[r].op = "ban"
    BY <1>7 DEF BanCommit
  <2>2. MayModerate(a, t)
    BY <1>w, <1>m, <2>1
    DEF RowOps, ModerationOps, Decided, MayModerate, Moderates, IsMember
  <2>3. CreateBan(a, t, action)
    BY <1>d, <1>m, <1>7, <2>1, <2>2 DEF BanCommit, ModerationOps, CreateBan
  <2> QED BY <1>f, <2>1, <2>3 DEF Served
<1>8. CASE UnbanCommit(r)
  <2>1. req[r].op = "unban"
    BY <1>8 DEF UnbanCommit
  <2>2. RemoveBan(a, t)
    BY <1>d, <1>m, <1>8, <2>1 DEF UnbanCommit, ModerationOps, RemoveBan, Moderates
  <2> QED BY <1>f, <2>1, <2>2 DEF Served
<1>9. CASE ReadCommit(r)
  <2>1. MarkRead(a)
    BY <1>0, <1>d, <1>9 DEF ReadCommit, Current, MarkRead, HasMessageAccess
  <2> QED BY <1>9, <1>f, <2>1 DEF ReadCommit, Served
<1> QED BY <1>1, <1>2, <1>3, <1>4, <1>5, <1>6, <1>7, <1>8, <1>9 DEF Writes

(* What is decided at once is served at once.                               *)
LEMMA AtOnceIsWhole ==
    ASSUME TransactionInv, NEW r \in Requests, DecidesAtOnce(r)
    PROVE  Current(req[r])' /\ Commits(r) /\ Served(req'[r])
<1>0. req \in [Requests -> RequestRecords]
  BY DEF TransactionInv, RequestsAreTyped
<1>1. ASSUME NEW op, NEW u, NEW t, req[r].step = "idle",
             req' = [req EXCEPT ![r] = [Idle EXCEPT !.op = op, !.actor = u,
                                                    !.target = t, !.step = "done"]]
      PROVE  /\ req'[r].op = op /\ req'[r].actor = u
             /\ Current(req[r])' /\ Commits(r)
  <2>1. /\ req'[r].op = op /\ req'[r].actor = u /\ req'[r].step = "done"
    BY <1>0, <1>1 DEF Idle
  <2> QED BY <1>1, <2>1 DEF Current, Commits
<1>2. ASSUME NEW op, NEW u, req[r].step = "idle",
             req' = [req EXCEPT ![r] = [Idle EXCEPT !.op = op, !.actor = u, !.step = "done"]]
      PROVE  /\ req'[r].op = op /\ req'[r].actor = u
             /\ Current(req[r])' /\ Commits(r)
  <2>1. /\ req'[r].op = op /\ req'[r].actor = u /\ req'[r].step = "done"
    BY <1>0, <1>2 DEF Idle
  <2> QED BY <1>2, <2>1 DEF Current, Commits
<1>3. ASSUME NEW u \in Users, Reject(r, u)
      PROVE  Current(req[r])' /\ Commits(r) /\ Served(req'[r])
  <2>1. /\ req'[r].op = "reject" /\ req'[r].actor = u
        /\ Current(req[r])' /\ Commits(r)
    BY <1>1, <1>3 DEF Reject
  <2> QED BY <1>3, <2>1 DEF Reject, Served
<1>4. ASSUME NEW u \in Users, Delete(r, u)
      PROVE  Current(req[r])' /\ Commits(r) /\ Served(req'[r])
  <2>1. /\ req'[r].op = "delete" /\ req'[r].actor = u
        /\ Current(req[r])' /\ Commits(r)
    BY <1>2, <1>4 DEF Delete, OwnerRequest
  <2> QED BY <1>4, <2>1 DEF Delete, Served
<1>5. ASSUME NEW u \in Users, NEW v \in Visibilities, Update(r, u, v)
      PROVE  Current(req[r])' /\ Commits(r) /\ Served(req'[r])
  <2>1. /\ req'[r].op = "update" /\ req'[r].actor = u
        /\ Current(req[r])' /\ Commits(r)
    BY <1>2, <1>5 DEF Update, OwnerRequest
  <2> QED BY <1>5, <2>1 DEF Update, Served
<1> QED BY <1>3, <1>4, <1>5 DEF DecidesAtOnce

(* Each statement of a request alone.                                       *)
LEMMA LoneStatements ==
    ASSUME TransactionInv, LoneInv, NEW r \in Requests, Lone(r),
           Arrive(r) \/ Proceed(r) \/ RollBack(r)
    PROVE  /\ Current(req[r])'
           /\ IF Commits(r) THEN Served(req'[r]) ELSE UNCHANGED vars
<1>1. Current(req[r])
  BY DEF LoneInv
<1>2. CASE Looks(r)
  <2>1. \A op \in {"promote", "demote", "ban", "unban"}, allowed \in {{"owner"}, {"owner", "admin"}} :
           RoleCheck(r, op, allowed) => Current(req[r])' /\ UNCHANGED vars /\ ~Commits(r)
    BY <1>1, ReadsAreCurrent DEF ModerationOps
  <2> QED BY <1>1, <1>2, <2>1, ArrivalsAreCurrent, ChecksAreCurrent, ReadsAreCurrent DEF Looks
<1>3. CASE Writes(r)
  BY <1>1, <1>3, CommitsAreWhole
<1>4. CASE DecidesAtOnce(r)
  BY <1>4, AtOnceIsWhole
<1> QED BY <1>2, <1>3, <1>4, KindsOfSteps

(* What a request alone has read stays so.                                  *)
THEOREM LoneReadsAreCurrent == TSpec => []LoneInv
<1>1. TInit => LoneInv
  BY DEF TInit, LoneInv, Idle, Current, ModerationOps
<1>2. TransactionInv /\ LoneInv /\ [TNext]_tvars => LoneInv'
  <2> SUFFICES ASSUME TransactionInv, LoneInv, [TNext]_tvars, NEW s \in Requests, Lone(s)'
               PROVE  Current(req[s])'
    BY DEF LoneInv
  <2>1. CASE UNCHANGED tvars
    BY <2>1 DEF tvars, vars, LoneInv, Lone, Current, VisibleTo, Exists, IsMember, IsBanned,
       Moderates
  <2>2. ASSUME NEW r \in Requests, Arrive(r) \/ Proceed(r) \/ RollBack(r)
        PROVE  Current(req[s])'
    BY <2>2, LoneSteps, LoneStatements
  <2> QED BY <2>1, <2>2 DEF TNext, Quiet
<1> QED BY <1>1, <1>2, TransactionInvariant, PTL DEF TSpec

(* A request of any kind with which no other overlaps is served as Rooms    *)
(* says.                                                                    *)
THEOREM LoneRequestsAreSerial == TSpec => LoneRequestsAreServed
<1>1. TransactionInv /\ LoneInv /\ [TNext]_tvars =>
        [\A r \in Requests : Lone(r)' =>
            IF Commits(r) THEN Served(req'[r]) ELSE UNCHANGED vars]_tvars
  <2> SUFFICES ASSUME TransactionInv, LoneInv, TNext, NEW s \in Requests, Lone(s)'
               PROVE  IF Commits(s) THEN Served(req'[s]) ELSE UNCHANGED vars
    OBVIOUS
  <2>1. CASE Quiet
    BY <2>1 DEF Quiet, tvars, Commits
  <2>2. ASSUME NEW r \in Requests, Arrive(r) \/ Proceed(r) \/ RollBack(r)
        PROVE  IF Commits(s) THEN Served(req'[s]) ELSE UNCHANGED vars
    BY <2>2, LoneSteps, LoneStatements
  <2> QED BY <2>1, <2>2 DEF TNext
<1> QED BY <1>1, LoneReadsAreCurrent, TransactionInvariant, PTL DEF TSpec, LoneRequestsAreServed

=============================================================================
