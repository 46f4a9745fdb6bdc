-------------------------- MODULE RoomFanoutProofs --------------------------
(***************************************************************************)
(* The safety of the live side of a room for any numbers of users,         *)
(* requests and sockets: that disconnect leaves nothing behind in the      *)
(* channel layer's group; that under the live side the room is the room of *)
(* Rooms, so what RoomsProofs says of every room holds of the one that is  *)
(* published about; and how much a client can still hear after a loss.     *)
(***************************************************************************)
EXTENDS RoomFanout, RoomsProofs, TLAPS

(* What the consumers keep true.  disconnect and the refusal of an event go *)
(* by room_subscriptions, so the group may only name sockets the record     *)
(* names too; a connection cannot go while its handler is at work, so what  *)
(* is checked is open when it joins.                                        *)
ConnectionsAreUsers == user \in [Sockets -> Users \cup {NoUser}]
HandlersAreTyped    == handler \in [Sockets -> Stages]
RecordMatchesGroup  == group = subs
SubscribedAreOpen   == \A s \in group : s \in Sockets /\ Open(s)
HandlingAreOpen     == \A s \in Sockets : handler[s] # "ready" => Open(s)

ConsumerInv ==
    /\ ConnectionsAreUsers
    /\ HandlersAreTyped
    /\ RecordMatchesGroup
    /\ SubscribedAreOpen
    /\ HandlingAreOpen

USE DEF ConsumerInv, ConnectionsAreUsers, HandlersAreTyped, RecordMatchesGroup,
        SubscribedAreOpen, HandlingAreOpen

(* Nobody is connected when the layer starts.                               *)
LEMMA ConsumersStart == FInit => ConsumerInv
  BY DEF FInit, Stages

(* A request, and each of its publications, leaves every consumer's own     *)
(* bookkeeping alone and writes to no client itself.                        *)
LEMMA RequestsOnlyPublish ==
    ASSUME NEW r \in Requests, Request(r) \/ Publish(r)
    PROVE  UNCHANGED <<user, group, subs, handler>> /\ NothingSent
<1>1. CASE Publish(r)
  BY <1>1 DEF Publish
<1>2. CASE Request(r)
  <2>1. \E op, publications : Serve(r, op, publications)
    BY <1>2 DEF Request, Asked, JoinRequest, LeaveRequest, AcceptRequest, PostRequest,
                DeleteRequest, PromoteRequest, DemoteRequest, RemoveRequest,
                BanRequest, UnbanRequest
  <2> QED BY <1>2, <2>1 DEF Serve, Request
<1> QED BY <1>1, <1>2

(* Each step of a consumer keeps its bookkeeping.                           *)
LEMMA ConsumersKeepTrack ==
    ASSUME ConsumerInv, NEW s \in Sockets, Client(s) \/ Consume(s)
    PROVE  ConsumerInv'
<1> USE DEF Stages
<1>1. ASSUME NEW u \in Users, Connect(s, u)
      PROVE  ConsumerInv'
  <2>1. s \notin group /\ handler[s] = "ready"
    BY <1>1 DEF Connect
  <2>2. user' = [user EXCEPT ![s] = u] /\ UNCHANGED <<group, subs, handler>>
    BY <1>1 DEF Connect
  <2> QED BY <2>1, <2>2 DEF Open
<1>2. CASE Disconnect(s)
  <2>1. handler[s] = "ready" /\ UNCHANGED handler
    BY <1>2 DEF Disconnect, Ready
  <2>2. user' = [user EXCEPT ![s] = NoUser]
    BY <1>2 DEF Disconnect
  <2>3. group' = group \ {s} /\ subs' = subs \ {s}
    BY <1>2 DEF Disconnect
  <2> QED BY <2>1, <2>2, <2>3 DEF Open
<1>3. CASE Unsubscribe(s)
  BY <1>3 DEF Unsubscribe, Open
<1>4. ASSUME Open(s), UNCHANGED user, group' = subs', group' \subseteq group \cup {s},
             handler' = handler \/ \E stage \in Stages : Goto(s, stage)
      PROVE  ConsumerInv'
  BY <1>4 DEF Open, Goto
<1>5. CASE Subscribe(s)
  <2>1. Open(s) /\ Goto(s, "subscribe_ban") /\ UNCHANGED <<user, group, subs>>
    BY <1>5 DEF Subscribe, Ready
  <2> QED BY <1>4, <2>1
<1>6. CASE SubscribeBanCheck(s)
  <2>1. /\ Open(s) /\ UNCHANGED <<user, group, subs>>
        /\ Goto(s, "ready") \/ Goto(s, "joining")
    BY <1>6 DEF SubscribeBanCheck
  <2> QED BY <1>4, <2>1
<1>7. CASE SubscribeJoin(s)
  <2>1. Open(s) /\ UNCHANGED user /\ Goto(s, "ready") /\ group' = group \cup {s} /\ group' = subs'
    BY <1>7 DEF SubscribeJoin
  <2> QED BY <1>4, <2>1
<1>8. CASE TakeEvent(s)
  <2>1. /\ Open(s) /\ UNCHANGED user /\ group' = subs' /\ group' \subseteq group
        /\ handler' = handler \/ Goto(s, "event_ban")
    BY <1>8 DEF TakeEvent, Receive, Ready, LetGo
  <2> QED BY <1>4, <2>1
<1>9. CASE EventBanCheck(s)
  <2>1. /\ Open(s) /\ UNCHANGED user /\ group' = subs' /\ group' \subseteq group
        /\ Goto(s, "ready") \/ Goto(s, "sending")
    BY <1>9 DEF EventBanCheck, LetGo
  <2> QED BY <1>4, <2>1
<1>10. CASE Deliver(s)
  <2>1. Open(s) /\ Goto(s, "ready") /\ UNCHANGED <<user, group, subs>>
    BY <1>10 DEF Deliver
  <2> QED BY <1>4, <2>1
<1>11. CASE HandleForce(s)
  <2>1. /\ Open(s) /\ UNCHANGED <<user, handler>> /\ group' = subs' /\ group' \subseteq group
    BY <1>11 DEF HandleForce, Receive, Ready, LetGo
  <2> QED BY <1>4, <2>1
<1> QED BY <1>1, <1>2, <1>3, <1>5, <1>6, <1>7, <1>8, <1>9, <1>10, <1>11 DEF Client, Consume

(* Every step keeps the bookkeeping.                                        *)
LEMMA FanoutSteps == ConsumerInv /\ [FNext]_fvars => ConsumerInv'
<1> SUFFICES ASSUME ConsumerInv, [FNext]_fvars
             PROVE  ConsumerInv'
  OBVIOUS
<1>1. ASSUME NEW r \in Requests, Request(r) \/ Publish(r)
      PROVE  ConsumerInv'
  <2>1. UNCHANGED <<user, group, subs, handler>>
    BY <1>1, RequestsOnlyPublish
  <2> QED BY <2>1 DEF Open
<1>2. ASSUME NEW s \in Sockets, Client(s) \/ Consume(s)
      PROVE  ConsumerInv'
  BY <1>2, ConsumersKeepTrack
<1>3. CASE UNCHANGED fvars
  BY <1>3 DEF fvars, socketVars, Open
<1> QED BY <1>1, <1>2, <1>3 DEF FNext

(* The bookkeeping of the consumers is an invariant of the live side.       *)
THEOREM ConsumerInvariant == FSpec => []ConsumerInv
  BY ConsumersStart, FanoutSteps, PTL DEF FSpec

(* However connections, subscriptions, requests and deliveries interleave,  *)
(* the group of the channel layer and the consumers' own records agree, so  *)
(* a closed connection is never left in the group.                          *)
THEOREM GroupIsTheRecord == FSpec => []GroupMirrorsSubscriptions
<1>1. ConsumerInv => GroupMirrorsSubscriptions
  BY DEF GroupMirrorsSubscriptions
<1> QED BY <1>1, ConsumerInvariant, PTL

----------------------------------------------------------------------------
(* The room under the live side.                                            *)

(* A request changes the room as a request of Rooms does, or not at all.    *)
LEMMA RequestsAreRoomSteps ==
    ASSUME NEW r \in Requests, Request(r)
    PROVE  [Next]_vars
<1>1. PICK u \in Users :
         \/ JoinRequest(r, u)
         \/ LeaveRequest(r, u)
         \/ AcceptRequest(r, u)
         \/ PostRequest(r, u)
         \/ DeleteRequest(r, u)
         \/ \E t \in Users :
               \/ PromoteRequest(r, u, t)
               \/ DemoteRequest(r, u, t)
               \/ RemoveRequest(r, u, t)
               \/ BanRequest(r, u, t)
               \/ UnbanRequest(r, u, t)
  BY DEF Request, Asked
<1>2. CASE JoinRequest(r, u) \/ LeaveRequest(r, u) \/ AcceptRequest(r, u)
  <2>1. Membership(u)
    BY <1>2 DEF JoinRequest, LeaveRequest, AcceptRequest, Membership
  <2> QED BY <2>1 DEF Next
<1>3. CASE PostRequest(r, u)
  BY <1>3 DEF PostRequest
<1>4. CASE DeleteRequest(r, u)
  <2>1. Lifecycle(u)
    BY <1>4 DEF DeleteRequest, Lifecycle
  <2> QED BY <2>1 DEF Next
<1>5. ASSUME NEW t \in Users,
             \/ PromoteRequest(r, u, t)
             \/ DemoteRequest(r, u, t)
             \/ RemoveRequest(r, u, t)
             \/ BanRequest(r, u, t)
             \/ UnbanRequest(r, u, t)
      PROVE  Next
  <2>1. "member_removed" \in BanActions /\ "member_banned" \in BanActions
    BY DEF BanActions
  <2>2. Moderation(u, t)
    BY <1>5, <2>1
    DEF PromoteRequest, DemoteRequest, RemoveRequest, BanRequest, UnbanRequest, Moderation
  <2> QED BY <2>2 DEF Next
<1> QED BY <1>1, <1>2, <1>3, <1>4, <1>5

(* Publishing and consuming leave the room alone.                           *)
LEMMA LiveStepsAreRoomSteps == [FNext]_fvars => [Next]_vars
<1>1. CASE UNCHANGED fvars
  BY <1>1 DEF fvars
<1>2. ASSUME NEW r \in Requests, Publish(r)
      PROVE  UNCHANGED vars
  BY <1>2 DEF Publish
<1>3. ASSUME NEW s \in Sockets, Client(s) \/ Consume(s)
      PROVE  UNCHANGED vars
  BY <1>3
  DEF Client, Consume, Connect, Disconnect, Subscribe, SubscribeBanCheck,
      SubscribeJoin, Unsubscribe, TakeEvent, EventBanCheck, Deliver, HandleForce
<1> QED BY <1>1, <1>2, <1>3, RequestsAreRoomSteps DEF FNext

(* The room starts as one that requests can have left.                      *)
LEMMA LiveRoomStarts == FInit => RoomInv
  BY UsersAssumption
  DEF FInit, RoomInv, TypeOK, OwnerIsTheOneOwner, BannedUsersAreOut,
      ReadersAreMembers, NothingOutlivesTheRoom, Visibilities, Roles,
      RoomRoles, BanStates, Actions, BanActions, Event, Exists, IsMember, IsBanned

(* The live side implements the room: whatever is published, dropped and    *)
(* delivered, each step of it is a whole request of Rooms or leaves the     *)
(* room as it is.                                                           *)
THEOREM LiveRoomIsTheRoom == FSpec => SpecFromAnyState
  BY LiveRoomStarts, LiveStepsAreRoomSteps, PTL DEF FSpec, SpecFromAnyState

----------------------------------------------------------------------------
(* What a client hears after a loss.                                        *)

(* Whoever has the access has heard nothing too late, and neither has whom  *)
(* a handler is about to send an event to, or is asking for: he was a       *)
(* member when it asked, so not banned then, and nothing else is sent since.*)
LateInv ==
    /\ late \in [Sockets -> {0, 1}]
    /\ \A s \in Sockets :
          LiveSocket(s) \/ handler[s] \in {"event_ban", "sending"} => late[s] = 0

(* A step that sends nothing lets nobody begin to hear, whom it does not    *)
(* ask for when he has the access.                                          *)
LEMMA SilentStepsKeepTime ==
    ASSUME LateInv, NothingSent,
           \A s \in Sockets : handler'[s] \in {"event_ban", "sending"} =>
               handler[s] \in {"event_ban", "sending"} \/ LiveSocket(s)
    PROVE  LateInv'
  BY DEF LateInv, NothingSent, Sent

(* The steps of a consumer, the room being in order.                        *)
LEMMA ConsumersKeepTime ==
    ASSUME LateInv, ConsumerInv, RoomInv, NEW s \in Sockets, Client(s) \/ Consume(s)
    PROVE  LateInv'
<1>1. CASE \/ Disconnect(s) \/ Unsubscribe(s) \/ HandleForce(s)
           \/ \E u \in Users : Connect(s, u)
  <2>1. UNCHANGED handler /\ NothingSent
    BY <1>1 DEF Disconnect, Unsubscribe, HandleForce, Connect
  <2> QED BY <2>1, SilentStepsKeepTime
<1>2. CASE Subscribe(s) \/ SubscribeBanCheck(s) \/ SubscribeJoin(s)
  <2>1. /\ NothingSent
        /\ \E stage \in {"ready", "subscribe_ban", "joining"} : Goto(s, stage)
    BY <1>2 DEF Subscribe, SubscribeBanCheck, SubscribeJoin
  <2> QED BY <2>1, SilentStepsKeepTime DEF Goto
<1>3. CASE TakeEvent(s)
  <2>1. CASE UNCHANGED handler
    BY <1>3, <2>1, SilentStepsKeepTime DEF TakeEvent
  <2>2. CASE LiveMember(user[s]) /\ Goto(s, "event_ban")
    <3>1. Open(s) /\ user[s] \in Users
      BY <1>3 DEF TakeEvent, Receive, Ready, Open
    <3>2. LiveSocket(s)
      BY <2>2, <3>1
      DEF RoomInv, BannedUsersAreOut, LiveMember, LiveSocket, HasLiveAccess, HasMessageAccess
    <3> QED BY <1>3, <2>2, <3>2, SilentStepsKeepTime DEF Goto, TakeEvent
  <2> QED BY <1>3, <2>1, <2>2 DEF TakeEvent
<1>4. CASE EventBanCheck(s)
  <2>1. /\ NothingSent /\ handler[s] = "event_ban"
        /\ Goto(s, "ready") \/ Goto(s, "sending")
    BY <1>4 DEF EventBanCheck
  <2> QED BY <2>1, SilentStepsKeepTime DEF Goto
<1>5. CASE Deliver(s)
  <2>1. Goto(s, "ready") /\ Sent({s}) /\ handler[s] = "sending"
    BY <1>5 DEF Deliver
  <2> QED BY <2>1 DEF LateInv, Sent, Goto, LateBound
<1> QED BY <1>1, <1>2, <1>3, <1>4, <1>5 DEF Client, Consume

(* Every step.                                                              *)
LEMMA LateSteps ==
    LateInv /\ ConsumerInv /\ RoomInv /\ [FNext]_fvars => LateInv'
<1> SUFFICES ASSUME LateInv, ConsumerInv, RoomInv, [FNext]_fvars
             PROVE  LateInv'
  OBVIOUS
<1>1. ASSUME NEW r \in Requests, Request(r) \/ Publish(r)
      PROVE  LateInv'
  BY <1>1, RequestsOnlyPublish, SilentStepsKeepTime
<1>2. ASSUME NEW s \in Sockets, Client(s) \/ Consume(s)
      PROVE  LateInv'
  BY <1>2, ConsumersKeepTime
<1>3. CASE UNCHANGED fvars
  BY <1>3 DEF fvars, vars, socketVars, LateInv, LiveSocket, Open, HasLiveAccess,
              HasMessageAccess, IsMember, IsBanned, Exists
<1> QED BY <1>1, <1>2, <1>3 DEF FNext

(* For any numbers of users, connections and requests, and however they     *)
(* interleave, at most one event of the room reaches a client between the   *)
(* loss of the access and its return.  It needs that a ban takes the        *)
(* membership away with it: the membership query alone then tells that the  *)
(* client had the access when the event was taken up.                       *)
THEOREM AtMostOneIsLate == FSpec => []OneLateEventAtMost
<1>1. FInit => LateInv
  BY DEF FInit, LateInv
<1>2. FSpec => []RoomInv
  BY LiveRoomIsTheRoom, RoomInvariantFromAnyState, PTL
<1>3. LateInv => OneLateEventAtMost
  BY DEF LateInv, OneLateEventAtMost
<1> QED BY <1>1, <1>2, <1>3, LateSteps, ConsumerInvariant, PTL DEF FSpec

----------------------------------------------------------------------------
(* Types.                                                                   *)

(* The count stays in its bounds.                                           *)
LEMMA CountsAreBounded ==
    ASSUME FanoutTypeOK, NEW delivered, Sent(delivered)
    PROVE  late' \in [Sockets -> 0 .. LateBound]
  BY DEF FanoutTypeOK, Sent, LateBound

(* What a request hands over has the type of publications, two at most.     *)
LEMMA RequestsKeepTypes ==
    ASSUME FanoutTypeOK, TypeOK', NEW r \in Requests, Request(r)
    PROVE  FanoutTypeOK'
<1>1. PICK op, publications :
         /\ Serve(r, op, publications)
         /\ publications \in Seq(Publications) /\ Len(publications) <= 2
  <2>1. \A u \in Users, a \in Notices :
           Notice(a, u) \in Publications /\ ForceOut(u) \in Publications
    BY DEF Publications
  <2>2. Message \in Publications
    BY DEF Publications
  <2>3. Notices = {"joined", "left", "removed", "banned", "unbanned"}
    BY DEF Notices
  <2>4. \A p, q \in Publications :
           /\ <<>> \in Seq(Publications) /\ Len(<<>>) <= 2
           /\ <<p>> \in Seq(Publications) /\ Len(<<p>>) <= 2
           /\ <<p, q>> \in Seq(Publications) /\ Len(<<p, q>>) <= 2
    OBVIOUS
  <2>5. PICK u \in Users :
           \/ JoinRequest(r, u)
           \/ LeaveRequest(r, u)
           \/ AcceptRequest(r, u)
           \/ PostRequest(r, u)
           \/ DeleteRequest(r, u)
           \/ \E t \in Users :
                 \/ PromoteRequest(r, u, t)
                 \/ DemoteRequest(r, u, t)
                 \/ RemoveRequest(r, u, t)
                 \/ BanRequest(r, u, t)
                 \/ UnbanRequest(r, u, t)
    BY DEF Request, Asked
  <2> QED BY <2>5, <2>1, <2>2, <2>3, <2>4
        DEF JoinRequest, LeaveRequest, AcceptRequest, PostRequest, DeleteRequest,
            PromoteRequest, DemoteRequest, RemoveRequest, BanRequest, UnbanRequest
<1>2. UNCHANGED <<user, handler>> /\ late' \in [Sockets -> 0 .. LateBound]
  BY RequestsOnlyPublish, CountsAreBounded DEF NothingSent
<1> QED BY <1>1, <1>2 DEF FanoutTypeOK, Serve

(* A publication moves from an outbox to inboxes.                           *)
LEMMA PublishKeepsTypes ==
    ASSUME FanoutTypeOK, TypeOK', NEW r \in Requests, Publish(r)
    PROVE  FanoutTypeOK'
<1>1. late' \in [Sockets -> 0 .. LateBound]
  BY CountsAreBounded DEF Publish, NothingSent
<1>2. outbox[r] \in Seq(Publications) /\ outbox[r] # <<>> /\ Len(outbox[r]) <= 2
  BY DEF FanoutTypeOK, Publish
<1>3. /\ Head(outbox[r]) \in Publications /\ Tail(outbox[r]) \in Seq(Publications)
      /\ Len(Tail(outbox[r])) <= 2
  BY <1>2
<1>4. inbox' \in [Sockets -> Seq(Publications)]
  <2>1. PICK reached \in SUBSET Recipients(Head(outbox[r])) :
           inbox' = [s \in Sockets |-> IF s \in reached
                                          THEN Append(inbox[s], Head(outbox[r]))
                                          ELSE inbox[s]]
    BY DEF Publish
  <2>2. \A s \in Sockets : Append(inbox[s], Head(outbox[r])) \in Seq(Publications)
    BY <1>3 DEF FanoutTypeOK
  <2> QED BY <2>1, <2>2 DEF FanoutTypeOK
<1>5. /\ outbox' \in [Requests -> Seq(Publications)]
      /\ \A q \in Requests : Len(outbox'[q]) <= 2
  BY <1>3 DEF FanoutTypeOK, Publish
<1>6. dropped' \in BOOLEAN
  <2>1. PICK reached \in SUBSET Recipients(Head(outbox[r])) :
           dropped' = (dropped \/ reached # Recipients(Head(outbox[r])))
    BY DEF Publish
  <2> QED BY <2>1
<1> QED BY <1>1, <1>4, <1>5, <1>6 DEF FanoutTypeOK, Publish

(* So do the steps of a connection.                                         *)
LEMMA ConsumersKeepTypes ==
    ASSUME FanoutTypeOK, TypeOK', NEW s \in Sockets, Client(s) \/ Consume(s)
    PROVE  FanoutTypeOK'
<1> USE DEF FanoutTypeOK
<1>1. ASSUME Open(s), UNCHANGED <<vars, requestVars, user>>,
             late' \in [Sockets -> 0 .. LateBound],
             handler' = handler \/ \E stage \in Stages : Goto(s, stage),
             inbox' \in [Sockets -> Seq(Publications)],
             group' \subseteq Sockets, subs' \subseteq Sockets
      PROVE  FanoutTypeOK'
  BY <1>1 DEF requestVars, Goto, Open
<1>2. late' \in [Sockets -> 0 .. LateBound]
  <2>1. NothingSent \/ Sent({s})
    BY DEF Client, Consume, Connect, Disconnect, Subscribe, SubscribeBanCheck,
           SubscribeJoin, Unsubscribe, TakeEvent, EventBanCheck, Deliver, HandleForce
  <2> QED BY <2>1, CountsAreBounded DEF NothingSent
<1>3. ASSUME NEW u \in Users, Connect(s, u) PROVE FanoutTypeOK'
  <2>1. user' = [user EXCEPT ![s] = u] /\ UNCHANGED handler
    BY <1>3 DEF Connect
  <2>2. \A t \in Sockets : user'[t] = NoUser => handler'[t] = "ready"
    BY <1>3, <2>1 DEF Connect, Open
  <2> QED BY <1>2, <1>3, <2>1, <2>2 DEF Connect, requestVars
<1>4. CASE Disconnect(s)
  <2>1. <<>> \in Seq(Publications) /\ handler[s] = "ready" /\ UNCHANGED handler
    BY <1>4 DEF Disconnect, Ready
  <2> QED BY <1>2, <1>4, <2>1 DEF Disconnect, requestVars
<1>5. CASE Subscribe(s)
  BY <1>1, <1>2, <1>5 DEF Subscribe, Ready, Stages
<1>6. CASE SubscribeBanCheck(s)
  <2>1. Goto(s, "ready") \/ Goto(s, "joining")
    BY <1>6 DEF SubscribeBanCheck
  <2> QED BY <1>1, <1>2, <1>6, <2>1 DEF SubscribeBanCheck, Stages, Open
<1>7. CASE SubscribeJoin(s)
  BY <1>1, <1>2, <1>7 DEF SubscribeJoin, Stages, Open
<1>8. CASE Unsubscribe(s)
  BY <1>1, <1>2, <1>8 DEF Unsubscribe, Ready
<1>9. ASSUME NEW kind, Receive(s, kind)
      PROVE  Open(s) /\ inbox' \in [Sockets -> Seq(Publications)]
  <2>1. inbox[s] \in Seq(Publications) /\ inbox[s] # <<>>
    BY <1>9 DEF Receive
  <2>2. Tail(inbox[s]) \in Seq(Publications)
    BY <2>1
  <2> QED BY <1>9, <2>2 DEF Receive, Ready
<1>10. CASE TakeEvent(s)
  <2>1. handler' = handler \/ Goto(s, "event_ban")
    BY <1>10 DEF TakeEvent
  <2>2. group' \subseteq Sockets /\ subs' \subseteq Sockets
    BY <1>10 DEF TakeEvent, LetGo
  <2> QED BY <1>1, <1>2, <1>9, <1>10, <2>1, <2>2 DEF TakeEvent, Stages
<1>11. CASE EventBanCheck(s)
  <2>1. Goto(s, "ready") \/ Goto(s, "sending")
    BY <1>11 DEF EventBanCheck
  <2>2. group' \subseteq Sockets /\ subs' \subseteq Sockets
    BY <1>11 DEF EventBanCheck, LetGo
  <2> QED BY <1>1, <1>2, <1>11, <2>1, <2>2 DEF EventBanCheck, Stages, Open
<1>12. CASE Deliver(s)
  BY <1>1, <1>2, <1>12 DEF Deliver, Stages, Open
<1>13. CASE HandleForce(s)
  <2>1. group' \subseteq Sockets /\ subs' \subseteq Sockets
    BY <1>13 DEF HandleForce, LetGo
  <2> QED BY <1>1, <1>2, <1>9, <1>13, <2>1 DEF HandleForce
<1> QED BY <1>3, <1>4, <1>5, <1>6, <1>7, <1>8, <1>10, <1>11, <1>12, <1>13 DEF Client, Consume

(* Types are kept, and no view publishes more than two events.              *)
THEOREM FanoutTypes == FSpec => []FanoutTypeOK
<1>1. FInit => FanoutTypeOK
  <2> SUFFICES ASSUME FInit PROVE FanoutTypeOK
    OBVIOUS
  <2>1. TypeOK
    BY LiveRoomStarts DEF RoomInv
  <2>2. <<>> \in Seq(Publications) /\ Len(<<>>) <= 2
    OBVIOUS
  <2>3. outbox \in [Requests -> Seq(Publications)] /\ inbox \in [Sockets -> Seq(Publications)]
    BY <2>2 DEF FInit
  <2>4. late \in [Sockets -> 0 .. LateBound]
    BY DEF FInit, LateBound
  <2>5. user \in [Sockets -> Users \cup {NoUser}] /\ handler \in [Sockets -> Stages]
    BY DEF FInit, Stages
  <2> QED BY <2>3, <2>4, <2>5, <2>1, <2>2 DEF FInit, FanoutTypeOK
<1>2. RoomInv' /\ FanoutTypeOK /\ [FNext]_fvars => FanoutTypeOK'
  <2> SUFFICES ASSUME RoomInv', FanoutTypeOK, [FNext]_fvars PROVE FanoutTypeOK'
    OBVIOUS
  <2>1. TypeOK'
    BY DEF RoomInv
  <2>2. CASE UNCHANGED fvars
    BY <2>1, <2>2 DEF fvars, socketVars, requestVars, FanoutTypeOK
  <2> QED BY <2>1, <2>2, RequestsKeepTypes, PublishKeepsTypes, ConsumersKeepTypes
        DEF FNext
<1>3. FSpec => []RoomInv
  BY LiveRoomIsTheRoom, RoomInvariantFromAnyState, PTL
<1> QED BY <1>1, <1>2, <1>3, PTL DEF FSpec

=============================================================================
