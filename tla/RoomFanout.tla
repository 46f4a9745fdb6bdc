----------------------------- MODULE RoomFanout -----------------------------
(***************************************************************************)
(* The live side of a room: WebSocket consumers subscribe to the room's    *)
(* channel group, HTTP requests change the room and publish what they did, *)
(* and each consumer decides for each event whether its client gets it.    *)
(*                                                                         *)
(* A request is the commit of one action of Rooms followed by its          *)
(* publications, one group_send after the other in the worker's thread; in *)
(* between anything else may run, so publications of two requests may      *)
(* reach the channel layer in the opposite order of their commits.         *)
(*                                                                         *)
(* A consumer handles one message at a time, whether it comes from its     *)
(* client or from the channel layer.  The requests run in other threads    *)
(* and processes and do not wait for it: they may commit between any two   *)
(* queries of its access check, and between the check and what it is for,  *)
(* the awaited group_add of a subscription or send_json of an event.       *)
(* The channel layer (external: Channels with its Redis layer) keeps each  *)
(* consumer's messages in the order they were sent, and may drop those to  *)
(* a consumer whose queue is full.                                         *)
(***************************************************************************)
EXTENDS Rooms, Naturals, Sequences

CONSTANTS
    Requests,   \* the HTTP requests, each served once
    Sockets,    \* places for WebSocket connections, reused after a close
    Ops         \* the operations the requests may ask for

AllOps == {"join", "leave", "accept", "promote", "demote", "remove", "ban",
           "unban", "post", "delete"}

ASSUME OpsAssumption == Ops \subseteq AllOps

VARIABLES
    outbox,     \* what each request has committed but not yet published
    served,     \* the requests that have committed
    dropped,    \* the channel layer has dropped a message to some consumer
    user,       \* whose connection it is, NoUser while closed
    group,      \* the sockets in the channel layer's group of the room
    subs,       \* the sockets whose consumer holds the room in room_subscriptions
    handler,    \* how far each consumer is with the message it handles
    inbox,      \* the channel messages waiting for each consumer
    late        \* how many events each client got since it lost its access

socketVars == <<user, group, subs, handler, inbox, late>>
requestVars == <<outbox, served, dropped>>
fvars == <<vars, requestVars, socketVars>>

----------------------------------------------------------------------------

Notices == {"joined", "left", "removed", "banned", "unbanned"}

(* A broadcast event of the room; `about` is the user a notice names.       *)
Notice(action, u) == [kind |-> "event", action |-> action, about |-> u]
Message           == [kind |-> "event", action |-> "message", about |-> NoUser]

(* membership.force_room_unsubscribe, sent to one user's group.             *)
ForceOut(u)       == [kind |-> "force", action |-> "none", about |-> u]

Publications ==
    {Notice(a, u) : a \in Notices, u \in Users} \cup {ForceOut(u) : u \in Users} \cup {Message}

(* The statement a consumer runs next: between two messages; after the      *)
(* membership query of a subscription or of an event, the ban is looked up; *)
(* after that, group_add or send_json.                                      *)
Stages == {"ready", "subscribe_ban", "joining", "event_ban", "sending"}

(* The count stops where it is one too many.                                *)
LateBound == 2

FanoutTypeOK ==
    /\ TypeOK
    /\ outbox \in [Requests -> Seq(Publications)]
    /\ \A r \in Requests : Len(outbox[r]) <= 2
    /\ served \subseteq Requests
    /\ dropped \in BOOLEAN
    /\ user \in [Sockets -> Users \cup {NoUser}]
    /\ group \subseteq Sockets
    /\ subs \subseteq Sockets
    /\ handler \in [Sockets -> Stages]
    /\ \A s \in Sockets : user[s] = NoUser => handler[s] = "ready"
    /\ inbox \in [Sockets -> Seq(Publications)]
    /\ late \in [Sockets -> 0 .. LateBound]

(* A room as the serial requests can have left it, and nobody connected.    *)
FInit ==
    /\ visibility \in Visibilities
    /\ owner \in Users
    /\ role \in {f \in [Users -> Roles] :
                    \A u \in Users : f[u] = "owner" <=> u = owner}
    /\ ban \in {f \in [Users -> {"none", "active"}] :
                    \A u \in Users : f[u] = "active" => role[u] = "none"}
    /\ invited \in SUBSET (Users \ {owner})
    /\ readStates = {}
    /\ audit = Event("room_created", owner, NoUser)
    /\ outbox = [r \in Requests |-> <<>>]
    /\ served = {}
    /\ dropped = FALSE
    /\ user = [s \in Sockets |-> NoUser]
    /\ group = {}
    /\ subs = {}
    /\ handler = [s \in Sockets |-> "ready"]
    /\ inbox = [s \in Sockets |-> <<>>]
    /\ late = [s \in Sockets |-> 0]

----------------------------------------------------------------------------
(* Access                                                                   *)

(* _get_room_for_live_access: first the room and the membership, then the   *)
(* ban.                                                                     *)
LiveMember(u)    == Exists /\ IsMember(u)
HasLiveAccess(u) == Exists /\ HasMessageAccess(u)

Open(s)      == user[s] # NoUser
LiveSocket(s) == Open(s) /\ HasLiveAccess(user[s])

(* A step in which the client of s gets an event, or nobody does.           *)
Sent(delivered) ==
    late' = [s \in Sockets |->
                IF LiveSocket(s)' \/ ~Open(s)' THEN 0
                ELSE IF s \in delivered /\ late[s] < LateBound THEN late[s] + 1
                ELSE late[s]]

NothingSent == Sent({})

----------------------------------------------------------------------------
(* Requests                                                                 *)

Serve(r, op, publications) ==
    /\ op \in Ops
    /\ r \notin served
    /\ served' = served \cup {r}
    /\ outbox' = [outbox EXCEPT ![r] = publications]
    /\ UNCHANGED <<dropped, user, group, subs, handler, inbox>>

JoinRequest(r, u) ==
    Serve(r, "join", <<Notice("joined", u)>>) /\ JoinRoom(u)

LeaveRequest(r, u) ==
    Serve(r, "leave", <<Notice("left", u), ForceOut(u)>>) /\ LeaveRoom(u)

AcceptRequest(r, u) ==
    Serve(r, "accept", <<Notice("joined", u)>>) /\ AcceptInvitation(u)

(* The view publishes the notice and the control event of a removal.        *)
PromoteRequest(r, a, t) ==
    Serve(r, "promote", <<Notice("removed", t), ForceOut(t)>>) /\ PromoteAdmin(a, t)

DemoteRequest(r, a, t) ==
    Serve(r, "demote", <<>>) /\ DemoteAdmin(a, t)

(* remove-member bans as the ban endpoint does, and publishes nothing.      *)
RemoveRequest(r, a, t) ==
    Serve(r, "remove", <<>>) /\ CreateBan(a, t, "member_removed")

BanRequest(r, a, t) ==
    Serve(r, "ban", <<Notice("banned", t), ForceOut(t)>>) /\ CreateBan(a, t, "member_banned")

UnbanRequest(r, a, t) ==
    Serve(r, "unban", <<Notice("unbanned", t)>>) /\ RemoveBan(a, t)

(* A message posted, edited or deleted, or a read marker moved, over HTTP   *)
(* or over a socket: the access check, the commit and one room event.       *)
PostRequest(r, u) ==
    /\ VisibleTo(u)
    /\ HasMessageAccess(u)
    /\ Serve(r, "post", <<Message>>)
    /\ UNCHANGED vars

(* Deleting the room publishes nothing either.                              *)
DeleteRequest(r, u) ==
    Serve(r, "delete", <<>>) /\ DeleteRoom(u)

Asked(r) ==
    \E u \in Users :
        \/ JoinRequest(r, u)
        \/ LeaveRequest(r, u)
        \/ AcceptRequest(r, u)
        \/ PostRequest(r, u)
        \/ DeleteRequest(r, u)
        \/ \E t \in Users :
              \/ PromoteRequest(r, u, t)
              \/ DemoteRequest(r, u, t)
              \/ RemoveRequest(r, u, t)
              \/ BanRequest(r, u, t)
              \/ UnbanRequest(r, u, t)

Request(r) == Asked(r) /\ NothingSent

(* Broken variant: control events go to the room's group as events do.      *)
RecipientsInTheRoom(p) == group

(* user_group, room_group: a force goes to its user's sockets, an event to  *)
(* the sockets in the room's group at this moment (group_send).             *)
Recipients(p) ==
    IF p.kind = "force" THEN {s \in Sockets : user[s] = p.about} ELSE group

Publish(r) ==
    /\ outbox[r] # <<>>
    /\ LET p == Head(outbox[r]) IN
       \E reached \in SUBSET Recipients(p) :
          /\ inbox' = [s \in Sockets |->
                          IF s \in reached THEN Append(inbox[s], p) ELSE inbox[s]]
          /\ dropped' = (dropped \/ reached # Recipients(p))
    /\ outbox' = [outbox EXCEPT ![r] = Tail(@)]
    /\ UNCHANGED <<vars, served, user, group, subs, handler>>
    /\ NothingSent

----------------------------------------------------------------------------
(* Consumers                                                                *)

Ready(s) == Open(s) /\ handler[s] = "ready"

Connect(s, u) ==
    /\ ~Open(s)
    /\ user' = [user EXCEPT ![s] = u]
    /\ UNCHANGED <<vars, requestVars, group, subs, handler, inbox>>
    /\ NothingSent

(* disconnect leaves the groups the consumer knows of.                      *)
Disconnect(s) ==
    /\ Ready(s)
    /\ user' = [user EXCEPT ![s] = NoUser]
    /\ group' = IF s \in subs THEN group \ {s} ELSE group
    /\ subs' = subs \ {s}
    /\ inbox' = [inbox EXCEPT ![s] = <<>>]
    /\ UNCHANGED <<vars, requestVars, handler>>
    /\ NothingSent

Goto(s, stage) == handler' = [handler EXCEPT ![s] = stage]

(* room.subscribe: the access check, query by query, then group_add; who is *)
(* refused gets an error and stays where he is.                             *)
Subscribe(s) ==
    /\ Ready(s)
    /\ LiveMember(user[s])
    /\ Goto(s, "subscribe_ban")
    /\ UNCHANGED <<vars, requestVars, user, group, subs, inbox>>
    /\ NothingSent

SubscribeBanCheck(s) ==
    /\ handler[s] = "subscribe_ban"
    /\ Goto(s, IF IsBanned(user[s]) THEN "ready" ELSE "joining")
    /\ UNCHANGED <<vars, requestVars, user, group, subs, inbox>>
    /\ NothingSent

SubscribeJoin(s) ==
    /\ handler[s] = "joining"
    /\ group' = group \cup {s}
    /\ subs' = subs \cup {s}
    /\ Goto(s, "ready")
    /\ UNCHANGED <<vars, requestVars, user, inbox>>
    /\ NothingSent

Unsubscribe(s) ==
    /\ Ready(s)
    /\ group' = group \ {s}
    /\ subs' = subs \ {s}
    /\ UNCHANGED <<vars, requestVars, user, handler, inbox>>
    /\ NothingSent

Receive(s, kind) ==
    /\ Ready(s)
    /\ inbox[s] # <<>>
    /\ Head(inbox[s]).kind = kind
    /\ inbox' = [inbox EXCEPT ![s] = Tail(@)]

(* Broken variant: only half of the bookkeeping is cleaned.                 *)
LetGoForgetting(s) ==
    /\ subs' = subs \ {s}
    /\ UNCHANGED group

(* Who is out leaves the group, if the consumer knows of it.                *)
LetGo(s) ==
    /\ group' = IF s \in subs THEN group \ {s} ELSE group
    /\ subs' = subs \ {s}

(* Broken variant: who is subscribed is taken for a member.                 *)
TakeEventOfSubscribed(s) ==
    /\ Receive(s, "event")
    /\ Goto(s, "sending")
    /\ UNCHANGED <<vars, requestVars, user, group, subs>>
    /\ NothingSent

(* broadcast_event asks the database again for every room event, and lets   *)
(* go of the room when the answer is no.                                    *)
TakeEvent(s) ==
    /\ Receive(s, "event")
    /\ IF LiveMember(user[s])
          THEN Goto(s, "event_ban") /\ UNCHANGED <<group, subs>>
          ELSE LetGo(s) /\ UNCHANGED handler
    /\ UNCHANGED <<vars, requestVars, user>>
    /\ NothingSent

EventBanCheck(s) ==
    /\ handler[s] = "event_ban"
    /\ IF IsBanned(user[s])
          THEN Goto(s, "ready") /\ LetGo(s)
          ELSE Goto(s, "sending") /\ UNCHANGED <<group, subs>>
    /\ UNCHANGED <<vars, requestVars, user, inbox>>
    /\ NothingSent

Deliver(s) ==
    /\ handler[s] = "sending"
    /\ Goto(s, "ready")
    /\ UNCHANGED <<vars, requestVars, user, group, subs, inbox>>
    /\ Sent({s})

HandleForce(s) ==
    /\ Receive(s, "force")
    /\ LetGo(s)
    /\ UNCHANGED <<vars, requestVars, user, handler>>
    /\ NothingSent

Consume(s) ==
    \/ SubscribeBanCheck(s)
    \/ SubscribeJoin(s)
    \/ TakeEvent(s)
    \/ EventBanCheck(s)
    \/ Deliver(s)
    \/ HandleForce(s)

Client(s) ==
    \/ \E u \in Users : Connect(s, u)
    \/ Disconnect(s)
    \/ Subscribe(s)
    \/ Unsubscribe(s)

FNext ==
    \/ \E r \in Requests : Request(r) \/ Publish(r)
    \/ \E s \in Sockets : Client(s) \/ Consume(s)

(* Workers finish what they publish and consumers what they are handed;     *)
(* clients and requests come as they please.                                *)
FSpec ==
    /\ FInit /\ [][FNext]_fvars
    /\ \A r \in Requests : WF_fvars(Publish(r))
    /\ \A s \in Sockets : WF_fvars(Consume(s))

----------------------------------------------------------------------------

(* Whoever loses the access to the room gets at most one more event of it   *)
(* before it comes back: the one whose check was under way or had passed.   *)
(* That is so however many events wait, in whatever order they were         *)
(* published, and whether or not the loss was announced; for the next one   *)
(* is refused.                                                              *)
OneLateEventAtMost == \A s \in Sockets : late[s] <= 1

(* The channel layer's group and the consumer's own record agree, so that   *)
(* disconnect, which goes by the record, leaves nothing in the group.       *)
GroupMirrorsSubscriptions ==
    /\ group = subs
    /\ \A s \in group : Open(s)

(* Whoever is told to go goes: the control event of a leave or a ban ends   *)
(* the subscription even when the loss falls between the check and the      *)
(* group_add of a subscription under way, for it waits behind the handler;  *)
(* unless the access comes back first, or the layer drops the event.        *)
Subscribing(s) == s \in group \/ handler[s] \in {"subscribe_ban", "joining"}

AnnouncedLossesUnsubscribe ==
    \A r \in Requests, s \in Sockets :
        (/\ \E i \in DOMAIN outbox[r] : outbox[r][i] = ForceOut(user[s])
         /\ Subscribing(s)
         /\ ~HasLiveAccess(user[s]))
            ~> (~Subscribing(s) \/ HasLiveAccess(user[s]) \/ dropped)

(* A request announces a loss of membership to those who lost it and to     *)
(* nobody else.                                                             *)
AnnouncementsMatchLosses ==
    [][\A r \in Requests, u \in Users :
         r \in served' \ served =>
           ((\E i \in DOMAIN outbox'[r] : outbox'[r][i] = ForceOut(u))
              <=> IsMember(u) /\ ~IsMember(u)')]_fvars

============================================================================
