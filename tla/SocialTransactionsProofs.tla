----------------------- MODULE SocialTransactionsProofs -----------------------
(***************************************************************************)
(* What two users are to each other, proved for every pair.  First the     *)
(* requests of Social, one after the other; then those of                  *)
(* SocialTransactions, any number of them at once: what the locks of an    *)
(* accept and of a ban are worth, and the two questions a send asks again. *)
(***************************************************************************)
EXTENDS SocialTransactions, TLAPS

----------------------------------------------------------------------------
(* Requests one after the other. *)

(* Why the freeze never disagrees with the relation: every request that     *)
(* touches the friendship or a ban writes the dialog in the same            *)
(* transaction, from the values the transaction leaves behind.              *)
SocialInv ==
    /\ PairTypeOK
    /\ DialogFollowsTheRelation
    /\ OneRequestBetweenStrangers

(* A fresh pair satisfies it. *)
LEMMA InitEstablishesSocialInv == PairInit => SocialInv
BY DEF PairInit, SocialInv, PairTypeOK, DialogFollowsTheRelation, OneRequestBetweenStrangers,
       Pair, PeerBanStates, DialogStates, Audits

(* The other one of the pair is one of the pair. *)
LEMMA OtherIsAUser ==
    \A u \in Pair : Other(u) \in Pair /\ Other(u) # u /\ Pair = {u, Other(u)}
BY PairAssumption DEF Pair, Other

(* Every request keeps the types. *)
LEMMA TypeIsInductive == PairTypeOK /\ [PairNext]_pairVars => PairTypeOK'
<1> SUFFICES ASSUME PairTypeOK, [PairNext]_pairVars PROVE PairTypeOK'
    OBVIOUS
<1> USE DEF PairTypeOK
<1>1. ASSUME NEW u \in Pair, CreateFriendRequest(u) PROVE PairTypeOK'
    BY <1>1 DEF CreateFriendRequest
<1>2. ASSUME NEW u \in Pair, AcceptFriendRequest(u) PROVE PairTypeOK'
    BY <1>2 DEF AcceptFriendRequest, Refreshed, DialogStates, FrozenStates
<1>3. ASSUME NEW u \in Pair, RejectFriendRequest(u) PROVE PairTypeOK'
    BY <1>3 DEF RejectFriendRequest
<1>4. ASSUME NEW u \in Pair, RemoveFriend(u) PROVE PairTypeOK'
    BY <1>4 DEF RemoveFriend, Frozen, DialogStates, FrozenStates
<1>5. ASSUME NEW u \in Pair, CreatePeerBan(u) PROVE PairTypeOK'
    BY <1>5 DEF CreatePeerBan, Frozen, DialogStates, FrozenStates, PeerBanStates,
                Audits, AuditActions
<1>6. ASSUME NEW u \in Pair, RemovePeerBan(u) PROVE PairTypeOK'
    <2>1. dialog' \in DialogStates
        BY <1>6 DEF RemovePeerBan, Refreshed, DialogStates, FrozenStates
    <2> QED
        BY <1>6, <2>1 DEF RemovePeerBan, PeerBanStates, Audits, AuditActions
<1>7. ASSUME NEW u \in Pair, GetOrCreateDialog(u) PROVE PairTypeOK'
    BY <1>7 DEF GetOrCreateDialog, DialogStates
<1>8. CASE UNCHANGED pairVars
    BY <1>8 DEF pairVars
<1> QED
    BY <1>1, <1>2, <1>3, <1>4, <1>5, <1>6, <1>7, <1>8 DEF PairNext

(* Every request keeps the copy of the relation in the dialog right. *)
LEMMA FreezeIsInductive ==
    PairTypeOK /\ DialogFollowsTheRelation /\ [PairNext]_pairVars => DialogFollowsTheRelation'
<1> SUFFICES ASSUME PairTypeOK, DialogFollowsTheRelation, [PairNext]_pairVars
             PROVE  DialogFollowsTheRelation'
    OBVIOUS
<1> USE DEF DialogFollowsTheRelation
<1>1. ASSUME NEW u \in Pair, CreateFriendRequest(u) PROVE DialogFollowsTheRelation'
    BY <1>1 DEF CreateFriendRequest, Banned
<1>2. ASSUME NEW u \in Pair, AcceptFriendRequest(u) PROVE DialogFollowsTheRelation'
    BY <1>2 DEF AcceptFriendRequest, Banned, Refreshed
<1>3. ASSUME NEW u \in Pair, RejectFriendRequest(u) PROVE DialogFollowsTheRelation'
    BY <1>3 DEF RejectFriendRequest, Banned
<1>4. ASSUME NEW u \in Pair, RemoveFriend(u) PROVE DialogFollowsTheRelation'
    BY <1>4 DEF RemoveFriend, Banned, Frozen
<1>5. ASSUME NEW u \in Pair, CreatePeerBan(u) PROVE DialogFollowsTheRelation'
    <2>1. Banned'
        BY <1>5 DEF CreatePeerBan, Banned, PairTypeOK
    <2> QED
        BY <1>5, <2>1 DEF CreatePeerBan, Frozen
<1>6. ASSUME NEW u \in Pair, RemovePeerBan(u) PROVE DialogFollowsTheRelation'
    <2>1. Banned' <=> peerBan[Other(u)] = "active"
        BY <1>6, OtherIsAUser DEF RemovePeerBan, Banned, PairTypeOK
    <2> QED
        BY <1>6, <2>1 DEF RemovePeerBan, Refreshed
<1>7. ASSUME NEW u \in Pair, GetOrCreateDialog(u) PROVE DialogFollowsTheRelation'
    BY <1>7 DEF GetOrCreateDialog, Banned
<1>8. CASE UNCHANGED pairVars
    BY <1>8 DEF pairVars, Banned
<1> QED
    BY <1>1, <1>2, <1>3, <1>4, <1>5, <1>6, <1>7, <1>8 DEF PairNext

(* Every request keeps the requests few. *)
LEMMA RequestsAreInductive ==
    PairTypeOK /\ OneRequestBetweenStrangers /\ [PairNext]_pairVars => OneRequestBetweenStrangers'
<1> SUFFICES ASSUME PairTypeOK, OneRequestBetweenStrangers, [PairNext]_pairVars
             PROVE  OneRequestBetweenStrangers'
    OBVIOUS
<1> USE DEF OneRequestBetweenStrangers
<1>1. ASSUME NEW u \in Pair, CreateFriendRequest(u) PROVE OneRequestBetweenStrangers'
    BY <1>1 DEF CreateFriendRequest
<1>2. ASSUME NEW u \in Pair, AcceptFriendRequest(u) PROVE OneRequestBetweenStrangers'
    BY <1>2 DEF AcceptFriendRequest
<1>3. ASSUME NEW u \in Pair, RejectFriendRequest(u) PROVE OneRequestBetweenStrangers'
    BY <1>3 DEF RejectFriendRequest
<1>4. ASSUME NEW u \in Pair, RemoveFriend(u) PROVE OneRequestBetweenStrangers'
    BY <1>4 DEF RemoveFriend
<1>5. ASSUME NEW u \in Pair, CreatePeerBan(u) PROVE OneRequestBetweenStrangers'
    BY <1>5 DEF CreatePeerBan
<1>6. ASSUME NEW u \in Pair, RemovePeerBan(u) PROVE OneRequestBetweenStrangers'
    BY <1>6 DEF RemovePeerBan
<1>7. ASSUME NEW u \in Pair, GetOrCreateDialog(u) PROVE OneRequestBetweenStrangers'
    BY <1>7 DEF GetOrCreateDialog
<1>8. CASE UNCHANGED pairVars
    BY <1>8 DEF pairVars
<1> QED
    BY <1>1, <1>2, <1>3, <1>4, <1>5, <1>6, <1>7, <1>8 DEF PairNext

(* The serial requests never leave the invariant. *)
THEOREM SocialInvariant == PairSpec => []SocialInv
<1>1. PairInit => SocialInv
    BY InitEstablishesSocialInv
<1>2. SocialInv /\ [PairNext]_pairVars => SocialInv'
    BY TypeIsInductive, FreezeIsInductive, RequestsAreInductive DEF SocialInv
<1> QED
    BY <1>1, <1>2, PTL DEF PairSpec

(* A dialog is open exactly between friends neither of whom bans the other. *)
THEOREM FreezeIsRight == PairSpec => []DialogFollowsTheRelation
<1>1. SocialInv => DialogFollowsTheRelation
    BY DEF SocialInv
<1> QED
    BY <1>1, SocialInvariant, PTL

(* One pending request per pair at most, and none between friends. *)
THEOREM RequestsAreUnique == PairSpec => []OneRequestBetweenStrangers
<1>1. SocialInv => OneRequestBetweenStrangers
    BY DEF SocialInv
<1> QED
    BY <1>1, SocialInvariant, PTL

----------------------------------------------------------------------------
(* Requests at the same time. *)

PairRecords ==
    [op : AllOps \cup {"none"}, actor : Pair, step : Steps, friends : BOOLEAN,
     banned : BOOLEAN, fresh : BOOLEAN, dialog : BOOLEAN]

(* A ban or an unban that has its row knows what the row says.              *)
FoundAsNeeded(q, u) ==
    /\ q.op = "ban" => peerBan[u] # "active"
    /\ q.op = "unban" => peerBan[u] = "active"

(* One accept at a time has the users' rows, and its request is still there.*)
AcceptsAreAlone ==
    \A r, s \in Requests : Accepting(r) /\ Accepting(s) => r = s
AcceptsFindTheRequest ==
    \A r \in Requests : Accepting(r) => Other(req[r].actor) \in pending

(* One ban or unban at a time has the row of a user.                        *)
BansAreHeldOnce ==
    \A r, s \in Requests, u \in Pair : HoldsBan(r, u) /\ HoldsBan(s, u) => r = s
BansStand ==
    \A r \in Requests, u \in Pair : HoldsBan(r, u) => FoundAsNeeded(req[r], u)

(* Whoever sends has once seen a friendship, and then no ban.               *)
SendersWereTogether ==
    \A r \in Requests :
        req[r].op = "send" =>
           /\ req[r].step \in {"ban_check", "commit"} => r \notin apart
           /\ req[r].step = "commit" => r \notin barred

StepsAreOfTheirOps ==
    \A r \in Requests :
        /\ req[r].step = "idle" => req[r].op = "none"
        /\ req[r].step = "dialog_read" => req[r].op \in {"unfriend", "ban"}
        /\ req[r].op = "reject" => req[r].step = "done"

PairTransactionInv ==
    /\ SocialRequestTypeOK
    /\ StepsAreOfTheirOps
    /\ AcceptsAreAlone
    /\ AcceptsFindTheRequest
    /\ BansAreHeldOnce
    /\ BansStand
    /\ SendersWereTogether

(* Requests arrive at a pair in order, none of them under way.              *)
LEMMA PairTransactionsStart == SInit => PairTransactionInv
<1> SUFFICES ASSUME SInit PROVE PairTransactionInv
  OBVIOUS
<1> USE DEF SInit
<1>1. \A r \in Requests : req[r] = Idle
  OBVIOUS
<1>2. Idle \in PairRecords
  BY DEF Idle, PairRecords, Steps, Pair
<1>3. SocialRequestTypeOK
  <2>1. PairTypeOK
    BY DEF PairTypeOK, Audits
  <2> QED BY <1>2, <2>1 DEF SocialRequestTypeOK, PairRecords
<1>4. /\ AcceptsAreAlone /\ AcceptsFindTheRequest /\ BansAreHeldOnce /\ BansStand
      /\ SendersWereTogether
      /\ StepsAreOfTheirOps
  BY <1>1 DEF StepsAreOfTheirOps, AcceptsAreAlone, AcceptsFindTheRequest, BansAreHeldOnce, BansStand,
              SendersWereTogether, Accepting, InFlight, HoldsBan, Idle
<1> QED BY <1>3, <1>4 DEF PairTransactionInv

(* What every statement does, as far as the others can tell.                *)
Typed(r) ==
    /\ PairTypeOK'
    /\ req' \in [Requests -> PairRecords]
    /\ \A s \in Requests : s # r => req'[s] = req[s]
    /\ req'[r].step # "idle"
    /\ req'[r].step = "dialog_read" => req'[r].op \in {"unfriend", "ban"}
    /\ req'[r].op = "reject" => req'[r].step = "done"
    /\ req[r].step # "idle" => req'[r].op = req[r].op /\ req'[r].actor = req[r].actor

(* What it has from now on, or still has, and what it has found.            *)
Holds(r) ==
    /\ Accepting(r)' => \/ Accepting(r)
                        \/ UsersFree(r) /\ Other(req'[r].actor) \in pending
    /\ \A u \in Pair : HoldsBan(r, u)' =>
           \/ HoldsBan(r, u)
           \/ BanFree(r, u) /\ FoundAsNeeded(req'[r], u)
    /\ req'[r].op = "send" =>
          /\ req'[r].step = "ban_check" => friends'
          /\ req'[r].step = "commit" => At(r, "send", "ban_check") /\ ~Banned'

(* What it writes, and that it writes it at its end.                        *)
WritesItsOwn(r) ==
    /\ \A s \in Requests \ {r} : Accepting(s) /\ Other(req[s].actor) \in pending =>
           Other(req[s].actor) \in pending'
    /\ Accepting(r)' => pending' = pending
    /\ \A u \in Pair : peerBan'[u] # peerBan[u] => HoldsBan(r, u) /\ ~HoldsBan(r, u)'
    /\ req'[r].step = "done" =>
          \/ req[r].step = "commit"
          \/ /\ req[r].step = "idle" /\ req'[r].op = "reject"
             /\ Other(req'[r].actor) \in pending

ServesOne(r) == Typed(r) /\ Holds(r) /\ WritesItsOwn(r)

(* Such a statement keeps the invariant.                                    *)
LEMMA ServingKeepsInv ==
    ASSUME PairTransactionInv, NEW r \in Requests, ServesOne(r), Observe
    PROVE  PairTransactionInv'
<1> USE DEF PairTransactionInv, ServesOne
<1>o. \A s \in Requests : s # r => req'[s] = req[s]
  BY DEF Typed
<1>1. SocialRequestTypeOK'
  BY DEF Typed, SocialRequestTypeOK, PairRecords, Observe
<1>2. StepsAreOfTheirOps'
  BY <1>o DEF Typed, StepsAreOfTheirOps
<1>a. \A s \in Requests \ {r} : /\ Accepting(s)' <=> Accepting(s)
                                /\ \A u \in Pair : HoldsBan(s, u)' <=> HoldsBan(s, u)
  BY <1>o DEF Accepting, InFlight, HoldsBan
<1>3. AcceptsAreAlone'
  <2>1. ASSUME NEW s \in Requests \ {r}, Accepting(s), Accepting(r)'
        PROVE  FALSE
    BY <2>1 DEF Holds, UsersFree, AcceptsAreAlone
  <2> QED BY <1>a, <2>1 DEF AcceptsAreAlone
<1>4. AcceptsFindTheRequest'
  <2>1. ASSUME Accepting(r)' PROVE Other(req'[r].actor) \in pending'
    <3>1. CASE Accepting(r)
      BY <2>1, <3>1 DEF Typed, WritesItsOwn, AcceptsFindTheRequest, Accepting, InFlight
    <3>2. CASE ~Accepting(r)
      BY <2>1, <3>2 DEF Holds, WritesItsOwn
    <3> QED BY <3>1, <3>2
  <2>2. ASSUME NEW s \in Requests \ {r}, Accepting(s)'
        PROVE  Other(req'[s].actor) \in pending'
    BY <1>a, <1>o, <2>2 DEF AcceptsFindTheRequest, WritesItsOwn
  <2> QED BY <2>1, <2>2 DEF AcceptsFindTheRequest
<1>5. BansAreHeldOnce'
  <2>1. ASSUME NEW s \in Requests \ {r}, NEW u \in Pair, HoldsBan(s, u), HoldsBan(r, u)'
        PROVE  FALSE
    BY <2>1 DEF Holds, BanFree, BansAreHeldOnce
  <2> QED BY <1>a, <2>1 DEF BansAreHeldOnce
<1>6. BansStand'
  <2>1. ASSUME NEW u \in Pair, HoldsBan(r, u)' PROVE FoundAsNeeded(req[r], u)'
    <3>1. peerBan'[u] = peerBan[u]
      BY <2>1 DEF WritesItsOwn
    <3>2. FoundAsNeeded(req'[r], u)
      BY <2>1 DEF Holds, BansStand, Typed, FoundAsNeeded, HoldsBan
    <3> QED BY <3>1, <3>2 DEF FoundAsNeeded
  <2>2. ASSUME NEW s \in Requests \ {r}, NEW u \in Pair, HoldsBan(s, u)'
        PROVE  FoundAsNeeded(req[s], u)'
    <3>1. HoldsBan(s, u) /\ req'[s] = req[s]
      BY <1>a, <1>o, <2>2
    <3>2. peerBan'[u] = peerBan[u]
      BY <3>1 DEF WritesItsOwn, BansAreHeldOnce
    <3> QED BY <3>1, <3>2 DEF BansStand, FoundAsNeeded
  <2> QED BY <1>o, <2>1, <2>2 DEF BansStand
<1>7. SendersWereTogether'
  <2> SUFFICES ASSUME NEW s \in Requests, req'[s].op = "send"
               PROVE  /\ req'[s].step \in {"ban_check", "commit"} => s \notin apart'
                      /\ req'[s].step = "commit" => s \notin barred'
    BY DEF SendersWereTogether
  <2>1. CASE s # r
    BY <1>o, <2>1 DEF SendersWereTogether, Observe, InFlight, Answered
  <2>2. CASE s = r
    BY <2>2 DEF SendersWereTogether, Holds, Observe, InFlight, Answered, At
  <2> QED BY <2>1, <2>2
<1> QED BY <1>1, <1>2, <1>3, <1>4, <1>5, <1>6, <1>7

----------------------------------------------------------------------------
(* The statements, one by one.  What a request goes on with it has read.    *)
Continues(r) ==
    /\ req' \in [Requests -> PairRecords]
    /\ \A s \in Requests : s # r => req'[s] = req[s]
    /\ req'[r].op = req[r].op /\ req'[r].actor = req[r].actor

(* Going to another statement changes that only.                            *)
LEMMA GoingOnInPair ==
    ASSUME SocialRequestTypeOK, NEW r \in Requests, NEW step \in Steps, Goto(r, step)
    PROVE  Continues(r) /\ req'[r].step = step
<1>1. req \in [Requests -> PairRecords] /\ req[r] \in PairRecords
  BY DEF SocialRequestTypeOK, PairRecords
<1>2. req' = [req EXCEPT ![r] = [req[r] EXCEPT !.step = step]]
  BY DEF Goto
<1>3. [req[r] EXCEPT !.step = step] \in PairRecords
  BY <1>1 DEF PairRecords
<1>4. req'[r] = [req[r] EXCEPT !.step = step]
  BY <1>1, <1>2
<1>5. req'[r].step = step /\ req'[r].op = req[r].op /\ req'[r].actor = req[r].actor
  BY <1>1, <1>4 DEF PairRecords
<1> QED BY <1>1, <1>2, <1>3, <1>5 DEF Continues

(* So does keeping what was read.                                           *)
LEMMA ReadingInPair ==
    ASSUME SocialRequestTypeOK, NEW r \in Requests, NEW step \in Steps, NEW b \in BOOLEAN,
           \/ req' = [req EXCEPT ![r].fresh = b, ![r].step = step]
           \/ req' = [req EXCEPT ![r].friends = b, ![r].step = step]
           \/ req' = [req EXCEPT ![r].banned = b, ![r].step = step]
           \/ req' = [req EXCEPT ![r].dialog = b, ![r].step = step]
    PROVE  Continues(r) /\ req'[r].step = step
<1>1. req \in [Requests -> PairRecords] /\ req[r] \in PairRecords
  BY DEF SocialRequestTypeOK, PairRecords
<1>2. PICK q \in {[req[r] EXCEPT !.fresh = b, !.step = step],
                  [req[r] EXCEPT !.friends = b, !.step = step],
                  [req[r] EXCEPT !.banned = b, !.step = step],
                  [req[r] EXCEPT !.dialog = b, !.step = step]} :
             req' = [req EXCEPT ![r] = q]
  OBVIOUS
<1>3. /\ q \in PairRecords
      /\ q.step = step /\ q.op = req[r].op /\ q.actor = req[r].actor
  BY <1>1 DEF PairRecords
<1> QED BY <1>1, <1>2, <1>3 DEF Continues

(* A request arrives.                                                       *)
Begun(r, op, u, step) ==
    req' = [req EXCEPT ![r] = [Idle EXCEPT !.op = op, !.actor = u, !.step = step]]

(* It is what it asks to be.                                                *)
LEMMA BeginningInPair ==
    ASSUME SocialRequestTypeOK, NEW r \in Requests, NEW op \in AllOps, NEW u \in Pair,
           NEW step \in Steps, Begun(r, op, u, step)
    PROVE  /\ req' \in [Requests -> PairRecords]
           /\ \A s \in Requests : s # r => req'[s] = req[s]
           /\ req'[r].op = op /\ req'[r].actor = u /\ req'[r].step = step
<1> DEFINE q == [Idle EXCEPT !.op = op, !.actor = u, !.step = step]
<1>1. req \in [Requests -> PairRecords]
  BY DEF SocialRequestTypeOK, PairRecords
<1>2. Idle \in [op : {"none"}, actor : {Low}, step : {"idle"}, friends : {FALSE},
                banned : {FALSE}, fresh : {FALSE}, dialog : {FALSE}]
  BY DEF Idle
<1>3. /\ q \in [op : {op}, actor : {u}, step : {step}, friends : {FALSE},
                banned : {FALSE}, fresh : {FALSE}, dialog : {FALSE}]
      /\ q.op = op /\ q.actor = u /\ q.step = step
  BY <1>2
<1>4. req' = [req EXCEPT ![r] = q]
  BY DEF Begun
<1> HIDE DEF q
<1>5. q \in PairRecords
  BY <1>3 DEF PairRecords
<1> QED BY <1>1, <1>3, <1>4, <1>5

(* Most statements only look, and hold no more than before.                 *)
LooksInPair(r) ==
    /\ UNCHANGED pairVars
    /\ Typed(r)
    /\ Accepting(r)' => Accepting(r)
    /\ \A u \in Pair : HoldsBan(r, u)' => HoldsBan(r, u)
    /\ req'[r].op = "send" => req'[r].step \notin {"ban_check", "commit", "done"}
    /\ req'[r].step # "done"

(* They serve.                                                              *)
LEMMA LookingServes ==
    ASSUME PairTransactionInv, NEW r \in Requests, LooksInPair(r)
    PROVE  ServesOne(r)
BY DEF LooksInPair, ServesOne, Holds, WritesItsOwn, pairVars

(* Every arrival but those of an accept and of a reject is a look.          *)
LEMMA BeginningsLook ==
    ASSUME PairTransactionInv, NEW r \in Requests, NEW u \in Pair,
           \/ BeginRequest(r, u) \/ BeginUnfriend(r, u) \/ BeginBan(r, u)
           \/ BeginUnban(r, u) \/ BeginDialog(r, u) \/ BeginSend(r, u)
    PROVE  LooksInPair(r)
<1>1. PICK op \in {"request", "unfriend", "ban", "unban", "dialog", "send"},
           step \in {"ban_check", "delete", "lock", "friend_check"} :
             /\ Begin(r, op, u, step)
             /\ op = "send" => step = "friend_check"
  BY DEF BeginRequest, BeginUnfriend, BeginBan, BeginUnban, BeginDialog, BeginSend
<1>2. /\ req' \in [Requests -> PairRecords]
      /\ \A s \in Requests : s # r => req'[s] = req[s]
      /\ req'[r].op = op /\ req'[r].actor = u /\ req'[r].step = step
      /\ req[r].step = "idle" /\ UNCHANGED pairVars
  <2>1. op \in AllOps /\ step \in Steps /\ SocialRequestTypeOK
    BY DEF AllOps, Steps, PairTransactionInv
  <2>2. Begun(r, op, u, step) /\ req[r].step = "idle" /\ UNCHANGED pairVars
    BY <1>1 DEF Begin, Begun
  <2> QED BY <2>1, <2>2, BeginningInPair
<1> QED BY <1>1, <1>2 DEF LooksInPair, Typed, Accepting, InFlight, HoldsBan, pairVars,
                          PairTransactionInv, SocialRequestTypeOK, PairTypeOK

(* Checks that entitle to nothing look, and so does a roll back.            *)
LEMMA ChecksLook ==
    ASSUME PairTransactionInv, NEW r \in Requests,
           \/ RequestBanCheck(r) \/ RequestFriendCheck(r) \/ RequestMineCheck(r)
           \/ RequestTheirsCheck(r) \/ DialogBanCheck(r) \/ DialogFriendCheck(r)
           \/ RollBack(r)
    PROVE  LooksInPair(r)
<1>1. PICK step \in {"friend_check", "mine_check", "theirs_check", "commit", "refused"} :
             /\ Goto(r, step)
             /\ step # "refused" => req[r].op \in {"request", "dialog"}
  BY DEF RequestBanCheck, RequestFriendCheck, RequestMineCheck, RequestTheirsCheck,
         DialogBanCheck, DialogFriendCheck, RollBack, Check, At
<1>2. req[r].step \notin {"idle", "done"} /\ UNCHANGED pairVars
  BY DEF RequestBanCheck, RequestFriendCheck, RequestMineCheck, RequestTheirsCheck,
         DialogBanCheck, DialogFriendCheck, RollBack, Check, At, InFlight, Answered
<1>3. Continues(r) /\ req'[r].step = step
  BY <1>1, GoingOnInPair DEF PairTransactionInv, Steps
<1> QED BY <1>1, <1>2, <1>3 DEF LooksInPair, Typed, Continues, Accepting, InFlight,
           HoldsBan, Answered, pairVars, PairTransactionInv, SocialRequestTypeOK, PairTypeOK,
           StepsAreOfTheirOps

(* Reads that are remembered look.                                          *)
LEMMA ReadsLook ==
    ASSUME PairTransactionInv, NEW r \in Requests,
           \/ AcceptFriendship(r) \/ AcceptFriendsRead(r) \/ AcceptBansRead(r)
           \/ Unfriend(r) \/ BanUnfriend(r) \/ DialogRead(r)
           \/ UnbanFriendsRead(r) \/ UnbanBansRead(r)
    PROVE  LooksInPair(r)
<1>0. SocialRequestTypeOK /\ StepsAreOfTheirOps /\ PairTypeOK /\ friends \in BOOLEAN
      /\ req[r].fresh \in BOOLEAN
  BY DEF PairTransactionInv, SocialRequestTypeOK, PairTypeOK
<1>1. \E step \in {"friends_read", "bans_read", "commit", "dialog_read", "refused", "upsert"} :
         /\ Continues(r) /\ req'[r].step = step
         /\ req[r].op = "accept" => Accepting(r)
         /\ step = "dialog_read" => req[r].op = "unfriend"
         /\ step = "commit" => \/ req[r].op \in {"accept", "unfriend"}
                               \/ req[r].op = "ban" /\ req[r].step = "dialog_read"
                               \/ req[r].op = "unban" /\ req[r].step = "bans_read"
         /\ req[r].op = "unban" => req[r].step \in {"friends_read", "bans_read"}
  <2> USE DEF At, Accepting, InFlight, Answered
  <2>1. CASE AcceptFriendship(r)
    BY <1>0, <2>1, ReadingInPair DEF AcceptFriendship, Steps
  <2>2. CASE AcceptFriendsRead(r)
    BY <1>0, <2>2, ReadingInPair DEF AcceptFriendsRead, Steps
  <2>3. CASE AcceptBansRead(r)
    BY <1>0, <2>3, ReadingInPair DEF AcceptBansRead, Steps, Banned
  <2>4. CASE Unfriend(r)
    BY <1>0, <2>4, ReadingInPair DEF Unfriend, Steps
  <2>5. CASE BanUnfriend(r)
    BY <1>0, <2>5, ReadingInPair DEF BanUnfriend, Steps
  <2>6. CASE DialogRead(r)
    BY <1>0, <2>6, ReadingInPair DEF DialogRead, Steps, StepsAreOfTheirOps
  <2>7. CASE UnbanFriendsRead(r)
    BY <1>0, <2>7, ReadingInPair DEF UnbanFriendsRead, Steps
  <2>8. CASE UnbanBansRead(r)
    BY <1>0, <2>8, ReadingInPair DEF UnbanBansRead, Steps
  <2> QED BY <2>5, <2>6, <2>7, <2>8, <2>1, <2>2, <2>3, <2>4
<1>2. req[r].step \notin {"idle", "done"} /\ UNCHANGED pairVars
  BY DEF AcceptFriendship, AcceptFriendsRead, AcceptBansRead, Unfriend, BanUnfriend,
         DialogRead, UnbanFriendsRead, UnbanBansRead, At
<1> QED BY <1>0, <1>1, <1>2 DEF LooksInPair, Typed, Continues, Accepting, InFlight,
           HoldsBan, Answered, pairVars, PairTypeOK, StepsAreOfTheirOps

(* An accept arrives when its request is there and nobody has the users.    *)
LEMMA AcceptBegins ==
    ASSUME PairTransactionInv, NEW r \in Requests, NEW u \in Pair, BeginAccept(r, u)
    PROVE  ServesOne(r)
<1>1. /\ req' \in [Requests -> PairRecords]
      /\ \A s \in Requests : s # r => req'[s] = req[s]
      /\ req'[r].op = "accept" /\ req'[r].actor = u /\ req'[r].step = "friendship"
      /\ req[r].step = "idle" /\ UNCHANGED pairVars
  <2>1. "accept" \in AllOps /\ "friendship" \in Steps /\ SocialRequestTypeOK
    BY DEF AllOps, Steps, PairTransactionInv
  <2>2. /\ Begun(r, "accept", u, "friendship")
        /\ req[r].step = "idle" /\ UNCHANGED pairVars
    BY DEF BeginAccept, Begin, Begun
  <2> QED BY <2>1, <2>2, BeginningInPair
<1>2. Typed(r)
  BY <1>1 DEF Typed, pairVars, PairTransactionInv, SocialRequestTypeOK, PairTypeOK
<1>3. Holds(r)
  BY <1>1 DEF Holds, HoldsBan, BeginAccept
<1>4. WritesItsOwn(r)
  BY <1>1 DEF WritesItsOwn, pairVars
<1> QED BY <1>2, <1>3, <1>4 DEF ServesOne

(* A ban or an unban takes the row if nobody has it, and if it says so.     *)
LEMMA BanRowIsTaken ==
    ASSUME PairTransactionInv, NEW r \in Requests, BanUpsert(r) \/ UnbanLock(r)
    PROVE  ServesOne(r)
<1>1. PICK step \in {"dialog_read", "friends_read", "refused"} :
         /\ Goto(r, step)
         /\ step = "dialog_read" => req[r].op = "ban"
         /\ step # "refused" => /\ BanFree(r, req[r].actor)
                                /\ FoundAsNeeded(req[r], req[r].actor)
  BY DEF BanUpsert, UnbanLock, Check, At, FoundAsNeeded
<1>2. /\ req[r].op \in {"ban", "unban"} /\ req[r].step \notin {"idle", "commit"}
      /\ UNCHANGED pairVars
  BY DEF BanUpsert, UnbanLock, Check, At
<1>3. Continues(r) /\ req'[r].step = step
  BY <1>1, GoingOnInPair DEF PairTransactionInv, Steps
<1>4. Typed(r)
  BY <1>1, <1>2, <1>3 DEF Typed, Continues, pairVars, PairTransactionInv,
     SocialRequestTypeOK, PairTypeOK
<1>5. Holds(r)
  BY <1>1, <1>2, <1>3 DEF Holds, Continues, Accepting, HoldsBan, FoundAsNeeded
<1>6. WritesItsOwn(r)
  BY <1>1, <1>2, <1>3 DEF WritesItsOwn, pairVars
<1> QED BY <1>4, <1>5, <1>6 DEF ServesOne

(* A send asks for the friendship and for the bans.                         *)
LEMMA SendAsks ==
    ASSUME PairTransactionInv, NEW r \in Requests, SendFriendCheck(r) \/ SendBanCheck(r)
    PROVE  ServesOne(r)
<1>1. PICK step \in {"ban_check", "commit", "refused"} :
         /\ Goto(r, step)
         /\ step = "ban_check" => friends
         /\ step = "commit" => At(r, "send", "ban_check") /\ ~Banned
  BY DEF SendFriendCheck, SendBanCheck, Check
<1>2. /\ req[r].op = "send" /\ req[r].step # "idle"
      /\ UNCHANGED pairVars
  BY DEF SendFriendCheck, SendBanCheck, Check, At
<1>3. Continues(r) /\ req'[r].step = step
  BY <1>1, GoingOnInPair DEF PairTransactionInv, Steps
<1>4. Typed(r)
  BY <1>1, <1>2, <1>3 DEF Typed, Continues, pairVars, PairTransactionInv,
     SocialRequestTypeOK, PairTypeOK
<1>5. Holds(r)
  BY <1>1, <1>2, <1>3 DEF Holds, Continues, Accepting, HoldsBan, Banned, pairVars
<1>6. WritesItsOwn(r)
  BY <1>1, <1>2, <1>3 DEF WritesItsOwn, pairVars
<1> QED BY <1>4, <1>5, <1>6 DEF ServesOne

(* A request that ends, writing what only it may write.                     *)
LEMMA EndingServes ==
    ASSUME PairTransactionInv, NEW r \in Requests, NEW to \in {"done", "refused"},
           req[r].step = "commit", Goto(r, to), PairTypeOK',
           \A s \in Requests \ {r} : Accepting(s) /\ Other(req[s].actor) \in pending =>
               Other(req[s].actor) \in pending',
           \A u \in Pair : peerBan'[u] # peerBan[u] => HoldsBan(r, u)
    PROVE  ServesOne(r)
<1>1. Continues(r) /\ req'[r].step = to
  BY GoingOnInPair DEF PairTransactionInv, Steps
<1>2. Typed(r)
  BY <1>1 DEF Typed, Continues, PairTransactionInv, StepsAreOfTheirOps
<1>3. ~Accepting(r)' /\ \A u \in Pair : ~HoldsBan(r, u)'
  BY <1>1 DEF Accepting, InFlight, HoldsBan, Answered
<1>4. Holds(r)
  BY <1>1, <1>3 DEF Holds
<1>5. WritesItsOwn(r)
  BY <1>1, <1>3 DEF WritesItsOwn
<1> QED BY <1>2, <1>4, <1>5 DEF ServesOne

(* The commits, each of which writes what it has locked, or only adds.      *)
LEMMA CommitsServe ==
    ASSUME PairTransactionInv, NEW r \in Requests,
           \/ RequestCommit(r) \/ AcceptCommit(r) \/ UnfriendCommit(r) \/ BanCommit(r)
           \/ UnbanCommit(r) \/ DialogCommit(r) \/ SendCommit(r)
    PROVE  ServesOne(r)
<1>0. /\ PairTypeOK /\ req[r].actor \in Pair /\ Other(req[r].actor) \in Pair
      /\ req[r].fresh \in BOOLEAN /\ req[r].friends \in BOOLEAN /\ AcceptsAreAlone
  BY OtherIsAUser DEF PairTransactionInv, SocialRequestTypeOK
<1> USE DEF PairTypeOK
<1>1. CASE RequestCommit(r)
  <2>1. pending \subseteq pending' /\ UNCHANGED <<friends, peerBan, dialog, pairAudit>>
    BY <1>1 DEF RequestCommit, pairVars
  <2>2. PairTypeOK'
    BY <1>0, <1>1, <2>1 DEF RequestCommit, pairVars
  <2> QED BY <1>1, <2>1, <2>2, EndingServes DEF RequestCommit, At
<1>2. CASE AcceptCommit(r)
  <2>1. PairTypeOK'
    BY <1>0, <1>2 DEF AcceptCommit, Refreshed, DialogStates, FrozenStates
  <2>2. Accepting(r)
    BY <1>2 DEF AcceptCommit, At, Accepting, InFlight, Answered
  <2>3. \A s \in Requests \ {r} : ~Accepting(s)
    BY <1>0, <2>2 DEF AcceptsAreAlone
  <2> QED BY <1>2, <2>1, <2>3, EndingServes DEF AcceptCommit, At
<1>3. CASE UnfriendCommit(r)
  <2>1. PairTypeOK'
    BY <1>0, <1>3 DEF UnfriendCommit, Freeze, DialogStates, FrozenStates
  <2> QED BY <1>3, <2>1, EndingServes DEF UnfriendCommit, At
<1>4. CASE BanCommit(r)
  <2>1. dialog' \in DialogStates /\ pairAudit' \in Audits
    BY <1>0, <1>4 DEF BanCommit, Freeze, DialogStates, FrozenStates, Audits, AuditActions
  <2>2. peerBan' = [peerBan EXCEPT ![req[r].actor] = "active"] /\ HoldsBan(r, req[r].actor)
    BY <1>4 DEF BanCommit, HoldsBan, At
  <2>3. PairTypeOK'
    BY <1>0, <1>4, <2>1, <2>2 DEF BanCommit, PeerBanStates
  <2> QED BY <1>0, <1>4, <2>2, <2>3, EndingServes DEF BanCommit, At
<1>5. CASE UnbanCommit(r)
  <2>1. dialog' \in DialogStates /\ pairAudit' \in Audits
    BY <1>0, <1>5 DEF UnbanCommit, Refreshed, DialogStates, FrozenStates, Audits, AuditActions
  <2>2. peerBan' = [peerBan EXCEPT ![req[r].actor] = "removed"] /\ HoldsBan(r, req[r].actor)
    BY <1>5 DEF UnbanCommit, HoldsBan, At
  <2>3. PairTypeOK'
    BY <1>0, <1>5, <2>1, <2>2 DEF UnbanCommit, PeerBanStates
  <2> QED BY <1>0, <1>5, <2>2, <2>3, EndingServes DEF UnbanCommit, At
<1>6. CASE DialogCommit(r)
  <2>1. PairTypeOK'
    BY <1>0, <1>6 DEF DialogCommit, DialogStates
  <2> QED BY <1>6, <2>1, EndingServes DEF DialogCommit, At
<1>7. CASE SendCommit(r)
  <2>1. PairTypeOK'
    BY <1>0, <1>7 DEF SendCommit, pairVars
  <2> QED BY <1>7, <2>1, EndingServes DEF SendCommit, At, pairVars
<1> QED BY <1>1, <1>2, <1>3, <1>4, <1>5, <1>6, <1>7

(* A reject takes a request no accept has.                                  *)
LEMMA RejectServes ==
    ASSUME PairTransactionInv, NEW r \in Requests, NEW u \in Pair, Reject(r, u)
    PROVE  ServesOne(r)
<1>1. /\ req' \in [Requests -> PairRecords]
      /\ \A s \in Requests : s # r => req'[s] = req[s]
      /\ req'[r].op = "reject" /\ req'[r].actor = u /\ req'[r].step = "done"
      /\ req[r].step = "idle"
  <2>1. "reject" \in AllOps /\ "done" \in Steps /\ SocialRequestTypeOK
    BY DEF AllOps, Steps, Answered, PairTransactionInv
  <2>2. Begun(r, "reject", u, "done") /\ req[r].step = "idle"
    BY DEF Reject, Begun
  <2> QED BY <2>1, <2>2, BeginningInPair
<1>2. /\ Other(u) \in pending /\ pending' = pending \ {Other(u)}
      /\ UNCHANGED <<friends, peerBan, dialog, pairAudit>>
  BY DEF Reject, RejectFriendRequest
<1>3. Typed(r)
  BY <1>1, <1>2 DEF Typed, PairTransactionInv, SocialRequestTypeOK, PairTypeOK
<1>4. Holds(r)
  BY <1>1 DEF Holds, Accepting, HoldsBan
<1>5. WritesItsOwn(r)
  <2>1. \A s \in Requests : Accepting(s) => Other(req[s].actor) # Other(u)
    BY PairAssumption
    DEF Reject, Other, Pair, PairTransactionInv, SocialRequestTypeOK
  <2> QED BY <1>1, <1>2, <2>1 DEF WritesItsOwn, Accepting
<1> QED BY <1>3, <1>4, <1>5 DEF ServesOne

(* Every statement of every request serves.                                 *)
LEMMA StatementsServe ==
    ASSUME PairTransactionInv, NEW r \in Requests, Arrive(r) \/ Proceed(r) \/ RollBack(r)
    PROVE  ServesOne(r)
<1>1. CASE Arrive(r)
  BY <1>1, BeginningsLook, LookingServes, AcceptBegins, RejectServes DEF Arrive
<1>2. CASE Proceed(r)
  BY <1>2, ChecksLook, ReadsLook, LookingServes, BanRowIsTaken, SendAsks, CommitsServe
  DEF Proceed
<1>3. CASE RollBack(r)
  BY <1>3, ChecksLook, LookingServes
<1> QED BY <1>1, <1>2, <1>3

(* So every step keeps the invariant.                                       *)
LEMMA PairTransactionSteps ==
    PairTransactionInv /\ [SNext]_svars => PairTransactionInv'
<1> SUFFICES ASSUME PairTransactionInv, [SNext]_svars PROVE PairTransactionInv'
  OBVIOUS
<1>1. CASE UNCHANGED svars
  BY <1>1 DEF svars, pairVars, PairTransactionInv, SocialRequestTypeOK, PairTypeOK,
     StepsAreOfTheirOps, AcceptsAreAlone, AcceptsFindTheRequest, BansAreHeldOnce, BansStand,
     SendersWereTogether, Accepting, InFlight, HoldsBan, FoundAsNeeded
<1>2. ASSUME NEW r \in Requests, Arrive(r) \/ Proceed(r) \/ RollBack(r), Observe
      PROVE  PairTransactionInv'
  BY <1>2, StatementsServe, ServingKeepsInv
<1> QED BY <1>1, <1>2 DEF SNext, Rest

----------------------------------------------------------------------------

(* The invariant holds for any number of requests at once.                  *)
THEOREM PairTransactionInvariant == SSpec => []PairTransactionInv
BY PairTransactionsStart, PairTransactionSteps, PTL DEF SSpec

(* What a step that answers a request has behind it.                        *)
LEMMA Answers ==
    ASSUME PairTransactionInv, SNext, NEW r \in Requests, Commits(r)
    PROVE  \/ req[r].step = "commit" /\ req'[r].op = req[r].op /\ req'[r].actor = req[r].actor
           \/ /\ req[r].op = "none" /\ req'[r].op = "reject"
              /\ Other(req'[r].actor) \in pending
<1>1. PICK q \in Requests : Arrive(q) \/ Proceed(q) \/ RollBack(q)
  BY DEF SNext, Rest, svars, Commits
<1>2. ServesOne(q)
  BY <1>1, StatementsServe
<1>3. q = r
  BY <1>2 DEF ServesOne, Typed, Commits
<1> QED BY <1>2, <1>3 DEF ServesOne, Typed, WritesItsOwn, Commits, PairTransactionInv,
           StepsAreOfTheirOps

(* A friend request is accepted or rejected once: an accept has the users'  *)
(* rows from before it looked to its commit.                                *)
THEOREM OneAnswerEach == SSpec => RequestsAreAnsweredOnce
<1>1. PairTransactionInv /\ [SNext]_svars =>
        [\A r \in Requests : Commits(r) /\ req'[r].op \in {"accept", "reject"}
                               => Other(req'[r].actor) \in pending]_svars
  <2> SUFFICES ASSUME PairTransactionInv, SNext, NEW r \in Requests, Commits(r),
                      req'[r].op \in {"accept", "reject"}
               PROVE  Other(req'[r].actor) \in pending
    OBVIOUS
  <2>1. CASE req'[r].op = "accept"
    <3>1. req[r].step = "commit" /\ req[r].op = "accept" /\ req'[r].actor = req[r].actor
      BY <2>1, Answers
    <3>2. Accepting(r)
      BY <3>1 DEF Accepting, InFlight, Answered
    <3> QED BY <3>1, <3>2 DEF PairTransactionInv, AcceptsFindTheRequest
  <2>2. CASE req'[r].op = "reject"
    <3>1. req[r].op # "reject"
      BY <2>2 DEF PairTransactionInv, StepsAreOfTheirOps, Commits
    <3> QED BY <2>2, <3>1, Answers
  <2> QED BY <2>1, <2>2
<1> QED BY <1>1, PairTransactionInvariant, PTL DEF SSpec, RequestsAreAnsweredOnce

(* Bans and unbans by one user alternate, by the lock of the ban's row.     *)
THEOREM BansAlternate == SSpec => BansAndUnbansAlternate
<1>1. PairTransactionInv /\ [SNext]_svars =>
        [\A r \in Requests :
           Commits(r) =>
             /\ req[r].op = "ban" => peerBan[req[r].actor] # "active"
             /\ req[r].op = "unban" => peerBan[req[r].actor] = "active"]_svars
  <2> SUFFICES ASSUME PairTransactionInv, SNext, NEW r \in Requests, Commits(r),
                      req[r].op \in {"ban", "unban"}
               PROVE  FoundAsNeeded(req[r], req[r].actor)
    BY DEF FoundAsNeeded
  <2>1. req[r].step = "commit" /\ req[r].actor \in Pair
    BY Answers DEF PairTransactionInv, SocialRequestTypeOK
  <2>2. HoldsBan(r, req[r].actor)
    BY <2>1 DEF HoldsBan
  <2> QED BY <2>1, <2>2 DEF PairTransactionInv, BansStand
<1> QED BY <1>1, PairTransactionInvariant, PTL DEF SSpec, BansAndUnbansAlternate

(* Whoever has been separated throughout sends nothing.                     *)
THEOREM SeparatedStaySilent == SSpec => SeparatedSendersAreRefused
<1>1. PairTransactionInv /\ [SNext]_svars =>
        [\A r \in Requests :
           req[r].op = "send" /\ Commits(r) => r \notin apart /\ r \notin barred]_svars
  BY Answers DEF PairTransactionInv, SendersWereTogether
<1> QED BY <1>1, PairTransactionInvariant, PTL DEF SSpec, SeparatedSendersAreRefused

----------------------------------------------------------------------------
(* A request alone does what Social says of it.  What it has read so far is *)
(* so, for nobody else writes.                                              *)
Current(q) ==
    /\ q.op = "request" =>
          /\ q.step \in {"friend_check", "mine_check", "theirs_check", "commit"} => ~Banned
          /\ q.step \in {"mine_check", "theirs_check", "commit"} => ~friends
          /\ q.step \in {"theirs_check", "commit"} => q.actor \notin pending
          /\ q.step = "commit" => Other(q.actor) \notin pending
    /\ q.op = "accept" =>
          /\ q.step \in {"friends_read", "bans_read", "commit"} => (q.fresh <=> ~friends)
          /\ q.step \in {"bans_read", "commit"} => q.friends
          /\ q.step = "commit" => (q.banned <=> Banned)
    /\ q.op = "unfriend" /\ q.step \in {"dialog_read", "commit"} => friends
    /\ q.op = "ban" /\ q.step \in {"upsert", "dialog_read", "commit"} => (q.friends <=> friends)
    /\ q.op \in {"unfriend", "ban"} /\ q.step = "commit" => (q.dialog <=> dialog # "none")
    /\ q.op = "unban" =>
          /\ q.step \in {"bans_read", "commit"} => (q.friends <=> friends)
          /\ q.step = "commit" => (q.banned <=> peerBan[Other(q.actor)] = "active")
    /\ q.op = "dialog" =>
          /\ q.step \in {"friend_check", "commit"} => ~Banned
          /\ q.step = "commit" => friends

LoneInv == \A r \in Requests : Lone(r) => Current(req[r])

(* A request that has just arrived, or is over, has read nothing.           *)
LEMMA NothingReadYet ==
    ASSUME NEW q, q.step \in {"idle", "ban_check", "friendship", "delete", "lock",
                              "done", "refused"}
                  \/ q.op \in {"none", "reject", "send"}
    PROVE  Current(q)
BY DEF Current

(* A step forward is that of the request: those of the others end its being *)
(* alone.                                                                   *)
LEMMA LoneSteps ==
    ASSUME PairTransactionInv, NEW r \in Requests, NEW s \in Requests, Lone(s)',
           Arrive(r) \/ Proceed(r) \/ RollBack(r)
    PROVE  s = r /\ Lone(r)
<1>1. Typed(r)
  BY StatementsServe DEF ServesOne
<1> QED BY <1>1 DEF Typed, Lone

(* Going on changes the step only.                                          *)
LEMMA OnlyTheStep ==
    ASSUME SocialRequestTypeOK, NEW r \in Requests, NEW step \in Steps, Goto(r, step)
    PROVE  /\ req'[r].step = step /\ req'[r].op = req[r].op /\ req'[r].actor = req[r].actor
           /\ req'[r].friends = req[r].friends /\ req'[r].banned = req[r].banned
           /\ req'[r].fresh = req[r].fresh /\ req'[r].dialog = req[r].dialog
<1>1. req \in [Requests -> PairRecords] /\ req[r] \in PairRecords
  BY DEF SocialRequestTypeOK, PairRecords
<1>2. req'[r] = [req[r] EXCEPT !.step = step]
  BY <1>1 DEF Goto
<1> QED BY <1>1, <1>2 DEF PairRecords

(* What a check has found is so.                                            *)
LEMMA ChecksAreCurrent ==
    ASSUME PairTransactionInv, NEW r \in Requests, Current(req[r]),
           \/ RequestBanCheck(r) \/ RequestFriendCheck(r) \/ RequestMineCheck(r)
           \/ RequestTheirsCheck(r) \/ DialogBanCheck(r) \/ DialogFriendCheck(r)
           \/ BanUpsert(r) \/ UnbanLock(r) \/ SendFriendCheck(r) \/ SendBanCheck(r)
           \/ RollBack(r)
    PROVE  Current(req[r])' /\ UNCHANGED pairVars /\ ~Commits(r)
<1>0. SocialRequestTypeOK /\ "refused" \in Steps /\ "commit" \in Steps
      /\ {"friend_check", "mine_check", "theirs_check", "dialog_read", "friends_read",
          "ban_check"} \subseteq Steps
  BY DEF PairTransactionInv, Steps, Answered
<1>u. UNCHANGED pairVars
  BY DEF RequestBanCheck, RequestFriendCheck, RequestMineCheck, RequestTheirsCheck,
         DialogBanCheck, DialogFriendCheck, BanUpsert, UnbanLock, SendFriendCheck,
         SendBanCheck, RollBack, Check
<1>r. ASSUME Goto(r, "refused") PROVE Current(req[r])' /\ ~Commits(r)
  BY <1>0, <1>r, OnlyTheStep DEF Current, Commits
<1> USE DEF Check, At
<1>1. CASE RequestBanCheck(r) /\ ~Goto(r, "refused")
  BY <1>0, <1>1, <1>u, OnlyTheStep DEF RequestBanCheck, Current, Commits, pairVars, Banned
<1>2. CASE RequestFriendCheck(r) /\ ~Goto(r, "refused")
  BY <1>0, <1>2, <1>u, OnlyTheStep DEF RequestFriendCheck, Current, Commits, pairVars, Banned
<1>3. CASE RequestMineCheck(r) /\ ~Goto(r, "refused")
  BY <1>0, <1>3, <1>u, OnlyTheStep DEF RequestMineCheck, Current, Commits, pairVars, Banned
<1>4. CASE RequestTheirsCheck(r) /\ ~Goto(r, "refused")
  BY <1>0, <1>4, <1>u, OnlyTheStep DEF RequestTheirsCheck, Current, Commits, pairVars, Banned
<1>5. CASE DialogBanCheck(r) /\ ~Goto(r, "refused")
  BY <1>0, <1>5, <1>u, OnlyTheStep DEF DialogBanCheck, Current, Commits, pairVars, Banned
<1>6. CASE DialogFriendCheck(r) /\ ~Goto(r, "refused")
  BY <1>0, <1>6, <1>u, OnlyTheStep DEF DialogFriendCheck, Current, Commits, pairVars, Banned
<1>7. CASE BanUpsert(r) /\ ~Goto(r, "refused")
  BY <1>0, <1>7, <1>u, OnlyTheStep DEF BanUpsert, Current, Commits, pairVars, Banned
<1>8. CASE UnbanLock(r) /\ ~Goto(r, "refused")
  BY <1>0, <1>8, <1>u, OnlyTheStep DEF UnbanLock, Current, Commits, pairVars, Banned
<1>9. CASE SendFriendCheck(r) /\ ~Goto(r, "refused")
  BY <1>0, <1>9, <1>u, OnlyTheStep DEF SendFriendCheck, Current, Commits, pairVars, Banned
<1>10. CASE SendBanCheck(r) /\ ~Goto(r, "refused")
  BY <1>0, <1>10, <1>u, OnlyTheStep DEF SendBanCheck, Current, Commits, pairVars, Banned
<1>11. CASE RollBack(r)
  BY <1>11, <1>r DEF RollBack
<1> QED BY <1>u, <1>r, <1>1, <1>2, <1>3, <1>4, <1>5, <1>6, <1>7, <1>8, <1>9, <1>10, <1>11

(* What is remembered is what was there.                                    *)
LEMMA ReadsAreCurrent ==
    ASSUME PairTransactionInv, NEW r \in Requests, Current(req[r]),
           \/ AcceptFriendship(r) \/ AcceptFriendsRead(r) \/ AcceptBansRead(r)
           \/ Unfriend(r) \/ BanUnfriend(r) \/ DialogRead(r)
           \/ UnbanFriendsRead(r) \/ UnbanBansRead(r)
    PROVE  Current(req[r])' /\ UNCHANGED pairVars /\ ~Commits(r)
<1>0. /\ req \in [Requests -> PairRecords] /\ req[r] \in PairRecords
      /\ friends \in BOOLEAN /\ Banned \in BOOLEAN
      /\ req[r].step = "dialog_read" => req[r].op \in {"unfriend", "ban"}
  BY DEF PairTransactionInv, SocialRequestTypeOK, PairTypeOK, PairRecords, Banned,
         StepsAreOfTheirOps
<1>l. LooksInPair(r)
  BY ReadsLook
<1>u. UNCHANGED pairVars /\ ~Commits(r)
  BY <1>l DEF LooksInPair, Commits
<1> USE DEF At, Current, pairVars, PairRecords
<1>1. CASE AcceptFriendship(r)
  <2>1. req'[r] = [req[r] EXCEPT !.fresh = ~friends, !.step = "friends_read"]
    BY <1>0, <1>1 DEF AcceptFriendship
  <2> QED BY <1>0, <1>1, <1>u, <2>1 DEF AcceptFriendship, Banned
<1>2. CASE AcceptFriendsRead(r)
  <2>1. req'[r] = [req[r] EXCEPT !.friends = req[r].fresh \/ friends, !.step = "bans_read"]
    BY <1>0, <1>2 DEF AcceptFriendsRead
  <2> QED BY <1>0, <1>2, <1>u, <2>1 DEF AcceptFriendsRead, Banned
<1>3. CASE AcceptBansRead(r)
  <2>1. req'[r] = [req[r] EXCEPT !.banned = Banned, !.step = "commit"]
    BY <1>0, <1>3 DEF AcceptBansRead
  <2> QED BY <1>0, <1>3, <1>u, <2>1 DEF AcceptBansRead, Banned
<1>4. CASE Unfriend(r)
  <2>1. req'[r] = [req[r] EXCEPT !.friends = friends,
                                 !.step = IF friends THEN "dialog_read" ELSE "refused"]
    BY <1>0, <1>4 DEF Unfriend
  <2> QED BY <1>0, <1>4, <1>u, <2>1 DEF Unfriend, Banned
<1>5. CASE BanUnfriend(r)
  <2>1. req'[r] = [req[r] EXCEPT !.friends = friends, !.step = "upsert"]
    BY <1>0, <1>5 DEF BanUnfriend
  <2> QED BY <1>0, <1>5, <1>u, <2>1 DEF BanUnfriend, Banned
<1>6. CASE DialogRead(r)
  <2>1. req'[r] = [req[r] EXCEPT !.dialog = (dialog # "none"), !.step = "commit"]
    BY <1>0, <1>6 DEF DialogRead
  <2> QED BY <1>0, <1>6, <1>u, <2>1 DEF DialogRead, Banned
<1>7. CASE UnbanFriendsRead(r)
  <2>1. req'[r] = [req[r] EXCEPT !.friends = friends, !.step = "bans_read"]
    BY <1>0, <1>7 DEF UnbanFriendsRead
  <2> QED BY <1>0, <1>7, <1>u, <2>1 DEF UnbanFriendsRead, Banned
<1>8. CASE UnbanBansRead(r)
  <2>1. req'[r] = [req[r] EXCEPT !.banned = (peerBan[Other(req[r].actor)] = "active"),
                                 !.step = "commit"]
    BY <1>0, <1>8 DEF UnbanBansRead
  <2> QED BY <1>0, <1>8, <1>u, <2>1 DEF UnbanBansRead, Banned
<1> QED BY <1>u, <1>1, <1>2, <1>3, <1>4, <1>5, <1>6, <1>7, <1>8

(* An arrival has read nothing, or is a reject, which is served at once.    *)
LEMMA ArrivalsAreCurrent ==
    ASSUME PairTransactionInv, NEW r \in Requests, Arrive(r)
    PROVE  /\ Current(req[r])'
           /\ IF Commits(r) THEN Served(req'[r].op, req'[r].actor) ELSE UNCHANGED pairVars
<1>0. SocialRequestTypeOK
  BY DEF PairTransactionInv
<1>1. ASSUME NEW u \in Pair, NEW op \in AllOps,
             NEW step \in {"ban_check", "friendship", "delete", "lock", "friend_check"},
             step = "friend_check" => op = "send",
             Begin(r, op, u, step)
      PROVE  Current(req[r])' /\ ~Commits(r) /\ UNCHANGED pairVars
  <2>1. Begun(r, op, u, step) /\ step \in Steps
    BY <1>1 DEF Begin, Begun, Steps
  <2>2. req'[r].op = op /\ req'[r].step = step
    BY <1>0, <2>1, BeginningInPair
  <2> QED BY <1>1, <2>2 DEF Current, Commits, Begin
<1>2. ASSUME NEW u \in Pair, Reject(r, u)
      PROVE  /\ Current(req[r])'
             /\ Served(req'[r].op, req'[r].actor) /\ Commits(r)
  <2>1. Begun(r, "reject", u, "done") /\ "reject" \in AllOps /\ "done" \in Steps
    BY <1>2 DEF Reject, Begun, AllOps, Steps, Answered
  <2>2. req'[r].op = "reject" /\ req'[r].step = "done" /\ req'[r].actor = u
    BY <1>0, <2>1, BeginningInPair
  <2> QED BY <1>2, <2>2 DEF Current, Commits, Reject, Served
<1> QED BY <1>1, <1>2 DEF Arrive, BeginRequest, BeginAccept, BeginUnfriend, BeginBan,
           BeginUnban, BeginDialog, BeginSend, AllOps

(* A commit that goes through is the request as a whole.                    *)
LEMMA CommitsAreWhole ==
    ASSUME PairTransactionInv, NEW r \in Requests, Current(req[r]),
           \/ RequestCommit(r) \/ AcceptCommit(r) \/ UnfriendCommit(r) \/ BanCommit(r)
           \/ UnbanCommit(r) \/ DialogCommit(r) \/ SendCommit(r)
    PROVE  /\ Current(req[r])'
           /\ IF Commits(r) THEN Served(req'[r].op, req'[r].actor) ELSE UNCHANGED pairVars
<1> DEFINE u == req[r].actor
<1>0. /\ SocialRequestTypeOK /\ PairTypeOK /\ friends \in BOOLEAN /\ u \in Pair
      /\ "done" \in Steps /\ "refused" \in Steps
      /\ Pair = {u, Other(u)} /\ pending \subseteq Pair
  BY OtherIsAUser DEF PairTransactionInv, SocialRequestTypeOK, PairTypeOK, Steps, Answered
<1>s. req[r].step = "commit" /\ \E to \in {"done", "refused"} : Goto(r, to)
  BY DEF RequestCommit, AcceptCommit, UnfriendCommit, BanCommit, UnbanCommit, DialogCommit,
         SendCommit, At
<1>c. Current(req[r])' /\ req'[r].op = req[r].op /\ req'[r].actor = u
  BY <1>0, <1>s, OnlyTheStep DEF Current
<1>d. Goto(r, "done") => Commits(r)
  BY <1>0, <1>s, OnlyTheStep DEF Commits
<1>e. Goto(r, "refused") => ~Commits(r)
  BY <1>0, <1>s, OnlyTheStep DEF Commits
<1> USE DEF At
<1>1. CASE RequestCommit(r)
  <2>1. ~Banned /\ ~friends /\ pending = {} /\ req[r].op = "request"
    BY <1>0, <1>1 DEF Current, RequestCommit
  <2> QED BY <1>c, <1>d, <1>1, <2>1 DEF RequestCommit, Served, CreateFriendRequest
<1>2. CASE AcceptCommit(r)
  <2>1. req[r].friends /\ (req[r].banned <=> Banned) /\ (req[r].fresh <=> ~friends)
    BY <1>2 DEF Current, AcceptCommit
  <2>2. Other(u) \in pending
    BY <1>2 DEF AcceptCommit, PairTransactionInv, AcceptsFindTheRequest, Accepting,
       InFlight, Answered
  <2>3. dialog' = Refreshed(TRUE, Banned)
    BY <1>2, <2>1 DEF AcceptCommit, Refreshed
  <2>4. AcceptFriendRequest(u)
    BY <1>0, <1>2, <2>1, <2>2, <2>3 DEF AcceptCommit, AcceptFriendRequest
  <2> QED BY <1>c, <1>d, <1>2, <2>4 DEF AcceptCommit, Served
<1>3. CASE UnfriendCommit(r)
  <2>1. friends /\ (req[r].dialog <=> dialog # "none")
    BY <1>3 DEF Current, UnfriendCommit
  <2>2. RemoveFriend(u)
    BY <1>3, <2>1 DEF UnfriendCommit, RemoveFriend, Freeze, Frozen
  <2> QED BY <1>c, <1>d, <1>3, <2>2 DEF UnfriendCommit, Served
<1>4. CASE BanCommit(r)
  <2>1. (req[r].friends <=> friends) /\ (req[r].dialog <=> dialog # "none")
    BY <1>4 DEF Current, BanCommit
  <2>2. HoldsBan(r, u)
    BY <1>4 DEF BanCommit, HoldsBan
  <2>3. peerBan[u] # "active"
    BY <1>0, <1>4, <2>2 DEF BanCommit, PairTransactionInv, BansStand, FoundAsNeeded
  <2>4. CreatePeerBan(u)
    BY <1>0, <1>4, <2>1, <2>3 DEF BanCommit, CreatePeerBan, Freeze, Frozen
  <2> QED BY <1>c, <1>d, <1>4, <2>4 DEF BanCommit, Served
<1>5. CASE UnbanCommit(r)
  <2>1. (req[r].friends <=> friends) /\ (req[r].banned <=> peerBan[Other(u)] = "active")
    BY <1>5 DEF Current, UnbanCommit
  <2>2. HoldsBan(r, u)
    BY <1>5 DEF UnbanCommit, HoldsBan
  <2>3. peerBan[u] = "active"
    BY <1>0, <1>5, <2>2 DEF UnbanCommit, PairTransactionInv, BansStand, FoundAsNeeded
  <2>4. dialog' = Refreshed(friends, peerBan[Other(u)] = "active")
    BY <1>5, <2>1 DEF UnbanCommit, Refreshed
  <2>5. RemovePeerBan(u)
    BY <1>5, <2>3, <2>4 DEF UnbanCommit, RemovePeerBan
  <2> QED BY <1>c, <1>d, <1>5, <2>5 DEF UnbanCommit, Served
<1>6. CASE DialogCommit(r)
  <2>1. ~Banned /\ friends
    BY <1>6 DEF Current, DialogCommit
  <2> QED BY <1>c, <1>d, <1>6, <2>1 DEF DialogCommit, Served, GetOrCreateDialog, pairVars
<1>7. CASE SendCommit(r)
  BY <1>c, <1>d, <1>7 DEF SendCommit, Served
<1> QED BY <1>1, <1>2, <1>3, <1>4, <1>5, <1>6, <1>7

(* Each statement of a request alone.                                       *)
LEMMA LoneStatements ==
    ASSUME PairTransactionInv, LoneInv, NEW r \in Requests, Lone(r),
           Arrive(r) \/ Proceed(r) \/ RollBack(r)
    PROVE  /\ Current(req[r])'
           /\ IF Commits(r) THEN Served(req'[r].op, req'[r].actor) ELSE UNCHANGED pairVars
<1>1. Current(req[r])
  BY DEF LoneInv
<1> QED BY <1>1, ArrivalsAreCurrent, ChecksAreCurrent, ReadsAreCurrent, CommitsAreWhole
       DEF Proceed

(* What a request alone has read stays so.                                  *)
THEOREM LoneReadsAreCurrent == SSpec => []LoneInv
<1>1. SInit => LoneInv
  BY NothingReadYet DEF SInit, LoneInv, Idle
<1>2. PairTransactionInv /\ LoneInv /\ [SNext]_svars => LoneInv'
  <2> SUFFICES ASSUME PairTransactionInv, LoneInv, [SNext]_svars, NEW s \in Requests, Lone(s)'
               PROVE  Current(req[s])'
    BY DEF LoneInv
  <2>1. CASE UNCHANGED svars
    BY <2>1 DEF svars, pairVars, LoneInv, Lone, Current, Banned
  <2>2. ASSUME NEW r \in Requests, Arrive(r) \/ Proceed(r) \/ RollBack(r)
        PROVE  Current(req[s])'
    BY <2>2, LoneSteps, LoneStatements
  <2> QED BY <2>1, <2>2 DEF SNext, Rest
<1> QED BY <1>1, <1>2, PairTransactionInvariant, PTL DEF SSpec

(* A request with which no other overlaps is served as Social says.         *)
THEOREM LoneRequestsAreSocial == SSpec => LoneRequestsAreServed
<1>1. PairTransactionInv /\ LoneInv /\ [SNext]_svars =>
        [\A r \in Requests : Lone(r)' =>
            IF Commits(r) THEN Served(req'[r].op, req'[r].actor)
                          ELSE UNCHANGED pairVars]_svars
  <2> SUFFICES ASSUME PairTransactionInv, LoneInv, SNext, NEW s \in Requests, Lone(s)'
               PROVE  IF Commits(s) THEN Served(req'[s].op, req'[s].actor)
                                    ELSE UNCHANGED pairVars
    OBVIOUS
  <2>1. CASE Rest
    BY <2>1 DEF Rest, svars, Commits
  <2>2. ASSUME NEW r \in Requests, Arrive(r) \/ Proceed(r) \/ RollBack(r)
        PROVE  IF Commits(s) THEN Served(req'[s].op, req'[s].actor)
                             ELSE UNCHANGED pairVars
    BY <2>2, LoneSteps, LoneStatements
  <2> QED BY <2>1, <2>2 DEF SNext
<1> QED BY <1>1, LoneReadsAreCurrent, PairTransactionInvariant, PTL
       DEF SSpec, LoneRequestsAreServed

----------------------------------------------------------------------------
(* How a freeze is lost.  An accept that has found no ban keeps bans out    *)
(* until its commit; what may open a dialog has seen the friendship.        *)
FoundNoBan(q) ==
    q.op = "accept" /\ q.step = "commit" /\ ~q.banned => ~Banned

HasSeenThem(q) ==
    \/ q.op = "unban" /\ q.step \in {"bans_read", "commit"} /\ q.friends
    \/ q.op = "dialog" /\ q.step = "commit"
    \/ q.op = "accept" /\ q.step \in {"friends_read", "bans_read", "commit"} /\ ~q.fresh

FreezeInv ==
    \A r \in Requests : /\ FoundNoBan(req[r])
                        /\ HasSeenThem(req[r]) => r \notin apart

(* A ban that becomes active waited for whoever has the users.              *)
LEMMA BansWaitForAccepts ==
    ASSUME PairTransactionInv, NEW r \in Requests, Arrive(r) \/ Proceed(r) \/ RollBack(r),
           ~Banned, Banned'
    PROVE  UsersFree(r) /\ req[r].op = "ban"
<1>1. PairTypeOK /\ req[r].actor \in Pair
  BY DEF PairTransactionInv, SocialRequestTypeOK
<1>2. ~LooksInPair(r)
  BY DEF LooksInPair, pairVars, Banned
<1>3. UNCHANGED peerBan => FALSE
  BY DEF Banned
<1>4. ~Arrive(r)
  BY <1>2, <1>3, BeginningsLook DEF Arrive, BeginAccept, Begin, pairVars, Reject, RejectFriendRequest
<1>5. ~UnbanCommit(r)
  BY <1>1 DEF UnbanCommit, Banned, PairTypeOK
<1>6. BanCommit(r)
  BY <1>2, <1>3, <1>4, <1>5, ChecksLook, ReadsLook
  DEF Proceed, RequestCommit, AcceptCommit, UnfriendCommit, DialogCommit, SendCommit,
      BanUpsert, UnbanLock, SendFriendCheck, SendBanCheck, Check, pairVars
<1> QED BY <1>6 DEF BanCommit, At

(* What a request sees itself.                                              *)
LEMMA StatementsSee ==
    ASSUME PairTransactionInv, FreezeInv, NEW r \in Requests,
           Arrive(r) \/ Proceed(r) \/ RollBack(r), Observe
    PROVE  /\ FoundNoBan(req[r])'
           /\ HasSeenThem(req[r])' => r \notin apart'
<1>0. /\ SocialRequestTypeOK /\ req \in [Requests -> PairRecords] /\ req[r] \in PairRecords
      /\ friends \in BOOLEAN /\ Banned \in BOOLEAN
      /\ {"refused", "done", "commit", "friend_check", "mine_check", "theirs_check",
          "ban_check", "dialog_read", "friends_read"} \subseteq Steps
  BY DEF PairTransactionInv, SocialRequestTypeOK, PairTypeOK, PairRecords, Banned, Steps,
         Answered
<1>a. /\ friends' => r \notin apart'
      /\ InFlight(r) /\ r \notin apart => r \notin apart'
  BY DEF Observe
<1> USE DEF FoundNoBan, HasSeenThem, At
<1>1. ASSUME NEW u \in Pair, NEW op \in AllOps, NEW step \in Steps, Begun(r, op, u, step),
             step \notin {"friends_read", "bans_read", "commit"}
      PROVE  /\ FoundNoBan(req[r])'
             /\ HasSeenThem(req[r])' => r \notin apart'
  <2>1. req'[r].op = op /\ req'[r].step = step
    BY <1>0, <1>1, BeginningInPair
  <2> QED BY <1>1, <2>1
<1>2. CASE Arrive(r)
  <2>1. PICK u \in Pair, op \in AllOps,
             step \in {"ban_check", "friendship", "delete", "lock", "friend_check", "done"} :
          Begun(r, op, u, step)
    BY <1>2 DEF Arrive, BeginRequest, BeginAccept, BeginUnfriend, BeginBan, BeginUnban,
       BeginDialog, BeginSend, Reject, Begin, Begun, AllOps
  <2> QED BY <1>1, <2>1 DEF Steps, Answered
<1>3. ASSUME NEW step \in {"refused", "done", "friend_check", "mine_check", "theirs_check",
                           "ban_check", "dialog_read", "friends_read", "commit"},
             Goto(r, step),
             step = "friends_read" => req[r].op = "unban",
             step = "commit" => req[r].op \in {"request", "send"}
      PROVE  /\ FoundNoBan(req[r])'
             /\ HasSeenThem(req[r])' => r \notin apart'
  BY <1>0, <1>3, OnlyTheStep
<1>4. CASE \/ RequestBanCheck(r) \/ RequestFriendCheck(r) \/ RequestMineCheck(r)
           \/ RequestTheirsCheck(r) \/ DialogBanCheck(r)
           \/ BanUpsert(r) \/ UnbanLock(r) \/ SendFriendCheck(r) \/ SendBanCheck(r)
           \/ RollBack(r)
  <2>1. PICK step \in {"refused", "friend_check", "mine_check", "theirs_check",
                       "ban_check", "dialog_read", "friends_read", "commit"} :
          /\ Goto(r, step)
          /\ step = "friends_read" => req[r].op = "unban"
          /\ step = "commit" => req[r].op \in {"request", "send"}
    BY <1>4 DEF RequestBanCheck, RequestFriendCheck, RequestMineCheck, RequestTheirsCheck,
       DialogBanCheck, BanUpsert, UnbanLock, SendFriendCheck, SendBanCheck, RollBack, Check
  <2> QED BY <1>3, <2>1
<1>5. CASE \/ RequestCommit(r) \/ AcceptCommit(r) \/ UnfriendCommit(r) \/ BanCommit(r)
           \/ UnbanCommit(r) \/ DialogCommit(r) \/ SendCommit(r)
  <2>1. PICK step \in {"refused", "done"} : Goto(r, step)
    BY <1>5 DEF RequestCommit, AcceptCommit, UnfriendCommit, BanCommit, UnbanCommit,
       DialogCommit, SendCommit
  <2> QED BY <1>3, <2>1
<1>6. CASE DialogFriendCheck(r)
  <2>1. CASE Goto(r, "refused")
    BY <1>3, <2>1
  <2>2. CASE friends /\ Goto(r, "commit")
    <3>1. friends' /\ req'[r].op = "dialog"
      BY <1>0, <1>6, <2>2, OnlyTheStep DEF DialogFriendCheck, Check, pairVars
    <3> QED BY <1>a, <3>1
  <2> QED BY <1>6, <2>1, <2>2 DEF DialogFriendCheck, Check
<1> USE DEF PairRecords, pairVars
<1>7. CASE AcceptFriendship(r)
  <2>1. req'[r] = [req[r] EXCEPT !.fresh = ~friends, !.step = "friends_read"]
    BY <1>0, <1>7 DEF AcceptFriendship
  <2> QED BY <1>0, <1>7, <1>a, <2>1 DEF AcceptFriendship
<1>8. CASE AcceptFriendsRead(r)
  <2>1. req'[r] = [req[r] EXCEPT !.friends = req[r].fresh \/ friends, !.step = "bans_read"]
    BY <1>0, <1>8 DEF AcceptFriendsRead
  <2> QED BY <1>0, <1>8, <1>a, <2>1 DEF AcceptFriendsRead, FreezeInv, InFlight, Answered
<1>9. CASE AcceptBansRead(r)
  <2>1. req'[r] = [req[r] EXCEPT !.banned = Banned, !.step = "commit"]
    BY <1>0, <1>9 DEF AcceptBansRead
  <2> QED BY <1>0, <1>9, <1>a, <2>1 DEF AcceptBansRead, FreezeInv, InFlight, Answered, Banned
<1>10. CASE Unfriend(r)
  <2>1. req'[r] = [req[r] EXCEPT !.friends = friends,
                                 !.step = IF friends THEN "dialog_read" ELSE "refused"]
    BY <1>0, <1>10 DEF Unfriend
  <2> QED BY <1>0, <1>10, <2>1 DEF Unfriend
<1>11. CASE BanUnfriend(r)
  <2>1. req'[r] = [req[r] EXCEPT !.friends = friends, !.step = "upsert"]
    BY <1>0, <1>11 DEF BanUnfriend
  <2> QED BY <1>0, <1>11, <2>1 DEF BanUnfriend
<1>12. CASE DialogRead(r)
  <2>1. req'[r] = [req[r] EXCEPT !.dialog = (dialog # "none"), !.step = "commit"]
    BY <1>0, <1>12 DEF DialogRead
  <2>2. req[r].op \in {"unfriend", "ban"}
    BY <1>12 DEF DialogRead, PairTransactionInv, StepsAreOfTheirOps
  <2> QED BY <1>0, <1>12, <2>1, <2>2 DEF DialogRead
<1>13. CASE UnbanFriendsRead(r)
  <2>1. req'[r] = [req[r] EXCEPT !.friends = friends, !.step = "bans_read"]
    BY <1>0, <1>13 DEF UnbanFriendsRead
  <2> QED BY <1>0, <1>13, <1>a, <2>1 DEF UnbanFriendsRead
<1>14. CASE UnbanBansRead(r)
  <2>1. req'[r] = [req[r] EXCEPT !.banned = (peerBan[Other(req[r].actor)] = "active"),
                                 !.step = "commit"]
    BY <1>0, <1>14 DEF UnbanBansRead
  <2> QED BY <1>0, <1>14, <1>a, <2>1 DEF UnbanBansRead, FreezeInv, InFlight, Answered
<1> QED BY <1>2, <1>4, <1>5, <1>6, <1>7, <1>8, <1>9, <1>10, <1>11, <1>12, <1>13, <1>14
       DEF Proceed

(* What the others have seen stays seen, and a ban stays out.               *)
LEMMA StatementsKeepFreezeInv ==
    ASSUME PairTransactionInv, FreezeInv, NEW r \in Requests,
           Arrive(r) \/ Proceed(r) \/ RollBack(r), Observe
    PROVE  FreezeInv'
<1>1. \A s \in Requests : s # r => req'[s] = req[s]
  BY StatementsServe DEF ServesOne, Typed
<1>2. ASSUME NEW s \in Requests, s # r
      PROVE  /\ FoundNoBan(req[s])'
             /\ HasSeenThem(req[s])' => s \notin apart'
  <2>1. req'[s] = req[s]
    BY <1>1, <1>2
  <2>2. HasSeenThem(req[s]) => InFlight(s)
    BY DEF HasSeenThem, InFlight, Answered
  <2>3. At(s, "accept", "commit") => Accepting(s)
    BY DEF At, Accepting, InFlight, Answered
  <2>4. At(s, "accept", "commit") /\ ~req[s].banned => ~Banned'
    BY <1>2, <2>3, BansWaitForAccepts DEF FreezeInv, FoundNoBan, UsersFree, At
  <2> QED BY <2>1, <2>2, <2>4 DEF FreezeInv, FoundNoBan, HasSeenThem, Observe, At
<1>3. ASSUME NEW s \in Requests
      PROVE  FoundNoBan(req[s])' /\ (HasSeenThem(req[s])' => s \notin apart')
  BY <1>2, StatementsSee DEF FoundNoBan, HasSeenThem
<1> QED BY <1>3 DEF FreezeInv

(* FreezeInv holds for any number of requests at once.                      *)
THEOREM OpenersHaveSeenThem == SSpec => []FreezeInv
<1>1. SInit => FreezeInv
  BY DEF SInit, FreezeInv, FoundNoBan, HasSeenThem, Idle
<1>2. PairTransactionInv /\ FreezeInv /\ [SNext]_svars => FreezeInv'
  <2> SUFFICES ASSUME PairTransactionInv, FreezeInv, [SNext]_svars PROVE FreezeInv'
    OBVIOUS
  <2>1. CASE UNCHANGED svars
    BY <2>1 DEF svars, pairVars, FreezeInv, FoundNoBan, HasSeenThem, Banned
  <2>2. ASSUME NEW r \in Requests, Arrive(r) \/ Proceed(r) \/ RollBack(r), Observe
        PROVE  FreezeInv'
    BY <2>2, StatementsKeepFreezeInv
  <2> QED BY <2>1, <2>2 DEF SNext, Rest
<1> QED BY <1>1, <1>2, PairTransactionInvariant, PTL DEF SSpec

(* The step that loses a freeze is a commit, of one of those requests.      *)
LEMMA WhoLosesAFreeze ==
    ASSUME PairTransactionInv, FreezeInv, NEW r \in Requests,
           Arrive(r) \/ Proceed(r) \/ RollBack(r), ~FreezeIsLost, FreezeIsLost'
    PROVE  /\ Commits(r)
           /\ \/ req[r].op \in {"unban", "dialog"} /\ r \notin apart
              \/ req[r].op = "accept" /\ ~req[r].fresh /\ r \notin apart
              \/ req[r].op \in {"unfriend", "ban"} /\ ~req[r].dialog
<1> USE DEF FreezeIsLost
<1>0. /\ SocialRequestTypeOK /\ PairTypeOK /\ req[r] \in PairRecords /\ "done" \in Steps
      /\ PairTypeOK' /\ friends \in BOOLEAN /\ req[r].fresh \in BOOLEAN
  BY StatementsServe DEF PairTransactionInv, SocialRequestTypeOK, PairTypeOK, PairRecords,
     Steps, Answered, ServesOne, Typed
<1>1. UNCHANGED <<friends, peerBan, dialog>> => FALSE
  BY DEF Banned
<1>2. ~Arrive(r)
  BY <1>1, BeginningsLook DEF Arrive, BeginAccept, Begin, pairVars, Reject,
     RejectFriendRequest, LooksInPair
<1>3. \/ AcceptCommit(r) \/ UnfriendCommit(r) \/ BanCommit(r) \/ UnbanCommit(r)
      \/ DialogCommit(r)
  BY <1>1, <1>2, ChecksLook, ReadsLook
  DEF Proceed, RequestCommit, SendCommit, LooksInPair,
      BanUpsert, UnbanLock, SendFriendCheck, SendBanCheck, Check, pairVars
<1>4. Commits(r) /\ req[r].step = "commit"
  BY <1>0, <1>3, OnlyTheStep
  DEF AcceptCommit, UnfriendCommit, BanCommit, UnbanCommit, DialogCommit, At, Commits
<1>5. CASE AcceptCommit(r)
  <2>1. req[r].op = "accept" /\ UNCHANGED peerBan
    BY <1>5 DEF AcceptCommit, At
  <2>2. dialog' = "open" => ~req[r].banned \/ dialog = "none"
    BY <1>5 DEF AcceptCommit, Refreshed
  <2>3. dialog = "none" => dialog' = "none"
    BY <1>5 DEF AcceptCommit, Refreshed
  <2>4. ~Banned
    BY <1>4, <2>1, <2>2, <2>3 DEF FreezeInv, FoundNoBan
  <2>5. ~friends'
    BY <2>1, <2>4 DEF Banned
  <2>6. ~req[r].fresh
    BY <1>5, <2>5 DEF AcceptCommit
  <2> QED BY <1>4, <2>1, <2>6 DEF FreezeInv, HasSeenThem
<1>6. CASE UnfriendCommit(r)
  BY <1>4, <1>6 DEF UnfriendCommit, Freeze, At
<1>7. CASE BanCommit(r)
  BY <1>4, <1>7 DEF BanCommit, Freeze, At
<1>8. CASE UnbanCommit(r)
  <2>1. req[r].op = "unban"
    BY <1>8 DEF UnbanCommit, At
  <2>2. req[r].friends
    BY <1>8 DEF UnbanCommit, Refreshed
  <2> QED BY <1>4, <2>1, <2>2 DEF FreezeInv, HasSeenThem
<1>9. CASE DialogCommit(r)
  <2>1. req[r].op = "dialog"
    BY <1>9 DEF DialogCommit, At
  <2> QED BY <1>4, <2>1 DEF FreezeInv, HasSeenThem
<1> QED BY <1>3, <1>5, <1>6, <1>7, <1>8, <1>9

(* Whatever overlaps, a freeze is lost in these two ways only.              *)
THEOREM FreezesAreLostNoOtherWay == SSpec => FreezesAreLostByOverlaps
<1>1. PairTransactionInv /\ FreezeInv /\ [SNext]_svars =>
        [~FreezeIsLost /\ FreezeIsLost' =>
           \E r \in Requests :
              /\ Commits(r)
              /\ \/ req[r].op \in {"unban", "dialog"} /\ r \notin apart
                 \/ req[r].op = "accept" /\ ~req[r].fresh /\ r \notin apart
                 \/ req[r].op \in {"unfriend", "ban"} /\ ~req[r].dialog]_svars
  <2>1. ASSUME UNCHANGED svars PROVE FreezeIsLost' <=> FreezeIsLost
    BY <2>1 DEF svars, pairVars, FreezeIsLost, Banned
  <2> QED BY <2>1, WhoLosesAFreeze DEF SNext, Rest
<1> QED BY <1>1, OpenersHaveSeenThem, PairTransactionInvariant, PTL
       DEF SSpec, FreezesAreLostByOverlaps

=============================================================================
