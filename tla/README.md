# Meeting Minds in TLA+

Specifications of the chat backend of this repository (`src/backend`: Django,
Django REST Framework, Channels, PostgreSQL, Redis, an S3 or filesystem blob
store) and of the message list of its web client, model-checked with TLC, and
theorems about them checked with TLAPS.

Three questions run through the whole project. What do the service functions
promise when they run one after the other? How much of that is left when
several worker processes run them at once under READ COMMITTED, with checks
that hold no lock, signals that act before the commit and events that are
published after it? And what do the parts that no transaction covers (Redis,
the blob storages, the browser) still say of the truth in the database?

## 1. The system

| part | state it keeps | operations | talks to |
|---|---|---|---|
| rooms (`chat/services.py`, `views.py`, `models.py`) | Room, RoomMembership, RoomBan, RoomInvitation, RoomReadState | create, update, delete, join, leave, invite, accept, reject, promote, demote, remove, ban, unban, mark read | audit, attachments (deletion), fan-out (after the commit) |
| messages (`chat/services.py`) | RoomMessage, DialogMessage, read states | post, edit, delete, list pages, mark read, unread counts | attachments, fan-out |
| social graph and dialogs (`social/services.py`, `get_or_create_dialog`) | FriendRequest, Friendship, PeerBan, Dialog with a copied freeze | request, accept, reject, unfriend, ban, unban, open a dialog, send | audit, fan-out |
| attachments (`attachments/`) | Attachment rows and their bindings | upload, bind (by a post), download, delete alone, with a message, a room or an account | storage, `post_delete` signal |
| blob storages (`attachments/storage.py`, the backfill command) | objects in S3, files in a directory | store, open with a range, fall back, delete in both, copy at a start that is told to or by hand | attachments, startup |
| live events (`chat/consumers.py`, `chat/realtime/fanout.py`) | each consumer's `room_subscriptions`, the channel layer's groups | connect, subscribe, unsubscribe, deliver, force out, disconnect | database for each event, channel layer |
| accounts and sessions (`accounts/`) | User, Django sessions, UserSession records, reset tokens | log in and out, change and reset the password, list, revoke, delete the account | middleware that re-records the session after each response |
| presence (`presence/`, `chat/realtime/connection_registry.py`) | Redis keys with TTLs, `User.presence_state`, a snapshot | connect, heartbeat, close, query, recompute | Redis, fan-out |
| audit (`audit/models.py`) | ModerationEvent | appended inside the other transactions | |
| frontend (`src/frontend/src/App.tsx`, `lib/`) | the messages of the open chat, an offset | load, page, react to events and answers, heartbeats | REST and WebSocket |

The parts interact in four ways: foreign keys inside one transaction, calls of
one service by another, events published after a commit through the channel
layer, and stores that no transaction covers (Redis, S3, the directory, the
browser's memory).

What makes the code hard to test:

* Most checks (`join_room`, `create_friend_request`, `get_or_create_dialog`,
  the actor's role in moderation, `is_frozen`, `binding_type`) read without a
  lock and are followed by a write.
* Some locks are wider than they look: `select_for_update()` with
  `select_related()` locks every joined row, so accepting an invitation locks
  the room, and accepting a friend request locks both users. Inserts that
  refer to those rows then wait, at their commit, where Django's deferred
  foreign keys are checked.
* The freeze of a dialog, `binding_type`, `presence_state` and the snapshot
  copy what other tables or Redis say.
* Publishing is written by hand in each view, after the commit.
* Blobs are removed by a signal before the transaction that removes their row
  has committed.
* Sessions live in two tables, written in statements that commit one by one,
  and once more by a middleware after each response.
* Pages are offsets into a list that grows and shrinks at both ends, and the
  browser applies news, answers and pages in the order they happen to arrive.

Every component, modelled or not, is listed in `PROJECT.json` with the reason,
and every hazard with its line.

## 2. The modules

| module | models | built on |
|---|---|---|
| `Rooms` | one room, one whole request per action | |
| `RoomTransactions` | the same requests, statement by statement, several at once | extends `Rooms`, compared with it step by step |
| `RoomFanout` | requests that commit and then publish; consumers that subscribe and filter | extends `Rooms` (a request is one of its actions) |
| `Social` | one pair of users and their dialog, one whole request per action | |
| `SocialTransactions` | the same requests statement by statement, and sending | extends `Social` |
| `Sessions` | one account: sessions, records, password, reset tokens, middleware | |
| `Attachments` | one file: row, bindings, blob; every way to delete it | |
| `BlobPromise` | what the storage of a file promises, as one place with atomic operations | |
| `BlobStorage` | two storages, fallback, backfill, restarts | implements `BlobPromise` |
| `Download` | the Range header, the handle, the chunks of a response | |
| `Presence` | one user's tabs, the Redis registry, the row, the snapshot | |
| `MessageFeed` | one chat, its socket and one browser | |
| `RoomsProofs`, `SessionsProofs`, `PresenceProofs`, `MessageFeedProofs` | TLAPS proofs | the module they are named after |
| `RoomFanoutProofs` | proofs | `RoomFanout`, `RoomsProofs` |
| `RoomTransactionsProofs` | proofs | `RoomTransactions`, `RoomsProofs` |
| `SocialTransactionsProofs` | proofs about the pair, serial and statement by statement | `SocialTransactions` |
| `FilesProofs` | proofs about rows, storages and downloads | `Attachments`, `BlobStorage`, `Download` |
| `MCServices`, `MCFiles`, other `MC*` | instances for TLC | |

**Rooms.** `visibility`, `owner`, `role`, `ban`, `invited`, `readStates` are
the columns and rows of one room; `audit` is the last ModerationEvent, which
lets properties say who did something. An action is a service function with
the view's lookup of the room before it: each early `raise` is a conjunct, a
rolled back request is a step that does not happen. Rooms share no rows but
users, so one stands for all; deleting and creating it again is a new room.

**RoomTransactions.** `req[r]` is the request: operation, actor, target, the
statement it runs next, the rank it has read and the identity of the
membership row it will delete. Statements that wait are guarded by `RowFree`
(a membership row locked by a moderation), `RoomFree` (the room row locked
by an accept) and `KeyFree` (the unique key of a membership that a join has
inserted and not committed). A join takes the key in `JoinInsert` and waits for
the room in `JoinCommit`, where its foreign key is checked. The rows
themselves are changed at the commit, since no transaction reads back what it
wrote. `RollBack` may end a request anywhere. `SerialSteps`
compares it with `Rooms`: in as far as every request decides by what it has
locked (`Holds`; that leaves out `join_room`, `create_room_invitation`,
`mark_room_read` and an admin's moderation, which look at more), every step is
a whole request of `Rooms` or changes no row. `LoneRequestsAreServed` is the
other half of the comparison: a request of any kind with which no other
overlaps decides and writes what `Rooms` says of it, so whatever the two
modules differ in comes from overlapping. `RacesLeaveTwoTraces` names what
overlapping can leave in the rows, a banned member and a read marker without a
membership, and by which requests they come and go.

**RoomFanout.** A request is one action of `Rooms` and fills its `outbox` with
what the view publishes; `Publish` hands one publication to the channel layer,
which keeps order for each consumer and may drop. A consumer runs one handler at
a time, and requests of other threads and processes run between any two of its
statements: `Subscribe`, `SubscribeBanCheck` and `SubscribeJoin` are the
membership query, the ban query and the `group_add` of a subscription,
`TakeEvent`, `EventBanCheck` and `Deliver` the same two queries of
`broadcast_event` and its `send_json`. `late` is an observer: how many events a
client has got since it lost its access.

**Social** and **SocialTransactions** have the same shape. `pending`,
`friends`, `peerBan`, `dialog` are one pair in canonical order; the locks are
those of `accept_friend_request` (request and both users), of a deleted
friendship and of a PeerBan row. `apart` and `barred` are observers: the
requests during which the two have never been friends, or have always been
banned. `LoneRequestsAreServed` compares the two modules;
`FreezesAreLostByOverlaps` says which steps can leave a dialog open between
two who are separated, and which cannot.

**Sessions.** `row` is Django's Session of each key, `record` the UserSession,
`password` a version (salted hashes are never equal). A request keeps the
session and the user it was authenticated with from its start to its end, and
ends with `Track`, `Save` and `Sync`: Django saves the session if the view has
changed it, and `SessionTrackingMiddleware` writes the record once more, as
valid. Views that write in several transactions (revoke, change, delete the
account) are several actions, and `Interrupt` may end any of them between.

**Attachments.** `row`, `bindings` and `messages` change at commits, `blob` at
once. The deletions share their steps: `ClearBindings` (the bindings the
collector finds), `DeleteRow` (the DELETE, which waits for the row, and the
signal that removes the file) and the commit, which fails if a binding was
overlooked. `UploadPutFails` leaves what the put has written, a part of the
file included, for nobody cleans up after it; `Unlink` may leave the file, for
the filesystem backend swallows the error. `mishap` remembers either. A row deletion that finds the row gone still runs the signal, as
Django does.

**BlobStorage.** `object` and `legacy` are the two places; a file is whole or
cut short. `op` is an upload or deletion, `job` the backfill with this file,
`download` a lookup in one place and then the other, which in the directory is
a look and then an opening. Nothing keeps a deletion and a backfill by hand
apart, and nothing does in the model. A put, an unlink (silently), a deletion
of an object and the transaction after it may each fail. `Start`, `Serve` and
`Stop` are the container with its entrypoint (with
`ATTACHMENTS_RUN_BACKFILL_ON_STARTUP`, off by default, the backfill before the
server); `Stop` is also a crash, between any two calls. `spared` notes that a
deletion met a copy or failed to unlink, `vanished` that the file of a
download was not all there or being deleted. `KeepsThePromise` maps all of it
to the five variables of `BlobPromise`.

**Download.** `ByteRange` is the parser of the header by what it returns (no
range, a range, an error), checked against `Asked`, a definition of what RFC
ranges select written as a set of positions; the actions open the handle the
backend gives and stream it.

**Presence.** Handlers run Redis commands one by one: set the key, add it to
the set, list the set, drop what is stale, delete an empty set; then lock the
user row, list again, save, write the snapshot, commit, publish. Keys lapse
when their tab sends no heartbeats; a process may die anywhere.

**MessageFeed.** The chat is a room or a dialog: both are paged, marked and
published alike. On the server a message has a rank by `created_at` and a
version; between the insert and the commit it is invisible. `air` is the news
on the socket, which may be lost or overtaken; `load`, `older` and `answer` are
the requests of `App.tsx` under way; `items` is what is on the screen. Any of
the requests may fail (`Fail`): a load then leaves the messages and the cursor
of the chat before where they are. The
lists are enumerations of finite sets in the order of `created_at`, and all
that is asked of them follows from that.

## 3. The runs

| run | asks | bound |
|---|---|---|
| `services` | rooms: bans, entry, hierarchy; pairs: freeze, one request; sessions: who stays out, what is listed, whose password, token once | 3 users; the pair; 3 keys, 3 requests, 2 password versions, 1 token |
| `room_transactions` | ownership, `DecisionsMatchTheRow`, `InvitationsAdmitNoBanned`, `OnlyTheUserEnters`, `SerialSteps`, `LoneRequestsAreServed`, `RacesLeaveTwoTraces` | 3 users, 2 requests of all 12 kinds, from every room |
| `room_transactions_live` | every request is answered but for a join and an accept of one user that wait for each other; nothing outlives a deleted room | 2 users, 2 requests |
| `room_join_ban` (violation) | a banned user is out | join and ban |
| `room_fanout` | nobody outside gets more than one event; records agree; announced losses unsubscribe | 2 users, 2 requests, 1 connection place |
| `room_fanout_announcements` (violation) | announcements match losses | 2 users, 1 request |
| `social_transactions` | stale senders are refused; one answer per request; bans alternate; a lone request is the serial one; how a freeze is lost | 3 requests of all 8 kinds, from every pair |
| `social_freeze` (violation) | the freeze holds at rest | ban and dialog |
| `files` | rows: one message per file, only failed or interrupted puts and failed unlinks leak; storages: the promise, lookups, short copies; transfer: the bytes asked for | 5 requests on a file with interruptions and failures; backfill at start and by hand beside deletions, miscopies; sizes 1, 2 and 4 with positions up to 5 and chunks of 2 |
| `attachments_kept` (violation) | a message keeps its file | upload, post, delete account; no interruption |
| `presence` | offline after the last tab, snapshot, announcements, a visible tab ends online | 2 tabs of one process, 1 query, crashes |
| `message_feed` | the screen at rest, two chats, scrolling, the marker | 3 messages, pages of 1, 2 writes, 2 openings (the chat, then the other one), failures |

`services` and `files` each hold three modules that share no state; `part`
chooses at the start which of them a behaviour is about, so that a run checks
each by itself and not their product.

**Why the bounds are enough.** A moderation involves an actor, a target and at
most one superior of both; three users rotate through all roles. Two requests
are one race; the initial states of `RoomTransactions` and
`SocialTransactions` are all the states the serial module reaches (up to the
identification of a removed ban with none in rooms), so two or three requests
race in any situation and not only from the empty database (the third that
ends a trace of `RacesLeaveTwoTraces` is in the proof only). Three requests on
an account are a change or revocation, a late request with the old session and
a login; the third key is the one a login makes. Five requests on a file are
an upload, a post and three competitors. Sizes 1, 2 and 4 with chunks of 2 are
a file smaller than a chunk, one chunk and several, and positions go beyond
the end. Pages of one message and three messages make each load and each
older page hold one, and the last one start where the list may have shifted;
a chat that is opened a second time is in the proofs only, which hold for any
number of openings. The tabs of `presence` share one process, whose handlers do not interrupt each other (`OneProcess`);
the liveness property `VisibleTabEndsOnline` is checked for that case only,
while the safety properties are proved for tabs of several processes too.
One connection place is enough because consumers do not see each other, and it
is reused after a close. Every request is served once; the other bounds are
`MaxVersion` (password changes), `MaxWrites` and `MaxOpens` (edits and
openings of a chat). Three requests of a pair do not reach everything: the
accept in `FreezesAreLostByOverlaps` needs two crossing friend requests, two
accepts and an unfriend, and was found by the proof. No safety property rests
on the bounds, though: all are proved for every value of them (section 4).

**Symmetry** is used where only safety is checked: for users and requests in
`room_transactions`, for requests in `social_transactions` and `files`, and in
`services` for users, requests, the keys an account starts with and the keys
still to be made (two kinds that a permutation must not mix). Runs with
liveness, the fan-out runs, presence and the feed have none.

**Fairness.** `TSpec`: a request that has arrived is executed (`WF` of
`Proceed`), because a worker thread runs it to its end; nobody has to send a
request, and nothing forces a rollback. `FSpec`: a worker finishes publishing
and a consumer handles what it is handed (`WF` of `Publish` and `Consume`);
clients, requests and disconnections are not fair. `Presence`: a handler that
has begun runs to its end (`WF`), and the heartbeat of a tab that is open is
`SF`, because other handlers may hold the event loop again and again but it
serves what arrived in the order it arrived, and the browser's interval does
not stop. The other specifications have none and claim safety only.

**Deadlock** is checked in every run. Modules whose requests are served once
have a step for "everything is answered" (`Quiet`, `Rest`), so a state in which
requests wait for each other is a deadlock for TLC.

### What the passing runs show

* A moderation that locks the member's row decides on the role that is there
  at its commit, and a leave cannot resurrect or delete a later membership.
* An invitation cannot let a banned user in. This rests on the width of the
  lock in `accept_room_invitation`: with the invitation alone locked
  (mutant `RoomNeverHeld`) a ban slips in between.
* Locks are taken in one order, the membership row or key before the room,
  with one exception. `accept_room_invitation` takes the room first and then
  inserts the membership, whose unique key an uncommitted join of the same user
  may have, while that join waits for the room at its commit. A user who joins
  a room that has turned public and accepts the old invitation at the same time
  runs into it, and PostgreSQL aborts one of the two requests.
  `NoOtherDeadlocks` (proved) says that there is no other such cycle. Were the
  membership fetched with a lock too (mutant `AcceptCommitLockingTheRow`), an
  accept and a moderation would be one.
* Who has lost the access to a room gets at most one more of its events, the
  one whose check was under way or had passed, whatever is dropped or waits in
  the queue, because `broadcast_event` asks the database each time. It asks
  for the membership and then for the ban; that this suffices although nothing
  ties the two queries together rests on a ban taking the membership away.
* A message in a dialog is refused to users who were apart during the whole
  request, although the freeze can be stale, because the two questions are
  asked again.
* A session that was ended never authenticates a request again, a session is
  valid for the current password only, and what authenticates can be seen and
  revoked. The exceptions are in the properties: a request that was under way
  leaves a valid record of a dead session in the list; a session revoked after
  it had expired keeps its row, and the WebSocket consumer
  does not look at the expiry date; a socket that is already open stays open when its session is
  revoked; a request of a revoked session that is changing the password goes
  on and is given a fresh session; a revocation that is interrupted between its two
  writes leaves a session that is live and not listed.
* A file is never bound to two messages, by the lock that lasts from
  `_lock_owned_unbound_attachments` to the commit.
* A file without a row is the trace of a put that raised (`create_attachment`
  re-raises and cleans nothing up; the filesystem put writes chunk by chunk, so
  it may be a part of the file), of an interrupted upload, or of an unlink that
  failed in silence, and of nothing else.
* To whoever downloads, the two storages, the fallback and the backfill with
  its restarts are one place, but for this. A copy that came out short and
  was never compared with its source, because the process died or the size
  could not be read, shadows the whole file in the directory, and later
  backfills skip it because an object exists. A deletion that meets a backfill
  can see the object come back after it has removed it, and bytes that an
  unlink could not remove stay; both then outlive the row. A download beside a
  deletion may find neither place filled (404), or find the file and fail to
  open it (500); beside a copy alone it always finds the file.
* Presence that a query finds changed is written and announced to nobody; the
  changes of connects, heartbeats and closes are announced once each. An empty
  set that a query deletes while a tab is being added loses the key, and the
  next heartbeat brings it back.
* The screen at rest is right about all messages but those of which some news
  was lost, overtaken, or heard between the reading of a page and its arrival:
  a load replaces what was heard meanwhile. Older pages and answers that
  arrive after a change of chat are put into the wrong one, and a load that
  fails (a 403, a 404, the network) leaves the messages and the cursor of the
  chat before under the new one until another load succeeds. A message posted
  between two pages is only shown twice; a deletion makes the next page skip
  one. A mark can cover a message that was inserted before and commits after
  it, and the mark of an empty chat is the time of the request.

### What the violated properties show

1. **Join against ban** (`room_join_ban`). `join_room` checks the ban, then
   the membership, then inserts. A member who sends a join while being banned
   ends as a banned member, whom nobody can ban or remove again before an
   unban, because `create_room_ban` raises on the active ban and rolls its
   deletion back. That a join is the only way in and that leaving, an unban or
   the deletion of the room are the only ways out is `RacesLeaveTwoTraces`.
2. **Announcements** (`room_fanout_announcements`). `remove-member` publishes
   nothing, deleting a room publishes nothing, and promoting publishes
   "removed" with a forced unsubscription to a user who stays.
3. **Dialog against ban** (`social_freeze`). A dialog inserted while its users
   are being separated stays open. Sending is still refused. The lift of a ban
   does the same when an unfriend or the other user's ban commits between the
   reads and the write of `_refresh_dialog_state_for_pair`. By
   `FreezesAreLostByOverlaps` (proved) the freeze is lost in these ways and one
   more, an accept of the second of two crossing requests that found the
   friendship already made; an accept that makes the friendship holds both
   users, and bans wait for them.
4. **Files of a failed deletion** (`attachments_kept`). `delete_account` of a
   user with a message in somebody else's room fails on a RESTRICT after the
   signal has removed the user's files; the rows roll back, the files do not.

Reachable as well, and covered by the weaker form of `BoundToOneMessage`:
`delete_room` collects the attachments of its messages first and cascades
later, so a message posted in between leaves an attachment row that is bound to
nothing; and `delete_unbound_attachment` trusts a `binding_type` from the
view's SELECT.

## 4. The proofs

Each proof module states the inductive invariant as a conjunction of named
parts, one lemma per action (or per kind of action) that it is kept, and the
theorems at the end. They hold for every value of the constants; the only
assumptions are the named ones of the modules (`UsersAssumption`,
`PairAssumption`, `OpsAssumption` and so on), which TLC evaluates in the runs.

*Rooms* (`RoomInv`): types, `OwnerIsTheOneOwner`, `BannedUsersAreOut`,
`ReadersAreMembers` and `NothingOutlivesTheRoom`. The last is what makes it
inductive: a room is created over the place of an older one, and if a
membership or an owner were left there, the new room would have two.
`BannedUsersAreOut` is needed for the hierarchy: it is why a banned admin, who
has no role any more, cannot lift the own ban.

*Room transactions* (`TransactionInv`): a row or key has one holder
(`RowsAreHeldOnce`, `RoomIsHeldOnce`, `KeysAreHeldOnce`), who waits with a key
is not a member yet (`JoinersAreNew`), and what a request has found out about
what it holds stays so until it ends (`DecisionsStand`, `InvitationsStand`),
as does what follows from the owner column, which never changes (`RanksStand`,
`LeaversAreNoOwners`). Steps are of two kinds. A look changes no row and may
give the request something to hold, which was free and as it says at that
moment (`LookingKeepsInv`). An end gives everything up and must spare what the
others hold (`EndingKeepsInv`); each commit is shown to be such an end. From
this follow the three action properties, the ownership and
`DeletionsLeaveNothing`. `RacesLeaveNothingElse` goes through the commits: an
accept still holds the room whose ban it read, and a moderation still holds the
row it found, so neither makes a banned member. For
`LockedRequestsAreSerial` (`SerialSteps`) the invariant is continued by what
holds as long as all requests are of the right kind: `RoomInv`, and that a
leave whose row was replaced finds no read marker (`MarkersOfLeavers`);
then each commit is the action of `Rooms` of the same name or a stutter.
`NoOtherDeadlocks` follows the waiting: for a membership row one waits for a
moderation, which waits for the room at most; for the room one waits for the
accept that has it, and that waits for the key of its own user at most, which
is the join of `Deadlock`.

`LoneRequestsAreSerial` needs one more part, `LoneInv`: what a request has
read so far is so, as long as nobody else is there. What a request has
read while others were under way may be wrong even after they are over, which
is why the property is about requests beside which no other has begun.

*Fan-out* (`ConsumerInv`): the group equals the record, and both, like the
sockets in the middle of a handler, name open connections only.
`AtMostOneIsLate` counts what a client gets (`LateInv`): a client in the middle
of the check of an event has got none late, or has its access back. It needs
that a banned user is no member, which is `RoomInv` of the serial room.
`LiveRoomIsTheRoom` shows that the live side implements `Rooms` started in any
state of `RoomInv`, so that what is proved of the serial room holds of the one
that is published about.

*Social* (`SocialInv`): inductive as it stands, since whatever touches the
friendship or a ban writes the dialog in the same transaction.

*The pair's transactions* (`PairTransactionInv`): one accept at a time has the
users' rows and its request stays pending, since a reject needs the row and an
accept holds it to the end (`AcceptsAreAlone`, `AcceptsFindTheRequest`); one
ban or unban at a time has a PeerBan row, which stays as it was found
(`BansAreHeldOnce`, `BansStand`); and whoever sends has seen a friendship once,
and then no ban (`SendersWereTogether`, about `apart` and `barred`).
`OneAnswerEach`, `BansAlternate` and `SeparatedStaySilent` follow. `LoneInv` is
as above. `FreezeInv` adds, for `FreezesAreLostNoOtherWay`, that what may open
a dialog (an unban, a creation, an accept that finds the friendship made) has
seen the two together, and that an accept which found no ban keeps bans out
until it commits (`BansWaitForAccepts`).

*Sessions* (`SessionInv`): keys were made before they are used
(`KeysWereMade`), an ended key has no row a request could use
(`EndedHaveNoRow`), a live row is listed or being ended (`LiveRowsAreListed`),
hashes belong to who proved the password (`HashesWereProved`), and a reset that
holds its token's lock holds an unused one (`LockedTokensAreFresh`).

*Attachments* (`AttachmentInv`): a file is uploaded once, its row has one
holder, a bound file has one binding, and a blob without a row has an upload or
deletion under way or a mishap behind it (`FilesHaveRows`).

*Storages* (`StorageInv`): an upload has no row, no deletion and no backfill
beside it (`Exclusion`, which follows from the code's order: the row is written
last); while nothing is spared, what a deletion has passed is empty
(`PlacesOfRequests`); the backfill has a whole file before it unless a deletion
met it (`PlacesOfBackfill`); and a download that has passed the first place has
noted whatever vanished (`DownloadSees`). Deletions and the backfill may
overlap at any of their steps. On it rests `StorageImplementsPromise`: initial
states map to initial states, and every step to a step of `BlobPromise` or a
stutter.

*Downloads* (`TransferInv`): the range in use is the header's, and the handle
stands where the bytes sent so far say. The lemma `ByteRangeIsAsked` is about
the parser: what it returns selects the bytes the header asks for, for every
size.

*Presence* (`PresenceInv`): the user row has one holder, whose `previous` is
what the row says (`RowIsLockedOnce`, `LocksAreHeld`), from which
`ChangesAreAnnounced` and, with who has written the snapshot
(`SnapshotIsWritten`), `SnapshotFollowsTheRow` follow. `OfflineAfterTheLastTab`
is harder, because the handler that commits last need not be that of the tab
that closes last. `SomebodyWillLook` carries it: whoever has found a key while
holding the row found that of a tab that has not yet had the row for its own
disconnect, so a handler is still to come that will see it gone.

*The message list* (`FeedInv`). The first lemmas are about lists that enumerate
a finite set: what is in an ordered, a cut or a sorted one. `MarkInv`:
messages are inserted in the order of their ranks, so one that is still open
below the marker was overtaken. `LoadInv`: a page that is not stale belongs to
the chat that is shown. `ScreenInv`: of every message that is not excused the
browser has seen the last version or its news is in the air, and the screen,
or the page about to fill it, has it as seen; a screen kept by a load that
failed counts as strayed and is left out. `ScrollInv`: what was there at
the start and is not shown lies beyond the cursor, and posts only push it
further.

Only model-checked are the three liveness properties, `EveryRequestIsAnswered`,
`AnnouncedLossesUnsubscribe` and `VisibleTabEndsOnline`, since fairness is out
of the prover's reach, and the four violations, which need a behaviour and not
a proof.

The other way round, that the serial room keeps `OwnerIsTheOneOwner`,
`NothingOutlivesTheRoom` and `ReadersAreMembers` is left to the proofs
(`OwnershipIsUnambiguous`, `RoomTypes`, `MarkersBelongToMembers`): the runs
check the first two where requests overlap, which is harder, and
`RacesLeaveTwoTraces` says what is left of the third there.

## 5. Not modelled, and simplified

* A deadlock that PostgreSQL resolves is a `RollBack`. In `SocialTransactions`
  the UPDATE of the dialog row and the commit are one step.
* `RoomTransactions` folds the creation of a room into its initial states.
  The two users that `accept_room_invitation` locks with the room are not
  rows of the module: through them requests on different rooms wait for each
  other, and one room is modelled.
* `RoomFanout` handles posts, edits, deletions and read markers as one kind of
  event. Under a running event loop `_dispatch_group_message` starts a task;
  the model publishes one after the other for each request (`MessageFeed` lets
  news overtake each other).
* In `Attachments` the room that may be deleted belongs to somebody other than
  the uploader; the uploader's own rooms go with the account.
* In `BlobStorage` two deletions of one file do not overlap between the DELETE
  and the commit, since the first holds the row; what they do before is in
  `Attachments`. A deletion, a download and a backfill do overlap.
* `Presence` leaves seconds out: a heartbeat comes in time or the tab has
  stopped. The path without Redis and the SQL copy of connections, which is a
  legacy double write, are left out.
* `MessageFeed` leaves out replies and the foreign key they refuse a deletion
  by, the reconnection of the socket, and the shell around the message list:
  its unread badges and the races of `refreshShell`.
* Typing has no caller, the presence parity check only logs, registration and
  profiles are single statements. Validation, response envelopes, JSON, layout,
  the generated API description and client configuration are data, not
  behaviour.

## 6. Plan

Done: rooms, social graph, live events, attachments, sessions, storages,
downloads, presence and the message list; the concurrent forms of rooms and of
the social graph, and that lone requests in them are the serial ones; the
storage promise and its refinement; proofs of every safety property the runs
check.

Next:

1. Replies and unread counts beside `MessageFeed`.
2. The shell of the client: lists, badges, reconnection.
