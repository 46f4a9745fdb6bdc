---------------------------- MODULE MessageFeed ----------------------------
(***************************************************************************)
(* One chat as one browser shows it: the messages and the read marker on   *)
(* the server, the news of them on the socket, and App.tsx, which loads    *)
(* the newest page, asks for older ones by offset and applies the news.    *)
(* The user also has another chat, in which nobody writes.                 *)
(*                                                                         *)
(* A message is its rank by created_at, which is taken when it is inserted *)
(* and not when it is committed.  Its version is what has happened to it.  *)
(***************************************************************************)

EXTENDS Naturals, Sequences, FiniteSets

CONSTANTS
    N,         \* messages there are or will be
    PageSize,  \* the limit of a page
    MaxWrites, \* posts, edits and deletions
    MaxOpens   \* times the user opens a chat

ASSUME FeedAssumption ==
    /\ N \in Nat \ {0} /\ PageSize \in Nat \ {0}
    /\ MaxWrites \in Nat /\ MaxOpens \in Nat

VARIABLES
    phase,       \* each message: unborn, inserted, there for all, or gone
    version,     \* 0 before the commit, 1 posted, 2 edited, 3 deleted
    mine,        \* the messages the user of this browser wrote
    writes,      \* how many posts, edits and deletions there were
    marker,      \* last_read_at, as the rank of a message
    air,         \* news published and not yet handled
    answer,      \* the response to the user's own request that is under way
    active,      \* activeChat: this one or the other
    subscribed,  \* whether the consumer is in the chat's group
    load,        \* loadChat: asked, read by the server, or loaded
    older,       \* handleLoadOlder, likewise
    items,       \* the messages on the screen, with their versions
    cursor,      \* the offset to go on from, 0 for none
    markAsked,   \* a mark-as-read request is under way
    opens,       \* how often a chat was opened
    due,         \* messages the screen answers for
    excused,     \* those of them whose news was lost, late or overwritten
    seen,        \* the newest version the browser was given since it loaded
    atRead,      \* what was there when the newest page was read
    shrunk,      \* a message has been deleted since
    strayed,     \* a response came to a screen it was not asked for, or the
                 \* screen of before stands under a chat whose load failed
    marked,      \* messages that were there when the chat was marked read
    overtaken    \* those that were inserted and not there at a newer commit

server  == <<phase, version, mine, writes>>
browser == <<active, subscribed, load, older, items, cursor, opens>>
history == <<due, excused, seen, atRead, shrunk, strayed>>
marks   == <<marker, markAsked, marked>>
fvars   == <<server, marks, overtaken, air, answer, browser, history>>

Messages == 1..N
There    == {m \in Messages : phase[m] = "there"}
Open     == {m \in Messages : phase[m] = "inserted"}
Born     == {m \in Messages : phase[m] # "unborn"}

NoAnswer == [m |-> 0, v |-> 0]
NoOlder  == [state |-> "idle", chat |-> "here", offset |-> 0, page |-> <<>>,
             next |-> 0, stale |-> FALSE]

Init ==
    \E k \in 0..N :
        /\ phase = [m \in Messages |-> IF m <= k THEN "there" ELSE "unborn"]
        /\ version = [m \in Messages |-> IF m <= k THEN 1 ELSE 0]
        /\ mine = {} /\ writes = 0 /\ marker = 0 /\ marked = {} /\ overtaken = {}
        /\ air = {} /\ answer = NoAnswer /\ markAsked = FALSE
        /\ active = "elsewhere" /\ subscribed = FALSE /\ opens = 0
        /\ load = [state |-> "loaded", page |-> <<>>, next |-> 0]
        /\ older = NoOlder /\ items = <<>> /\ cursor = 0
        /\ due = {} /\ excused = {} /\ seen = version /\ atRead = {}
        /\ shrunk = FALSE /\ strayed = FALSE

----------------------------------------------------------------------------
(* The server.                                                              *)

(* A finite set of numbers in increasing order.                             *)
InOrder(S) ==
    [k \in 1..Cardinality(S) |-> CHOOSE x \in S : Cardinality({y \in S : y <= x}) = k]

(* list_room_message_rows: newest first, the page itself oldest first; one  *)
(* more than the page is read to know whether there is a next one.          *)
Newer(m) == Cardinality({k \in There : k > m})
Item(m)  == [m |-> m, v |-> version[m]]
Page(offset) ==
    LET rows == InOrder({m \in There : Newer(m) \in offset..(offset + PageSize - 1)})
    IN  [i \in DOMAIN rows |-> Item(rows[i])]
NextCursor(offset) ==
    IF Cardinality(There) > offset + PageSize THEN offset + PageSize ELSE 0

MessagesIn(page) == {page[i].m : i \in DOMAIN page}

Publish(m, v) == air' = air \cup {[m |-> m, v |-> v]}

Write == writes < MaxWrites /\ writes' = writes + 1

(* create_room_message up to its INSERT, by the user or by somebody else.   *)
Insert(m, own) ==
    /\ Write
    /\ phase[m] = "unborn" /\ \A k \in 1..(m - 1) : k \in Born
    /\ own => active = "here" /\ answer = NoAnswer
    /\ phase' = [phase EXCEPT ![m] = "inserted"]
    /\ mine' = IF own THEN mine \cup {m} ELSE mine
    /\ answer' = IF own THEN [m |-> m, v |-> 0] ELSE answer
    /\ UNCHANGED <<version, marks, overtaken, air, browser, history>>

Watching == active = "here" /\ load.state \in {"read", "loaded"}

CommitPost(m) ==
    /\ phase[m] = "inserted"
    /\ phase' = [phase EXCEPT ![m] = "there"]
    /\ version' = [version EXCEPT ![m] = 1]
    /\ Publish(m, 1)
    /\ answer' = IF m \in mine THEN [m |-> m, v |-> 1] ELSE answer
    /\ overtaken' = overtaken \cup {k \in Open : k < m}
    /\ due' = IF Watching THEN due \cup {m} ELSE due
    /\ UNCHANGED <<mine, writes, marks, browser, excused, seen, atRead, shrunk, strayed>>

RollBackPost(m) ==
    /\ phase[m] = "inserted"
    /\ phase' = [phase EXCEPT ![m] = "gone"]
    /\ answer' = IF m \in mine THEN NoAnswer ELSE answer
    /\ UNCHANGED <<version, mine, writes, marks, overtaken, air, browser, history>>

(* The user edits and deletes what is on the screen.                        *)
OnScreen(m)  == m \in MessagesIn(items)
MayAsk(m)    == active = "here" /\ answer = NoAnswer /\ OnScreen(m)
Asks(own, n) == answer' = IF own THEN n ELSE answer

Edit(m, own) ==
    /\ Write
    /\ m \in There /\ version[m] = 1
    /\ own => m \in mine /\ MayAsk(m)
    /\ version' = [version EXCEPT ![m] = 2]
    /\ Publish(m, 2)
    /\ Asks(own, [m |-> m, v |-> 2])
    /\ UNCHANGED <<phase, mine, marks, overtaken, browser, history>>

Delete(m, own) ==
    /\ Write
    /\ m \in There
    /\ own => MayAsk(m)
    /\ phase' = [phase EXCEPT ![m] = "gone"]
    /\ version' = [version EXCEPT ![m] = 3]
    /\ Publish(m, 3)
    /\ Asks(own, [m |-> m, v |-> 3])
    /\ shrunk' = TRUE
    /\ UNCHANGED <<mine, marks, overtaken, browser, due, excused, seen, atRead, strayed>>

Newest == InOrder(There)[Cardinality(There)]

(* Broken variant: everything up to now is read.                            *)
MarkReadUpToNow ==
    /\ markAsked
    /\ markAsked' = FALSE
    /\ marker' = Cardinality(Born)
    /\ marked' = marked \cup There
    /\ overtaken' = IF There = {} THEN overtaken \cup Open ELSE overtaken
    /\ UNCHANGED <<server, air, answer, browser, history>>

(* mark_room_read: up to the newest message, or up to now if there is none. *)
MarkRead ==
    /\ markAsked
    /\ markAsked' = FALSE
    /\ marker' = IF There = {} THEN Cardinality(Born) ELSE Newest
    /\ marked' = marked \cup There
    /\ overtaken' = IF There = {} THEN overtaken \cup Open ELSE overtaken
    /\ UNCHANGED <<server, air, answer, browser, history>>

----------------------------------------------------------------------------
(* The browser: loading.                                                    *)

(* Broken variant: while a chat is loading no other is asked for.           *)
OpenChatUnlessLoading ==
    /\ opens < MaxOpens
    /\ opens' = opens + 1
    /\ active' = IF active = "here" THEN "elsewhere" ELSE "here"
    /\ load' = IF load.state = "loaded"
                  THEN [state |-> "asked", page |-> <<>>, next |-> 0] ELSE load
    /\ older' = IF older.state = "idle" THEN older ELSE [older EXCEPT !.stale = TRUE]
    /\ UNCHANGED <<server, marks, overtaken, air, answer, subscribed, items, cursor, history>>

(* openChat and its two effects: the socket is told, the newest page is     *)
(* asked for, and what an earlier loadChat still brings is ignored.         *)
OpenChat ==
    /\ opens < MaxOpens
    /\ opens' = opens + 1
    /\ active' = IF active = "here" THEN "elsewhere" ELSE "here"
    /\ load' = [state |-> "asked", page |-> <<>>, next |-> 0]
    /\ older' = IF older.state = "idle" THEN older ELSE [older EXCEPT !.stale = TRUE]
    /\ UNCHANGED <<server, marks, overtaken, air, answer, subscribed, items, cursor, history>>

(* room.subscribe and room.unsubscribe are handled.                         *)
Subscribe ==
    /\ subscribed # (active = "here")
    /\ subscribed' = (active = "here")
    /\ UNCHANGED <<server, marks, overtaken, air, answer, active, load, older, items,
                   cursor, opens, history>>

ReadNewest ==
    /\ load.state = "asked"
    /\ IF active = "here"
          THEN /\ load' = [state |-> "read", page |-> Page(0), next |-> NextCursor(0)]
               /\ due' = MessagesIn(Page(0))
               /\ excused' = {} /\ seen' = version /\ atRead' = There /\ shrunk' = FALSE
          ELSE /\ load' = [load EXCEPT !.state = "read"]
               /\ UNCHANGED <<due, excused, seen, atRead, shrunk>>
    /\ UNCHANGED <<server, marks, overtaken, air, answer, active, subscribed, older, items,
                   cursor, opens, strayed>>

ShowNewest ==
    /\ load.state = "read"
    /\ load' = [state |-> "loaded", page |-> <<>>, next |-> 0]
    /\ items' = load.page
    /\ cursor' = load.next
    /\ markAsked' = (markAsked \/ active = "here")
    /\ strayed' = FALSE
    /\ UNCHANGED <<server, marker, marked, overtaken, air, answer, active, subscribed, older,
                   opens, due, excused, seen, atRead, shrunk>>

AskOlder ==
    /\ cursor # 0 /\ older.state = "idle"
    /\ older' = [NoOlder EXCEPT !.state = "asked", !.chat = active, !.offset = cursor,
                                !.stale = load.state # "loaded"]
    /\ UNCHANGED <<server, marks, overtaken, air, answer, active, subscribed, load, items,
                   cursor, opens, history>>

ReadOlder ==
    /\ older.state = "asked"
    /\ older' = IF older.chat = "here"
                   THEN [older EXCEPT !.state = "read", !.page = Page(older.offset),
                                      !.next = NextCursor(older.offset)]
                   ELSE [older EXCEPT !.state = "read"]
    /\ UNCHANGED <<server, marks, overtaken, air, answer, active, subscribed, load, items,
                   cursor, opens, history>>

(* Broken variant: the cursor counts pages and not messages.                *)
ShowOlderOneFurther ==
    /\ older.state = "read"
    /\ items' = older.page \o items
    /\ cursor' = IF older.next = 0 THEN 0 ELSE older.next + 1
    /\ older' = NoOlder
    /\ strayed' = (strayed \/ older.stale)
    /\ due' = IF load.state = "loaded" THEN due \cup MessagesIn(older.page) ELSE due
    /\ excused' = excused \cup {m \in Messages :
                     \E i \in DOMAIN older.page : older.page[i].m = m /\ older.page[i].v < seen[m]}
    /\ UNCHANGED <<server, marks, overtaken, air, answer, active, subscribed, load, opens,
                   seen, atRead, shrunk>>

(* handleLoadOlder: put before whatever is on the screen by then.           *)
ShowOlder ==
    /\ older.state = "read"
    /\ items' = older.page \o items
    /\ cursor' = older.next
    /\ older' = NoOlder
    /\ strayed' = (strayed \/ older.stale)
    /\ due' = IF load.state = "loaded" THEN due \cup MessagesIn(older.page) ELSE due
    /\ excused' = excused \cup {m \in Messages :
                     \E i \in DOMAIN older.page : older.page[i].m = m /\ older.page[i].v < seen[m]}
    /\ UNCHANGED <<server, marks, overtaken, air, answer, active, subscribed, load, opens,
                   seen, atRead, shrunk>>

----------------------------------------------------------------------------
(* The browser: news.                                                       *)

(* Array.prototype.sort by created_at, which keeps the order of equals.     *)
Place(list, i) ==
    Cardinality({j \in DOMAIN list : \/ list[j].m < list[i].m
                                     \/ list[j].m = list[i].m /\ j <= i})
Sorted(list) ==
    [k \in DOMAIN list |-> list[CHOOSE i \in DOMAIN list : Place(list, i) = k]]

CopiesOf(m) == {i \in DOMAIN items : items[i].m = m}

(* Broken variant: a message that is on the screen is not replaced.         *)
UpsertOnce(n) == IF OnScreen(n.m) THEN items ELSE Sorted(Append(items, n))

(* upsertMessage: in the place of the first copy, or added; then sorted.    *)
Upsert(n) ==
    Sorted(IF OnScreen(n.m) THEN [items EXCEPT ![InOrder(CopiesOf(n.m))[1]] = n]
                            ELSE Append(items, n))

Without(n) ==
    LET kept == InOrder(DOMAIN items \ CopiesOf(n.m))
    IN  [k \in DOMAIN kept |-> items[kept[k]]]

Apply(n) ==
    /\ items' = IF n.v = 3 THEN Without(n) ELSE Upsert(n)
    /\ excused' = IF n.v < seen[n.m] \/ load.state = "read"
                     THEN excused \cup {n.m} ELSE excused
    /\ seen' = [seen EXCEPT ![n.m] = IF n.v > @ THEN n.v ELSE @]

(* handleSocketEvent.  What another user writes is marked as read if the    *)
(* user is looking.                                                         *)
HandleNews(n) ==
    /\ n \in air
    /\ air' = air \ {n}
    /\ subscribed /\ active = "here"
    /\ Apply(n)
    /\ \/ n.v = 1 /\ n.m \notin mine /\ markAsked' = TRUE
       \/ UNCHANGED markAsked
    /\ UNCHANGED <<server, marker, marked, overtaken, answer, active, subscribed, load, older,
                   cursor, opens, due, atRead, shrunk, strayed>>

(* Dropped by the channel layer, for nobody is in the group, or about a     *)
(* chat that is not on the screen.                                          *)
LoseNews(n) ==
    /\ n \in air
    /\ air' = air \ {n}
    /\ excused' = IF n.v > seen[n.m] THEN excused \cup {n.m} ELSE excused
    /\ UNCHANGED <<server, marks, overtaken, answer, browser, due, seen, atRead, shrunk, strayed>>

(* The response to a post, an edit or a deletion is put on the screen there *)
(* is by then; after a post the chat is marked read.                        *)
HandleAnswer ==
    /\ answer.v # 0
    /\ answer' = NoAnswer
    /\ Apply(answer)
    /\ strayed' = (strayed \/ active # "here")
    /\ markAsked' = (markAsked \/ answer.v = 1)
    /\ UNCHANGED <<server, marker, marked, overtaken, air, active, subscribed, load, older,
                   cursor, opens, due, atRead, shrunk>>

----------------------------------------------------------------------------
(* The browser: a request is refused, or the network fails.                 *)

(* loadChat catches it: an error is shown, and the messages and the cursor  *)
(* stay as they were, those of the chat before included.                    *)
LoadFails ==
    /\ load.state # "loaded"
    /\ load' = [state |-> "loaded", page |-> <<>>, next |-> 0]
    /\ strayed' = TRUE
    /\ UNCHANGED <<server, marks, overtaken, air, answer, active, subscribed, older, items,
                   cursor, opens, due, excused, seen, atRead, shrunk>>

(* handleLoadOlder: the same, and older messages may be asked for again.    *)
OlderFails ==
    /\ older.state # "idle"
    /\ older' = NoOlder
    /\ UNCHANGED <<server, marks, overtaken, air, answer, active, subscribed, load, items,
                   cursor, opens, history>>

(* markCurrentChatRead is best effort.                                      *)
MarkFails ==
    /\ markAsked
    /\ markAsked' = FALSE
    /\ UNCHANGED <<server, marker, marked, overtaken, air, answer, browser, history>>

(* The user's post, edit or deletion is there and the response is lost.     *)
LoseAnswer ==
    /\ answer.v # 0
    /\ answer' = NoAnswer
    /\ UNCHANGED <<server, marks, overtaken, air, browser, history>>

----------------------------------------------------------------------------

Quiet ==
    /\ Open = {} /\ air = {} /\ answer = NoAnswer /\ ~markAsked
    /\ load.state = "loaded" /\ older.state = "idle"
    /\ subscribed = (active = "here")

Rest == Quiet /\ UNCHANGED fvars

Writing ==
    \E m \in Messages :
        \/ \E own \in BOOLEAN : Insert(m, own) \/ Edit(m, own) \/ Delete(m, own)
        \/ CommitPost(m) \/ RollBackPost(m)

Load ==
    \/ OpenChat \/ Subscribe \/ ReadNewest \/ ShowNewest
    \/ AskOlder \/ ReadOlder \/ ShowOlder

Hear == HandleAnswer \/ \E n \in air : HandleNews(n) \/ LoseNews(n)

Fail == LoadFails \/ OlderFails \/ MarkFails \/ LoseAnswer

Work == Writing \/ MarkRead \/ Load \/ Hear \/ Rest

Next == Work \/ Fail

Spec == Init /\ [][Next]_fvars

----------------------------------------------------------------------------

Shown(m) == {items[i].v : i \in CopiesOf(m)}

(* When all is quiet the screen shows what is on the server: of every       *)
(* message of the pages loaded and every one posted since, the latest       *)
(* version, and none that was deleted.  The exceptions are a screen whose   *)
(* load failed or that an older response has come to, and the messages of   *)
(* which some news was lost, came in the wrong order, or was heard between  *)
(* the reading of a page and its arrival.                                   *)
QuietScreenIsRight ==
    Quiet /\ active = "here" /\ ~strayed =>
        \A m \in due \ excused :
            /\ phase[m] = "there" => version[m] \in Shown(m)
            /\ phase[m] = "gone" => Shown(m) = {}

(* Who scrolls up to the first message has seen every message that was      *)
(* there at the start, for posts only push the offsets up.  A deletion      *)
(* pulls them down, and then a message is skipped.                          *)
ScrollingUpSkipsNothing ==
    active = "here" /\ load.state = "loaded" /\ cursor = 0 /\ older.state = "idle"
      /\ ~strayed /\ ~shrunk =>
        \A m \in atRead : Shown(m) # {}

(* Messages of one chat are on the screen of another only while that is     *)
(* loading, after its load failed, or after a response that was asked for   *)
(* before the change.                                                       *)
ChatsDoNotMix ==
    active = "elsewhere" /\ load.state = "loaded" /\ ~strayed => items = <<>>

(* The marker never says of a message that it is read that was not there    *)
(* when the chat was marked, unless the message was overtaken: inserted     *)
(* before, and committed after, a newer one or a mark of the empty chat.    *)
OnlyOvertakenMessagesSlip ==
    \A m \in There \ mine : m <= marker => m \in marked \cup overtaken

============================================================================
