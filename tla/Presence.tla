------------------------------ MODULE Presence ------------------------------
(***************************************************************************)
(* The presence of one user, who has some tabs open.  Each tab's socket is *)
(* registered in Redis under a key that expires, and in the user's set of  *)
(* keys; the outcome is copied into the User row and into a snapshot.  A   *)
(* handler reads and writes Redis one command at a time, with nothing to   *)
(* keep others out but the lock of the User row that it takes half way.    *)
(* Handlers of the same process take turns, since they await nothing before*)
(* they are through; a query of the user's presence runs in a thread.      *)
(*                                                                         *)
(* Seconds are left out: a heartbeat comes before the 90 seconds of a key  *)
(* are over as long as the tab sends any, and a key's last interaction is  *)
(* younger than a minute ("recent") or older ("idle").                     *)
(***************************************************************************)
EXTENDS Naturals, FiniteSets

CONSTANTS
    Tabs,     \* the sockets the user opens, each once: channel names are unique
    Queries,  \* the presence queries of other users, each served once
    OneProcess, \* whether one process serves all tabs, or each has its own
    MayCrash  \* whether processes may die

ASSUME PresenceAssumption ==
    Tabs \cap Queries = {} /\ OneProcess \in BOOLEAN /\ MayCrash \in BOOLEAN

VARIABLES
    tab,      \* what each tab's browser does
    conn,     \* presence_connection_key of each tab: none, or what it says
    registry, \* user_connections_key: the set of keys
    presence, \* presence_state in the User row
    snapshot, \* presence_user_key: none, or the state
    act,      \* each handler: how far it is, what it read
    crashed   \* a process died with a socket open

pvars == <<tab, conn, registry, presence, snapshot, act, crashed>>
redis == <<conn, registry, snapshot>>

Actors    == Tabs \cup Queries
States    == {"online", "afk", "offline"}
Values    == {"active", "recent", "idle"}
Connected == {"visible", "hidden"}
Steps     == {"ready", "set", "add", "drop", "remove", "members", "get", "trim", "delete",
              "lock", "save", "commit", "publish", "done"}

Ready == [step |-> "ready", value |-> "active", todo |-> {}, found |-> {}, stale |-> {},
          locked |-> FALSE, previous |-> "offline", computed |-> "offline"]

PresenceTypeOK ==
    /\ tab \in [Tabs -> {"new", "closed"} \cup Connected]
    /\ conn \in [Tabs -> {"none"} \cup Values]
    /\ registry \subseteq Tabs
    /\ presence \in States
    /\ snapshot \in {"none"} \cup States
    /\ act \in [Actors -> [step : Steps, value : Values, todo : SUBSET Tabs,
                           found : SUBSET Values, stale : SUBSET Tabs, locked : BOOLEAN,
                           previous : States, computed : States]]
    /\ crashed \in BOOLEAN

Init ==
    /\ tab = [c \in Tabs |-> "new"]
    /\ conn = [c \in Tabs |-> "none"]
    /\ registry = {}
    /\ presence = "offline"
    /\ snapshot = "none"
    /\ act = [a \in Actors |-> Ready]
    /\ crashed = FALSE

----------------------------------------------------------------------------

At(a, step) == act[a].step = step

Busy(a) == act[a].step \notin {"ready", "done"}

Goto(a, step) == act' = [act EXCEPT ![a].step = step]

(* A handler is through: the next event of a tab may come, a query is over. *)
Finish(a) == act' = [act EXCEPT ![a] = IF a \in Tabs THEN Ready
                                        ELSE [Ready EXCEPT !.step = "done"]]

(* Broken variant: get() without select_for_update.                         *)
UserNeverLocked(a) == TRUE

(* _locked_user: until the transaction is over. *)
UserFree(a) == \A b \in Actors \ {a} : ~act[b].locked

(* The event loop gives way before a handler and while it publishes.        *)
LoopFree == OneProcess => \A c \in Tabs : act[c].step \in {"ready", "publish"}

(* compute_presence *)
Computed(found) ==
    CASE found = {}                            -> "offline"
      [] found \cap {"active", "recent"} # {}  -> "online"
      [] OTHER                                 -> "afk"

----------------------------------------------------------------------------
(* The browser, and what makes the server call a handler.  connect and the  *)
(* first heartbeat say that the tab is active, whether it is or not.        *)

Connect(c) ==
    /\ tab[c] = "new"
    /\ LoopFree
    /\ \E t \in Connected : tab' = [tab EXCEPT ![c] = t]
    /\ Goto(c, "set")
    /\ UNCHANGED <<redis, presence, crashed>>

(* Every HEARTBEAT_MS, and whenever the visibility changes or the user does *)
(* anything: the client always says that it has just been used.             *)
Heartbeat(c) ==
    /\ tab[c] \in Connected
    /\ At(c, "ready")
    /\ LoopFree
    /\ act' = [act EXCEPT ![c].step = "set",
                          ![c].value = IF tab[c] = "visible" THEN "active" ELSE "recent"]
    /\ UNCHANGED <<tab, redis, presence, crashed>>

Switch(c, t) ==
    /\ tab[c] \in Connected
    /\ tab' = [tab EXCEPT ![c] = t]
    /\ UNCHANGED <<redis, presence, act, crashed>>

Disconnect(c) ==
    /\ tab[c] \in Connected
    /\ At(c, "ready")
    /\ LoopFree
    /\ tab' = [tab EXCEPT ![c] = "closed"]
    /\ Goto(c, "drop")
    /\ UNCHANGED <<redis, presence, crashed>>

Query(q) ==
    /\ At(q, "ready")
    /\ Goto(q, "lock")
    /\ UNCHANGED <<tab, redis, presence, crashed>>

----------------------------------------------------------------------------
(* register_connection and unregister_connection, before the list.          *)

SetConnection(c) ==
    /\ At(c, "set")
    /\ conn' = [conn EXCEPT ![c] = act[c].value]
    /\ act' = [act EXCEPT ![c] = [Ready EXCEPT !.step = "add"]]
    /\ UNCHANGED <<tab, registry, presence, snapshot, crashed>>

(* Broken variant: only connect adds the key to the set, a heartbeat does   *)
(* not.                                                                     *)
AddOnce(c) ==
    /\ At(c, "add")
    /\ registry' = IF presence = "offline" THEN registry \cup {c} ELSE registry
    /\ Goto(c, "members")
    /\ UNCHANGED <<tab, conn, presence, snapshot, crashed>>

AddToRegistry(c) ==
    /\ At(c, "add")
    /\ registry' = registry \cup {c}
    /\ Goto(c, "members")
    /\ UNCHANGED <<tab, conn, presence, snapshot, crashed>>

DropConnection(c) ==
    /\ At(c, "drop")
    /\ conn' = [conn EXCEPT ![c] = "none"]
    /\ Goto(c, "remove")
    /\ UNCHANGED <<tab, registry, presence, snapshot, crashed>>

RemoveFromRegistry(c) ==
    /\ At(c, "remove")
    /\ registry' = registry \ {c}
    /\ Goto(c, "members")
    /\ UNCHANGED <<tab, conn, presence, snapshot, crashed>>

----------------------------------------------------------------------------
(* list_connections: once without the lock, for what it tidies up (of what  *)
(* it returns then, only whether it is empty), and once under it.           *)

Listed(a) == IF act[a].locked THEN "save" ELSE "lock"

ReadMembers(a) ==
    /\ At(a, "members")
    /\ act' = [act EXCEPT ![a].todo = registry, ![a].found = {}, ![a].stale = {},
                          ![a].step = IF registry = {} THEN "delete" ELSE "get"]
    /\ UNCHANGED <<tab, redis, presence, crashed>>

GetConnection(a, c) ==
    LET found == act[a].found \cup (IF conn[c] = "none" THEN {}
                                     ELSE {IF act[a].locked THEN conn[c] ELSE "idle"})
        stale == act[a].stale \cup (IF conn[c] = "none" THEN {c} ELSE {})
    IN /\ At(a, "get")
       /\ c \in act[a].todo
       /\ act' = [act EXCEPT ![a].todo = @ \ {c}, ![a].found = found, ![a].stale = stale,
                             ![a].step = IF act[a].todo # {c} THEN "get"
                                         ELSE IF stale # {} THEN "trim"
                                         ELSE Listed(a)]
       /\ UNCHANGED <<tab, redis, presence, crashed>>

TrimRegistry(a) ==
    /\ At(a, "trim")
    /\ registry' = registry \ act[a].stale
    /\ Goto(a, IF act[a].found = {} THEN "delete" ELSE Listed(a))
    /\ UNCHANGED <<tab, conn, presence, snapshot, crashed>>

(* Whatever was added since the members were read goes with it.             *)
DeleteRegistry(a) ==
    /\ At(a, "delete")
    /\ registry' = {}
    /\ Goto(a, Listed(a))
    /\ UNCHANGED <<tab, conn, presence, snapshot, crashed>>

----------------------------------------------------------------------------
(* recompute_user_presence, and what its callers make of it.                *)

(* Broken variant: the presence before is the one the consumer has in memory.*)
LockUserFromMemory(a) ==
    /\ At(a, "lock")
    /\ UserFree(a)
    /\ act' = [act EXCEPT ![a].locked = TRUE, ![a].step = "members"]
    /\ UNCHANGED <<tab, redis, presence, crashed>>

LockUser(a) ==
    /\ At(a, "lock")
    /\ UserFree(a)
    /\ act' = [act EXCEPT ![a] = [Ready EXCEPT !.locked = TRUE, !.previous = presence,
                                               !.step = "members"]]
    /\ UNCHANGED <<tab, redis, presence, crashed>>

(* Broken variant: the snapshot is that of the user before the change.      *)
SaveAndSnapshotBefore(a) ==
    /\ At(a, "save")
    /\ snapshot' = act[a].previous
    /\ act' = [act EXCEPT ![a].computed = Computed(act[a].found), ![a].found = {},
                          ![a].stale = {}, ![a].step = "commit"]
    /\ UNCHANGED <<tab, conn, registry, presence, crashed>>

(* write_presence_snapshot, which does not wait for the commit.             *)
SaveAndSnapshot(a) ==
    /\ At(a, "save")
    /\ snapshot' = Computed(act[a].found)
    /\ act' = [act EXCEPT ![a].computed = Computed(act[a].found), ![a].found = {},
                          ![a].stale = {}, ![a].step = "commit"]
    /\ UNCHANGED <<tab, conn, registry, presence, crashed>>

(* A query tells whoever asked, and nobody else.                            *)
Commit(a) ==
    /\ At(a, "commit")
    /\ presence' = act[a].computed
    /\ IF a \in Tabs /\ act[a].computed # act[a].previous
          THEN act' = [act EXCEPT ![a] = [Ready EXCEPT !.step = "publish"]]
          ELSE Finish(a)
    /\ UNCHANGED <<tab, redis, crashed>>

(* _publish_presence_payload: presence.updated to everybody.                *)
Publish(a) ==
    /\ At(a, "publish")
    /\ Finish(a)
    /\ UNCHANGED <<tab, redis, presence, crashed>>

----------------------------------------------------------------------------
(* Time, and failures.                                                      *)

(* AFK_TIMEOUT: the timers of a hidden tab are throttled.                   *)
Idle(c) ==
    /\ conn[c] = "recent"
    /\ tab[c] # "visible"
    /\ conn' = [conn EXCEPT ![c] = "idle"]
    /\ UNCHANGED <<tab, registry, presence, snapshot, act, crashed>>

LapseConnection(c) ==
    /\ conn[c] # "none"
    /\ tab[c] # "visible"
    /\ ~Busy(c)
    /\ conn' = [conn EXCEPT ![c] = "none"]
    /\ UNCHANGED <<tab, registry, presence, snapshot, act, crashed>>

(* The set is renewed together with each key, and later.  (The snapshot's   *)
(* expiry is left out: nothing reads it.)                                   *)
LapseRegistry ==
    /\ registry # {}
    /\ \A c \in registry : conn[c] = "none"
    /\ \A a \in Actors : ~At(a, "add")
    /\ registry' = {}
    /\ UNCHANGED <<tab, conn, presence, snapshot, act, crashed>>

(* The process that serves a tab dies: no handler is called, the row is as  *)
(* it was before the transaction.                                           *)
Crash(c) ==
    /\ MayCrash
    /\ tab[c] \in Connected \/ Busy(c)
    /\ tab' = [tab EXCEPT ![c] = "closed"]
    /\ act' = [act EXCEPT ![c] = Ready]
    /\ crashed' = TRUE
    /\ UNCHANGED <<redis, presence>>

Rest ==
    /\ \A a \in Actors : ~Busy(a)
    /\ \A c \in Tabs : tab[c] = "closed"
    /\ UNCHANGED pvars

Handle(a) ==
    \/ ReadMembers(a)
    \/ \E c \in Tabs : GetConnection(a, c)
    \/ TrimRegistry(a)
    \/ DeleteRegistry(a)
    \/ LockUser(a)
    \/ SaveAndSnapshot(a)
    \/ Commit(a)
    \/ Publish(a)

HandleTab(c) ==
    SetConnection(c) \/ AddToRegistry(c) \/ DropConnection(c) \/ RemoveFromRegistry(c)

Browse(c) ==
    \/ Connect(c)
    \/ Heartbeat(c)
    \/ \E t \in Connected : Switch(c, t)
    \/ Disconnect(c)

Next ==
    \/ \E a \in Actors : Handle(a)
    \/ \E c \in Tabs : HandleTab(c) \/ Browse(c) \/ Idle(c) \/ LapseConnection(c) \/ Crash(c)
    \/ \E q \in Queries : Query(q)
    \/ LapseRegistry \/ Rest

(* Handlers run to their end, and a tab sends its heartbeats: the timer is  *)
(* an interval that nothing stops, and the event loop serves what arrived in *)
(* the order it arrived, however much there is (hence SF).                  *)
Fairness ==
    /\ \A a \in Actors : WF_pvars(Handle(a))
    /\ \A c \in Tabs : WF_pvars(HandleTab(c)) /\ SF_pvars(Heartbeat(c))

Spec == Init /\ [][Next]_pvars /\ Fairness

----------------------------------------------------------------------------

(* When the last tab is closed in order the user is offline, whatever       *)
(* handlers and queries overlapped and whoever recomputed last.             *)
OfflineAfterTheLastTab ==
    (\A a \in Actors : ~Busy(a)) /\ (\A c \in Tabs : tab[c] \in {"new", "closed"}) /\ ~crashed
        => presence = "offline"

(* The snapshot in Redis, which takes no part in the transaction, says what *)
(* the row says while nobody is between the two writes, but for a crash.    *)
SnapshotFollowsTheRow ==
    snapshot # "none" /\ ~crashed /\ (\A a \in Actors : ~At(a, "commit"))
        => snapshot = presence

(* An event of a connection announces the change it makes to the row, and   *)
(* nothing else: what was there before is read under the lock, not taken    *)
(* from the user the consumer came with.                                    *)
ChangesAreAnnounced ==
    [][\A c \in Tabs :
          At(c, "commit") /\ act'[c].step # "commit" /\ ~(crashed' /\ tab'[c] = "closed")
              => (act'[c].step = "publish" <=> presence' # presence)]_pvars

(* A tab that stays on the screen brings its user online and keeps them     *)
(* there, whatever a query or another tab once deleted in the registry: the *)
(* next heartbeat puts the key back.                                        *)
VisibleTabEndsOnline ==
    \A c \in Tabs : <>[](tab[c] = "visible") => <>[](presence = "online")

============================================================================
