--------------------------- MODULE PresenceProofs ---------------------------
(***************************************************************************)
(* What the lock of the User row is worth to a user's presence, for any    *)
(* numbers of tabs and queries, in one process or in many.                 *)
(*                                                                         *)
(* The row, and the snapshot beside it, are written by the one handler     *)
(* that has the lock, from keys it read while it had it.  That the last    *)
(* tab to close leaves the user offline needs one more thing: whoever saw  *)
(* a key of a tab, saw it before that tab had the lock for its own         *)
(* disconnect, and so a handler is still to come that will see it gone.    *)
(***************************************************************************)
EXTENDS Presence, TLAPS

ActRecords ==
    [step : Steps, value : Values, todo : SUBSET Tabs, found : SUBSET Values,
     stale : SUBSET Tabs, locked : BOOLEAN, previous : States, computed : States]

(* One handler at a time has the row, from the read of it to the commit.    *)
RowIsLockedOnce ==
    \A a, b \in Actors : act[a].locked /\ act[b].locked => a = b
LocksAreHeld ==
    \A a \in Actors :
        /\ act[a].locked => /\ act[a].step \in {"members", "get", "trim", "delete",
                                                "save", "commit"}
                            /\ act[a].previous = presence
        /\ act[a].step \in {"save", "commit"} => act[a].locked
        /\ a \in Tabs /\ tab[a] = "new" => At(a, "ready")

(* Who is about to commit has written the snapshot, and nobody else since.  *)
SnapshotIsWritten ==
    ~crashed =>
      /\ \A a \in Actors : At(a, "commit") => snapshot = act[a].computed
      /\ SnapshotFollowsTheRow

(* A key is that of a tab that is connected, or about to drop it.           *)
KeysHaveTabs ==
    \A c \in Tabs :
        /\ act[c].step \in {"set", "add"} => tab[c] \in Connected
        /\ conn[c] # "none" /\ ~crashed => tab[c] \in Connected \/ At(c, "drop")

(* A tab that is still to lock the row, if only because it will be closed.  *)
Pending(c) ==
    \/ tab[c] \in Connected
    \/ /\ act[c].step \in {"drop", "remove", "members", "get", "trim", "delete", "lock"}
       /\ ~act[c].locked
SomeTabIsPending == \E c \in Tabs : Pending(c)

(* Nobody sees a key, writes anything but "offline", or leaves it in the    *)
(* row, unless somebody is still to come and look.                          *)
SomebodyWillLook ==
    ~crashed =>
      /\ \A a \in Actors :
            /\ act[a].locked /\ act[a].found # {} => SomeTabIsPending
            /\ At(a, "commit") /\ act[a].computed # "offline" => SomeTabIsPending
      /\ presence # "offline" =>
            SomeTabIsPending \/ \E a \in Actors : act[a].locked

(* The inductive invariant. *)
PresenceInv ==
    /\ PresenceTypeOK
    /\ RowIsLockedOnce
    /\ LocksAreHeld
    /\ SnapshotIsWritten
    /\ KeysHaveTabs
    /\ SomebodyWillLook

(* Before the first tab there is nothing to say. *)
LEMMA PresenceStarts == Init => PresenceInv
<1> SUFFICES ASSUME Init PROVE PresenceInv
  OBVIOUS
<1> USE DEF Init
<1>1. \A a \in Actors : act[a] = Ready
  OBVIOUS
<1>2. PresenceTypeOK
  <2>1. Ready \in ActRecords
    BY DEF Ready, ActRecords, Steps, Values, States
  <2> QED BY <2>1 DEF PresenceTypeOK, ActRecords, States
<1>3. RowIsLockedOnce /\ LocksAreHeld /\ SnapshotIsWritten /\ KeysHaveTabs /\ SomebodyWillLook
  BY <1>1 DEF RowIsLockedOnce, LocksAreHeld, SnapshotIsWritten, SnapshotFollowsTheRow,
              KeysHaveTabs, SomebodyWillLook, At, Ready, Actors
<1> QED BY <1>2, <1>3 DEF PresenceInv

----------------------------------------------------------------------------

(* A record changed in one of its fields is still one. *)
LEMMA RecordsStayTyped ==
    ASSUME NEW q \in ActRecords
    PROVE  /\ \A s \in Steps : [q EXCEPT !.step = s] \in ActRecords
           /\ \A s \in Steps, v \in Values :
                 [q EXCEPT !.step = s, !.value = v] \in ActRecords
           /\ \A s \in Steps, x \in SUBSET Tabs, y \in SUBSET Values, z \in SUBSET Tabs :
                 [q EXCEPT !.todo = x, !.found = y, !.stale = z, !.step = s] \in ActRecords
           /\ \A s \in Steps, v \in States, y \in SUBSET Values, z \in SUBSET Tabs :
                 [q EXCEPT !.computed = v, !.found = y, !.stale = z, !.step = s] \in ActRecords
BY DEF ActRecords

(* A fresh handler, at any step, and one that has just taken the lock.      *)
LEMMA FreshHandlers ==
    /\ Ready \in ActRecords
    /\ \A s \in Steps : [Ready EXCEPT !.step = s] \in ActRecords
    /\ \A v \in States :
          [Ready EXCEPT !.locked = TRUE, !.previous = v, !.step = "members"] \in ActRecords
<1>1. Ready \in ActRecords
  BY DEF Ready, ActRecords, Steps, Values, States
<1>2. \A v \in States :
        [Ready EXCEPT !.locked = TRUE, !.previous = v, !.step = "members"] \in ActRecords
  BY <1>1 DEF ActRecords, Steps
<1> QED BY <1>1, <1>2, RecordsStayTyped

(* A handler moves on to another step of its record. *)
LEMMA HandlersAreTyped ==
    PresenceTypeOK /\ [Next]_pvars => act' \in [Actors -> ActRecords]
<1> SUFFICES ASSUME PresenceTypeOK, [Next]_pvars PROVE act' \in [Actors -> ActRecords]
  OBVIOUS
<1>a. act \in [Actors -> ActRecords] /\ Tabs \subseteq Actors /\ Queries \subseteq Actors
  BY DEF PresenceTypeOK, ActRecords, Actors
<1>b. \A a \in Actors, q \in ActRecords : [act EXCEPT ![a] = q] \in [Actors -> ActRecords]
  BY <1>a
<1>c. \A a \in Actors, s \in Steps : Goto(a, s) => act' \in [Actors -> ActRecords]
  <2> SUFFICES ASSUME NEW a \in Actors, NEW s \in Steps, Goto(a, s)
               PROVE  act' \in [Actors -> ActRecords]
    OBVIOUS
  <2>1. [act[a] EXCEPT !.step = s] \in ActRecords
    BY <1>a, RecordsStayTyped
  <2> QED BY <1>b, <2>1 DEF Goto
<1>d. \A a \in Actors : Finish(a) => act' \in [Actors -> ActRecords]
  BY <1>a, <1>b, FreshHandlers DEF Finish, Steps
<1>1. ASSUME NEW a \in Actors, ReadMembers(a) PROVE act' \in [Actors -> ActRecords]
  <2>1. act' = [act EXCEPT ![a] = [act[a] EXCEPT !.todo = registry, !.found = {}, !.stale = {},
                          !.step = IF registry = {} THEN "delete" ELSE "get"]]
    BY <1>1 DEF ReadMembers
  <2> QED BY <1>a, <1>b, <2>1, RecordsStayTyped DEF PresenceTypeOK, Steps
<1>2. ASSUME NEW a \in Actors, NEW c \in Tabs, GetConnection(a, c)
      PROVE  act' \in [Actors -> ActRecords]
  <2> DEFINE found == act[a].found \cup (IF conn[c] = "none" THEN {}
                                        ELSE {IF act[a].locked THEN conn[c] ELSE "idle"})
             stale == act[a].stale \cup (IF conn[c] = "none" THEN {c} ELSE {})
             todo  == act[a].todo \ {c}
  <2>1. act[a] \in ActRecords
    BY <1>a
  <2>2. found \in SUBSET Values /\ stale \in SUBSET Tabs /\ todo \in SUBSET Tabs
    BY <2>1 DEF ActRecords, PresenceTypeOK, Values
  <2>3. ASSUME NEW s \in Steps,
               act' = [act EXCEPT ![a].todo = todo, ![a].found = found, ![a].stale = stale,
                                  ![a].step = s]
        PROVE  act' \in [Actors -> ActRecords]
    <3> HIDE DEF found, stale, todo
    <3>1. act' = [act EXCEPT ![a] = [act[a] EXCEPT !.todo = todo, !.found = found,
                                                   !.stale = stale, !.step = s]]
      BY <2>3
    <3>2. [act[a] EXCEPT !.todo = todo, !.found = found, !.stale = stale, !.step = s]
            \in ActRecords
      BY <2>1, <2>2, RecordsStayTyped
    <3> QED BY <1>b, <3>1, <3>2
  <2>4. {"get", "trim", Listed(a)} \subseteq Steps
    BY DEF Listed, Steps
  <2>5. act[a].todo # {c} => act' \in [Actors -> ActRecords]
    BY <1>2, <2>3, <2>4 DEF GetConnection
  <2>6. act[a].todo = {c} /\ stale # {} => act' \in [Actors -> ActRecords]
    BY <1>2, <2>3, <2>4 DEF GetConnection
  <2>7. act[a].todo = {c} /\ stale = {} => act' \in [Actors -> ActRecords]
    BY <1>2, <2>3, <2>4 DEF GetConnection
  <2> QED BY <2>5, <2>6, <2>7
<1>3. ASSUME NEW a \in Actors, TrimRegistry(a) PROVE act' \in [Actors -> ActRecords]
  BY <1>3, <1>c DEF TrimRegistry, Listed, Steps
<1>4. ASSUME NEW a \in Actors, DeleteRegistry(a) PROVE act' \in [Actors -> ActRecords]
  BY <1>4, <1>c DEF DeleteRegistry, Listed, Steps
<1>5. ASSUME NEW a \in Actors, LockUser(a) PROVE act' \in [Actors -> ActRecords]
  <2>1. act' = [act EXCEPT ![a] = [Ready EXCEPT !.locked = TRUE, !.previous = presence,
                                               !.step = "members"]]
    BY <1>5 DEF LockUser
  <2> QED BY <1>b, <2>1, FreshHandlers DEF PresenceTypeOK
<1>6. ASSUME NEW a \in Actors, SaveAndSnapshot(a) PROVE act' \in [Actors -> ActRecords]
  <2>1. act' = [act EXCEPT ![a] = [act[a] EXCEPT !.computed = Computed(act[a].found),
                                                 !.found = {}, !.stale = {}, !.step = "commit"]]
    BY <1>6 DEF SaveAndSnapshot
  <2>2. Computed(act[a].found) \in States
    BY DEF Computed, States
  <2> QED BY <1>a, <1>b, <2>1, <2>2, RecordsStayTyped DEF Steps
<1>7. ASSUME NEW a \in Actors, Commit(a) PROVE act' \in [Actors -> ActRecords]
  <2>1. CASE a \in Tabs /\ act[a].computed # act[a].previous
    <3>1. [Ready EXCEPT !.step = "publish"] \in ActRecords
      BY FreshHandlers DEF Steps
    <3> QED BY <1>7, <2>1, <3>1, <1>b DEF Commit
  <2>2. CASE ~(a \in Tabs /\ act[a].computed # act[a].previous)
    BY <1>7, <2>2, <1>d DEF Commit
  <2> QED BY <2>1, <2>2
<1>8. ASSUME NEW a \in Actors, Publish(a) PROVE act' \in [Actors -> ActRecords]
  BY <1>8, <1>d DEF Publish
<1>9. ASSUME NEW c \in Tabs, SetConnection(c) PROVE act' \in [Actors -> ActRecords]
  BY <1>9, <1>a, <1>b, FreshHandlers DEF SetConnection, Steps
<1>10. ASSUME NEW c \in Tabs, AddToRegistry(c) PROVE act' \in [Actors -> ActRecords]
  BY <1>10, <1>a, <1>c DEF AddToRegistry, Steps
<1>11. ASSUME NEW c \in Tabs, DropConnection(c) PROVE act' \in [Actors -> ActRecords]
  BY <1>11, <1>a, <1>c DEF DropConnection, Steps
<1>12. ASSUME NEW c \in Tabs, RemoveFromRegistry(c) PROVE act' \in [Actors -> ActRecords]
  BY <1>12, <1>a, <1>c DEF RemoveFromRegistry, Steps
<1>13. ASSUME NEW c \in Tabs, Connect(c) PROVE act' \in [Actors -> ActRecords]
  BY <1>13, <1>a, <1>c DEF Connect, Steps
<1>14. ASSUME NEW c \in Tabs, Heartbeat(c) PROVE act' \in [Actors -> ActRecords]
  <2>1. \E v \in Values :
          act' = [act EXCEPT ![c] = [act[c] EXCEPT !.step = "set", !.value = v]]
    BY <1>14 DEF Heartbeat, Values
  <2>2. act[c] \in ActRecords /\ c \in Actors /\ "set" \in Steps
    BY <1>a DEF Steps
  <2>3. PICK v \in Values :
          act' = [act EXCEPT ![c] = [act[c] EXCEPT !.step = "set", !.value = v]]
    BY <2>1
  <2>4. [act[c] EXCEPT !.step = "set", !.value = v] \in ActRecords
    BY <2>2, RecordsStayTyped
  <2> QED BY <1>b, <2>2, <2>3, <2>4
<1>15. ASSUME NEW c \in Tabs, NEW t \in Connected, Switch(c, t)
      PROVE  act' \in [Actors -> ActRecords]
  BY <1>15, <1>a DEF Switch
<1>16. ASSUME NEW c \in Tabs, Disconnect(c) PROVE act' \in [Actors -> ActRecords]
  BY <1>16, <1>a, <1>c DEF Disconnect, Steps
<1>17. ASSUME NEW c \in Tabs, Idle(c) PROVE act' \in [Actors -> ActRecords]
  BY <1>17, <1>a DEF Idle
<1>18. ASSUME NEW c \in Tabs, LapseConnection(c) PROVE act' \in [Actors -> ActRecords]
  BY <1>18, <1>a DEF LapseConnection
<1>19. ASSUME NEW c \in Tabs, Crash(c) PROVE act' \in [Actors -> ActRecords]
  BY <1>19, <1>a, <1>b, FreshHandlers DEF Crash
<1>20. ASSUME NEW q \in Queries, Query(q) PROVE act' \in [Actors -> ActRecords]
  BY <1>20, <1>a, <1>c DEF Query, Steps
<1>21. CASE LapseRegistry
  BY <1>21, <1>a DEF LapseRegistry
<1>22. CASE UNCHANGED pvars
  BY <1>22, <1>a DEF pvars
<1> QED BY <1>1, <1>2, <1>3, <1>4, <1>5, <1>6, <1>7, <1>8, <1>9, <1>10, <1>11, <1>12,
          <1>13, <1>14, <1>15, <1>16, <1>17, <1>18, <1>19, <1>20,
          <1>21, <1>22 DEF Next, Handle, HandleTab, Browse, Rest

(* Every step keeps the types. *)
LEMMA TypeIsInductive ==
    PresenceTypeOK /\ [Next]_pvars => PresenceTypeOK'
<1> SUFFICES ASSUME PresenceTypeOK, [Next]_pvars PROVE PresenceTypeOK'
  OBVIOUS
<1> USE DEF PresenceTypeOK, ActRecords, Connected, redis
<1>a. act' \in [Actors -> [step : Steps, value : Values,
                  todo : SUBSET Tabs, found : SUBSET Values, stale : SUBSET Tabs,
                  locked : BOOLEAN, previous : States, computed : States]]
  BY HandlersAreTyped DEF ActRecords
<1>1. ASSUME NEW a \in Actors, ReadMembers(a) PROVE PresenceTypeOK'
  BY <1>a, <1>1 DEF ReadMembers
<1>2. ASSUME NEW a \in Actors, NEW c \in Tabs, GetConnection(a, c) PROVE PresenceTypeOK'
  BY <1>a, <1>2 DEF GetConnection, Listed
<1>3. ASSUME NEW a \in Actors, TrimRegistry(a) PROVE PresenceTypeOK'
  BY <1>a, <1>3 DEF TrimRegistry, Goto, Listed
<1>4. ASSUME NEW a \in Actors, DeleteRegistry(a) PROVE PresenceTypeOK'
  BY <1>a, <1>4 DEF DeleteRegistry, Goto, Listed
<1>5. ASSUME NEW a \in Actors, LockUser(a) PROVE PresenceTypeOK'
  BY <1>a, <1>5 DEF LockUser, Ready, UserFree
<1>6. ASSUME NEW a \in Actors, SaveAndSnapshot(a) PROVE PresenceTypeOK'
  BY <1>a, <1>6 DEF SaveAndSnapshot
<1>7. ASSUME NEW a \in Actors, Commit(a) PROVE PresenceTypeOK'
  BY <1>a, <1>7 DEF Commit, Finish, Ready
<1>8. ASSUME NEW a \in Actors, Publish(a) PROVE PresenceTypeOK'
  BY <1>a, <1>8 DEF Publish, Finish, Ready
<1>9. ASSUME NEW c \in Tabs, SetConnection(c) PROVE PresenceTypeOK'
  BY <1>a, <1>9 DEF SetConnection, Ready
<1>10. ASSUME NEW c \in Tabs, AddToRegistry(c) PROVE PresenceTypeOK'
  BY <1>a, <1>10 DEF AddToRegistry, Goto
<1>11. ASSUME NEW c \in Tabs, DropConnection(c) PROVE PresenceTypeOK'
  BY <1>a, <1>11 DEF DropConnection, Goto
<1>12. ASSUME NEW c \in Tabs, RemoveFromRegistry(c) PROVE PresenceTypeOK'
  BY <1>a, <1>12 DEF RemoveFromRegistry, Goto
<1>13. ASSUME NEW c \in Tabs, Connect(c) PROVE PresenceTypeOK'
  BY <1>a, <1>13 DEF Connect, Goto
<1>14. ASSUME NEW c \in Tabs, Heartbeat(c) PROVE PresenceTypeOK'
  BY <1>a, <1>14 DEF Heartbeat
<1>15. ASSUME NEW c \in Tabs, NEW t \in Connected, Switch(c, t) PROVE PresenceTypeOK'
  BY <1>a, <1>15 DEF Switch
<1>16. ASSUME NEW c \in Tabs, Disconnect(c) PROVE PresenceTypeOK'
  BY <1>a, <1>16 DEF Disconnect, Goto
<1>17. ASSUME NEW c \in Tabs, Idle(c) PROVE PresenceTypeOK'
  BY <1>a, <1>17 DEF Idle, Values
<1>18. ASSUME NEW c \in Tabs, LapseConnection(c) PROVE PresenceTypeOK'
  BY <1>a, <1>18 DEF LapseConnection, Busy
<1>19. ASSUME NEW c \in Tabs, Crash(c) PROVE PresenceTypeOK'
  BY <1>a, <1>19 DEF Crash, Ready
<1>20. ASSUME NEW q \in Queries, Query(q) PROVE PresenceTypeOK'
  BY <1>a, <1>20 DEF Query, Goto
<1>21. CASE LapseRegistry
  BY <1>21 DEF LapseRegistry
<1>22. CASE UNCHANGED pvars
  BY <1>22 DEF pvars
<1> QED BY <1>1, <1>2, <1>3, <1>4, <1>5, <1>6, <1>7, <1>8, <1>9, <1>10, <1>11, <1>12,
          <1>13, <1>14, <1>15, <1>16, <1>17, <1>18, <1>19, <1>20,
          <1>21, <1>22 DEF Next, Handle, HandleTab, Browse, Rest

(* Every step leaves the row to one handler, who knows what it says. *)
LEMMA LockIsInductive ==
    PresenceTypeOK /\ RowIsLockedOnce /\ LocksAreHeld /\ [Next]_pvars =>
        RowIsLockedOnce' /\ LocksAreHeld'
<1> SUFFICES ASSUME PresenceTypeOK, RowIsLockedOnce, LocksAreHeld, [Next]_pvars
             PROVE  RowIsLockedOnce' /\ LocksAreHeld'
  OBVIOUS
<1> USE DEF PresenceTypeOK, Actors, RowIsLockedOnce, LocksAreHeld, At, redis, Connected
<1>1. ASSUME NEW a \in Actors, ReadMembers(a) PROVE RowIsLockedOnce' /\ LocksAreHeld'
  BY <1>1 DEF ReadMembers
<1>2. ASSUME NEW a \in Actors, NEW c \in Tabs, GetConnection(a, c)
      PROVE  RowIsLockedOnce' /\ LocksAreHeld'
  BY <1>2 DEF GetConnection, Listed
<1>3. ASSUME NEW a \in Actors, TrimRegistry(a) PROVE RowIsLockedOnce' /\ LocksAreHeld'
  BY <1>3 DEF TrimRegistry, Goto, Listed
<1>4. ASSUME NEW a \in Actors, DeleteRegistry(a) PROVE RowIsLockedOnce' /\ LocksAreHeld'
  BY <1>4 DEF DeleteRegistry, Goto, Listed
<1>5. ASSUME NEW a \in Actors, LockUser(a) PROVE RowIsLockedOnce' /\ LocksAreHeld'
  BY <1>5 DEF LockUser, Ready, UserFree
<1>6. ASSUME NEW a \in Actors, SaveAndSnapshot(a) PROVE RowIsLockedOnce' /\ LocksAreHeld'
  BY <1>6 DEF SaveAndSnapshot
<1>7. ASSUME NEW a \in Actors, Commit(a) PROVE RowIsLockedOnce' /\ LocksAreHeld'
  BY <1>7 DEF Commit, Finish, Ready
<1>8. ASSUME NEW a \in Actors, Publish(a) PROVE RowIsLockedOnce' /\ LocksAreHeld'
  BY <1>8 DEF Publish, Finish, Ready
<1>9. ASSUME NEW c \in Tabs, SetConnection(c) PROVE RowIsLockedOnce' /\ LocksAreHeld'
  BY <1>9 DEF SetConnection, Ready
<1>10. ASSUME NEW c \in Tabs, AddToRegistry(c) PROVE RowIsLockedOnce' /\ LocksAreHeld'
  BY <1>10 DEF AddToRegistry, Goto
<1>11. ASSUME NEW c \in Tabs, DropConnection(c) PROVE RowIsLockedOnce' /\ LocksAreHeld'
  BY <1>11 DEF DropConnection, Goto
<1>12. ASSUME NEW c \in Tabs, RemoveFromRegistry(c) PROVE RowIsLockedOnce' /\ LocksAreHeld'
  BY <1>12 DEF RemoveFromRegistry, Goto
<1>13. ASSUME NEW c \in Tabs, Connect(c) PROVE RowIsLockedOnce' /\ LocksAreHeld'
  BY <1>13 DEF Connect, Goto
<1>14. ASSUME NEW c \in Tabs, Heartbeat(c) PROVE RowIsLockedOnce' /\ LocksAreHeld'
  BY <1>14 DEF Heartbeat
<1>15. ASSUME NEW c \in Tabs, NEW t \in Connected, Switch(c, t)
      PROVE  RowIsLockedOnce' /\ LocksAreHeld'
  BY <1>15 DEF Switch
<1>16. ASSUME NEW c \in Tabs, Disconnect(c) PROVE RowIsLockedOnce' /\ LocksAreHeld'
  BY <1>16 DEF Disconnect, Goto
<1>17. ASSUME NEW c \in Tabs, Idle(c) PROVE RowIsLockedOnce' /\ LocksAreHeld'
  BY <1>17 DEF Idle, Values
<1>18. ASSUME NEW c \in Tabs, LapseConnection(c) PROVE RowIsLockedOnce' /\ LocksAreHeld'
  BY <1>18 DEF LapseConnection, Busy
<1>19. ASSUME NEW c \in Tabs, Crash(c) PROVE RowIsLockedOnce' /\ LocksAreHeld'
  BY <1>19 DEF Crash, Ready
<1>20. ASSUME NEW q \in Queries, Query(q) PROVE RowIsLockedOnce' /\ LocksAreHeld'
  BY <1>20, PresenceAssumption DEF Query, Goto
<1>21. CASE LapseRegistry
  BY <1>21 DEF LapseRegistry
<1>22. CASE UNCHANGED pvars
  BY <1>22 DEF pvars
<1> QED BY <1>1, <1>2, <1>3, <1>4, <1>5, <1>6, <1>7, <1>8, <1>9, <1>10, <1>11, <1>12,
          <1>13, <1>14, <1>15, <1>16, <1>17, <1>18, <1>19, <1>20,
          <1>21, <1>22 DEF Next, Handle, HandleTab, Browse, Rest

(* The snapshot is overtaken by nothing but a crash. *)
LEMMA SnapshotIsInductive ==
    PresenceTypeOK /\ RowIsLockedOnce /\ LocksAreHeld /\ SnapshotIsWritten /\ [Next]_pvars =>
        SnapshotIsWritten'
<1> SUFFICES ASSUME PresenceTypeOK, RowIsLockedOnce, LocksAreHeld, SnapshotIsWritten, [Next]_pvars
             PROVE  SnapshotIsWritten'
  OBVIOUS
<1> USE DEF PresenceTypeOK, Actors, RowIsLockedOnce, LocksAreHeld, At, redis,
            SnapshotIsWritten, SnapshotFollowsTheRow
<1>1. ASSUME NEW a \in Actors, ReadMembers(a) PROVE SnapshotIsWritten'
  BY <1>1 DEF ReadMembers
<1>2. ASSUME NEW a \in Actors, NEW c \in Tabs, GetConnection(a, c) PROVE SnapshotIsWritten'
  BY <1>2 DEF GetConnection, Listed
<1>3. ASSUME NEW a \in Actors, TrimRegistry(a) PROVE SnapshotIsWritten'
  BY <1>3 DEF TrimRegistry, Goto, Listed
<1>4. ASSUME NEW a \in Actors, DeleteRegistry(a) PROVE SnapshotIsWritten'
  BY <1>4 DEF DeleteRegistry, Goto, Listed
<1>5. ASSUME NEW a \in Actors, LockUser(a) PROVE SnapshotIsWritten'
  BY <1>5 DEF LockUser, Ready, UserFree
<1>6. ASSUME NEW a \in Actors, SaveAndSnapshot(a) PROVE SnapshotIsWritten'
  BY <1>6 DEF SaveAndSnapshot
<1>7. ASSUME NEW a \in Actors, Commit(a) PROVE SnapshotIsWritten'
  BY <1>7 DEF Commit, Finish, Ready
<1>8. ASSUME NEW a \in Actors, Publish(a) PROVE SnapshotIsWritten'
  BY <1>8 DEF Publish, Finish, Ready
<1>9. ASSUME NEW c \in Tabs, SetConnection(c) PROVE SnapshotIsWritten'
  BY <1>9 DEF SetConnection, Ready
<1>10. ASSUME NEW c \in Tabs, AddToRegistry(c) PROVE SnapshotIsWritten'
  BY <1>10 DEF AddToRegistry, Goto
<1>11. ASSUME NEW c \in Tabs, DropConnection(c) PROVE SnapshotIsWritten'
  BY <1>11 DEF DropConnection, Goto
<1>12. ASSUME NEW c \in Tabs, RemoveFromRegistry(c) PROVE SnapshotIsWritten'
  BY <1>12 DEF RemoveFromRegistry, Goto
<1>13. ASSUME NEW c \in Tabs, Connect(c) PROVE SnapshotIsWritten'
  BY <1>13 DEF Connect, Goto
<1>14. ASSUME NEW c \in Tabs, Heartbeat(c) PROVE SnapshotIsWritten'
  BY <1>14 DEF Heartbeat
<1>15. ASSUME NEW c \in Tabs, NEW t \in Connected, Switch(c, t) PROVE SnapshotIsWritten'
  BY <1>15 DEF Switch
<1>16. ASSUME NEW c \in Tabs, Disconnect(c) PROVE SnapshotIsWritten'
  BY <1>16 DEF Disconnect, Goto
<1>17. ASSUME NEW c \in Tabs, Idle(c) PROVE SnapshotIsWritten'
  BY <1>17 DEF Idle, Values
<1>18. ASSUME NEW c \in Tabs, LapseConnection(c) PROVE SnapshotIsWritten'
  BY <1>18 DEF LapseConnection, Busy
<1>19. ASSUME NEW c \in Tabs, Crash(c) PROVE SnapshotIsWritten'
  BY <1>19 DEF Crash, Ready
<1>20. ASSUME NEW q \in Queries, Query(q) PROVE SnapshotIsWritten'
  BY <1>20 DEF Query, Goto
<1>21. CASE LapseRegistry
  BY <1>21 DEF LapseRegistry
<1>22. CASE UNCHANGED pvars
  BY <1>22 DEF pvars
<1> QED BY <1>1, <1>2, <1>3, <1>4, <1>5, <1>6, <1>7, <1>8, <1>9, <1>10, <1>11, <1>12,
          <1>13, <1>14, <1>15, <1>16, <1>17, <1>18, <1>19, <1>20,
          <1>21, <1>22 DEF Next, Handle, HandleTab, Browse, Rest

(* Keys belong to tabs, whatever lapses. *)
LEMMA KeysAreInductive ==
    PresenceTypeOK /\ KeysHaveTabs /\ [Next]_pvars => KeysHaveTabs'
<1> SUFFICES ASSUME PresenceTypeOK, KeysHaveTabs, [Next]_pvars PROVE KeysHaveTabs'
  OBVIOUS
<1> USE DEF PresenceTypeOK, Actors, KeysHaveTabs, At, redis, Connected
<1>1. ASSUME NEW a \in Actors, ReadMembers(a) PROVE KeysHaveTabs'
  BY <1>1 DEF ReadMembers
<1>2. ASSUME NEW a \in Actors, NEW c \in Tabs, GetConnection(a, c) PROVE KeysHaveTabs'
  BY <1>2 DEF GetConnection, Listed
<1>3. ASSUME NEW a \in Actors, TrimRegistry(a) PROVE KeysHaveTabs'
  BY <1>3 DEF TrimRegistry, Goto, Listed
<1>4. ASSUME NEW a \in Actors, DeleteRegistry(a) PROVE KeysHaveTabs'
  BY <1>4 DEF DeleteRegistry, Goto, Listed
<1>5. ASSUME NEW a \in Actors, LockUser(a) PROVE KeysHaveTabs'
  BY <1>5 DEF LockUser, Ready, UserFree
<1>6. ASSUME NEW a \in Actors, SaveAndSnapshot(a) PROVE KeysHaveTabs'
  BY <1>6 DEF SaveAndSnapshot
<1>7. ASSUME NEW a \in Actors, Commit(a) PROVE KeysHaveTabs'
  BY <1>7 DEF Commit, Finish, Ready
<1>8. ASSUME NEW a \in Actors, Publish(a) PROVE KeysHaveTabs'
  BY <1>8 DEF Publish, Finish, Ready
<1>9. ASSUME NEW c \in Tabs, SetConnection(c) PROVE KeysHaveTabs'
  BY <1>9 DEF SetConnection, Ready
<1>10. ASSUME NEW c \in Tabs, AddToRegistry(c) PROVE KeysHaveTabs'
  BY <1>10 DEF AddToRegistry, Goto
<1>11. ASSUME NEW c \in Tabs, DropConnection(c) PROVE KeysHaveTabs'
  BY <1>11 DEF DropConnection, Goto
<1>12. ASSUME NEW c \in Tabs, RemoveFromRegistry(c) PROVE KeysHaveTabs'
  BY <1>12 DEF RemoveFromRegistry, Goto
<1>13. ASSUME NEW c \in Tabs, Connect(c) PROVE KeysHaveTabs'
  BY <1>13 DEF Connect, Goto
<1>14. ASSUME NEW c \in Tabs, Heartbeat(c) PROVE KeysHaveTabs'
  BY <1>14 DEF Heartbeat
<1>15. ASSUME NEW c \in Tabs, NEW t \in Connected, Switch(c, t) PROVE KeysHaveTabs'
  BY <1>15 DEF Switch
<1>16. ASSUME NEW c \in Tabs, Disconnect(c) PROVE KeysHaveTabs'
  BY <1>16 DEF Disconnect, Goto
<1>17. ASSUME NEW c \in Tabs, Idle(c) PROVE KeysHaveTabs'
  BY <1>17 DEF Idle, Values
<1>18. ASSUME NEW c \in Tabs, LapseConnection(c) PROVE KeysHaveTabs'
  BY <1>18 DEF LapseConnection, Busy
<1>19. ASSUME NEW c \in Tabs, Crash(c) PROVE KeysHaveTabs'
  BY <1>19 DEF Crash, Ready
<1>20. ASSUME NEW q \in Queries, Query(q) PROVE KeysHaveTabs'
  BY <1>20 DEF Query, Goto
<1>21. CASE LapseRegistry
  BY <1>21 DEF LapseRegistry
<1>22. CASE UNCHANGED pvars
  BY <1>22 DEF pvars
<1> QED BY <1>1, <1>2, <1>3, <1>4, <1>5, <1>6, <1>7, <1>8, <1>9, <1>10, <1>11, <1>12,
          <1>13, <1>14, <1>15, <1>16, <1>17, <1>18, <1>19, <1>20,
          <1>21, <1>22 DEF Next, Handle, HandleTab, Browse, Rest

(* A lock taken without a key in sight finds none and says offline. *)
LEMMA LookersAreInductive ==
    PresenceTypeOK /\ RowIsLockedOnce /\ LocksAreHeld /\ KeysHaveTabs
      /\ SomebodyWillLook /\ [Next]_pvars =>
        SomebodyWillLook'
<1> SUFFICES ASSUME PresenceTypeOK, RowIsLockedOnce, LocksAreHeld, KeysHaveTabs,
                    SomebodyWillLook, [Next]_pvars
             PROVE  SomebodyWillLook'
  OBVIOUS
<1> USE DEF PresenceTypeOK, Actors, RowIsLockedOnce, LocksAreHeld, KeysHaveTabs, At,
            redis, Connected, SomebodyWillLook, SomeTabIsPending, Pending
<1>1. ASSUME NEW a \in Actors, ReadMembers(a) PROVE SomebodyWillLook'
  <2>1. \A d \in Tabs : Pending(d) => Pending(d)'
    BY <1>1 DEF ReadMembers
  <2>2. SomeTabIsPending => SomeTabIsPending'
    BY <2>1
  <2>3. /\ \A b \in Actors :
                              /\ (act'[b].locked <=> act[b].locked)
                              /\ act'[b].computed = act[b].computed
                              /\ act'[b].found # {} => act[b].found # {}
                              /\ At(b, "commit")' => At(b, "commit")
        /\ (crashed' <=> crashed) /\ presence' = presence
    BY <1>1 DEF ReadMembers
  <2> HIDE DEF SomeTabIsPending, Pending, PresenceTypeOK, RowIsLockedOnce, KeysHaveTabs,
               LocksAreHeld
  <2> QED BY <2>2, <2>3
<1>2. ASSUME NEW a \in Actors, NEW c \in Tabs, GetConnection(a, c) PROVE SomebodyWillLook'
  <2>1. \A d \in Tabs : Pending(d) => Pending(d)'
    BY <1>2 DEF GetConnection, Listed
  <2>2. SomeTabIsPending => SomeTabIsPending'
    BY <2>1
  <2>3. /\ \A b \in Actors :
                              /\ (act'[b].locked <=> act[b].locked)
                              /\ act'[b].computed = act[b].computed
                              /\ At(b, "commit")' => At(b, "commit")
                              /\ b # a => act'[b].found = act[b].found
        /\ (crashed' <=> crashed) /\ presence' = presence
    BY <1>2 DEF GetConnection, Listed
  <2>4. act'[a].found # {} => act[a].found # {} \/ conn[c] # "none"
    BY <1>2 DEF GetConnection
  <2>5. conn[c] # "none" /\ ~crashed => Pending(c)
    BY DEF KeysHaveTabs, LocksAreHeld
  <2>6. conn[c] # "none" /\ ~crashed => SomeTabIsPending
    BY <2>5
  <2> HIDE DEF SomeTabIsPending, Pending, PresenceTypeOK, RowIsLockedOnce, KeysHaveTabs,
               LocksAreHeld
  <2> QED BY <2>2, <2>3, <2>4, <2>6
<1>3. ASSUME NEW a \in Actors, TrimRegistry(a) PROVE SomebodyWillLook'
  BY <1>3 DEF TrimRegistry, Goto, Listed
<1>4. ASSUME NEW a \in Actors, DeleteRegistry(a) PROVE SomebodyWillLook'
  BY <1>4 DEF DeleteRegistry, Goto, Listed
<1>5. ASSUME NEW a \in Actors, LockUser(a) PROVE SomebodyWillLook'
  BY <1>5 DEF LockUser, Ready, UserFree
<1>6. ASSUME NEW a \in Actors, SaveAndSnapshot(a) PROVE SomebodyWillLook'
  <2>1. \A d \in Tabs : Pending(d) => Pending(d)'
    BY <1>6 DEF SaveAndSnapshot
  <2>2. SomeTabIsPending => SomeTabIsPending'
    BY <2>1
  <2>3. /\ \A b \in Actors : (act'[b].locked <=> act[b].locked)
        /\ \A b \in Actors \ {a} : act'[b] = act[b]
        /\ act'[a].computed = Computed(act[a].found) /\ act'[a].found = {}
        /\ act[a].locked
        /\ (crashed' <=> crashed) /\ presence' = presence
    BY <1>6 DEF SaveAndSnapshot
  <2>4. Computed(act[a].found) # "offline" => act[a].found # {}
    BY DEF Computed
  <2> HIDE DEF SomeTabIsPending, Pending
  <2> QED BY <2>2, <2>3, <2>4
<1>7. ASSUME NEW a \in Actors, Commit(a) PROVE SomebodyWillLook'
  BY <1>7 DEF Commit, Finish, Ready
<1>8. ASSUME NEW a \in Actors, Publish(a) PROVE SomebodyWillLook'
  BY <1>8 DEF Publish, Finish, Ready
<1>9. ASSUME NEW c \in Tabs, SetConnection(c) PROVE SomebodyWillLook'
  BY <1>9 DEF SetConnection, Ready
<1>10. ASSUME NEW c \in Tabs, AddToRegistry(c) PROVE SomebodyWillLook'
  BY <1>10 DEF AddToRegistry, Goto
<1>11. ASSUME NEW c \in Tabs, DropConnection(c) PROVE SomebodyWillLook'
  BY <1>11 DEF DropConnection, Goto
<1>12. ASSUME NEW c \in Tabs, RemoveFromRegistry(c) PROVE SomebodyWillLook'
  BY <1>12 DEF RemoveFromRegistry, Goto
<1>13. ASSUME NEW c \in Tabs, Connect(c) PROVE SomebodyWillLook'
  BY <1>13 DEF Connect, Goto
<1>14. ASSUME NEW c \in Tabs, Heartbeat(c) PROVE SomebodyWillLook'
  BY <1>14 DEF Heartbeat
<1>15. ASSUME NEW c \in Tabs, NEW t \in Connected, Switch(c, t) PROVE SomebodyWillLook'
  BY <1>15 DEF Switch
<1>16. ASSUME NEW c \in Tabs, Disconnect(c) PROVE SomebodyWillLook'
  BY <1>16 DEF Disconnect, Goto
<1>17. ASSUME NEW c \in Tabs, Idle(c) PROVE SomebodyWillLook'
  BY <1>17 DEF Idle, Values
<1>18. ASSUME NEW c \in Tabs, LapseConnection(c) PROVE SomebodyWillLook'
  BY <1>18 DEF LapseConnection, Busy
<1>19. ASSUME NEW c \in Tabs, Crash(c) PROVE SomebodyWillLook'
  BY <1>19 DEF Crash, Ready
<1>20. ASSUME NEW q \in Queries, Query(q) PROVE SomebodyWillLook'
  BY <1>20 DEF Query, Goto
<1>21. CASE LapseRegistry
  BY <1>21 DEF LapseRegistry
<1>22. CASE UNCHANGED pvars
  BY <1>22 DEF pvars
<1> QED BY <1>1, <1>2, <1>3, <1>4, <1>5, <1>6, <1>7, <1>8, <1>9, <1>10, <1>11, <1>12,
          <1>13, <1>14, <1>15, <1>16, <1>17, <1>18, <1>19, <1>20,
          <1>21, <1>22 DEF Next, Handle, HandleTab, Browse, Rest

(* What ChangesAreAnnounced says of one step. *)
Announced ==
    \A c \in Tabs :
        At(c, "commit") /\ act'[c].step # "commit" /\ ~(crashed' /\ tab'[c] = "closed")
            => (act'[c].step = "publish" <=> presence' # presence)

(* Only a commit, or a crash, takes a handler past its commit. *)
LEMMA CommitsAnnounce ==
    PresenceTypeOK /\ LocksAreHeld /\ [Next]_pvars => Announced
<1> SUFFICES ASSUME PresenceTypeOK, LocksAreHeld, [Next]_pvars PROVE Announced
  OBVIOUS
<1> USE DEF PresenceTypeOK, LocksAreHeld, Announced, Actors, At, redis
<1>1. ASSUME NEW a \in Actors, ReadMembers(a) PROVE Announced
  BY <1>1 DEF ReadMembers
<1>2. ASSUME NEW a \in Actors, NEW c \in Tabs, GetConnection(a, c) PROVE Announced
  BY <1>2 DEF GetConnection, Listed
<1>3. ASSUME NEW a \in Actors, TrimRegistry(a) PROVE Announced
  BY <1>3 DEF TrimRegistry, Goto, Listed
<1>4. ASSUME NEW a \in Actors, DeleteRegistry(a) PROVE Announced
  BY <1>4 DEF DeleteRegistry, Goto, Listed
<1>5. ASSUME NEW a \in Actors, LockUser(a) PROVE Announced
  BY <1>5 DEF LockUser, Ready, UserFree
<1>6. ASSUME NEW a \in Actors, SaveAndSnapshot(a) PROVE Announced
  BY <1>6 DEF SaveAndSnapshot
<1>7. ASSUME NEW a \in Actors, Commit(a) PROVE Announced
  BY <1>7 DEF Commit, Finish, Ready
<1>8. ASSUME NEW a \in Actors, Publish(a) PROVE Announced
  BY <1>8 DEF Publish, Finish, Ready
<1>9. ASSUME NEW c \in Tabs, SetConnection(c) PROVE Announced
  BY <1>9 DEF SetConnection, Ready
<1>10. ASSUME NEW c \in Tabs, AddToRegistry(c) PROVE Announced
  BY <1>10 DEF AddToRegistry, Goto
<1>11. ASSUME NEW c \in Tabs, DropConnection(c) PROVE Announced
  BY <1>11 DEF DropConnection, Goto
<1>12. ASSUME NEW c \in Tabs, RemoveFromRegistry(c) PROVE Announced
  BY <1>12 DEF RemoveFromRegistry, Goto
<1>13. ASSUME NEW c \in Tabs, Connect(c) PROVE Announced
  BY <1>13 DEF Connect, Goto
<1>14. ASSUME NEW c \in Tabs, Heartbeat(c) PROVE Announced
  BY <1>14 DEF Heartbeat
<1>15. ASSUME NEW c \in Tabs, NEW t \in Connected, Switch(c, t) PROVE Announced
  BY <1>15 DEF Switch
<1>16. ASSUME NEW c \in Tabs, Disconnect(c) PROVE Announced
  BY <1>16 DEF Disconnect, Goto
<1>17. ASSUME NEW c \in Tabs, Idle(c) PROVE Announced
  BY <1>17 DEF Idle, Values
<1>18. ASSUME NEW c \in Tabs, LapseConnection(c) PROVE Announced
  BY <1>18 DEF LapseConnection, Busy
<1>19. ASSUME NEW c \in Tabs, Crash(c) PROVE Announced
  BY <1>19 DEF Crash, Ready
<1>20. ASSUME NEW q \in Queries, Query(q) PROVE Announced
  BY <1>20 DEF Query, Goto
<1>21. CASE LapseRegistry
  BY <1>21 DEF LapseRegistry
<1>22. CASE UNCHANGED pvars
  BY <1>22 DEF pvars
<1> QED BY <1>1, <1>2, <1>3, <1>4, <1>5, <1>6, <1>7, <1>8, <1>9, <1>10, <1>11, <1>12,
          <1>13, <1>14, <1>15, <1>16, <1>17, <1>18, <1>19, <1>20,
          <1>21, <1>22 DEF Next, Handle, HandleTab, Browse, Rest

----------------------------------------------------------------------------

(* The invariant holds whatever the handlers, the queries and the crashes.  *)
THEOREM PresenceInvariant == Spec => []PresenceInv
<1>1. PresenceInv /\ [Next]_pvars => PresenceInv'
  BY TypeIsInductive, LockIsInductive, SnapshotIsInductive, KeysAreInductive,
     LookersAreInductive DEF PresenceInv
<1> QED BY <1>1, PresenceStarts, PTL DEF Spec

(* Once the last tab has closed and its handler is through, the user is     *)
(* offline, whoever recomputed last and whatever it had seen.               *)
THEOREM LastTabLeavesOffline == Spec => []OfflineAfterTheLastTab
<1>1. PresenceInv => OfflineAfterTheLastTab
  <2> SUFFICES ASSUME PresenceInv, \A a \in Actors : ~Busy(a), ~crashed,
                      \A c \in Tabs : tab[c] \in {"new", "closed"}
               PROVE  presence = "offline"
    BY DEF OfflineAfterTheLastTab
  <2>1. \A a \in Actors : act[a].step \in {"ready", "done"} /\ ~act[a].locked
    BY DEF Busy, PresenceInv, LocksAreHeld
  <2>2. ~SomeTabIsPending
    BY <2>1 DEF SomeTabIsPending, Pending, Connected, Actors
  <2> QED BY <2>1, <2>2 DEF PresenceInv, SomebodyWillLook
<1> QED BY <1>1, PresenceInvariant, PTL

(* The snapshot, which is written before the commit and outside of it, says *)
(* what the row says whenever nobody is between the two.                    *)
THEOREM SnapshotsFollow == Spec => []SnapshotFollowsTheRow
<1>1. PresenceInv => SnapshotFollowsTheRow
  BY DEF PresenceInv, SnapshotIsWritten, SnapshotFollowsTheRow
<1> QED BY <1>1, PresenceInvariant, PTL

(* An event of a connection announces the change it makes and no other: the *)
(* presence it compares with is still that of the row when it commits.      *)
THEOREM CommitsAreAnnounced == Spec => ChangesAreAnnounced
<1>1. PresenceInv /\ [Next]_pvars => [Announced]_pvars
  BY CommitsAnnounce DEF PresenceInv
<1> QED BY <1>1, PresenceInvariant, PTL DEF Spec, ChangesAreAnnounced, Announced

=============================================================================
