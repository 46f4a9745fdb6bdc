------------------------- MODULE MessageFeedProofs -------------------------
(***************************************************************************)
(* Proofs about MessageFeed for any number of messages, any page size and  *)
(* any number of writes and of chats opened.  The lists of the model are   *)
(* enumerations of finite sets, so the first lemmas say what is in an      *)
(* ordered or a sorted list; then FeedInv relates the pages under way, the *)
(* news in the air and the screen to the rows of the server.               *)
(***************************************************************************)

EXTENDS MessageFeed, FiniteSetTheorems, FunctionTheorems, TLAPS

Shots == [m : Messages, v : 1..2]
News  == [m : Messages, v : 1..3]

ServerTypeOK ==
    /\ phase \in [Messages -> {"unborn", "inserted", "there", "gone"}]
    /\ version \in [Messages -> 0..3]
    /\ mine \subseteq Messages
    /\ marker \in 0..N
    /\ marked \subseteq Messages
    /\ overtaken \subseteq Messages

BrowserTypeOK ==
    /\ air \subseteq News
    /\ answer = NoAnswer \/ answer \in [m : Messages, v : 0..3]
    /\ active \in {"here", "elsewhere"}
    /\ load \in [state : {"asked", "read", "loaded"}, page : Seq(Shots), next : Nat]
    /\ older \in [state : {"idle", "asked", "read"}, chat : {"here", "elsewhere"},
                  offset : Nat, page : Seq(Shots), next : Nat, stale : BOOLEAN]
    /\ items \in Seq(Shots)
    /\ cursor \in Nat

HistoryTypeOK ==
    /\ due \subseteq Messages
    /\ excused \subseteq Messages
    /\ seen \in [Messages -> 0..3]
    /\ atRead \subseteq Messages
    /\ shrunk \in BOOLEAN
    /\ strayed \in BOOLEAN

FeedTypeOK == ServerTypeOK /\ BrowserTypeOK /\ HistoryTypeOK

(* What has happened to a message, and what the news say of it.             *)
VersionsFollowThePhase ==
    \A m \in Messages :
        /\ phase[m] \in {"unborn", "inserted"} => version[m] = 0
        /\ phase[m] = "there" => version[m] \in 1..2
        /\ phase[m] = "gone" => version[m] \in {0, 3}

NewsIsNotAhead ==
    /\ \A n \in air : n.v <= version[n.m]
    /\ answer.v # 0 => answer \in News /\ answer.v <= version[answer.m]
    /\ \A i \in DOMAIN older.page : older.page[i].v <= version[older.page[i].m]
    /\ \A m \in Messages : seen[m] <= version[m]

(* The marker: messages are inserted in the order of their ranks, an open   *)
(* one below a committed one or below the marker is overtaken.              *)
BornInOrder == \A m \in Born : \A k \in 1..m : k \in Born
OpenBelowIsOvertaken ==
    \A m \in Open : /\ \A k \in Messages : version[k] # 0 /\ m < k => m \in overtaken
                    /\ m <= marker => m \in overtaken
MarkerIsBorn == \A m \in Messages \ Born : marker < m

MarkInv == /\ BornInOrder /\ OpenBelowIsOvertaken /\ MarkerIsBorn
           /\ OnlyOvertakenMessagesSlip

(* A page that was asked for in the other chat is empty, and a response     *)
(* that is not stale belongs to the chat that is shown.                     *)
LoadInv ==
    /\ load.state = "asked" => load.page = <<>>
    /\ load.state = "read" /\ active = "elsewhere" => load.page = <<>>
    /\ older.state = "asked" => older.page = <<>>
    /\ older.state = "read" /\ older.chat = "elsewhere" => older.page = <<>>
    /\ older.state # "idle" /\ ~older.stale => load.state = "loaded" /\ older.chat = active
    /\ older.state = "asked" /\ ~older.stale => older.offset = cursor
    /\ ChatsDoNotMix

(* A message is as the browser saw it last, or the news of the change is in *)
(* the air, or it is excused; and the screen, or the page that is about to  *)
(* fill it, has it as the browser saw it last.                              *)
NewsIsUnderWay ==
    \A m \in Messages \ excused :
        seen[m] < version[m] => [m |-> m, v |-> version[m]] \in air
DueIsPosted == \A m \in due : version[m] # 0
PageIsAsSeen ==
    active = "here" /\ load.state = "read" =>
        \A m \in due \ excused :
            seen[m] = 0 \/ \E i \in DOMAIN load.page : load.page[i] = [m |-> m, v |-> seen[m]]
ScreenIsAsSeen ==
    active = "here" /\ load.state = "loaded" /\ ~strayed =>
        \A m \in due \ excused : seen[m] = version[m] =>
            IF version[m] = 3 THEN Shown(m) = {} ELSE version[m] \in Shown(m)

ScreenInv == NewsIsUnderWay /\ DueIsPosted /\ PageIsAsSeen /\ ScreenIsAsSeen

(* What was there at the start and is not shown is among the older messages *)
(* the cursor, or the page that is about to move it, leaves.                *)
Beyond(offset) == {m \in Messages : offset # 0 /\ Newer(m) >= offset}

StartIsThere == shrunk \/ atRead \subseteq There
PageOrBeyond ==
    active = "here" /\ load.state = "read" /\ ~shrunk =>
        atRead \subseteq MessagesIn(load.page) \cup Beyond(load.next)
ShownOrBeyond ==
    active = "here" /\ load.state = "loaded" /\ ~strayed /\ ~shrunk =>
        \A m \in atRead : Shown(m) # {} \/ m \in Beyond(cursor)
OlderOrBeyond ==
    active = "here" /\ older.state = "read" /\ ~older.stale /\ ~strayed /\ ~shrunk =>
        \A m \in atRead :
            Shown(m) # {} \/ m \in MessagesIn(older.page) \cup Beyond(older.next)

ScrollInv == StartIsThere /\ PageOrBeyond /\ ShownOrBeyond /\ OlderOrBeyond

FeedInv ==
    /\ FeedTypeOK
    /\ VersionsFollowThePhase /\ NewsIsNotAhead
    /\ MarkInv /\ LoadInv /\ ScreenInv /\ ScrollInv

----------------------------------------------------------------------------
(* Lists.                                                                   *)

(* A place given to every element of a finite set, no two the same, is      *)
(* given out completely.                                                    *)
LEMMA PlacesAreTaken ==
    ASSUME NEW D, IsFiniteSet(D), NEW f \in [D -> 1..Cardinality(D)],
           \A x, y \in D : f[x] = f[y] => x = y
    PROVE  \A k \in 1..Cardinality(D) : \E x \in D : f[x] = k
<1> DEFINE c == Cardinality(D)
<1>1. c \in Nat
  BY FS_CardinalityType
<1>2. IsFiniteSet(1..c) /\ Cardinality(1..c) = c
  BY <1>1, FS_Interval
<1>3. f \in Injection(D, 1..c)
  BY DEF Injection, IsInjective
<1>4. f \in Surjection(D, 1..c)
  BY <1>2, <1>3, FS_Injection
<1> QED  BY <1>4 DEF Surjection

(* The numbers not above one of them are a proper part of those not above a *)
(* larger one.                                                              *)
LEMMA LaterIsMore ==
    ASSUME NEW S, IsFiniteSet(S), S \subseteq Nat, NEW a \in S, NEW b \in S, a < b
    PROVE  Cardinality({y \in S : y <= a}) < Cardinality({y \in S : y <= b})
<1> DEFINE A == {y \in S : y <= a}
           B == {y \in S : y <= b}
<1>1. IsFiniteSet(B)
  BY FS_Subset
<1> a \in Nat /\ b \in Nat /\ \A y \in S : y \in Nat
  OBVIOUS
<1>2. \A y \in A : y \in B
  OBVIOUS
<1>3. b \in B /\ b \notin A
  OBVIOUS
<1>4. /\ Cardinality(A) <= Cardinality(B)
      /\ Cardinality(A) = Cardinality(B) => A = B
      /\ IsFiniteSet(A)
  BY <1>1, <1>2, FS_Subset
<1>5. Cardinality(A) \in Nat /\ Cardinality(B) \in Nat
  BY <1>1, <1>4, FS_CardinalityType
<1> QED  BY <1>3, <1>4, <1>5

(* A set in order is a list of its elements, and of all of them; the last   *)
(* is the largest.                                                          *)
LEMMA InOrderLists ==
    ASSUME NEW S, IsFiniteSet(S), S \subseteq Nat
    PROVE  /\ Cardinality(S) \in Nat
           /\ InOrder(S) \in [1..Cardinality(S) -> S]
           /\ \A x \in S : \E k \in 1..Cardinality(S) : InOrder(S)[k] = x
           /\ S # {} => /\ 1 \in 1..Cardinality(S) /\ Cardinality(S) \in 1..Cardinality(S)
                        /\ \A x \in S : x <= InOrder(S)[Cardinality(S)]
<1> DEFINE c == Cardinality(S)
           below(x) == Cardinality({y \in S : y <= x})
           f == [x \in S |-> below(x)]
<1>1. c \in Nat
  BY FS_CardinalityType
<1>2. \A x \in S : below(x) \in 1..c
  <2> SUFFICES ASSUME NEW x \in S PROVE below(x) \in 1..c
    OBVIOUS
  <2> DEFINE B == {y \in S : y <= x}
  <2>1. IsFiniteSet(B) /\ Cardinality(B) <= c
    BY FS_Subset
  <2>2. x \in B
    OBVIOUS
  <2>3. Cardinality(B) \in Nat /\ Cardinality(B) # 0
    BY <2>1, <2>2, FS_CardinalityType, FS_EmptySet
  <2> QED  BY <1>1, <2>1, <2>3
<1>3. \A x, y \in S : below(x) = below(y) => x = y
  <2> SUFFICES ASSUME NEW x \in S, NEW y \in S, below(x) = below(y) PROVE x = y
    OBVIOUS
  <2>1. below(x) \in Nat /\ below(y) \in Nat
    BY <1>1, <1>2
  <2>2. \A v, w \in S : v < w => below(v) < below(w)
    BY LaterIsMore
  <2>3. x \in Nat /\ y \in Nat
    OBVIOUS
  <2> HIDE DEF below
  <2> QED  BY <2>1, <2>2, <2>3
<1>4. \A k \in 1..c : \E x \in S : below(x) = k
  <2>1. f \in [S -> 1..c]
    BY <1>2
  <2>2. \A x, y \in S : f[x] = f[y] => x = y
    BY <1>3
  <2>3. \A k \in 1..c : \E x \in S : f[x] = k
    BY <2>1, <2>2, PlacesAreTaken
  <2> QED  BY <2>3
<1>5. \A k \in 1..c : InOrder(S)[k] \in S /\ below(InOrder(S)[k]) = k
  BY <1>4 DEF InOrder
<1>6. InOrder(S) \in [1..c -> S]
  BY <1>5 DEF InOrder
<1>7. \A x \in S : InOrder(S)[below(x)] = x
  BY <1>2, <1>3, <1>5
<1>8. ASSUME S # {}
      PROVE  1 \in 1..c /\ c \in 1..c /\ \A x \in S : x <= InOrder(S)[c]
  <2>1. 1 \in 1..c /\ c \in 1..c
    BY <1>1, <1>8, FS_EmptySet
  <2> DEFINE z == InOrder(S)[c]
             B == {y \in S : y <= z}
  <2>2. z \in S /\ Cardinality(B) = c
    BY <1>5, <2>1
  <2>3. B = S
    BY <2>2, FS_Subset
  <2> QED  BY <2>1, <2>3
<1> QED  BY <1>1, <1>2, <1>6, <1>7, <1>8

(* Sorting changes the order of a list and not what is in it.               *)
LEMMA SortedLists ==
    ASSUME NEW list \in Seq(Shots)
    PROVE  /\ Sorted(list) \in Seq(Shots)
           /\ DOMAIN Sorted(list) = DOMAIN list
           /\ \A k \in DOMAIN list : \E i \in DOMAIN list : Sorted(list)[k] = list[i]
           /\ \A i \in DOMAIN list : \E k \in DOMAIN list : Sorted(list)[k] = list[i]
<1> DEFINE D == DOMAIN list
           B(i) == {j \in D : \/ list[j].m < list[i].m
                              \/ list[j].m = list[i].m /\ j <= i}
           f == [i \in D |-> Cardinality(B(i))]
<1>1. /\ Len(list) \in Nat /\ D = 1..Len(list)
      /\ IsFiniteSet(D) /\ Cardinality(D) = Len(list)
  <2>1. Len(list) \in Nat /\ D = 1..Len(list)
    OBVIOUS
  <2>2. IsFiniteSet(1..Len(list)) /\ Cardinality(1..Len(list)) = Len(list)
    BY <2>1, FS_Interval
  <2> HIDE DEF D
  <2> QED  BY <2>1, <2>2
<1>2. \A i \in D : list[i] \in Shots /\ list[i].m \in Nat
  <2>1. \A i \in D : list[i] \in Shots
    OBVIOUS
  <2> QED  BY <2>1, FeedAssumption DEF Shots, Messages
<1>3. \A i \in D : /\ IsFiniteSet(B(i)) /\ B(i) \subseteq D /\ i \in B(i)
                   /\ Cardinality(B(i)) \in D
  <2> SUFFICES ASSUME NEW i \in D
               PROVE  /\ IsFiniteSet(B(i)) /\ B(i) \subseteq D /\ i \in B(i)
                      /\ Cardinality(B(i)) \in D
    OBVIOUS
  <2>1. B(i) \subseteq D /\ i \in B(i)
    BY <1>1
  <2>2. IsFiniteSet(B(i)) /\ Cardinality(B(i)) <= Cardinality(D)
    BY <1>1, <2>1, FS_Subset
  <2>3. Cardinality(B(i)) \in Nat /\ Cardinality(B(i)) # 0
    BY <2>1, <2>2, FS_CardinalityType, FS_EmptySet
  <2> QED  BY <1>1, <2>1, <2>2, <2>3
<1>4. ASSUME NEW i \in D, NEW j \in D,
             list[i].m < list[j].m \/ (list[i].m = list[j].m /\ i < j)
      PROVE  Cardinality(B(i)) # Cardinality(B(j))
  <2>1. B(i) \subseteq B(j)
    BY <1>1, <1>2, <1>4
  <2>2. j \in B(j) /\ j \notin B(i)
    BY <1>1, <1>2, <1>4
  <2>3. Cardinality(B(i)) = Cardinality(B(j)) => B(i) = B(j)
    <3> HIDE DEF B
    <3> QED  BY <1>3, <2>1, FS_Subset
  <2> QED  BY <2>2, <2>3
<1>5. \A i, j \in D : f[i] = f[j] => i = j
  <2> SUFFICES ASSUME NEW i \in D, NEW j \in D, f[i] = f[j] PROVE i = j
    OBVIOUS
  <2>1. Cardinality(B(i)) = Cardinality(B(j))
    OBVIOUS
  <2>2. ~(list[i].m < list[j].m \/ (list[i].m = list[j].m /\ i < j))
    <3> HIDE DEF B, f
    <3> QED  BY <1>4, <2>1
  <2>3. ~(list[j].m < list[i].m \/ (list[j].m = list[i].m /\ j < i))
    <3> HIDE DEF B, f
    <3> QED  BY <1>4, <2>1
  <2> QED  BY <1>1, <1>2, <2>2, <2>3
<1>6. f \in [D -> 1..Cardinality(D)]
  <2> HIDE DEF B
  <2> QED  BY <1>1, <1>3
<1>7. \A k \in D : \E i \in D : f[i] = k
  <2> HIDE DEF f, D
  <2>1. D = 1..Cardinality(D)
    BY <1>1
  <2>2. \A k \in 1..Cardinality(D) : \E i \in D : f[i] = k
    <3>1. IsFiniteSet(D)
      BY <1>1
    <3> QED  BY <3>1, <1>5, <1>6, PlacesAreTaken, Zenon
  <2> QED  BY <2>1, <2>2
<1> DEFINE at(k) == CHOOSE i \in D : f[i] = k
<1>8. \A k \in D : at(k) \in D /\ f[at(k)] = k
  <2> HIDE DEF f
  <2> QED  BY <1>7
<1>9. \A i \in D : Place(list, i) = f[i]
  BY DEF Place
<1>10. \A k \in D : Sorted(list)[k] = list[at(k)]
  BY <1>9 DEF Sorted
<1>11. DOMAIN Sorted(list) = D
  BY DEF Sorted
<1>12. \A i \in D : f[i] \in D /\ at(f[i]) = i
  <2> HIDE DEF f
  <2> QED  BY <1>1, <1>5, <1>6, <1>8
<1>13. Sorted(list) = [k \in 1..Len(list) |-> Sorted(list)[k]]
  BY <1>1 DEF Sorted
<1>14. Sorted(list) \in Seq(Shots)
  <2> HIDE DEF at
  <2>1. \A k \in 1..Len(list) : Sorted(list)[k] \in Shots
    BY <1>1, <1>2, <1>8, <1>10
  <2> QED  BY <1>1, <1>13, <2>1
<1> HIDE DEF f, at
<1> QED  BY <1>8, <1>10, <1>11, <1>12, <1>14

(* Taking the copies of a message off a list leaves the others.             *)
LEMMA WithoutLists ==
    ASSUME items \in Seq(Shots), NEW n
    PROVE  /\ Without(n) \in Seq(Shots)
           /\ \A k \in DOMAIN Without(n) :
                 \E i \in DOMAIN items : items[i].m # n.m /\ Without(n)[k] = items[i]
           /\ \A i \in DOMAIN items :
                 items[i].m # n.m => \E k \in DOMAIN Without(n) : Without(n)[k] = items[i]
<1> DEFINE S == DOMAIN items \ CopiesOf(n.m)
<1>1. /\ DOMAIN items = 1..Len(items) /\ Len(items) \in Nat
      /\ \A i \in DOMAIN items : items[i] \in Shots
  OBVIOUS
<1>2. IsFiniteSet(DOMAIN items)
  BY <1>1, FS_Interval
<1>3. S \subseteq DOMAIN items
  OBVIOUS
<1>4. IsFiniteSet(S) /\ S \subseteq Nat
  BY <1>1, <1>2, <1>3, FS_Subset
<1>5. \A i \in DOMAIN items : i \in S <=> items[i].m # n.m
  BY DEF CopiesOf
<1> HIDE DEF S
<1>6. /\ Cardinality(S) \in Nat
      /\ InOrder(S) \in [1..Cardinality(S) -> S]
      /\ \A x \in S : \E k \in 1..Cardinality(S) : InOrder(S)[k] = x
  BY <1>4, InOrderLists
<1>7. Without(n) = [k \in 1..Cardinality(S) |-> items[InOrder(S)[k]]]
  BY <1>6 DEF Without, S
<1>8. \A k \in 1..Cardinality(S) : items[InOrder(S)[k]] \in Shots
  BY <1>1, <1>3, <1>6
<1>9. Without(n) \in Seq(Shots)
  BY <1>6, <1>7, <1>8
<1>10. DOMAIN Without(n) = 1..Cardinality(S)
  BY <1>7
<1>11. \A k \in DOMAIN Without(n) :
          \E i \in DOMAIN items : items[i].m # n.m /\ Without(n)[k] = items[i]
  BY <1>3, <1>5, <1>6, <1>7, <1>10
<1>12. \A i \in DOMAIN items :
          items[i].m # n.m => \E k \in DOMAIN Without(n) : Without(n)[k] = items[i]
  <2> SUFFICES ASSUME NEW i \in DOMAIN items, items[i].m # n.m
               PROVE  \E k \in DOMAIN Without(n) : Without(n)[k] = items[i]
    OBVIOUS
  <2>1. PICK k \in 1..Cardinality(S) : InOrder(S)[k] = i
    BY <1>5, <1>6
  <2> QED  BY <1>7, <1>10, <2>1
<1> QED  BY <1>9, <1>11, <1>12

(* A message that is put on the screen is there in the version that came,   *)
(* and the others stay.                                                     *)
LEMMA UpsertLists ==
    ASSUME items \in Seq(Shots), NEW n \in Shots
    PROVE  /\ Upsert(n) \in Seq(Shots)
           /\ \A k \in DOMAIN Upsert(n) :
                 Upsert(n)[k] = n \/ \E i \in DOMAIN items : Upsert(n)[k] = items[i]
           /\ \A i \in DOMAIN items :
                 items[i].m # n.m => \E k \in DOMAIN Upsert(n) : Upsert(n)[k] = items[i]
           /\ \E k \in DOMAIN Upsert(n) : Upsert(n)[k] = n
<1> DEFINE S     == CopiesOf(n.m)
           first == InOrder(S)[1]
           list  == IF OnScreen(n.m) THEN [items EXCEPT ![first] = n] ELSE Append(items, n)
<1>1. /\ DOMAIN items = 1..Len(items) /\ Len(items) \in Nat
      /\ \A i \in DOMAIN items : items[i] \in Shots
  OBVIOUS
<1>2. IsFiniteSet(S) /\ S \subseteq Nat
  <2>1. IsFiniteSet(DOMAIN items)
    BY <1>1, FS_Interval
  <2>2. S \subseteq DOMAIN items
    BY DEF CopiesOf
  <2> HIDE DEF S
  <2> QED  BY <1>1, <2>1, <2>2, FS_Subset
<1>3. OnScreen(n.m) => first \in DOMAIN items /\ items[first].m = n.m
  <2> SUFFICES ASSUME OnScreen(n.m) PROVE first \in S
    BY DEF CopiesOf
  <2>1. S # {}
    BY DEF OnScreen, MessagesIn, CopiesOf
  <2> HIDE DEF S
  <2> QED  BY <1>2, <2>1, InOrderLists
<1>4. /\ list \in Seq(Shots)
      /\ \A k \in DOMAIN list : list[k] = n \/ \E i \in DOMAIN items : list[k] = items[i]
      /\ \A i \in DOMAIN items : items[i].m # n.m => \E k \in DOMAIN list : list[k] = items[i]
      /\ \E k \in DOMAIN list : list[k] = n
  <2>1. CASE OnScreen(n.m)
    <3>1. list = [items EXCEPT ![first] = n]
      BY <2>1
    <3>2. first \in DOMAIN items /\ items[first].m = n.m
      BY <1>3, <2>1
    <3> HIDE DEF list, first
    <3>3. list \in Seq(Shots) /\ DOMAIN list = DOMAIN items
      BY <3>1, <3>2
    <3>4. \A k \in DOMAIN items : list[k] = IF k = first THEN n ELSE items[k]
      BY <3>1
    <3> QED  BY <3>2, <3>3, <3>4
  <2>2. CASE ~OnScreen(n.m)
    <3>1. list = Append(items, n)
      BY <2>2
    <3> HIDE DEF list
    <3>2. list \in Seq(Shots) /\ DOMAIN list = 1..(Len(items) + 1)
      BY <3>1
    <3>3. /\ list[Len(items) + 1] = n
          /\ \A i \in 1..Len(items) : list[i] = items[i]
      BY <3>1
    <3> QED  BY <1>1, <3>2, <3>3
  <2> QED  BY <2>1, <2>2
<1>5. Upsert(n) = Sorted(list)
  BY DEF Upsert
<1> HIDE DEF list
<1>6. /\ Sorted(list) \in Seq(Shots) /\ DOMAIN Sorted(list) = DOMAIN list
      /\ \A k \in DOMAIN list : \E i \in DOMAIN list : Sorted(list)[k] = list[i]
      /\ \A i \in DOMAIN list : \E k \in DOMAIN list : Sorted(list)[k] = list[i]
  BY <1>4, SortedLists
<1>7. \A k \in DOMAIN Upsert(n) :
         Upsert(n)[k] = n \/ \E i \in DOMAIN items : Upsert(n)[k] = items[i]
  BY <1>4, <1>5, <1>6
<1>8. \A i \in DOMAIN items :
         items[i].m # n.m => \E k \in DOMAIN Upsert(n) : Upsert(n)[k] = items[i]
  <2> SUFFICES ASSUME NEW i \in DOMAIN items, items[i].m # n.m
               PROVE  \E k \in DOMAIN Upsert(n) : Upsert(n)[k] = items[i]
    OBVIOUS
  <2>1. PICK j \in DOMAIN list : list[j] = items[i]
    BY <1>4
  <2> QED  BY <1>5, <1>6, <2>1
<1>9. \E k \in DOMAIN Upsert(n) : Upsert(n)[k] = n
  BY <1>4, <1>5, <1>6
<1> QED  BY <1>5, <1>6, <1>7, <1>8, <1>9

(* What a piece of news does to the screen.                                 *)
LEMMA ApplyShows ==
    ASSUME items \in Seq(Shots), NEW n \in News, Apply(n)
    PROVE  /\ items' \in Seq(Shots)
           /\ \A m \in Messages : m # n.m => Shown(m)' = Shown(m)
           /\ IF n.v = 3 THEN Shown(n.m)' = {} ELSE n.v \in Shown(n.m)'
<1>1. \A m : Shown(m) = {items[i].v : i \in {j \in DOMAIN items : items[j].m = m}}
  BY DEF Shown, CopiesOf
<1>2. \A m : Shown(m)' = {items'[i].v : i \in {j \in DOMAIN items' : items'[j].m = m}}
  BY DEF Shown, CopiesOf
<1>3. CASE n.v = 3
  <2>1. items' = Without(n)
    BY <1>3 DEF Apply
  <2>2. /\ items' \in Seq(Shots)
        /\ \A k \in DOMAIN items' :
              \E i \in DOMAIN items : items[i].m # n.m /\ items'[k] = items[i]
        /\ \A i \in DOMAIN items :
              items[i].m # n.m => \E k \in DOMAIN items' : items'[k] = items[i]
    BY <2>1, WithoutLists
  <2>3. ASSUME NEW m \in Messages, m # n.m
        PROVE  Shown(m)' = Shown(m)
    <3>1. \A v \in Shown(m) : v \in Shown(m)'
      BY <1>1, <1>2, <2>2, <2>3
    <3>2. \A v \in Shown(m)' : v \in Shown(m)
      <4> SUFFICES ASSUME NEW v \in Shown(m)' PROVE v \in Shown(m)
        OBVIOUS
      <4>1. PICK k \in DOMAIN items' : items'[k].m = m /\ items'[k].v = v
        BY <1>2
      <4>2. PICK i \in DOMAIN items : items'[k] = items[i]
        BY <2>2
      <4> QED  BY <1>1, <4>1, <4>2
    <3> QED  BY <3>1, <3>2
  <2>4. Shown(n.m)' = {}
    <3>1. ASSUME NEW k \in DOMAIN items' PROVE items'[k].m # n.m
      <4>1. PICK i \in DOMAIN items : items[i].m # n.m /\ items'[k] = items[i]
        BY <2>2
      <4> QED  BY <4>1
    <3> QED  BY <1>2, <3>1
  <2> QED  BY <1>3, <2>2, <2>3, <2>4
<1>4. CASE n.v # 3
  <2>1. items' = Upsert(n) /\ n \in Shots
    BY <1>4 DEF Apply, News, Shots
  <2>2. /\ items' \in Seq(Shots)
        /\ \A k \in DOMAIN items' :
              items'[k] = n \/ \E i \in DOMAIN items : items'[k] = items[i]
        /\ \A i \in DOMAIN items :
              items[i].m # n.m => \E k \in DOMAIN items' : items'[k] = items[i]
        /\ \E k \in DOMAIN items' : items'[k] = n
    BY <2>1, UpsertLists
  <2>3. ASSUME NEW m \in Messages, m # n.m
        PROVE  Shown(m)' = Shown(m)
    <3>1. \A v \in Shown(m) : v \in Shown(m)'
      BY <1>1, <1>2, <2>2, <2>3
    <3>2. \A v \in Shown(m)' : v \in Shown(m)
      BY <1>1, <1>2, <2>2, <2>3
    <3> QED  BY <3>1, <3>2
  <2>4. n.v \in Shown(n.m)'
    BY <1>2, <2>2
  <2> QED  BY <1>4, <2>2, <2>3, <2>4
<1> QED  BY <1>3, <1>4

----------------------------------------------------------------------------
(* Pages.                                                                   *)

(* The messages that are there are finitely many, and fewer than those are  *)
(* newer than one of them.                                                  *)
LEMMA ThereIsFinite ==
    /\ IsFiniteSet(Messages) /\ Messages \subseteq Nat
    /\ There \subseteq Messages /\ IsFiniteSet(There) /\ Cardinality(There) \in Nat
    /\ \A m : Newer(m) \in Nat
    /\ \A m \in There : Newer(m) < Cardinality(There)
<1>1. IsFiniteSet(Messages) /\ Messages \subseteq Nat
  BY FeedAssumption, FS_Interval DEF Messages
<1>2. There \subseteq Messages
  BY DEF There
<1>3. IsFiniteSet(There) /\ Cardinality(There) \in Nat
  BY <1>1, <1>2, FS_Subset, FS_CardinalityType
<1>4. ASSUME NEW m
      PROVE  /\ IsFiniteSet({k \in There : k > m})
             /\ Newer(m) \in Nat /\ Newer(m) <= Cardinality(There)
             /\ Newer(m) = Cardinality(There) => {k \in There : k > m} = There
  <2> DEFINE K == {k \in There : k > m}
  <2>1. K \subseteq There
    OBVIOUS
  <2>2. /\ IsFiniteSet(K) /\ Cardinality(K) <= Cardinality(There)
        /\ Cardinality(There) = Cardinality(K) => There = K
    BY <1>3, <2>1, FS_Subset
  <2>3. Cardinality(K) \in Nat
    BY <2>2, FS_CardinalityType
  <2> QED  BY <2>2, <2>3 DEF Newer
<1>5. \A m \in There : ~(m > m)
  BY <1>1, <1>2
<1>6. \A m \in There : Newer(m) < Cardinality(There)
  <2> SUFFICES ASSUME NEW m \in There PROVE Newer(m) < Cardinality(There)
    OBVIOUS
  <2>1. Newer(m) \in Nat /\ Newer(m) <= Cardinality(There)
    BY <1>4
  <2>2. Newer(m) # Cardinality(There)
    <3>1. Newer(m) = Cardinality(There) => m \in {k \in There : k > m}
      BY <1>4
    <3> QED  BY <1>5, <3>1
  <2> QED  BY <1>3, <2>1, <2>2
<1> QED  BY <1>1, <1>2, <1>3, <1>4, <1>6

(* A page has the messages of its ranks as they are, and no others.         *)
LEMMA PageHolds ==
    ASSUME ServerTypeOK, VersionsFollowThePhase, NEW offset \in Nat
    PROVE  /\ Page(offset) \in Seq(Shots)
           /\ \A i \in DOMAIN Page(offset) : \E m \in There : Page(offset)[i] = Item(m)
           /\ \A m \in There :
                 Newer(m) >= offset /\ Newer(m) < offset + PageSize =>
                     \E i \in DOMAIN Page(offset) : Page(offset)[i] = Item(m)
<1> DEFINE S == {m \in There : Newer(m) \in offset..(offset + PageSize - 1)}
<1>1. S \subseteq There /\ PageSize \in Nat
  BY FeedAssumption
<1>2. IsFiniteSet(S) /\ S \subseteq Nat
  BY <1>1, ThereIsFinite, FS_Subset
<1>3. \A m \in There : Newer(m) >= offset /\ Newer(m) < offset + PageSize => m \in S
  BY <1>1, ThereIsFinite
<1> HIDE DEF S
<1>4. /\ Cardinality(S) \in Nat
      /\ InOrder(S) \in [1..Cardinality(S) -> S]
      /\ \A x \in S : \E k \in 1..Cardinality(S) : InOrder(S)[k] = x
  BY <1>2, InOrderLists
<1>5. Page(offset) = [i \in 1..Cardinality(S) |-> Item(InOrder(S)[i])]
  BY <1>4 DEF Page, S
<1>6. \A m \in There : Item(m) \in Shots
  BY DEF Item, Shots, There, VersionsFollowThePhase
<1>7. \A i \in 1..Cardinality(S) : InOrder(S)[i] \in There
  BY <1>1, <1>4
<1>8. Page(offset) \in Seq(Shots)
  <2>1. \A i \in 1..Cardinality(S) : Item(InOrder(S)[i]) \in Shots
    BY <1>6, <1>7
  <2> HIDE DEF Item
  <2> QED  BY <1>4, <1>5, <2>1
<1>9. DOMAIN Page(offset) = 1..Cardinality(S)
  BY <1>5
<1>10. \A i \in 1..Cardinality(S) : Page(offset)[i] = Item(InOrder(S)[i])
  BY <1>5
<1>11. \A i \in DOMAIN Page(offset) : \E m \in There : Page(offset)[i] = Item(m)
  BY <1>7, <1>9, <1>10
<1>12. ASSUME NEW m \in There, Newer(m) >= offset, Newer(m) < offset + PageSize
       PROVE  \E i \in DOMAIN Page(offset) : Page(offset)[i] = Item(m)
  <2>1. PICK k \in 1..Cardinality(S) : InOrder(S)[k] = m
    BY <1>3, <1>4, <1>12
  <2> QED  BY <1>9, <1>10, <2>1
<1> QED  BY <1>8, <1>11, <1>12

(* Whoever is not newer than an offset is on its page or beyond the cursor  *)
(* the page comes with.                                                     *)
LEMMA PageOrCursor ==
    ASSUME ServerTypeOK, VersionsFollowThePhase, NEW offset \in Nat, NEW m \in There,
           Newer(m) >= offset
    PROVE  m \in MessagesIn(Page(offset)) \cup Beyond(NextCursor(offset))
<1>1. /\ PageSize \in Nat /\ PageSize # 0 /\ m \in Messages /\ Newer(m) \in Nat
      /\ Newer(m) < Cardinality(There) /\ Cardinality(There) \in Nat
  BY FeedAssumption, ThereIsFinite
<1>2. CASE Newer(m) < offset + PageSize
  <2>1. PICK i \in DOMAIN Page(offset) : Page(offset)[i] = Item(m)
    BY <1>2, PageHolds
  <2> QED  BY <2>1 DEF MessagesIn, Item
<1>3. CASE ~(Newer(m) < offset + PageSize)
  <2>1. Newer(m) >= offset + PageSize /\ Cardinality(There) > offset + PageSize
    BY <1>1, <1>3
  <2>2. NextCursor(offset) = offset + PageSize /\ offset + PageSize # 0
    BY <1>1, <2>1 DEF NextCursor
  <2> QED  BY <1>1, <2>1, <2>2 DEF Beyond
<1> QED  BY <1>2, <1>3

(* The cursor of a page is a number.                                        *)
LEMMA CursorIsNat == ASSUME NEW offset \in Nat PROVE NextCursor(offset) \in Nat
  BY FeedAssumption DEF NextCursor

(* While nothing is deleted, a message only gets further from the newest.   *)
LEMMA NewerGrows ==
    ASSUME There \subseteq There', NEW m \in Messages
    PROVE  Newer(m) \in Nat /\ Newer(m)' \in Nat /\ Newer(m) <= Newer(m)'
<1> DEFINE K == {k \in There : k > m}
           L == {k \in There' : k > m}
<1>1. IsFiniteSet(There')
  <2>1. There' \subseteq Messages
    BY DEF There
  <2> QED  BY <2>1, ThereIsFinite, FS_Subset
<1>2. K \subseteq L /\ L \subseteq There'
  OBVIOUS
<1>3. IsFiniteSet(L)
  BY <1>1, <1>2, FS_Subset
<1>4. Cardinality(K) <= Cardinality(L) /\ Cardinality(L) \in Nat
  BY <1>2, <1>3, FS_Subset, FS_CardinalityType
<1> QED  BY <1>4, ThereIsFinite DEF Newer

----------------------------------------------------------------------------
(* One step.                                                                *)

(* The rows of the server and its marker keep their types.                  *)
LEMMA ServerTypesStay ==
    ASSUME FeedInv, [Work]_fvars
    PROVE  ServerTypeOK'
<1> USE FeedAssumption
<1> SUFFICES ASSUME ServerTypeOK
             PROVE  ServerTypeOK'
  BY DEF FeedInv, FeedTypeOK
<1>1. ASSUME NEW m \in Messages, NEW own \in BOOLEAN, Insert(m, own)
      PROVE  ServerTypeOK'
  BY <1>1 DEF Insert, ServerTypeOK, server, browser, history, marks
<1>2. ASSUME NEW m \in Messages, NEW own \in BOOLEAN, Edit(m, own)
      PROVE  ServerTypeOK'
  BY <1>2 DEF Edit, ServerTypeOK, server, browser, history, marks
<1>3. ASSUME NEW m \in Messages, NEW own \in BOOLEAN, Delete(m, own)
      PROVE  ServerTypeOK'
  BY <1>3 DEF Delete, ServerTypeOK, server, browser, history, marks
<1>4. ASSUME NEW m \in Messages, CommitPost(m)
      PROVE  ServerTypeOK'
  BY <1>4 DEF CommitPost, ServerTypeOK, Open, server, browser, history, marks
<1>5. ASSUME NEW m \in Messages, RollBackPost(m)
      PROVE  ServerTypeOK'
  BY <1>5 DEF RollBackPost, ServerTypeOK, server, browser, history, marks
<1>6. ASSUME MarkRead
      PROVE  ServerTypeOK'
  <2>1. /\ ServerTypeOK /\ UNCHANGED server
        /\ marked' \subseteq Messages /\ overtaken' \subseteq Messages
    BY <1>6 DEF MarkRead, ServerTypeOK, There, Open
  <2>2. marker' \in 0..N
    <3>1. Cardinality(Born) \in 0..N
      <4>1. Born \subseteq 1..N
        BY DEF Born, Messages
      <4>2. IsFiniteSet(1..N) /\ Cardinality(1..N) = N
        BY FS_Interval
      <4>3. IsFiniteSet(Born) /\ Cardinality(Born) <= N
        BY <4>1, <4>2, FS_Subset
      <4> QED  BY <4>3, FS_CardinalityType
    <3>2. There # {} => Newest \in There
      BY ThereIsFinite, InOrderLists DEF Newest
    <3> QED  BY <1>6, <3>1, <3>2 DEF MarkRead, There, Messages
  <2> QED  BY <2>1, <2>2 DEF ServerTypeOK, server
<1>7. ASSUME OpenChat
      PROVE  ServerTypeOK'
  BY <1>7 DEF OpenChat, ServerTypeOK, server, browser, history, marks
<1>8. ASSUME Subscribe
      PROVE  ServerTypeOK'
  BY <1>8 DEF Subscribe, ServerTypeOK, server, browser, history, marks
<1>9. ASSUME ReadNewest
      PROVE  ServerTypeOK'
  BY <1>9 DEF ReadNewest, ServerTypeOK, server, browser, history, marks
<1>10. ASSUME ShowNewest
      PROVE  ServerTypeOK'
  BY <1>10 DEF ShowNewest, ServerTypeOK, server, browser, history, marks
<1>11. ASSUME AskOlder
      PROVE  ServerTypeOK'
  BY <1>11 DEF AskOlder, ServerTypeOK, server, browser, history, marks
<1>12. ASSUME ReadOlder
      PROVE  ServerTypeOK'
  BY <1>12 DEF ReadOlder, ServerTypeOK, server, browser, history, marks
<1>13. ASSUME ShowOlder
      PROVE  ServerTypeOK'
  BY <1>13 DEF ShowOlder, ServerTypeOK, server, browser, history, marks
<1>14. ASSUME HandleAnswer
      PROVE  ServerTypeOK'
  BY <1>14 DEF HandleAnswer, ServerTypeOK, server, browser, history, marks
<1>15. ASSUME NEW n \in air, HandleNews(n)
      PROVE  ServerTypeOK'
  BY <1>15 DEF HandleNews, ServerTypeOK, server, browser, history, marks
<1>16. ASSUME NEW n \in air, LoseNews(n)
      PROVE  ServerTypeOK'
  BY <1>16 DEF LoseNews, ServerTypeOK, server, browser, history, marks
<1>17. ASSUME UNCHANGED fvars
      PROVE  ServerTypeOK'
  BY <1>17 DEF ServerTypeOK, fvars, server, browser, history, marks
<1> QED  BY <1>1, <1>2, <1>3, <1>4, <1>5, <1>6, <1>7, <1>8, <1>9, <1>10,
    <1>11, <1>12, <1>13, <1>14, <1>15, <1>16, <1>17 DEF Work, Writing, Load,
    Hear, Rest

(* What has happened to a message agrees with its phase after every step.   *)
LEMMA VersionsStay ==
    ASSUME FeedInv, [Work]_fvars
    PROVE  VersionsFollowThePhase'
<1> SUFFICES ASSUME ServerTypeOK, VersionsFollowThePhase
             PROVE  VersionsFollowThePhase'
  BY DEF FeedInv, FeedTypeOK
<1>1. ASSUME NEW m \in Messages, NEW own \in BOOLEAN, Insert(m, own)
      PROVE  VersionsFollowThePhase'
  BY <1>1 DEF Insert, VersionsFollowThePhase, ServerTypeOK, server, browser,
      history, marks
<1>2. ASSUME NEW m \in Messages, NEW own \in BOOLEAN, Edit(m, own)
      PROVE  VersionsFollowThePhase'
  BY <1>2 DEF Edit, VersionsFollowThePhase, ServerTypeOK, There, server,
      browser, history, marks
<1>3. ASSUME NEW m \in Messages, NEW own \in BOOLEAN, Delete(m, own)
      PROVE  VersionsFollowThePhase'
  BY <1>3 DEF Delete, VersionsFollowThePhase, ServerTypeOK, There, server,
      browser, history, marks
<1>4. ASSUME NEW m \in Messages, CommitPost(m)
      PROVE  VersionsFollowThePhase'
  BY <1>4 DEF CommitPost, VersionsFollowThePhase, ServerTypeOK, server,
      browser, history, marks
<1>5. ASSUME NEW m \in Messages, RollBackPost(m)
      PROVE  VersionsFollowThePhase'
  BY <1>5 DEF RollBackPost, VersionsFollowThePhase, ServerTypeOK, server,
      browser, history, marks
<1>6. ASSUME MarkRead
      PROVE  VersionsFollowThePhase'
  BY <1>6 DEF MarkRead, VersionsFollowThePhase, ServerTypeOK, server,
      browser, history, marks
<1>7. ASSUME OpenChat
      PROVE  VersionsFollowThePhase'
  BY <1>7 DEF OpenChat, VersionsFollowThePhase, ServerTypeOK, server,
      browser, history, marks
<1>8. ASSUME Subscribe
      PROVE  VersionsFollowThePhase'
  BY <1>8 DEF Subscribe, VersionsFollowThePhase, ServerTypeOK, server,
      browser, history, marks
<1>9. ASSUME ReadNewest
      PROVE  VersionsFollowThePhase'
  BY <1>9 DEF ReadNewest, VersionsFollowThePhase, ServerTypeOK, server,
      browser, history, marks
<1>10. ASSUME ShowNewest
      PROVE  VersionsFollowThePhase'
  BY <1>10 DEF ShowNewest, VersionsFollowThePhase, ServerTypeOK, server,
      browser, history, marks
<1>11. ASSUME AskOlder
      PROVE  VersionsFollowThePhase'
  BY <1>11 DEF AskOlder, VersionsFollowThePhase, ServerTypeOK, server,
      browser, history, marks
<1>12. ASSUME ReadOlder
      PROVE  VersionsFollowThePhase'
  BY <1>12 DEF ReadOlder, VersionsFollowThePhase, ServerTypeOK, server,
      browser, history, marks
<1>13. ASSUME ShowOlder
      PROVE  VersionsFollowThePhase'
  BY <1>13 DEF ShowOlder, VersionsFollowThePhase, ServerTypeOK, server,
      browser, history, marks
<1>14. ASSUME HandleAnswer
      PROVE  VersionsFollowThePhase'
  BY <1>14 DEF HandleAnswer, VersionsFollowThePhase, ServerTypeOK, server,
      browser, history, marks
<1>15. ASSUME NEW n \in air, HandleNews(n)
      PROVE  VersionsFollowThePhase'
  BY <1>15 DEF HandleNews, VersionsFollowThePhase, ServerTypeOK, server,
      browser, history, marks
<1>16. ASSUME NEW n \in air, LoseNews(n)
      PROVE  VersionsFollowThePhase'
  BY <1>16 DEF LoseNews, VersionsFollowThePhase, ServerTypeOK, server,
      browser, history, marks
<1>17. ASSUME UNCHANGED fvars
      PROVE  VersionsFollowThePhase'
  BY <1>17 DEF VersionsFollowThePhase, ServerTypeOK, fvars, server, browser,
      history, marks
<1> QED  BY <1>1, <1>2, <1>3, <1>4, <1>5, <1>6, <1>7, <1>8, <1>9, <1>10,
    <1>11, <1>12, <1>13, <1>14, <1>15, <1>16, <1>17 DEF Work, Writing, Load,
    Hear, Rest

(* A committed message stays committed and its version only grows.          *)
LEMMA VersionsGrow ==
    ASSUME FeedInv, [Work]_fvars, NEW k \in Messages
    PROVE  version[k] \in Nat /\ version'[k] \in Nat /\ version[k] <= version'[k]
<1>1. ServerTypeOK /\ VersionsFollowThePhase /\ ServerTypeOK'
  BY ServerTypesStay DEF FeedInv, FeedTypeOK
<1>2. \/ UNCHANGED version
      \/ \E m \in Messages :
            \/ phase[m] = "inserted" /\ version' = [version EXCEPT ![m] = 1]
            \/ version[m] = 1 /\ version' = [version EXCEPT ![m] = 2]
            \/ m \in There /\ version' = [version EXCEPT ![m] = 3]
  BY DEF Work, Writing, Load, Hear, Rest, Insert, Edit, Delete, CommitPost, RollBackPost,
         MarkRead, OpenChat, Subscribe, ReadNewest, ShowNewest, AskOlder, ReadOlder,
         ShowOlder, HandleAnswer, HandleNews, LoseNews, fvars, server
<1> QED  BY <1>1, <1>2 DEF ServerTypeOK, VersionsFollowThePhase, There

(* Unless something is deleted, what is there stays there.                  *)
LEMMA ThereStays ==
    ASSUME FeedInv, [Work]_fvars
    PROVE  shrunk' = TRUE \/ There \subseteq There'
<1>1. ServerTypeOK
  BY DEF FeedInv, FeedTypeOK
<1>2. \/ UNCHANGED phase
      \/ shrunk' = TRUE
      \/ \E m \in Messages, p \in {"inserted", "there", "gone"} :
            phase[m] \in {"unborn", "inserted"} /\ phase' = [phase EXCEPT ![m] = p]
  BY DEF Work, Writing, Load, Hear, Rest, Insert, Edit, Delete, CommitPost, RollBackPost,
         MarkRead, OpenChat, Subscribe, ReadNewest, ShowNewest, AskOlder, ReadOlder,
         ShowOlder, HandleAnswer, HandleNews, LoseNews, fvars, server
<1> QED  BY <1>1, <1>2 DEF ServerTypeOK, There

(* The state of the browser keeps its types.                                *)
LEMMA BrowserTypesStay ==
    ASSUME FeedInv, [Work]_fvars
    PROVE  BrowserTypeOK'
<1> USE FeedAssumption
<1>a. ServerTypeOK /\ BrowserTypeOK /\ HistoryTypeOK
  BY DEF FeedInv, FeedTypeOK
<1>b. NewsIsNotAhead /\ VersionsFollowThePhase
  BY DEF FeedInv
<1>1. ASSUME NEW m \in Messages, NEW own \in BOOLEAN, Insert(m, own)
      PROVE  BrowserTypeOK'
  BY <1>1, <1>a DEF Insert, BrowserTypeOK, browser
<1>2. ASSUME NEW m \in Messages, NEW own \in BOOLEAN, Edit(m, own)
      PROVE  BrowserTypeOK'
  BY <1>2, <1>a DEF Edit, BrowserTypeOK, browser, Asks, Publish, News
<1>3. ASSUME NEW m \in Messages, NEW own \in BOOLEAN, Delete(m, own)
      PROVE  BrowserTypeOK'
  BY <1>3, <1>a DEF Delete, BrowserTypeOK, browser, Asks, Publish, News
<1>4. ASSUME NEW m \in Messages, CommitPost(m)
      PROVE  BrowserTypeOK'
  BY <1>4, <1>a DEF CommitPost, BrowserTypeOK, browser, Publish, News
<1>5. ASSUME NEW m \in Messages, RollBackPost(m)
      PROVE  BrowserTypeOK'
  BY <1>5, <1>a DEF RollBackPost, BrowserTypeOK, browser
<1>6. ASSUME MarkRead
      PROVE  BrowserTypeOK'
  BY <1>6, <1>a DEF MarkRead, BrowserTypeOK, browser
<1>7. ASSUME OpenChat
      PROVE  BrowserTypeOK'
  <2>1. load' \in [state : {"asked", "read", "loaded"}, page : Seq(Shots), next : Nat]
    <3>1. <<>> \in Seq(Shots)
      OBVIOUS
    <3> QED  BY <1>7, <3>1 DEF OpenChat
  <2>2. older' \in [state : {"idle", "asked", "read"}, chat : {"here", "elsewhere"},
                    offset : Nat, page : Seq(Shots), next : Nat, stale : BOOLEAN]
    BY <1>7, <1>a DEF OpenChat, BrowserTypeOK
  <2> QED  BY <1>7, <1>a, <2>1, <2>2 DEF OpenChat, BrowserTypeOK
<1>8. ASSUME Subscribe
      PROVE  BrowserTypeOK'
  BY <1>8, <1>a DEF Subscribe, BrowserTypeOK
<1>9. ASSUME ReadNewest
      PROVE  BrowserTypeOK'
  <2>1. Page(0) \in Seq(Shots) /\ NextCursor(0) \in Nat
    BY <1>a, <1>b, PageHolds, CursorIsNat
  <2>2. load' \in [state : {"asked", "read", "loaded"}, page : Seq(Shots), next : Nat]
    <3>1. /\ load \in [state : {"asked", "read", "loaded"}, page : Seq(Shots), next : Nat]
          /\ \/ load' = [state |-> "read", page |-> Page(0), next |-> NextCursor(0)]
             \/ load' = [load EXCEPT !.state = "read"]
      BY <1>9, <1>a DEF ReadNewest, BrowserTypeOK
    <3> QED  BY <2>1, <3>1
  <2> QED  BY <1>9, <1>a, <2>2 DEF ReadNewest, BrowserTypeOK
<1>10. ASSUME ShowNewest
      PROVE  BrowserTypeOK'
  <2>1. load' \in [state : {"asked", "read", "loaded"}, page : Seq(Shots), next : Nat]
    <3>1. <<>> \in Seq(Shots)
      OBVIOUS
    <3> QED  BY <1>10, <3>1 DEF ShowNewest
  <2>2. load.page \in Seq(Shots) /\ load.next \in Nat
    BY <1>a DEF BrowserTypeOK
  <2> QED  BY <1>10, <1>a, <2>1, <2>2 DEF ShowNewest, BrowserTypeOK
<1>11. ASSUME AskOlder
      PROVE  BrowserTypeOK'
  <2>1. older' \in [state : {"idle", "asked", "read"}, chat : {"here", "elsewhere"},
                    offset : Nat, page : Seq(Shots), next : Nat, stale : BOOLEAN]
    <3>1. <<>> \in Seq(Shots)
      OBVIOUS
    <3> QED  BY <1>11, <1>a, <3>1 DEF AskOlder, NoOlder, BrowserTypeOK
  <2> QED  BY <1>11, <1>a, <2>1 DEF AskOlder, BrowserTypeOK
<1>12. ASSUME ReadOlder
      PROVE  BrowserTypeOK'
  <2>1. older.offset \in Nat
    BY <1>a DEF BrowserTypeOK
  <2>2. Page(older.offset) \in Seq(Shots) /\ NextCursor(older.offset) \in Nat
    BY <1>a, <1>b, <2>1, PageHolds, CursorIsNat
  <2>3. older' \in [state : {"idle", "asked", "read"}, chat : {"here", "elsewhere"},
                    offset : Nat, page : Seq(Shots), next : Nat, stale : BOOLEAN]
    BY <1>12, <1>a, <2>2 DEF ReadOlder, BrowserTypeOK
  <2> QED  BY <1>12, <1>a, <2>3 DEF ReadOlder, BrowserTypeOK
<1>13. ASSUME ShowOlder
      PROVE  BrowserTypeOK'
  <2>1. older' \in [state : {"idle", "asked", "read"}, chat : {"here", "elsewhere"},
                    offset : Nat, page : Seq(Shots), next : Nat, stale : BOOLEAN]
    <3>1. <<>> \in Seq(Shots)
      OBVIOUS
    <3> QED  BY <1>13, <1>a, <3>1 DEF ShowOlder, NoOlder, BrowserTypeOK
  <2>2. older.page \in Seq(Shots) /\ older.next \in Nat
    BY <1>a DEF BrowserTypeOK
  <2>3. items' \in Seq(Shots)
    BY <1>13, <1>a, <2>2 DEF ShowOlder, BrowserTypeOK
  <2> QED  BY <1>13, <1>a, <2>1, <2>2, <2>3 DEF ShowOlder, BrowserTypeOK
<1>14. ASSUME HandleAnswer
      PROVE  BrowserTypeOK'
  <2>1. answer \in News /\ Apply(answer) /\ items \in Seq(Shots)
    BY <1>14, <1>a, <1>b DEF HandleAnswer, BrowserTypeOK, NewsIsNotAhead
  <2>2. items' \in Seq(Shots)
    BY <2>1, ApplyShows
  <2> QED  BY <1>14, <1>a, <2>2 DEF HandleAnswer, BrowserTypeOK
<1>15. ASSUME NEW n \in air, HandleNews(n)
      PROVE  BrowserTypeOK'
  <2>1. n \in News /\ Apply(n) /\ items \in Seq(Shots)
    BY <1>15, <1>a DEF HandleNews, BrowserTypeOK
  <2>2. items' \in Seq(Shots)
    BY <2>1, ApplyShows
  <2> QED  BY <1>15, <1>a, <2>2 DEF HandleNews, BrowserTypeOK
<1>16. ASSUME NEW n \in air, LoseNews(n)
      PROVE  BrowserTypeOK'
  BY <1>16, <1>a DEF LoseNews, BrowserTypeOK, browser
<1>17. ASSUME UNCHANGED fvars
      PROVE  BrowserTypeOK'
  BY <1>17, <1>a DEF fvars, BrowserTypeOK, browser
<1> QED  BY <1>1, <1>2, <1>3, <1>4, <1>5, <1>6, <1>7, <1>8, <1>9, <1>10,
    <1>11, <1>12, <1>13, <1>14, <1>15, <1>16, <1>17 DEF Work, Writing, Load,
    Hear, Rest

(* So does what is remembered of the past.                                  *)
LEMMA HistoryTypesStay ==
    ASSUME FeedInv, [Work]_fvars
    PROVE  HistoryTypeOK'
<1> USE FeedAssumption
<1>a. ServerTypeOK /\ BrowserTypeOK /\ HistoryTypeOK
  BY DEF FeedInv, FeedTypeOK
<1>b. NewsIsNotAhead /\ VersionsFollowThePhase
  BY DEF FeedInv
<1>1. ASSUME NEW m \in Messages, NEW own \in BOOLEAN, Insert(m, own)
      PROVE  HistoryTypeOK'
  BY <1>1, <1>a DEF Insert, HistoryTypeOK, history
<1>2. ASSUME NEW m \in Messages, NEW own \in BOOLEAN, Edit(m, own)
      PROVE  HistoryTypeOK'
  BY <1>2, <1>a DEF Edit, HistoryTypeOK, history
<1>3. ASSUME NEW m \in Messages, NEW own \in BOOLEAN, Delete(m, own)
      PROVE  HistoryTypeOK'
  BY <1>3, <1>a DEF Delete, HistoryTypeOK, history
<1>4. ASSUME NEW m \in Messages, CommitPost(m)
      PROVE  HistoryTypeOK'
  BY <1>4, <1>a DEF CommitPost, HistoryTypeOK, history
<1>5. ASSUME NEW m \in Messages, RollBackPost(m)
      PROVE  HistoryTypeOK'
  BY <1>5, <1>a DEF RollBackPost, HistoryTypeOK, history
<1>6. ASSUME MarkRead
      PROVE  HistoryTypeOK'
  BY <1>6, <1>a DEF MarkRead, HistoryTypeOK, history
<1>7. ASSUME OpenChat
      PROVE  HistoryTypeOK'
  BY <1>7, <1>a DEF OpenChat, HistoryTypeOK, history
<1>8. ASSUME Subscribe
      PROVE  HistoryTypeOK'
  BY <1>8, <1>a DEF Subscribe, HistoryTypeOK, history
<1>9. ASSUME ReadNewest
      PROVE  HistoryTypeOK'
  <2>1. MessagesIn(Page(0)) \subseteq Messages
    BY <1>a, <1>b, PageHolds DEF MessagesIn, There, Item
  <2> QED  BY <1>9, <1>a, <2>1 DEF ReadNewest, HistoryTypeOK, ServerTypeOK, There
<1>10. ASSUME ShowNewest
      PROVE  HistoryTypeOK'
  BY <1>10, <1>a DEF ShowNewest, HistoryTypeOK, history
<1>11. ASSUME AskOlder
      PROVE  HistoryTypeOK'
  BY <1>11, <1>a DEF AskOlder, HistoryTypeOK, history
<1>12. ASSUME ReadOlder
      PROVE  HistoryTypeOK'
  BY <1>12, <1>a DEF ReadOlder, HistoryTypeOK, history
<1>13. ASSUME ShowOlder
      PROVE  HistoryTypeOK'
  <2>1. older.page \in Seq(Shots)
    BY <1>a DEF BrowserTypeOK
  <2>2. MessagesIn(older.page) \subseteq Messages
    <3>1. \A i \in DOMAIN older.page : older.page[i].m \in Messages
      <4>1. \A i \in DOMAIN older.page : older.page[i] \in Shots
        BY <2>1
      <4> QED  BY <4>1 DEF Shots
    <3> QED  BY <3>1 DEF MessagesIn
  <2>3. /\ due' \subseteq Messages /\ excused' \subseteq Messages
        /\ strayed' \in BOOLEAN
    BY <1>13, <1>a, <2>2 DEF ShowOlder, HistoryTypeOK, BrowserTypeOK
  <2> QED  BY <1>13, <1>a, <2>3 DEF ShowOlder, HistoryTypeOK
<1>14. ASSUME HandleAnswer
      PROVE  HistoryTypeOK'
  <2>1. answer.m \in Messages /\ answer.v \in 0..3
    BY <1>14, <1>a, <1>b DEF HandleAnswer, BrowserTypeOK, NewsIsNotAhead, News
  <2> QED  BY <1>14, <1>a, <2>1 DEF HandleAnswer, Apply, HistoryTypeOK
<1>15. ASSUME NEW n \in air, HandleNews(n)
      PROVE  HistoryTypeOK'
  <2>1. n.m \in Messages /\ n.v \in 0..3
    BY <1>15, <1>a, <1>b DEF HandleNews, BrowserTypeOK, NewsIsNotAhead, News
  <2> QED  BY <1>15, <1>a, <2>1 DEF HandleNews, Apply, HistoryTypeOK
<1>16. ASSUME NEW n \in air, LoseNews(n)
      PROVE  HistoryTypeOK'
  <2>1. n.m \in Messages
    BY <1>16, <1>a DEF BrowserTypeOK, News
  <2> QED  BY <1>16, <1>a, <2>1 DEF LoseNews, HistoryTypeOK
<1>17. ASSUME UNCHANGED fvars
      PROVE  HistoryTypeOK'
  BY <1>17, <1>a DEF fvars, HistoryTypeOK, history
<1> QED  BY <1>1, <1>2, <1>3, <1>4, <1>5, <1>6, <1>7, <1>8, <1>9, <1>10,
    <1>11, <1>12, <1>13, <1>14, <1>15, <1>16, <1>17 DEF Work, Writing, Load,
    Hear, Rest

(* No news, no answer, no page and no memory is ahead of the server.        *)
LEMMA NewsStaysBehind ==
    ASSUME FeedInv, [Work]_fvars
    PROVE  NewsIsNotAhead'
<1>1. ServerTypeOK /\ BrowserTypeOK /\ HistoryTypeOK /\ ServerTypeOK'
  BY ServerTypesStay DEF FeedInv, FeedTypeOK
<1>2. NewsIsNotAhead /\ VersionsFollowThePhase
  BY DEF FeedInv
<1>3. \A k \in Messages : version[k] \in Nat /\ version'[k] \in Nat /\ version[k] <= version'[k]
  BY VersionsGrow
<1>4. \A n \in air' : n.v <= version'[n.m]
  <2>1. air' \subseteq air \/ \E m \in Messages : air' = air \cup {[m |-> m, v |-> version'[m]]}
    BY <1>1 DEF Work, Writing, Load, Hear, Rest, Insert, Edit, Delete, CommitPost,
           RollBackPost, MarkRead, OpenChat, Subscribe, ReadNewest, ShowNewest, AskOlder,
           ReadOlder, ShowOlder, HandleAnswer, HandleNews, LoseNews, fvars, Publish,
           There, ServerTypeOK
  <2>2. \A n \in air : n.v <= version'[n.m]
    <3> SUFFICES ASSUME NEW n \in air PROVE n.v <= version'[n.m]
      OBVIOUS
    <3>1. n.m \in Messages /\ n.v \in Nat /\ n.v <= version[n.m]
      BY <1>1, <1>2 DEF BrowserTypeOK, NewsIsNotAhead, News
    <3> QED  BY <1>3, <3>1
  <2> QED  BY <1>3, <2>1, <2>2
<1>5. answer'.v # 0 => answer' \in News /\ answer'.v <= version'[answer'.m]
  <2>1. \/ answer' = answer
        \/ answer'.v = 0
        \/ \E m \in Messages : /\ version'[m] \in 1..3
                               /\ answer' = [m |-> m, v |-> version'[m]]
    BY <1>1 DEF Work, Writing, Load, Hear, Rest, Insert, Edit, Delete, CommitPost,
           RollBackPost, MarkRead, OpenChat, Subscribe, ReadNewest, ShowNewest, AskOlder,
           ReadOlder, ShowOlder, HandleAnswer, HandleNews, LoseNews, fvars, Asks, NoAnswer,
           There, ServerTypeOK
  <2>2. CASE answer' = answer
    <3> SUFFICES ASSUME answer.v # 0 PROVE answer \in News /\ answer.v <= version'[answer.m]
      BY <2>2
    <3>1. answer \in News /\ answer.v <= version[answer.m]
      BY <1>2 DEF NewsIsNotAhead
    <3> QED  BY <1>3, <3>1 DEF News
  <2>3. CASE \E m \in Messages : /\ version'[m] \in 1..3
                                 /\ answer' = [m |-> m, v |-> version'[m]]
    BY <1>3, <2>3 DEF News
  <2> QED  BY <2>1, <2>2, <2>3
<1>6. \A i \in DOMAIN older'.page : older'.page[i].v <= version'[older'.page[i].m]
  <2>1. \/ older'.page = older.page
        \/ older'.page = <<>>
        \/ older.offset \in Nat /\ older'.page = Page(older.offset) /\ version' = version
    <3>1. OpenChat => older'.page = older.page
      BY <1>1 DEF OpenChat, BrowserTypeOK
    <3>2. AskOlder \/ ShowOlder => older'.page = <<>>
      <4>1. NoOlder.page = <<>>
        BY DEF NoOlder
      <4>2. ASSUME AskOlder PROVE older'.page = NoOlder.page
        BY <4>2 DEF AskOlder, NoOlder
      <4>3. ASSUME ShowOlder PROVE older'.page = NoOlder.page
        BY <4>3 DEF ShowOlder
      <4> QED  BY <4>1, <4>2, <4>3
    <3>3. ReadOlder => /\ older.offset \in Nat /\ version' = version
                       /\ older'.page = older.page \/ older'.page = Page(older.offset)
      BY <1>1 DEF ReadOlder, BrowserTypeOK, server
    <3>4. OpenChat \/ AskOlder \/ ShowOlder \/ ReadOlder \/ older' = older
      BY DEF Work, Writing, Load, Hear, Rest, Insert, Edit, Delete, CommitPost, RollBackPost,
             MarkRead, Subscribe, ReadNewest, ShowNewest, HandleAnswer, HandleNews, LoseNews,
             fvars, browser
    <3> QED  BY <3>1, <3>2, <3>3, <3>4
  <2>2. CASE older'.page = older.page
    <3> SUFFICES ASSUME NEW i \in DOMAIN older.page
                 PROVE  older.page[i].v <= version'[older.page[i].m]
      BY <2>2
    <3>1. older.page[i] \in Shots
      <4>1. older.page \in Seq(Shots)
        BY <1>1 DEF BrowserTypeOK
      <4> QED  BY <4>1
    <3>2. older.page[i].v <= version[older.page[i].m]
      BY <1>2 DEF NewsIsNotAhead
    <3> QED  BY <1>3, <3>1, <3>2 DEF Shots
  <2>3. CASE older'.page = <<>>
    BY <2>3
  <2>4. CASE older.offset \in Nat /\ older'.page = Page(older.offset) /\ version' = version
    <3>1. \A i \in DOMAIN older'.page : \E m \in There : older'.page[i] = Item(m)
      BY <1>1, <1>2, <2>4, PageHolds
    <3>2. \A i \in DOMAIN older'.page : \E m \in Messages :
             older'.page[i].m = m /\ older'.page[i].v = version'[m]
      <4> SUFFICES ASSUME NEW i \in DOMAIN older'.page
                   PROVE  \E m \in Messages :
                              older'.page[i].m = m /\ older'.page[i].v = version'[m]
        OBVIOUS
      <4>1. PICK m \in There : older'.page[i] = Item(m)
        BY <3>1
      <4> QED  BY <2>4, <4>1 DEF Item, There
    <3> QED  BY <1>3, <3>2
  <2> QED  BY <2>1, <2>2, <2>3, <2>4
<1>7. \A m \in Messages : seen'[m] <= version'[m]
  <2>1. \/ seen' = seen
        \/ seen' = version'
        \/ \E n \in air \cup {answer} :
              /\ n = answer => answer.v # 0
              /\ seen' = [seen EXCEPT ![n.m] = IF n.v > @ THEN n.v ELSE @]
    <3>1. ReadNewest => seen' = seen \/ seen' = version'
      BY DEF ReadNewest, server
    <3>2. HandleAnswer => /\ answer.v # 0
                          /\ seen' = [seen EXCEPT ![answer.m] =
                                          IF answer.v > @ THEN answer.v ELSE @]
      BY DEF HandleAnswer, Apply
    <3>3. ASSUME NEW n \in air, HandleNews(n)
          PROVE  /\ n = answer => answer.v # 0
                 /\ seen' = [seen EXCEPT ![n.m] = IF n.v > @ THEN n.v ELSE @]
      <4>1. n.v # 0
        BY <1>1 DEF BrowserTypeOK, News
      <4>2. seen' = [seen EXCEPT ![n.m] = IF n.v > @ THEN n.v ELSE @]
        BY <3>3 DEF HandleNews, Apply
      <4> QED  BY <4>1, <4>2
    <3>4. \/ ReadNewest \/ HandleAnswer \/ \E n \in air : HandleNews(n)
          \/ seen' = seen
      BY DEF Work, Writing, Load, Hear, Rest, Insert, Edit, Delete, CommitPost, RollBackPost,
             MarkRead, OpenChat, Subscribe, ShowNewest, AskOlder, ReadOlder, ShowOlder,
             LoseNews, fvars, history
    <3> QED  BY <3>1, <3>2, <3>3, <3>4
  <2>2. \A m \in Messages : seen[m] \in Nat /\ seen[m] <= version'[m]
    <3> SUFFICES ASSUME NEW m \in Messages PROVE seen[m] \in Nat /\ seen[m] <= version'[m]
      OBVIOUS
    <3>1. seen[m] \in Nat /\ seen[m] <= version[m]
      BY <1>1, <1>2 DEF HistoryTypeOK, NewsIsNotAhead
    <3> QED  BY <1>3, <3>1
  <2>3. ASSUME NEW n \in air \cup {answer}, n = answer => answer.v # 0,
               seen' = [seen EXCEPT ![n.m] = IF n.v > @ THEN n.v ELSE @]
        PROVE  \A m \in Messages : seen'[m] <= version'[m]
    <3>1. n \in News /\ n.v <= version[n.m]
      BY <1>1, <1>2, <2>3 DEF NewsIsNotAhead, BrowserTypeOK
    <3>2. n.m \in Messages /\ n.v <= version'[n.m]
      BY <1>3, <3>1 DEF News
    <3>3. \A m \in Messages : seen'[m] = seen[m] \/ (m = n.m /\ seen'[m] = n.v)
      BY <1>1, <2>3 DEF HistoryTypeOK
    <3> QED  BY <2>2, <3>2, <3>3
  <2> QED  BY <1>3, <2>1, <2>2, <2>3
<1> QED  BY <1>4, <1>5, <1>6, <1>7 DEF NewsIsNotAhead

----------------------------------------------------------------------------
(* The read marker.                                                         *)

(* Messages are inserted in order, so what is unborn is above their number. *)
LEMMA UnbornAreAbove ==
    ASSUME BornInOrder, NEW m \in Messages \ Born
    PROVE  Cardinality(Born) < m
<1>1. m \in Nat /\ m # 0 /\ N \in Nat
  BY FeedAssumption DEF Messages
<1>2. Born \subseteq 1..(m - 1)
  BY <1>1 DEF BornInOrder, Born, Messages
<1>3. IsFiniteSet(1..(m - 1)) /\ Cardinality(1..(m - 1)) = m - 1
  BY <1>1, FS_Interval
<1>4. IsFiniteSet(Born) /\ Cardinality(Born) <= m - 1
  BY <1>2, <1>3, FS_Subset
<1> QED  BY <1>1, <1>4, FS_CardinalityType

(* The marker says nothing of a message nobody has inserted, and of those   *)
(* under way only what will be counted as overtaken.                        *)
LEMMA MarkStays ==
    ASSUME FeedInv, [Work]_fvars
    PROVE  MarkInv'
<1> USE FeedAssumption
<1>1. ServerTypeOK /\ VersionsFollowThePhase /\ MarkInv
  BY DEF FeedInv, FeedTypeOK
<1>2. ASSUME NEW m \in Messages, NEW own \in BOOLEAN, Insert(m, own)
      PROVE  MarkInv'
  <2>1. /\ phase' = [phase EXCEPT ![m] = "inserted"] /\ phase[m] = "unborn"
        /\ \A k \in 1..(m - 1) : k \in Born
        /\ UNCHANGED <<version, marker, marked, overtaken>> /\ mine \subseteq mine'
    BY <1>2 DEF Insert, marks
  <2>2. There' = There /\ Born' = Born \cup {m} /\ Open' = Open \cup {m}
    BY <1>1, <2>1 DEF There, Born, Open, ServerTypeOK
  <2>3. BornInOrder'
    BY <1>1, <2>1, <2>2 DEF MarkInv, BornInOrder, Born, Messages
  <2>4. \A k \in Messages : version[k] # 0 => k < m
    <3> SUFFICES ASSUME NEW k \in Messages, version[k] # 0 PROVE k < m
      OBVIOUS
    <3>1. k \in Born /\ m \notin Born /\ m \in Messages
      BY <1>1, <2>1 DEF VersionsFollowThePhase, Born
    <3>2. m \notin 1..k
      BY <1>1, <3>1 DEF MarkInv, BornInOrder
    <3> QED  BY <3>1, <3>2 DEF Messages
  <2>5. marker < m /\ m \in Messages \ Born
    BY <1>1, <2>1 DEF MarkInv, MarkerIsBorn, Born
  <2>6. OpenBelowIsOvertaken'
    <3>1. \A k \in Messages : version[k] # 0 => ~(m < k)
      BY <2>4 DEF Messages
    <3>2. ~(m <= marker)
      BY <1>1, <2>5 DEF ServerTypeOK, Messages
    <3> QED  BY <1>1, <2>1, <2>2, <3>1, <3>2 DEF MarkInv, OpenBelowIsOvertaken
  <2>7. MarkerIsBorn' /\ OnlyOvertakenMessagesSlip'
    BY <1>1, <2>1, <2>2 DEF MarkInv, MarkerIsBorn, OnlyOvertakenMessagesSlip
  <2> QED  BY <2>3, <2>6, <2>7 DEF MarkInv
<1>3. ASSUME NEW m \in Messages, NEW own \in BOOLEAN, Edit(m, own)
      PROVE  MarkInv'
  <2>1. /\ UNCHANGED <<phase, mine, marker, marked, overtaken>>
        /\ version' = [version EXCEPT ![m] = 2] /\ version[m] # 0
    BY <1>3 DEF Edit, marks
  <2>2. \A k \in Messages : version'[k] # 0 => version[k] # 0
    BY <1>1, <2>1 DEF ServerTypeOK
  <2>3. There' = There /\ Born' = Born /\ Open' = Open
    BY <2>1 DEF There, Born, Open
  <2> QED  BY <1>1, <2>1, <2>2, <2>3
      DEF MarkInv, BornInOrder, OpenBelowIsOvertaken, MarkerIsBorn, OnlyOvertakenMessagesSlip
<1>4. ASSUME NEW m \in Messages, NEW own \in BOOLEAN, Delete(m, own)
      PROVE  MarkInv'
  <2>1. /\ UNCHANGED <<mine, marker, marked, overtaken>> /\ m \in There
        /\ phase' = [phase EXCEPT ![m] = "gone"] /\ version' = [version EXCEPT ![m] = 3]
    BY <1>4 DEF Delete, marks
  <2>2. \A k \in Messages : version'[k] # 0 => version[k] # 0
    BY <1>1, <2>1 DEF ServerTypeOK, VersionsFollowThePhase, There
  <2>3. There' = There \ {m} /\ Born' = Born /\ Open' = Open
    BY <1>1, <2>1 DEF There, Born, Open, ServerTypeOK
  <2> QED  BY <1>1, <2>1, <2>2, <2>3
      DEF MarkInv, BornInOrder, OpenBelowIsOvertaken, MarkerIsBorn, OnlyOvertakenMessagesSlip
<1>5. ASSUME NEW m \in Messages, CommitPost(m)
      PROVE  MarkInv'
  <2>1. /\ UNCHANGED <<mine, marker, marked>> /\ m \in Open
        /\ phase' = [phase EXCEPT ![m] = "there"] /\ version' = [version EXCEPT ![m] = 1]
        /\ overtaken' = overtaken \cup {k \in Open : k < m}
    BY <1>5 DEF CommitPost, marks, Open
  <2>2. \A k \in Messages : version'[k] # 0 => version[k] # 0 \/ k = m
    BY <1>1, <2>1 DEF ServerTypeOK
  <2>3. There' = There \cup {m} /\ Born' = Born /\ Open' = Open \ {m}
    BY <1>1, <2>1 DEF There, Born, Open, ServerTypeOK
  <2>4. OpenBelowIsOvertaken'
    BY <1>1, <2>1, <2>2, <2>3 DEF MarkInv, OpenBelowIsOvertaken
  <2>5. OnlyOvertakenMessagesSlip'
    BY <1>1, <2>1, <2>3 DEF MarkInv, OnlyOvertakenMessagesSlip, OpenBelowIsOvertaken
  <2> QED  BY <1>1, <2>1, <2>3, <2>4, <2>5 DEF MarkInv, BornInOrder, MarkerIsBorn
<1>6. ASSUME NEW m \in Messages, RollBackPost(m)
      PROVE  MarkInv'
  <2>1. /\ UNCHANGED <<version, mine, marker, marked, overtaken>> /\ m \in Open
        /\ phase' = [phase EXCEPT ![m] = "gone"]
    BY <1>6 DEF RollBackPost, marks, Open
  <2>2. There' = There /\ Born' = Born /\ Open' = Open \ {m}
    BY <1>1, <2>1 DEF There, Born, Open, ServerTypeOK
  <2> QED  BY <1>1, <2>1, <2>2
      DEF MarkInv, BornInOrder, OpenBelowIsOvertaken, MarkerIsBorn, OnlyOvertakenMessagesSlip
<1>7. ASSUME MarkRead
      PROVE  MarkInv'
  <2>1. /\ UNCHANGED <<phase, version, mine>> /\ marked' = marked \cup There
        /\ overtaken \subseteq overtaken' /\ overtaken' \subseteq overtaken \cup Open
    BY <1>7 DEF MarkRead, server
  <2>2. There' = There /\ Born' = Born /\ Open' = Open
    BY <2>1 DEF There, Born, Open
  <2>3. BornInOrder' /\ OnlyOvertakenMessagesSlip'
    BY <1>1, <2>1, <2>2 DEF MarkInv, BornInOrder, OnlyOvertakenMessagesSlip
  <2>4. CASE There = {}
    <3>1. marker' = Cardinality(Born) /\ overtaken' = overtaken \cup Open
      BY <1>7, <2>4 DEF MarkRead
    <3>2. MarkerIsBorn'
      BY <1>1, <2>2, <3>1, UnbornAreAbove DEF MarkInv, MarkerIsBorn
    <3>3. OpenBelowIsOvertaken'
      BY <2>2, <3>1 DEF OpenBelowIsOvertaken
    <3> QED  BY <2>3, <3>2, <3>3 DEF MarkInv
  <2>5. CASE There # {}
    <3>1. marker' = Newest /\ overtaken' = overtaken
      BY <1>7, <2>5 DEF MarkRead
    <3>2. Newest \in There
      BY <2>5, ThereIsFinite, InOrderLists DEF Newest
    <3>3. Newest \in Born /\ version[Newest] # 0 /\ Newest \notin Open /\ Newest \in Messages
      BY <1>1, <3>2 DEF VersionsFollowThePhase, There, Born, Open
    <3>4. MarkerIsBorn'
      <4> SUFFICES ASSUME NEW m \in Messages, m \notin Born PROVE Newest < m
        BY <2>2, <3>1 DEF MarkerIsBorn
      <4>1. m \notin 1..Newest
        BY <1>1, <3>3 DEF MarkInv, BornInOrder
      <4> QED  BY <3>3, <4>1 DEF Messages
    <3>5. OpenBelowIsOvertaken'
      <4> SUFFICES ASSUME NEW m \in Open, m <= Newest PROVE m \in overtaken
        BY <1>1, <2>1, <2>2, <3>1 DEF MarkInv, OpenBelowIsOvertaken
      <4>1. m < Newest
        BY <3>3 DEF Open, Messages
      <4> QED  BY <1>1, <3>3, <4>1 DEF MarkInv, OpenBelowIsOvertaken
    <3> QED  BY <2>3, <3>4, <3>5 DEF MarkInv
  <2> QED  BY <2>4, <2>5
<1>8. ASSUME UNCHANGED <<phase, version, mine, marker, marked, overtaken>>
      PROVE  MarkInv'
  <2>1. There' = There /\ Born' = Born /\ Open' = Open
    BY <1>8 DEF There, Born, Open
  <2> QED  BY <1>1, <1>8, <2>1
      DEF MarkInv, BornInOrder, OpenBelowIsOvertaken, MarkerIsBorn, OnlyOvertakenMessagesSlip
<1>9. \/ \E m \in Messages :
            \/ \E own \in BOOLEAN : Insert(m, own) \/ Edit(m, own) \/ Delete(m, own)
            \/ CommitPost(m) \/ RollBackPost(m)
      \/ MarkRead
      \/ UNCHANGED <<phase, version, mine, marker, marked, overtaken>>
  BY DEF Work, Writing, Load, Hear, Rest, OpenChat, Subscribe, ReadNewest, ShowNewest,
         AskOlder, ReadOlder, ShowOlder, HandleAnswer, HandleNews, LoseNews, fvars, server,
         marks
<1> QED  BY <1>2, <1>3, <1>4, <1>5, <1>6, <1>7, <1>8, <1>9

----------------------------------------------------------------------------
(* Loading.                                                                 *)

(* The pages under way belong to the chat they were asked for, and the      *)
(* other chat, in which nobody writes, stays empty.                         *)
LEMMA LoadStays ==
    ASSUME FeedInv, [Work]_fvars
    PROVE  LoadInv'
<1>1. BrowserTypeOK /\ HistoryTypeOK /\ HistoryTypeOK' /\ LoadInv
  BY HistoryTypesStay DEF FeedInv, FeedTypeOK
<1>2. ASSUME UNCHANGED <<active, load, older, items, cursor, strayed>>
      PROVE  LoadInv'
  BY <1>1, <1>2 DEF LoadInv, ChatsDoNotMix
<1>3. ASSUME OpenChat
      PROVE  LoadInv'
  <2>1. /\ load' = [state |-> "asked", page |-> <<>>, next |-> 0]
        /\ \/ older' = older /\ older.state = "idle"
           \/ older' = [older EXCEPT !.stale = TRUE]
    BY <1>3 DEF OpenChat
  <2>2. /\ older'.state = older.state /\ older'.chat = older.chat
        /\ older'.page = older.page /\ (older'.state = "idle" \/ older'.stale)
    BY <1>1, <2>1 DEF BrowserTypeOK
  <2>3. load'.state = "asked" /\ load'.page = <<>>
    BY <2>1
  <2> QED  BY <1>1, <2>2, <2>3 DEF LoadInv, ChatsDoNotMix
<1>4. ASSUME ReadNewest
      PROVE  LoadInv'
  <2>1. /\ load.state = "asked" /\ UNCHANGED <<active, older, items, cursor, strayed>>
        /\ \/ active = "here" /\ load' = [state |-> "read", page |-> Page(0),
                                          next |-> NextCursor(0)]
           \/ active # "here" /\ load' = [load EXCEPT !.state = "read"]
    BY <1>4 DEF ReadNewest
  <2>2. load'.state = "read" /\ (active = "here" \/ load'.page = load.page)
    BY <1>1, <2>1 DEF BrowserTypeOK
  <2> QED  BY <1>1, <2>1, <2>2 DEF LoadInv, ChatsDoNotMix
<1>5. ASSUME ShowNewest
      PROVE  LoadInv'
  <2>1. /\ load.state = "read" /\ items' = load.page /\ UNCHANGED <<active, older>>
        /\ load'.state = "loaded"
    BY <1>5 DEF ShowNewest
  <2>2. active \in {"here", "elsewhere"}
    BY <1>1 DEF BrowserTypeOK
  <2> QED  BY <1>1, <2>1, <2>2 DEF LoadInv, ChatsDoNotMix
<1>6. ASSUME AskOlder
      PROVE  LoadInv'
  <2>1. UNCHANGED <<active, load, items, cursor, strayed>>
    BY <1>6 DEF AskOlder, history
  <2>2. /\ older'.state = "asked" /\ older'.chat = active /\ older'.offset = cursor
        /\ older'.page = <<>> /\ older'.stale = (load.state # "loaded")
    BY <1>6 DEF AskOlder, NoOlder
  <2> QED  BY <1>1, <2>1, <2>2 DEF LoadInv, ChatsDoNotMix
<1>7. ASSUME ReadOlder
      PROVE  LoadInv'
  <2>1. UNCHANGED <<active, load, items, cursor, strayed>> /\ older.state = "asked"
    BY <1>7 DEF ReadOlder, history
  <2>2. /\ older'.state = "read" /\ older'.chat = older.chat /\ older'.stale = older.stale
        /\ older.chat = "here" \/ older'.page = older.page
    BY <1>1, <1>7 DEF ReadOlder, BrowserTypeOK
  <2> QED  BY <1>1, <2>1, <2>2 DEF LoadInv, ChatsDoNotMix
<1>8. ASSUME ShowOlder
      PROVE  LoadInv'
  <2>1. /\ UNCHANGED <<active, load>> /\ older.state = "read" /\ items' = older.page \o items
        /\ older'.state = "idle" /\ strayed' = (strayed \/ older.stale)
    BY <1>8 DEF ShowOlder, NoOlder
  <2>2. older'.page = <<>>
    BY <1>8 DEF ShowOlder, NoOlder
  <2>3. ASSUME active = "elsewhere", load.state = "loaded", ~strayed'
        PROVE  items' = <<>>
    <3>1. older.page = <<>> /\ items = <<>>
      BY <1>1, <2>1, <2>3 DEF LoadInv, ChatsDoNotMix, HistoryTypeOK, BrowserTypeOK
    <3> QED  BY <2>1, <3>1
  <2> QED  BY <1>1, <2>1, <2>2, <2>3 DEF LoadInv, ChatsDoNotMix
<1>9. ASSUME UNCHANGED <<active, load, older, cursor>>, active = "here" \/ strayed'
      PROVE  LoadInv'
  BY <1>1, <1>9 DEF LoadInv, ChatsDoNotMix
<1>10. HandleAnswer => UNCHANGED <<active, load, older, cursor>> /\ (active = "here" \/ strayed')
  BY DEF HandleAnswer
<1>11. \A n \in air :
          HandleNews(n) => UNCHANGED <<active, load, older, cursor>> /\ active = "here"
  BY DEF HandleNews
<1>12. \/ UNCHANGED <<active, load, older, items, cursor, strayed>>
       \/ OpenChat \/ ReadNewest \/ ShowNewest \/ AskOlder \/ ReadOlder \/ ShowOlder
       \/ HandleAnswer \/ \E n \in air : HandleNews(n)
  <2>1. Writing => UNCHANGED <<active, load, older, items, cursor, strayed>>
    BY DEF Writing, Insert, Edit, Delete, CommitPost, RollBackPost, browser, history
  <2>2. MarkRead \/ Subscribe \/ UNCHANGED fvars
          => UNCHANGED <<active, load, older, items, cursor, strayed>>
    BY DEF MarkRead, Subscribe, fvars, browser, history
  <2>3. \A n \in air :
           LoseNews(n) => UNCHANGED <<active, load, older, items, cursor, strayed>>
    BY DEF LoseNews, browser
  <2> QED  BY <2>1, <2>2, <2>3 DEF Work, Load, Hear, Rest
<1> QED  BY <1>2, <1>3, <1>4, <1>5, <1>6, <1>7, <1>8, <1>9, <1>10, <1>11, <1>12

----------------------------------------------------------------------------
(* The screen.                                                              *)

(* What is common to a socket event and to the answer to an own request.    *)
Heard(n) == \/ n \in air /\ HandleNews(n)
            \/ n = answer /\ HandleAnswer

(* What hearing of a message changes: its entry on the screen, and what was *)
(* seen of it.  It is excused if the news is old or a page is on its way.   *)
LEMMA HearingShows ==
    ASSUME FeedInv, NEW n, Heard(n)
    PROVE  /\ n \in News /\ n.v <= version[n.m]
           /\ UNCHANGED <<phase, version, active, load, older, cursor, due, atRead, shrunk>>
           /\ active = "here" \/ strayed'
           /\ strayed => strayed'
           /\ \A x \in air : x \in air' \/ x = n
           /\ excused \subseteq excused'
           /\ n.m \notin excused' => seen[n.m] <= n.v /\ load.state # "read"
           /\ \A m \in Messages : m # n.m => seen'[m] = seen[m] /\ Shown(m)' = Shown(m)
           /\ seen[n.m] <= n.v => seen'[n.m] = n.v
           /\ seen[n.m] > n.v => seen'[n.m] = seen[n.m]
           /\ IF n.v = 3 THEN Shown(n.m)' = {} ELSE n.v \in Shown(n.m)'
<1>1. BrowserTypeOK /\ HistoryTypeOK /\ NewsIsNotAhead
  BY DEF FeedInv, FeedTypeOK
<1>2. n \in News /\ n.v <= version[n.m]
  <2>1. CASE n \in air
    BY <1>1, <2>1 DEF BrowserTypeOK, NewsIsNotAhead
  <2>2. CASE n = answer /\ HandleAnswer
    BY <1>1, <2>2 DEF HandleAnswer, NewsIsNotAhead
  <2> QED  BY <2>1, <2>2 DEF Heard
<1>3. /\ Apply(n)
      /\ UNCHANGED <<phase, version, active, load, older, cursor, due, atRead, shrunk>>
      /\ active = "here" \/ strayed'
      /\ strayed => strayed'
      /\ \A x \in air : x \in air' \/ x = n
  BY <1>1 DEF Heard, HandleNews, HandleAnswer, server, HistoryTypeOK
<1>4. items \in Seq(Shots)
  BY <1>1 DEF BrowserTypeOK
<1>5. /\ \A m \in Messages : m # n.m => Shown(m)' = Shown(m)
      /\ IF n.v = 3 THEN Shown(n.m)' = {} ELSE n.v \in Shown(n.m)'
  BY <1>2, <1>3, <1>4, ApplyShows
<1>6. n.m \in Messages /\ n.v \in Nat /\ seen \in [Messages -> 0..3]
  BY <1>1, <1>2 DEF News, HistoryTypeOK
<1>7. seen' = [seen EXCEPT ![n.m] = IF n.v > @ THEN n.v ELSE @]
  BY <1>3 DEF Apply
<1>8. /\ \A m \in Messages : m # n.m => seen'[m] = seen[m]
      /\ seen[n.m] <= n.v => seen'[n.m] = n.v
      /\ seen[n.m] > n.v => seen'[n.m] = seen[n.m]
  BY <1>6, <1>7
<1>9. /\ excused \subseteq excused'
      /\ n.m \notin excused' => seen[n.m] <= n.v /\ load.state # "read"
  BY <1>3, <1>6 DEF Apply
<1> QED  BY <1>2, <1>3, <1>5, <1>8, <1>9

(* Older messages are put before what is shown.                             *)
LEMMA OlderShows ==
    ASSUME FeedInv, ShowOlder, NEW m
    PROVE  /\ Shown(m) \subseteq Shown(m)'
           /\ \A i \in DOMAIN older.page : older.page[i].m = m => older.page[i].v \in Shown(m)'
           /\ \A v \in Shown(m)' : v \in Shown(m) \/
                 \E i \in DOMAIN older.page : older.page[i].m = m /\ older.page[i].v = v
<1> DEFINE P == older.page
<1>1. P \in Seq(Shots) /\ items \in Seq(Shots) /\ items' = P \o items
  BY DEF FeedInv, FeedTypeOK, BrowserTypeOK, ShowOlder
<1> HIDE DEF P
<1>2. /\ DOMAIN P = 1..Len(P) /\ DOMAIN items = 1..Len(items)
      /\ Len(P) \in Nat /\ Len(items) \in Nat
      /\ DOMAIN items' = 1..(Len(P) + Len(items))
      /\ \A i \in DOMAIN P : items'[i] = P[i]
      /\ \A i \in DOMAIN items : items'[Len(P) + i] = items[i]
  BY <1>1
<1>3. Shown(m) = {items[i].v : i \in {j \in DOMAIN items : items[j].m = m}}
  BY DEF Shown, CopiesOf
<1>4. Shown(m)' = {items'[i].v : i \in {j \in DOMAIN items' : items'[j].m = m}}
  BY DEF Shown, CopiesOf
<1>5. ASSUME NEW i \in DOMAIN items
      PROVE  Len(P) + i \in DOMAIN items' /\ items'[Len(P) + i] = items[i]
  BY <1>2
<1>6. Shown(m) \subseteq Shown(m)'
  BY <1>3, <1>4, <1>5
<1>7. \A i \in DOMAIN P : P[i].m = m => P[i].v \in Shown(m)'
  BY <1>2, <1>4
<1>8. ASSUME NEW v \in Shown(m)'
      PROVE  v \in Shown(m) \/ \E i \in DOMAIN P : P[i].m = m /\ P[i].v = v
  <2>1. PICK i \in DOMAIN items' : items'[i].m = m /\ items'[i].v = v
    BY <1>4
  <2>2. CASE i \in DOMAIN P
    BY <1>2, <2>1, <2>2
  <2>3. CASE i \notin DOMAIN P
    <3>1. i - Len(P) \in DOMAIN items /\ Len(P) + (i - Len(P)) = i
      BY <1>2, <2>3
    <3>2. items'[i] = items[i - Len(P)]
      BY <1>2, <3>1
    <3> QED  BY <1>3, <2>1, <3>1, <3>2
  <2> QED  BY <2>2, <2>3
<1> QED  BY <1>6, <1>7, <1>8 DEF P

(* The newest page replaces what is shown.                                  *)
LEMMA NewestShows ==
    ASSUME ShowNewest, NEW m
    PROVE  /\ \A i \in DOMAIN load.page : load.page[i].m = m => load.page[i].v \in Shown(m)'
           /\ \A v \in Shown(m)' :
                 \E i \in DOMAIN load.page : load.page[i].m = m /\ load.page[i].v = v
<1>1. items' = load.page
  BY DEF ShowNewest
<1>2. Shown(m)' = {items'[i].v : i \in {j \in DOMAIN items' : items'[j].m = m}}
  BY DEF Shown, CopiesOf
<1> QED  BY <1>1, <1>2

(* Whatever was not seen in its latest version is news in the air, or       *)
(* excused.                                                                 *)
LEMMA NewsStaysUnderWay ==
    ASSUME FeedInv, [Work]_fvars
    PROVE  NewsIsUnderWay'
<1>1. ServerTypeOK /\ HistoryTypeOK /\ BrowserTypeOK /\ NewsIsNotAhead /\ NewsIsUnderWay
  BY DEF FeedInv, FeedTypeOK, ScreenInv
<1>2. ASSUME UNCHANGED <<version, seen, air>>, excused \subseteq excused'
      PROVE  NewsIsUnderWay'
  BY <1>1, <1>2 DEF NewsIsUnderWay
<1>3. ASSUME NEW m \in Messages, NEW v \in 1..3, version' = [version EXCEPT ![m] = v],
             Publish(m, v), UNCHANGED <<seen, excused>>
      PROVE  NewsIsUnderWay'
  <2>1. \A k \in Messages : version'[k] = IF k = m THEN v ELSE version[k]
    BY <1>1, <1>3 DEF ServerTypeOK
  <2>2. air' = air \cup {[m |-> m, v |-> v]}
    BY <1>3 DEF Publish
  <2> QED  BY <1>1, <1>3, <2>1, <2>2 DEF NewsIsUnderWay
<1>4. ASSUME ReadNewest
      PROVE  NewsIsUnderWay'
  <2>1. UNCHANGED <<version, air>>
    BY <1>4 DEF ReadNewest, server
  <2>2. seen' = version \/ UNCHANGED <<seen, excused>>
    BY <1>4 DEF ReadNewest
  <2> QED  BY <1>1, <2>1, <2>2 DEF NewsIsUnderWay, ServerTypeOK
<1>5. ASSUME NEW n, Heard(n)
      PROVE  NewsIsUnderWay'
  <2> SUFFICES ASSUME NEW m \in Messages, m \notin excused', seen'[m] < version'[m]
               PROVE  [m |-> m, v |-> version'[m]] \in air'
    BY DEF NewsIsUnderWay
  <2> DEFINE latest == [m |-> m, v |-> version[m]]
  <2>1. version' = version /\ m \notin excused
    BY <1>5, HearingShows
  <2>2. seen[m] \in Nat /\ version[m] \in Nat
    BY <1>1 DEF HistoryTypeOK, ServerTypeOK
  <2>3. CASE m # n.m
    <3>1. seen'[m] = seen[m]
      BY <1>5, <2>3, HearingShows
    <3>2. latest \in air
      BY <1>1, <2>1, <3>1 DEF NewsIsUnderWay
    <3>3. latest # n
      BY <2>3
    <3> QED  BY <1>5, <2>1, <3>2, <3>3, HearingShows
  <2>4. CASE m = n.m
    <3>1. seen[m] <= n.v /\ seen'[m] = n.v /\ n.v \in Nat
      BY <1>5, <2>4, HearingShows DEF News
    <3>2. latest \in air
      BY <1>1, <2>1, <2>2, <3>1 DEF NewsIsUnderWay
    <3>3. latest # n
      BY <2>1, <2>2, <3>1
    <3> QED  BY <1>5, <2>1, <3>2, <3>3, HearingShows
  <2> QED  BY <2>3, <2>4
<1>6. ASSUME NEW n \in air, LoseNews(n)
      PROVE  NewsIsUnderWay'
  <2> SUFFICES ASSUME NEW m \in Messages, m \notin excused', seen[m] < version[m]
               PROVE  [m |-> m, v |-> version[m]] \in air'
    BY <1>6 DEF NewsIsUnderWay, LoseNews, server
  <2> DEFINE latest == [m |-> m, v |-> version[m]]
  <2>1. m \notin excused /\ ~(m = n.m /\ n.v > seen[m])
    BY <1>6 DEF LoseNews
  <2>2. latest \in air
    BY <1>1, <2>1 DEF NewsIsUnderWay
  <2>3. latest # n
    BY <1>1, <2>1 DEF HistoryTypeOK, ServerTypeOK
  <2> QED  BY <1>6, <2>2, <2>3 DEF LoseNews
<1>7. ASSUME Writing
      PROVE  NewsIsUnderWay'
  <2>1. \A m \in Messages, own \in BOOLEAN :
           Insert(m, own) \/ RollBackPost(m) => UNCHANGED <<version, seen, air, excused>>
    BY DEF Insert, RollBackPost, history
  <2>2. \A m \in Messages, own \in BOOLEAN :
           Edit(m, own) => /\ version' = [version EXCEPT ![m] = 2] /\ Publish(m, 2)
                           /\ UNCHANGED <<seen, excused>>
    BY DEF Edit, history
  <2>3. \A m \in Messages, own \in BOOLEAN :
           Delete(m, own) => /\ version' = [version EXCEPT ![m] = 3] /\ Publish(m, 3)
                             /\ UNCHANGED <<seen, excused>>
    BY DEF Delete
  <2>4. \A m \in Messages :
           CommitPost(m) => /\ version' = [version EXCEPT ![m] = 1] /\ Publish(m, 1)
                            /\ UNCHANGED <<seen, excused>>
    BY DEF CommitPost
  <2>5. \/ UNCHANGED <<version, seen, air, excused>>
        \/ \E m \in Messages : \E v \in 1..3 :
              /\ version' = [version EXCEPT ![m] = v] /\ Publish(m, v)
              /\ UNCHANGED <<seen, excused>>
    <3>1. 1 \in 1..3 /\ 2 \in 1..3 /\ 3 \in 1..3
      OBVIOUS
    <3> QED  BY <1>7, <2>1, <2>2, <2>3, <2>4, <3>1, Zenon DEF Writing
  <2>6. UNCHANGED <<version, seen, air, excused>> => NewsIsUnderWay'
    BY <1>2
  <2> QED  BY <1>3, <2>5, <2>6
<1>8. ASSUME MarkRead \/ Rest \/ UNCHANGED fvars \/ OpenChat \/ Subscribe \/ ShowNewest
               \/ AskOlder \/ ReadOlder \/ ShowOlder
      PROVE  NewsIsUnderWay'
  <2>1. UNCHANGED <<version, seen, air>> /\ excused \subseteq excused'
    BY <1>8 DEF MarkRead, Rest, OpenChat, Subscribe, ShowNewest, AskOlder, ReadOlder,
           ShowOlder, fvars, server, history
  <2> QED  BY <1>2, <2>1
<1> QED  BY <1>4, <1>5, <1>6, <1>7, <1>8 DEF Work, Load, Hear, Heard

(* The screen answers for committed messages only.                          *)
LEMMA DueStaysPosted ==
    ASSUME FeedInv, [Work]_fvars
    PROVE  DueIsPosted'
<1>1. /\ ServerTypeOK /\ HistoryTypeOK /\ BrowserTypeOK
      /\ VersionsFollowThePhase /\ NewsIsNotAhead /\ DueIsPosted
  BY DEF FeedInv, FeedTypeOK, ScreenInv
<1>2. \A m \in Messages : version[m] # 0 => version'[m] # 0
  BY VersionsGrow
<1>3. \A m \in due' : m \in due \/ (m \in Messages /\ version'[m] # 0)
  <2>1. \A m \in Messages : CommitPost(m) => version'[m] = 1 /\ due' \subseteq due \cup {m}
    BY <1>1 DEF CommitPost, ServerTypeOK
  <2>2. ASSUME ReadNewest
        PROVE  due' \subseteq due \cup There
    <3>1. \A i \in DOMAIN Page(0) : \E m \in There : Page(0)[i] = Item(m)
      BY <1>1, PageHolds
    <3>2. MessagesIn(Page(0)) \subseteq There
      BY <3>1 DEF MessagesIn, Item
    <3> QED  BY <2>2, <3>2 DEF ReadNewest
  <2>3. ASSUME ShowOlder
        PROVE  \A m \in due' : m \in due \/ (m \in Messages /\ version[m] # 0)
    <3>1. \A i \in DOMAIN older.page : older.page[i] \in Shots
      <4>1. older.page \in Seq(Shots)
        BY <1>1 DEF BrowserTypeOK
      <4> QED  BY <4>1
    <3>2. \A i \in DOMAIN older.page : /\ older.page[i].m \in Messages
                                       /\ version[older.page[i].m] # 0
      BY <1>1, <3>1 DEF NewsIsNotAhead, Shots, ServerTypeOK
    <3>3. due' \subseteq due \cup MessagesIn(older.page)
      BY <2>3 DEF ShowOlder
    <3> QED  BY <3>2, <3>3 DEF MessagesIn
  <2>4. There \subseteq {m \in Messages : version[m] # 0}
    BY <1>1 DEF There, VersionsFollowThePhase
  <2>5. \/ due' = due \/ ReadNewest \/ ShowOlder \/ \E m \in Messages : CommitPost(m)
    BY DEF Work, Writing, Load, Hear, Rest, Insert, Edit, Delete, RollBackPost, MarkRead,
           OpenChat, Subscribe, ShowNewest, AskOlder, ReadOlder, HandleAnswer, HandleNews,
           LoseNews, fvars, history
  <2> QED  BY <1>2, <2>5, <2>1, <2>2, <2>3, <2>4
<1> QED  BY <1>1, <1>2, <1>3 DEF DueIsPosted, HistoryTypeOK

(* While the newest page is on its way, what is due and not excused is on   *)
(* it as the browser saw it last, or was posted since.                      *)
LEMMA PageStaysAsSeen ==
    ASSUME FeedInv, [Work]_fvars
    PROVE  PageIsAsSeen'
<1>1. /\ ServerTypeOK /\ HistoryTypeOK /\ BrowserTypeOK
      /\ VersionsFollowThePhase /\ NewsIsNotAhead /\ PageIsAsSeen
  BY DEF FeedInv, FeedTypeOK, ScreenInv
<1>2. ASSUME UNCHANGED <<active, load, due, seen>>, excused \subseteq excused'
      PROVE  PageIsAsSeen'
  BY <1>1, <1>2 DEF PageIsAsSeen
<1>3. ASSUME NEW m \in Messages, CommitPost(m)
      PROVE  PageIsAsSeen'
  <2>1. /\ UNCHANGED <<active, load, excused, seen>> /\ due' \subseteq due \cup {m}
        /\ phase[m] = "inserted"
    BY <1>3 DEF CommitPost, browser
  <2>2. seen[m] = 0
    BY <1>1, <2>1 DEF VersionsFollowThePhase, NewsIsNotAhead, ServerTypeOK, HistoryTypeOK
  <2> QED  BY <1>1, <2>1, <2>2 DEF PageIsAsSeen
<1>4. ASSUME ReadNewest
      PROVE  PageIsAsSeen'
  <2> SUFFICES ASSUME active = "here", NEW m \in due'
               PROVE  \E i \in DOMAIN load'.page : load'.page[i] = [m |-> m, v |-> seen'[m]]
    BY <1>4 DEF PageIsAsSeen, ReadNewest
  <2>1. load'.page = Page(0) /\ due' = MessagesIn(Page(0)) /\ seen' = version
    BY <1>4 DEF ReadNewest
  <2>2. PICK i \in DOMAIN Page(0) : Page(0)[i].m = m
    BY <2>1 DEF MessagesIn
  <2>3. PICK k \in There : Page(0)[i] = Item(k)
    BY <1>1, PageHolds
  <2> QED  BY <2>1, <2>2, <2>3 DEF Item
<1>5. ASSUME OpenChat \/ ShowNewest
      PROVE  PageIsAsSeen'
  BY <1>5 DEF PageIsAsSeen, OpenChat, ShowNewest
<1>6. ASSUME ShowOlder
      PROVE  PageIsAsSeen'
  <2>1. /\ UNCHANGED <<active, load, seen>> /\ excused \subseteq excused'
        /\ load.state = "read" => due' = due
    BY <1>6 DEF ShowOlder
  <2> QED  BY <1>1, <2>1 DEF PageIsAsSeen
<1>7. ASSUME NEW n, Heard(n)
      PROVE  PageIsAsSeen'
  <2> SUFFICES ASSUME active = "here", load.state = "read", NEW m \in due, m \notin excused'
               PROVE  \/ seen'[m] = 0
                      \/ \E i \in DOMAIN load.page : load.page[i] = [m |-> m, v |-> seen'[m]]
    BY <1>7, HearingShows DEF PageIsAsSeen
  <2>1. m \in Messages /\ m \notin excused /\ m # n.m
    BY <1>1, <1>7, HearingShows DEF HistoryTypeOK
  <2>2. seen'[m] = seen[m]
    BY <1>7, <2>1, HearingShows
  <2> QED  BY <1>1, <2>1, <2>2 DEF PageIsAsSeen
<1>8. \/ UNCHANGED <<active, load, due, seen>> /\ excused \subseteq excused'
      \/ \E m \in Messages : CommitPost(m)
      \/ ReadNewest \/ OpenChat \/ ShowNewest \/ ShowOlder \/ \E n : Heard(n)
  <2>1. ASSUME NEW m \in Messages, NEW own \in BOOLEAN,
               Insert(m, own) \/ Edit(m, own) \/ Delete(m, own) \/ RollBackPost(m)
        PROVE  UNCHANGED <<active, load, due, seen, excused>>
    BY <2>1 DEF Insert, Edit, Delete, RollBackPost, browser, history
  <2>2. MarkRead \/ Rest \/ UNCHANGED fvars \/ Subscribe \/ AskOlder \/ ReadOlder
           => UNCHANGED <<active, load, due, seen, excused>>
    BY DEF MarkRead, Rest, Subscribe, AskOlder, ReadOlder, fvars, browser, history
  <2>3. ASSUME NEW n \in air, LoseNews(n)
        PROVE  UNCHANGED <<active, load, due, seen>> /\ excused \subseteq excused'
    BY <2>3 DEF LoseNews, browser
  <2>4. Writing => \/ UNCHANGED <<active, load, due, seen, excused>>
                   \/ \E m \in Messages : CommitPost(m)
    BY <2>1 DEF Writing
  <2> QED  BY <2>2, <2>3, <2>4 DEF Work, Load, Hear, Heard
<1> QED  BY <1>2, <1>3, <1>4, <1>5, <1>6, <1>7, <1>8

(* On a loaded screen what is due and not excused is shown as the browser   *)
(* saw it last, if that is its latest version.                              *)
LEMMA ScreenStaysAsSeen ==
    ASSUME FeedInv, [Work]_fvars
    PROVE  ScreenIsAsSeen'
<1>1. /\ ServerTypeOK /\ HistoryTypeOK /\ BrowserTypeOK /\ HistoryTypeOK'
      /\ VersionsFollowThePhase /\ NewsIsNotAhead /\ LoadInv
      /\ DueIsPosted /\ PageIsAsSeen /\ ScreenIsAsSeen
  BY HistoryTypesStay DEF FeedInv, FeedTypeOK, ScreenInv
<1>2. ASSUME UNCHANGED <<active, load, items, strayed, seen>>, excused \subseteq excused',
             \A m \in due' \ excused' :
                 version'[m] = seen[m] => m \in due /\ version'[m] = version[m]
      PROVE  ScreenIsAsSeen'
  <2>1. \A m : Shown(m)' = Shown(m)
    BY <1>2 DEF Shown, CopiesOf
  <2> QED  BY <1>1, <1>2, <2>1 DEF ScreenIsAsSeen
<1>3. ASSUME NEW m \in Messages, NEW v \in 1..3, version' = [version EXCEPT ![m] = v],
             version[m] < v, due' \subseteq due \cup {m},
             UNCHANGED <<active, load, items, strayed, seen, excused>>
      PROVE  ScreenIsAsSeen'
  <2>1. \A k \in Messages : version'[k] = IF k = m THEN v ELSE version[k]
    BY <1>1, <1>3 DEF ServerTypeOK
  <2>2. seen[m] < v /\ seen[m] # v
    BY <1>1, <1>3 DEF NewsIsNotAhead, HistoryTypeOK, ServerTypeOK
  <2>3. due' \subseteq Messages
    BY <1>1 DEF HistoryTypeOK
  <2> QED  BY <1>2, <1>3, <2>1, <2>2, <2>3
<1>4. ASSUME OpenChat \/ ReadNewest
      PROVE  ScreenIsAsSeen'
  <2>1. load'.state # "loaded"
    BY <1>1, <1>4 DEF OpenChat, ReadNewest, BrowserTypeOK
  <2> QED  BY <2>1 DEF ScreenIsAsSeen
<1>5. ASSUME ShowNewest
      PROVE  ScreenIsAsSeen'
  <2>1. UNCHANGED <<active, version, due, excused, seen>> /\ load.state = "read"
    BY <1>5 DEF ShowNewest, server
  <2> SUFFICES ASSUME active = "here", NEW m \in due \ excused, seen[m] = version[m]
               PROVE  IF version[m] = 3 THEN Shown(m)' = {} ELSE version[m] \in Shown(m)'
    BY <2>1 DEF ScreenIsAsSeen
  <2>2. seen[m] # 0
    BY <1>1 DEF DueIsPosted
  <2>3. PICK i \in DOMAIN load.page : load.page[i] = [m |-> m, v |-> seen[m]]
    BY <1>1, <2>1, <2>2 DEF PageIsAsSeen
  <2>4. load.page[i] \in Shots
    <3>1. load.page \in Seq(Shots)
      BY <1>1 DEF BrowserTypeOK
    <3> QED  BY <3>1
  <2>5. version[m] # 3
    BY <2>3, <2>4 DEF Shots
  <2>6. seen[m] \in Shown(m)'
    <3>1. load.page[i].m = m /\ load.page[i].v = seen[m]
      BY <2>3
    <3> QED  BY <1>5, <3>1, NewestShows
  <2> QED  BY <2>5, <2>6
<1>6. ASSUME ShowOlder
      PROVE  ScreenIsAsSeen'
  <2>1. /\ UNCHANGED <<active, load, version, seen>> /\ excused \subseteq excused'
        /\ strayed' = (strayed \/ older.stale) /\ older.state = "read"
        /\ due' \subseteq due \cup MessagesIn(older.page)
        /\ \A i \in DOMAIN older.page, k \in Messages :
              older.page[i].m = k /\ older.page[i].v < seen[k] => k \in excused'
    BY <1>6 DEF ShowOlder, server
  <2> SUFFICES ASSUME active = "here", load.state = "loaded", ~strayed',
                      NEW m \in due' \ excused', seen[m] = version[m]
               PROVE  IF version[m] = 3 THEN Shown(m)' = {} ELSE version[m] \in Shown(m)'
    BY <2>1 DEF ScreenIsAsSeen
  <2>2. m \in Messages /\ m \notin excused
    BY <1>1, <2>1 DEF HistoryTypeOK
  <2>3. \A i \in DOMAIN older.page : older.page[i].m = m =>
           older.page[i].v = version[m] /\ version[m] # 3
    <3> SUFFICES ASSUME NEW i \in DOMAIN older.page, older.page[i].m = m
                 PROVE  older.page[i].v = version[m] /\ version[m] # 3
      OBVIOUS
    <3>1. older.page[i] \in Shots
      <4>1. older.page \in Seq(Shots)
        BY <1>1 DEF BrowserTypeOK
      <4> QED  BY <4>1
    <3>2. older.page[i].v \in 1..2 /\ version[m] \in Nat
      BY <1>1, <2>2, <3>1 DEF Shots, ServerTypeOK
    <3>3. older.page[i].v <= version[m] /\ ~(older.page[i].v < version[m])
      BY <1>1, <2>1, <2>2 DEF NewsIsNotAhead
    <3> QED  BY <3>2, <3>3
  <2>4. CASE \E i \in DOMAIN older.page : older.page[i].m = m
    BY <1>6, <2>3, <2>4, OlderShows
  <2>5. CASE ~\E i \in DOMAIN older.page : older.page[i].m = m
    <3>1. Shown(m)' = Shown(m)
      <4>1. Shown(m) \subseteq Shown(m)'
        BY <1>6, OlderShows
      <4>2. \A v \in Shown(m)' : v \in Shown(m)
        BY <1>6, <2>5, OlderShows
      <4> QED  BY <4>1, <4>2
    <3>2. m \in due
      BY <2>1, <2>5 DEF MessagesIn
    <3>3. ~strayed
      BY <1>1, <2>1 DEF HistoryTypeOK
    <3> QED  BY <1>1, <2>2, <3>1, <3>2, <3>3 DEF ScreenIsAsSeen
  <2> QED  BY <2>4, <2>5
<1>7. ASSUME NEW n, Heard(n)
      PROVE  ScreenIsAsSeen'
  <2>1. /\ UNCHANGED <<version, active, load, due>> /\ (strayed => strayed')
        /\ excused \subseteq excused'
    BY <1>7, HearingShows
  <2> SUFFICES ASSUME active = "here", load.state = "loaded", ~strayed',
                      NEW m \in due, m \notin excused', seen'[m] = version[m]
               PROVE  IF version[m] = 3 THEN Shown(m)' = {} ELSE version[m] \in Shown(m)'
    BY <2>1 DEF ScreenIsAsSeen
  <2>2. m \in Messages /\ m \notin excused
    BY <1>1, <2>1 DEF HistoryTypeOK
  <2>3. CASE m # n.m
    <3>1. seen'[m] = seen[m] /\ Shown(m)' = Shown(m)
      BY <1>7, <2>2, <2>3, HearingShows
    <3> QED  BY <1>1, <2>1, <2>2, <3>1 DEF ScreenIsAsSeen
  <2>4. CASE m = n.m
    <3>1. seen'[m] = n.v
      BY <1>7, <2>4, HearingShows
    <3> QED  BY <1>7, <2>4, <3>1, HearingShows
  <2> QED  BY <2>3, <2>4
<1>8. ASSUME Writing
      PROVE  ScreenIsAsSeen'
  <2>1. ASSUME NEW m \in Messages, NEW own \in BOOLEAN, Insert(m, own) \/ RollBackPost(m)
        PROVE  ScreenIsAsSeen'
    <3>1. UNCHANGED <<version, active, load, items, strayed, seen, due, excused>>
      BY <2>1 DEF Insert, RollBackPost, browser, history
    <3> QED  BY <1>2, <3>1
  <2>2. ASSUME NEW m \in Messages, NEW own \in BOOLEAN, Edit(m, own)
        PROVE  ScreenIsAsSeen'
    <3>1. /\ UNCHANGED <<active, load, items, strayed, seen, due, excused>>
          /\ version' = [version EXCEPT ![m] = 2] /\ version[m] < 2 /\ 2 \in 1..3
      BY <2>2 DEF Edit, browser, history
    <3> QED  BY <1>3, <3>1
  <2>3. ASSUME NEW m \in Messages, NEW own \in BOOLEAN, Delete(m, own)
        PROVE  ScreenIsAsSeen'
    <3>1. /\ UNCHANGED <<active, load, items, strayed, seen, due, excused>>
          /\ version' = [version EXCEPT ![m] = 3] /\ 3 \in 1..3 /\ m \in There
      BY <2>3 DEF Delete, browser
    <3>2. version[m] < 3
      BY <1>1, <3>1 DEF VersionsFollowThePhase, There
    <3> QED  BY <1>3, <3>1, <3>2
  <2>4. ASSUME NEW m \in Messages, CommitPost(m)
        PROVE  ScreenIsAsSeen'
    <3>1. /\ UNCHANGED <<active, load, items, strayed, seen, excused>>
          /\ version' = [version EXCEPT ![m] = 1] /\ 1 \in 1..3
          /\ due' \subseteq due \cup {m} /\ phase[m] = "inserted"
      BY <2>4 DEF CommitPost, browser
    <3>2. version[m] < 1
      BY <1>1, <3>1 DEF VersionsFollowThePhase
    <3> QED  BY <1>3, <3>1, <3>2
  <2> QED  BY <1>8, <2>1, <2>2, <2>3, <2>4 DEF Writing
<1>9. ASSUME MarkRead \/ Rest \/ UNCHANGED fvars \/ Subscribe \/ AskOlder \/ ReadOlder
      PROVE  ScreenIsAsSeen'
  <2>1. UNCHANGED <<version, active, load, items, strayed, seen, due, excused>>
    BY <1>9 DEF MarkRead, Rest, Subscribe, AskOlder, ReadOlder, fvars, server, browser, history
  <2> QED  BY <1>2, <2>1
<1>10. ASSUME NEW n \in air, LoseNews(n)
       PROVE  ScreenIsAsSeen'
  <2>1. /\ UNCHANGED <<version, active, load, items, strayed, seen, due>>
        /\ excused \subseteq excused'
    BY <1>10 DEF LoseNews, server, browser
  <2> QED  BY <1>2, <2>1
<1> QED  BY <1>4, <1>5, <1>6, <1>7, <1>8, <1>9, <1>10 DEF Work, Load, Hear, Heard

----------------------------------------------------------------------------
(* Scrolling.                                                               *)

(* As long as nothing is deleted, what was there at the start is there.     *)
LEMMA StartStaysThere ==
    ASSUME FeedInv, [Work]_fvars
    PROVE  StartIsThere'
<1>1. StartIsThere /\ HistoryTypeOK /\ HistoryTypeOK'
  BY HistoryTypesStay DEF FeedInv, FeedTypeOK, ScrollInv
<1>2. \/ UNCHANGED <<atRead, shrunk>>
      \/ shrunk' = TRUE
      \/ atRead' = There /\ There' = There
  <2>1. ReadNewest => UNCHANGED <<atRead, shrunk>> \/ (atRead' = There /\ There' = There)
    BY DEF ReadNewest, There, server
  <2>2. \/ UNCHANGED <<atRead, shrunk>> \/ shrunk' = TRUE \/ ReadNewest
    BY DEF Work, Writing, Load, Hear, Rest, Insert, Edit, Delete, CommitPost, RollBackPost,
           MarkRead, OpenChat, Subscribe, ShowNewest, AskOlder, ReadOlder, ShowOlder,
           HandleAnswer, HandleNews, LoseNews, fvars, history
  <2> QED  BY <2>1, <2>2
<1> QED  BY <1>1, <1>2, ThereStays DEF StartIsThere, HistoryTypeOK

(* What a chat shows of the messages of the start, it shows until another   *)
(* page replaces it or one of them is deleted.                              *)
LEMMA ShownStays ==
    ASSUME FeedInv, [Work]_fvars, ~ShowNewest, ~shrunk, NEW m \in atRead, Shown(m) # {}
    PROVE  Shown(m)' # {}
<1>1. /\ BrowserTypeOK /\ HistoryTypeOK /\ VersionsFollowThePhase /\ StartIsThere
  BY DEF FeedInv, FeedTypeOK, ScrollInv
<1>2. m \in Messages /\ version[m] \in 1..2
  BY <1>1 DEF StartIsThere, There, VersionsFollowThePhase
<1>3. ASSUME UNCHANGED items
      PROVE  Shown(m)' # {}
  <2>1. Shown(m)' = Shown(m)
    BY <1>3 DEF Shown, CopiesOf
  <2> QED  BY <2>1
<1>4. ASSUME NEW n, Heard(n)
      PROVE  Shown(m)' # {}
  <2>1. CASE m # n.m
    <3>1. Shown(m)' = Shown(m)
      BY <1>2, <1>4, <2>1, HearingShows
    <3> QED  BY <3>1
  <2>2. CASE m = n.m
    <3>1. n.v <= version[m] /\ n.v \in 1..3
      BY <1>4, <2>2, HearingShows DEF News
    <3>2. n.v # 3
      BY <1>2, <3>1
    <3>3. n.v \in Shown(m)'
      BY <1>4, <2>2, <3>2, HearingShows
    <3> QED  BY <3>3
  <2> QED  BY <2>1, <2>2
<1>5. ASSUME ShowOlder
      PROVE  Shown(m)' # {}
  <2>1. Shown(m) \subseteq Shown(m)'
    BY <1>5, OlderShows
  <2> QED  BY <2>1
<1>6. UNCHANGED items \/ ShowOlder \/ \E n : Heard(n)
  BY DEF Work, Writing, Load, Hear, Heard, Rest, Insert, Edit, Delete, CommitPost,
         RollBackPost, MarkRead, OpenChat, Subscribe, ReadNewest, AskOlder, ReadOlder,
         LoseNews, fvars, browser
<1> QED  BY <1>3, <1>4, <1>5, <1>6

(* Which steps move the pages, the cursor and the chat.                     *)
LEMMA ScrollSteps ==
    ASSUME FeedInv, [Work]_fvars
    PROVE  \/ /\ UNCHANGED <<active, load, older, cursor, atRead>>
              /\ (strayed => strayed') /\ (shrunk => shrunk')
           \/ OpenChat \/ ReadNewest \/ ShowNewest \/ AskOlder \/ ReadOlder \/ ShowOlder
<1>1. HistoryTypeOK
  BY DEF FeedInv, FeedTypeOK
<1>2. Writing => /\ UNCHANGED <<active, load, older, cursor, atRead, strayed>>
                 /\ (shrunk => shrunk')
  BY <1>1 DEF Writing, Insert, Edit, Delete, CommitPost, RollBackPost, browser, history
<1>3. MarkRead \/ Rest \/ UNCHANGED fvars \/ Subscribe
        => UNCHANGED <<active, load, older, cursor, atRead, strayed, shrunk>>
  BY DEF MarkRead, Rest, Subscribe, fvars, browser, history
<1>4. \A n \in air :
         LoseNews(n) => UNCHANGED <<active, load, older, cursor, atRead, strayed, shrunk>>
  BY DEF LoseNews, browser
<1>5. ASSUME NEW n, Heard(n)
      PROVE  /\ UNCHANGED <<active, load, older, cursor, atRead, shrunk>>
             /\ (strayed => strayed')
  BY <1>5, HearingShows
<1> QED  BY <1>2, <1>3, <1>4, <1>5 DEF Work, Load, Hear, Heard

(* What was there at the start is on the newest page or beyond its cursor.  *)
LEMMA PageStaysOrBeyond ==
    ASSUME FeedInv, [Work]_fvars
    PROVE  PageOrBeyond'
<1>1. /\ ServerTypeOK /\ BrowserTypeOK /\ HistoryTypeOK /\ HistoryTypeOK' /\ ServerTypeOK'
      /\ VersionsFollowThePhase /\ PageOrBeyond
  BY HistoryTypesStay, ServerTypesStay DEF FeedInv, FeedTypeOK, ScrollInv
<1> SUFFICES ASSUME active' = "here", load'.state = "read", ~shrunk'
             PROVE  atRead' \subseteq MessagesIn(load.page)' \cup Beyond(load.next)'
  BY DEF PageOrBeyond
<1>2. There \subseteq There'
  BY ThereStays
<1>3. ASSUME UNCHANGED <<active, load, atRead>>, shrunk => shrunk'
      PROVE  atRead' \subseteq MessagesIn(load.page)' \cup Beyond(load.next)'
  <2>1. atRead \subseteq MessagesIn(load.page) \cup Beyond(load.next) /\ load.next \in Nat
    BY <1>1, <1>3 DEF PageOrBeyond, BrowserTypeOK
  <2>2. MessagesIn(load.page)' = MessagesIn(load.page)
    BY <1>3 DEF MessagesIn
  <2>3. \A m \in Messages : /\ Newer(m) \in Nat /\ Newer(m)' \in Nat
                            /\ Newer(m) <= Newer(m)'
    BY <1>2, NewerGrows
  <2>4. Beyond(load.next) \subseteq Beyond(load.next)'
    BY <1>3, <2>1, <2>3 DEF Beyond
  <2> QED  BY <1>3, <2>1, <2>2, <2>4
<1>4. ASSUME ReadNewest
      PROVE  atRead' \subseteq MessagesIn(load.page)' \cup Beyond(load.next)'
  <2>1. /\ load' = [state |-> "read", page |-> Page(0), next |-> NextCursor(0)]
        /\ atRead' = There /\ UNCHANGED phase
    BY <1>4 DEF ReadNewest, server
  <2>2. \A m \in There : m \in MessagesIn(Page(0)) \cup Beyond(NextCursor(0))
    <3>1. \A m \in There : Newer(m) >= 0
      BY ThereIsFinite
    <3> QED  BY <1>1, <3>1, PageOrCursor
  <2>3. load'.page = Page(0) /\ load'.next = NextCursor(0)
    BY <2>1
  <2>4. \A m \in Messages : Newer(m)' = Newer(m)
    BY <2>1 DEF Newer, There
  <2>5. Beyond(load.next)' = Beyond(NextCursor(0))
    BY <2>3, <2>4 DEF Beyond, Messages
  <2>6. MessagesIn(load.page)' = MessagesIn(Page(0))
    BY <2>3 DEF MessagesIn
  <2> QED  BY <2>1, <2>2, <2>5, <2>6
<1>5. ASSUME OpenChat \/ ShowNewest
      PROVE  FALSE
  BY <1>5 DEF OpenChat, ShowNewest
<1>6. AskOlder \/ ReadOlder \/ ShowOlder
        => UNCHANGED <<active, load, atRead>> /\ (shrunk => shrunk')
  BY <1>1 DEF AskOlder, ReadOlder, ShowOlder, history, HistoryTypeOK
<1> QED  BY <1>3, <1>4, <1>5, <1>6, ScrollSteps

(* What was there at the start is on the screen or beyond the cursor.       *)
LEMMA ShownStaysOrBeyond ==
    ASSUME FeedInv, [Work]_fvars
    PROVE  ShownOrBeyond'
<1>1. /\ BrowserTypeOK /\ HistoryTypeOK /\ HistoryTypeOK' /\ VersionsFollowThePhase
      /\ StartIsThere /\ PageOrBeyond /\ ShownOrBeyond /\ OlderOrBeyond
  BY HistoryTypesStay DEF FeedInv, FeedTypeOK, ScrollInv
<1> SUFFICES ASSUME active' = "here", load'.state = "loaded", ~strayed', ~shrunk',
                    NEW m \in atRead'
             PROVE  Shown(m)' # {} \/ m \in Beyond(cursor)'
  BY DEF ShownOrBeyond
<1>2. There \subseteq There'
  BY ThereStays
<1>3. m \in Messages
  BY <1>1 DEF HistoryTypeOK
<1>4. Newer(m) \in Nat /\ Newer(m)' \in Nat /\ Newer(m) <= Newer(m)'
  BY <1>2, <1>3, NewerGrows
<1>5. cursor \in Nat /\ load.next \in Nat /\ older.next \in Nat
  BY <1>1 DEF BrowserTypeOK
<1>6. ASSUME UNCHANGED <<active, load, cursor, atRead>>, strayed => strayed', shrunk => shrunk'
      PROVE  Shown(m)' # {} \/ m \in Beyond(cursor)'
  <2>1. /\ active = "here" /\ load.state = "loaded" /\ ~strayed /\ ~shrunk
        /\ m \in atRead
    BY <1>6
  <2>2. Shown(m) # {} \/ m \in Beyond(cursor)
    BY <1>1, <2>1 DEF ShownOrBeyond
  <2>3. ~ShowNewest
    BY <2>1 DEF ShowNewest
  <2>4. Shown(m) # {} => Shown(m)' # {}
    BY <2>1, <2>3, ShownStays
  <2>5. m \in Beyond(cursor) => m \in Beyond(cursor)'
    BY <1>3, <1>4, <1>5, <1>6 DEF Beyond
  <2> QED  BY <2>2, <2>4, <2>5
<1>7. ASSUME OpenChat \/ ReadNewest
      PROVE  FALSE
  <2>1. load'.state # "loaded"
    BY <1>1, <1>7 DEF OpenChat, ReadNewest, BrowserTypeOK
  <2> QED  BY <2>1
<1>8. ASSUME ShowNewest
      PROVE  Shown(m)' # {} \/ m \in Beyond(cursor)'
  <2>1. /\ UNCHANGED <<active, atRead, shrunk>> /\ load.state = "read"
        /\ cursor' = load.next
    BY <1>8 DEF ShowNewest
  <2>2. m \in MessagesIn(load.page) \/ m \in Beyond(load.next)
    BY <1>1, <2>1 DEF PageOrBeyond
  <2>3. m \in MessagesIn(load.page) => Shown(m)' # {}
    BY <1>8, NewestShows DEF MessagesIn
  <2>4. m \in Beyond(load.next) => m \in Beyond(cursor)'
    BY <1>3, <1>4, <1>5, <2>1 DEF Beyond
  <2> QED  BY <2>2, <2>3, <2>4
<1>9. ASSUME ShowOlder
      PROVE  Shown(m)' # {} \/ m \in Beyond(cursor)'
  <2>1. /\ UNCHANGED <<active, atRead, shrunk>> /\ older.state = "read"
        /\ cursor' = older.next /\ strayed' = (strayed \/ older.stale)
    BY <1>9 DEF ShowOlder
  <2>2. Shown(m) # {} \/ m \in MessagesIn(older.page) \/ m \in Beyond(older.next)
    BY <1>1, <2>1 DEF OlderOrBeyond
  <2>3. Shown(m) # {} => Shown(m)' # {}
    <3>1. Shown(m) \subseteq Shown(m)'
      BY <1>9, OlderShows
    <3> QED  BY <3>1
  <2>4. m \in MessagesIn(older.page) => Shown(m)' # {}
    BY <1>9, OlderShows DEF MessagesIn
  <2>5. m \in Beyond(older.next) => m \in Beyond(cursor)'
    BY <1>3, <1>4, <1>5, <2>1 DEF Beyond
  <2> QED  BY <2>2, <2>3, <2>4, <2>5
<1>10. AskOlder \/ ReadOlder => /\ UNCHANGED <<active, load, cursor, atRead>>
                                /\ (strayed => strayed') /\ (shrunk => shrunk')
  BY DEF AskOlder, ReadOlder, history
<1> QED  BY <1>6, <1>7, <1>8, <1>9, <1>10, ScrollSteps

(* While older messages are on their way, it is on the screen, on their     *)
(* page, or beyond the cursor they bring.                                   *)
LEMMA OlderStaysOrBeyond ==
    ASSUME FeedInv, [Work]_fvars
    PROVE  OlderOrBeyond'
<1>1. /\ ServerTypeOK /\ BrowserTypeOK /\ HistoryTypeOK /\ HistoryTypeOK'
      /\ VersionsFollowThePhase /\ LoadInv
      /\ StartIsThere /\ ShownOrBeyond /\ OlderOrBeyond
  BY HistoryTypesStay DEF FeedInv, FeedTypeOK, ScrollInv
<1> SUFFICES ASSUME active' = "here", older'.state = "read", ~older'.stale, ~strayed', ~shrunk',
                    NEW m \in atRead'
             PROVE  \/ Shown(m)' # {} \/ m \in MessagesIn(older.page)'
                    \/ m \in Beyond(older.next)'
  BY DEF OlderOrBeyond
<1>2. There \subseteq There'
  BY ThereStays
<1>3. m \in Messages
  BY <1>1 DEF HistoryTypeOK
<1>4. Newer(m) \in Nat /\ Newer(m)' \in Nat /\ Newer(m) <= Newer(m)'
  BY <1>2, <1>3, NewerGrows
<1>5. older.next \in Nat /\ older.offset \in Nat
  BY <1>1 DEF BrowserTypeOK
<1>6. older.state # "idle" /\ ~older.stale => load.state = "loaded"
  BY <1>1 DEF LoadInv
<1>7. ASSUME UNCHANGED <<active, load, older, cursor, atRead>>, strayed => strayed',
             shrunk => shrunk'
      PROVE  \/ Shown(m)' # {} \/ m \in MessagesIn(older.page)'
             \/ m \in Beyond(older.next)'
  <2>1. /\ active = "here" /\ older.state = "read" /\ ~older.stale /\ ~strayed /\ ~shrunk
        /\ m \in atRead
    BY <1>7
  <2>2. Shown(m) # {} \/ m \in MessagesIn(older.page) \/ m \in Beyond(older.next)
    BY <1>1, <2>1 DEF OlderOrBeyond
  <2>3. ~ShowNewest
    BY <1>6, <2>1 DEF ShowNewest
  <2>4. Shown(m) # {} => Shown(m)' # {}
    BY <2>1, <2>3, ShownStays
  <2>5. MessagesIn(older.page)' = MessagesIn(older.page)
    BY <1>7 DEF MessagesIn
  <2>6. m \in Beyond(older.next) => m \in Beyond(older.next)'
    BY <1>3, <1>4, <1>5, <1>7 DEF Beyond
  <2> QED  BY <2>2, <2>4, <2>5, <2>6
<1>8. ASSUME OpenChat
      PROVE  FALSE
  <2>1. older'.state = "idle" \/ older'.stale
    BY <1>1, <1>8 DEF OpenChat, BrowserTypeOK
  <2> QED  BY <2>1
<1>9. ASSUME ReadNewest \/ ShowNewest
      PROVE  FALSE
  <2>1. older' = older /\ load.state # "loaded"
    BY <1>9 DEF ReadNewest, ShowNewest
  <2> QED  BY <1>6, <2>1
<1>10. ASSUME AskOlder \/ ShowOlder
       PROVE  FALSE
  <2>1. AskOlder => older'.state = "asked"
    BY DEF AskOlder, NoOlder
  <2>2. ShowOlder => older'.state = "idle"
    BY DEF ShowOlder, NoOlder
  <2> QED  BY <1>10, <2>1, <2>2
<1>11. ASSUME ReadOlder
       PROVE  \/ Shown(m)' # {} \/ m \in MessagesIn(older.page)'
              \/ m \in Beyond(older.next)'
  <2>1. /\ UNCHANGED <<phase, active, load, items, cursor, atRead, strayed, shrunk>>
        /\ older.state = "asked"
    BY <1>11 DEF ReadOlder, history, server
  <2>2. older'.stale = older.stale
    BY <1>1, <1>11 DEF ReadOlder, BrowserTypeOK
  <2>3. load.state = "loaded" /\ older.chat = "here" /\ older.offset = cursor
    BY <1>1, <2>1, <2>2 DEF LoadInv
  <2>4. older'.page = Page(cursor) /\ older'.next = NextCursor(cursor)
    BY <1>1, <1>11, <2>3 DEF ReadOlder, BrowserTypeOK
  <2>5. Shown(m) # {} \/ m \in Beyond(cursor)
    BY <1>1, <2>1, <2>3 DEF ShownOrBeyond
  <2>6. Shown(m)' = Shown(m)
    BY <2>1 DEF Shown, CopiesOf
  <2>7. ASSUME m \in Beyond(cursor)
        PROVE  m \in MessagesIn(older.page)' \/ m \in Beyond(older.next)'
    <3>1. cursor \in Nat /\ Newer(m) >= cursor /\ m \in There
      BY <1>1, <2>1, <2>7 DEF BrowserTypeOK, Beyond, StartIsThere
    <3>2. m \in MessagesIn(Page(cursor)) \/ m \in Beyond(NextCursor(cursor))
      BY <1>1, <3>1, PageOrCursor
    <3>3. MessagesIn(older.page)' = MessagesIn(Page(cursor))
      BY <2>4 DEF MessagesIn
    <3>4. Newer(m)' = Newer(m)
      BY <2>1 DEF Newer, There
    <3>5. m \in Beyond(NextCursor(cursor)) => m \in Beyond(older.next)'
      BY <2>4, <3>4 DEF Beyond
    <3> QED  BY <3>2, <3>3, <3>5
  <2> QED  BY <2>5, <2>6, <2>7
<1> QED  BY <1>7, <1>8, <1>9, <1>10, <1>11, ScrollSteps

----------------------------------------------------------------------------
(* The theorems.                                                            *)

(* Nothing is under way at the start.                                       *)
LEMMA FeedStarts == Init => FeedInv
<1> SUFFICES ASSUME Init PROVE FeedInv
  OBVIOUS
<1>1. PICK k \in 0..N :
        /\ phase = [m \in Messages |-> IF m <= k THEN "there" ELSE "unborn"]
        /\ version = [m \in Messages |-> IF m <= k THEN 1 ELSE 0]
  BY DEF Init
<1>2. /\ mine = {} /\ marker = 0 /\ marked = {} /\ overtaken = {} /\ air = {}
      /\ answer = NoAnswer /\ active = "elsewhere"
      /\ load = [state |-> "loaded", page |-> <<>>, next |-> 0]
      /\ older = NoOlder /\ items = <<>> /\ cursor = 0
      /\ due = {} /\ excused = {} /\ seen = version /\ atRead = {}
      /\ shrunk = FALSE /\ strayed = FALSE
  BY DEF Init
<1>3. <<>> \in Seq(Shots)
  OBVIOUS
<1>4. ServerTypeOK
  BY <1>1, <1>2, FeedAssumption DEF ServerTypeOK
<1>5. HistoryTypeOK
  BY <1>2, <1>4 DEF HistoryTypeOK, ServerTypeOK
<1>6. BrowserTypeOK
  BY <1>2, <1>3 DEF BrowserTypeOK, NoOlder
<1>7. VersionsFollowThePhase
  BY <1>1 DEF VersionsFollowThePhase
<1>8. NewsIsNotAhead
  BY <1>1, <1>2 DEF NewsIsNotAhead, NoAnswer, NoOlder
<1>9. MarkInv
  <2>1. Open = {} /\ Born = {m \in Messages : m <= k} /\ Messages \subseteq Nat
    BY <1>1, FeedAssumption DEF Open, Born, Messages
  <2>2. BornInOrder
    <3> SUFFICES ASSUME NEW m \in Born, NEW i \in 1..m PROVE i \in Born
      BY DEF BornInOrder
    <3>1. m \in 1..N /\ m <= k /\ k \in Nat /\ N \in Nat
      BY <2>1, FeedAssumption DEF Messages
    <3>2. i \in 1..N /\ i <= k
      BY <3>1
    <3> QED  BY <2>1, <3>2 DEF Messages
  <2>3. MarkerIsBorn /\ OnlyOvertakenMessagesSlip
    BY <1>2, FeedAssumption DEF MarkerIsBorn, OnlyOvertakenMessagesSlip, There, Messages
  <2> QED  BY <2>1, <2>2, <2>3 DEF MarkInv, OpenBelowIsOvertaken
<1>10. LoadInv
  BY <1>2 DEF LoadInv, ChatsDoNotMix, NoOlder
<1>11. ScreenInv
  BY <1>1, <1>2 DEF ScreenInv, NewsIsUnderWay, DueIsPosted, PageIsAsSeen, ScreenIsAsSeen
<1>12. ScrollInv
  BY <1>2 DEF ScrollInv, StartIsThere, PageOrBeyond, ShownOrBeyond, OlderOrBeyond
<1> QED  BY <1>4, <1>5, <1>6, <1>7, <1>8, <1>9, <1>10, <1>11, <1>12 DEF FeedInv, FeedTypeOK

(* A request that fails takes nothing with it: the rows, the news and the   *)
(* lists stay.  A screen that is kept under another chat counts as strayed. *)
LEMMA FailuresPreserveFeedInv ==
    ASSUME FeedInv, Fail
    PROVE  FeedInv'
<1>1. /\ ServerTypeOK /\ BrowserTypeOK /\ HistoryTypeOK
      /\ VersionsFollowThePhase /\ NewsIsNotAhead /\ MarkInv /\ LoadInv
      /\ ScreenInv /\ ScrollInv
  BY DEF FeedInv, FeedTypeOK
<1>2. /\ UNCHANGED <<server, marker, marked, overtaken, air, active, items, cursor>>
      /\ UNCHANGED <<due, excused, seen, atRead, shrunk>>
  BY DEF Fail, LoadFails, OlderFails, MarkFails, LoseAnswer, marks, browser, history
<1>3. \/ UNCHANGED load /\ UNCHANGED strayed
      \/ LoadFails /\ load'.state = "loaded" /\ strayed' = TRUE /\ UNCHANGED older
  BY DEF Fail, LoadFails, OlderFails, MarkFails, LoseAnswer, browser, history
<1>4. \/ UNCHANGED older
      \/ older' = NoOlder /\ UNCHANGED load
  BY DEF Fail, LoadFails, OlderFails, MarkFails, LoseAnswer, browser
<1>5. UNCHANGED answer \/ answer' = NoAnswer
  BY DEF Fail, LoadFails, OlderFails, MarkFails, LoseAnswer
<1>6. ServerTypeOK'
  BY <1>1, <1>2 DEF ServerTypeOK, server
<1>7. HistoryTypeOK'
  BY <1>1, <1>2, <1>3 DEF HistoryTypeOK
<1>8. BrowserTypeOK'
  <2>1. <<>> \in Seq(Shots)
    OBVIOUS
  <2>2. load' \in [state : {"asked", "read", "loaded"}, page : Seq(Shots), next : Nat]
    <3>1. CASE LoadFails
      BY <2>1, <3>1 DEF LoadFails
    <3>2. CASE UNCHANGED load
      BY <1>1, <3>2 DEF BrowserTypeOK
    <3> QED  BY <1>3, <3>1, <3>2
  <2>3. older' \in [state : {"idle", "asked", "read"}, chat : {"here", "elsewhere"},
                    offset : Nat, page : Seq(Shots), next : Nat, stale : BOOLEAN]
    <3>1. CASE older' = NoOlder
      BY <2>1, <3>1 DEF NoOlder
    <3>2. CASE UNCHANGED older
      BY <1>1, <3>2 DEF BrowserTypeOK
    <3> QED  BY <1>4, <3>1, <3>2
  <2> QED  BY <1>1, <1>2, <1>5, <2>2, <2>3 DEF BrowserTypeOK
<1>9. VersionsFollowThePhase'
  BY <1>1, <1>2 DEF VersionsFollowThePhase, server
<1>10. NewsIsNotAhead'
  <2>1. \A i \in DOMAIN older'.page : older'.page[i].v <= version[older'.page[i].m]
    BY <1>1, <1>4 DEF NewsIsNotAhead, NoOlder
  <2>2. answer'.v # 0 => answer' \in News /\ answer'.v <= version[answer'.m]
    BY <1>1, <1>5 DEF NewsIsNotAhead, NoAnswer
  <2> QED  BY <1>1, <1>2, <2>1, <2>2 DEF NewsIsNotAhead, server
<1>11. MarkInv'
  BY <1>1, <1>2 DEF MarkInv, BornInOrder, OpenBelowIsOvertaken, MarkerIsBorn,
     OnlyOvertakenMessagesSlip, Born, Open, There, server
<1>12. LoadInv'
  <2>1. CASE UNCHANGED older
    BY <1>1, <1>2, <1>3, <2>1 DEF LoadInv, ChatsDoNotMix
  <2>2. CASE older' = NoOlder /\ UNCHANGED load
    BY <1>1, <1>2, <1>3, <2>2 DEF LoadInv, ChatsDoNotMix, NoOlder
  <2> QED  BY <1>4, <2>1, <2>2
<1>13. \A m : Shown(m)' = Shown(m)
  BY <1>2 DEF Shown, CopiesOf
<1>14. \A m : Newer(m)' = Newer(m)
  BY <1>2 DEF Newer, There, server
<1>15. ScreenInv'
  <2>1. NewsIsUnderWay' /\ DueIsPosted'
    BY <1>1, <1>2 DEF ScreenInv, NewsIsUnderWay, DueIsPosted, server
  <2>2. PageIsAsSeen'
    BY <1>1, <1>2, <1>3 DEF ScreenInv, PageIsAsSeen
  <2>3. ScreenIsAsSeen'
    BY <1>1, <1>2, <1>3, <1>13 DEF ScreenInv, ScreenIsAsSeen, server
  <2> QED  BY <2>1, <2>2, <2>3 DEF ScreenInv
<1>16. \A offset : Beyond(offset)' = Beyond(offset)
  BY <1>14 DEF Beyond
<1>17. ScrollInv'
  <2>1. StartIsThere'
    BY <1>1, <1>2 DEF ScrollInv, StartIsThere, There, server
  <2>2. PageOrBeyond'
    <3>1. CASE UNCHANGED load /\ UNCHANGED strayed
      BY <1>1, <1>2, <1>16, <3>1 DEF ScrollInv, PageOrBeyond, MessagesIn
    <3>2. CASE load'.state = "loaded"
      BY <3>2 DEF PageOrBeyond
    <3> QED  BY <1>3, <3>1, <3>2
  <2>3. ShownOrBeyond'
    BY <1>1, <1>2, <1>3, <1>13, <1>16 DEF ScrollInv, ShownOrBeyond
  <2>4. OlderOrBeyond'
    <3>1. CASE strayed' = TRUE
      BY <3>1 DEF OlderOrBeyond
    <3>2. CASE older' = NoOlder
      BY <3>2 DEF OlderOrBeyond, NoOlder
    <3>3. CASE UNCHANGED older /\ UNCHANGED strayed
      BY <1>1, <1>2, <1>13, <1>16, <3>3 DEF ScrollInv, OlderOrBeyond, MessagesIn
    <3> QED  BY <1>3, <1>4, <3>1, <3>2, <3>3
  <2> QED  BY <2>4, <2>1, <2>2, <2>3 DEF ScrollInv
<1> QED  BY <1>17, <1>6, <1>7, <1>8, <1>9, <1>10, <1>11, <1>12, <1>15 DEF FeedInv, FeedTypeOK

(* FeedInv, which relates the rows, the news under way, the pages under way *)
(* and the screen, is an invariant of the chat and its browser.             *)
THEOREM FeedInvariant == Spec => []FeedInv
<1>1. Init => FeedInv
  BY FeedStarts
<1>2. FeedInv /\ [Next]_fvars => FeedInv'
  <2> SUFFICES ASSUME FeedInv, [Work]_fvars PROVE FeedInv'
    BY FailuresPreserveFeedInv DEF Next
  <2>1. FeedTypeOK'
    BY ServerTypesStay, BrowserTypesStay, HistoryTypesStay DEF FeedTypeOK
  <2>2. VersionsFollowThePhase' /\ NewsIsNotAhead'
    BY VersionsStay, NewsStaysBehind
  <2>3. MarkInv' /\ LoadInv'
    BY MarkStays, LoadStays
  <2>4. ScreenInv'
    BY NewsStaysUnderWay, DueStaysPosted, PageStaysAsSeen, ScreenStaysAsSeen DEF ScreenInv
  <2>5. ScrollInv'
    BY StartStaysThere, PageStaysOrBeyond, ShownStaysOrBeyond, OlderStaysOrBeyond DEF ScrollInv
  <2> QED  BY <2>5, <2>1, <2>2, <2>3, <2>4 DEF FeedInv
<1> QED  BY <1>1, <1>2, PTL DEF Spec

(* When all is quiet the screen shows what is on the server, unless its     *)
(* load failed or an older response came to it, and but for the messages of *)
(* which news was lost, late or heard between the reading of a page and its *)
(* arrival.                                                                 *)
THEOREM QuietScreens == Spec => []QuietScreenIsRight
<1>1. FeedInv => QuietScreenIsRight
  <2> SUFFICES ASSUME FeedInv, Quiet, active = "here", ~strayed, NEW m \in due \ excused
               PROVE  /\ phase[m] = "there" => version[m] \in Shown(m)
                      /\ phase[m] = "gone" => Shown(m) = {}
    BY DEF QuietScreenIsRight
  <2>1. m \in Messages /\ version[m] \in 0..3 /\ seen[m] \in 0..3 /\ seen[m] <= version[m]
    BY DEF FeedInv, FeedTypeOK, ServerTypeOK, HistoryTypeOK, NewsIsNotAhead
  <2>2. ~(seen[m] < version[m])
    BY <2>1 DEF FeedInv, ScreenInv, NewsIsUnderWay, Quiet
  <2>3. IF version[m] = 3 THEN Shown(m) = {} ELSE version[m] \in Shown(m)
    BY <2>1, <2>2 DEF FeedInv, ScreenInv, ScreenIsAsSeen, Quiet
  <2>4. version[m] # 0
    BY DEF FeedInv, ScreenInv, DueIsPosted
  <2>5. /\ phase[m] = "there" => version[m] \in 1..2
        /\ phase[m] = "gone" => version[m] \in {0, 3}
    BY <2>1 DEF FeedInv, VersionsFollowThePhase
  <2> QED  BY <2>3, <2>4, <2>5
<1> QED  BY <1>1, FeedInvariant, PTL

(* Who scrolls up to the first message has seen every message that was      *)
(* there at the start, unless one was deleted meanwhile, the load failed,   *)
(* or an older response came to the screen.                                 *)
THEOREM ScrollingIsComplete == Spec => []ScrollingUpSkipsNothing
<1>1. FeedInv => ScrollingUpSkipsNothing
  BY DEF FeedInv, ScrollInv, ShownOrBeyond, Beyond, ScrollingUpSkipsNothing
<1> QED  BY <1>1, FeedInvariant, PTL

(* Messages of one chat are on the screen of another only while that is     *)
(* loading, after its load failed, or after a response that was asked for   *)
(* before the change.                                                       *)
THEOREM ChatsStayApart == Spec => []ChatsDoNotMix
<1>1. FeedInv => ChatsDoNotMix
  BY DEF FeedInv, LoadInv
<1> QED  BY <1>1, FeedInvariant, PTL

(* The marker says of no message that it is read that was not there when    *)
(* the chat was marked, unless the message was overtaken.                   *)
THEOREM MarkersSlipOnlyWhenOvertaken == Spec => []OnlyOvertakenMessagesSlip
<1>1. FeedInv => OnlyOvertakenMessagesSlip
  BY DEF FeedInv, MarkInv
<1> QED  BY <1>1, FeedInvariant, PTL
============================================================================
