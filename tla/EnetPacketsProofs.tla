------------------------- MODULE EnetPacketsProofs -------------------------
(***************************************************************************)
(* The memory of a host, for any number of peers, packets and commands:    *)
(* ListsLinked, CountsHolders, NothingDangles and NothingLeaks always      *)
(* hold.                                                                   *)
(*                                                                         *)
(* The invariant says where each command is: at[c] is the sentinel of the  *)
(* list it is in, or None.  The links agree with that (Lists), as do the   *)
(* kinds of the commands (Placed) and the counts of the packets (Counted). *)
(* While a packet is being sent it may have commands although it is still  *)
(* the application's (sent), and commands its count does not tell of yet   *)
(* (those in the list uncounted).                                          *)
(***************************************************************************)
EXTENDS EnetPackets, EnetArithmetic

-----------------------------------------------------------------------------
(* The operations of list.c keep the lists they are used on linked, for    *)
(* any heap and any number of lists: the nodes that are in some list, the  *)
(* sentinels among them, remain one another's neighbours.                  *)

Heaps(S, Values) == [next : [S -> Values], previous : [S -> Values]]

(***************************************************************************)
(* enet_list_clear (list.c:13): a sentinel that is in no list becomes an   *)
(* empty list; the other lists are left alone.                             *)
(***************************************************************************)
THEOREM ClearKeepsLinked ==
  ASSUME NEW S, NEW Values, NEW heap \in Heaps(S, Values),
         NEW nodes \in SUBSET S, NEW list \in S \ nodes,
         Linked(heap, nodes)
  PROVE  Linked(EnetListClear(heap, list), nodes \cup {list})
  BY DEF Linked, EnetListClear, Heaps

(***************************************************************************)
(* enet_list_insert (list.c:20): a node that is in no list is in one       *)
(* afterwards, in front of position.                                       *)
(***************************************************************************)
THEOREM InsertKeepsLinked ==
  ASSUME NEW S, NEW Values, NEW heap \in Heaps(S, Values),
         NEW nodes \in SUBSET S, NEW position \in nodes, NEW node \in S \ nodes,
         Linked(heap, nodes)
  PROVE  /\ Linked(EnetListInsert(heap, position, node), nodes \cup {node})
         /\ EnetListInsert(heap, position, node).next[node] = position
         /\ EnetListInsert(heap, position, node).previous[node] = heap.previous[position]
  BY DEF Linked, EnetListInsert, Heaps

(***************************************************************************)
(* enet_list_remove (list.c:34): the other nodes remain linked, and        *)
(* nothing among them points to the removed one any more, which can be     *)
(* freed.                                                                  *)
(***************************************************************************)
THEOREM RemoveKeepsLinked ==
  ASSUME NEW S, NEW Values, NEW heap \in Heaps(S, Values),
         NEW nodes \in SUBSET S, NEW position \in nodes,
         Linked(heap, nodes)
  PROVE  Linked(EnetListRemove(heap, position), nodes \ {position})
  BY DEF Linked, EnetListRemove, Heaps

(***************************************************************************)
(* enet_list_move (list.c:43): the same nodes are linked after a run went  *)
(* from its place to another, also when it is moved in front of the node   *)
(* that follows it already.  Only in front of itself it must not be moved. *)
(***************************************************************************)
THEOREM MoveKeepsLinked ==
  ASSUME NEW S, NEW Values, NEW heap \in Heaps(S, Values),
         NEW nodes \in SUBSET S,
         NEW position \in nodes, NEW first \in nodes, NEW last \in nodes,
         position # first,
         Linked(heap, nodes)
  PROVE  Linked(EnetListMove(heap, position, first, last), nodes)
  BY DEF Linked, EnetListMove, Heaps

-----------------------------------------------------------------------------
(* The lists of a host.                                                    *)

Places == [Commands -> Sentinels \cup {None}]

\* The list a node is in, those that are in one, and those of one list.
Home(at, n) == IF n \in Sentinels THEN n ELSE at[n]
Used(at) == Sentinels \cup {c \in Commands : at[c] # None}
Members(at, list) == {c \in Commands : at[c] = list}

\* Who is in S cannot be left along next.
Closed(heap, at, S) == \A n \in S : n \in Used(at) => heap.next[n] \in S

\* The links agree with at: along them no list is left, and every node of a list is
\* met by those who begin at the sentinels.
Lists(heap, at) ==
  /\ heap \in Heaps(Nodes, Nodes \cup {None})
  /\ Linked(heap, Used(at))
  /\ \A n \in Used(at) : Home(at, heap.next[n]) = Home(at, n)
  /\ \A S \in SUBSET Nodes : Sentinels \subseteq S /\ Closed(heap, at, S) => Used(at) \subseteq S

\* What is in a list, and where its neighbours are.
LEMMA ListsFacts ==
  ASSUME NEW at \in Places, NEW heap, Lists(heap, at), NEW n \in Used(at)
  PROVE  /\ Used(at) \subseteq Nodes /\ None \notin Nodes
         /\ heap.next[n] \in Used(at) /\ heap.previous[n] \in Used(at)
         /\ heap.previous[heap.next[n]] = n /\ heap.next[heap.previous[n]] = n
         /\ Home(at, heap.next[n]) = Home(at, n)
         /\ Home(at, heap.previous[n]) = Home(at, n)
         /\ Home(at, n) \in Sentinels
  <1>1. Used(at) \subseteq Nodes /\ None \notin Nodes
    BY PacketsAssumption DEF Used, Nodes
  <1>2. /\ heap.next[n] \in Used(at) /\ heap.previous[n] \in Used(at)
        /\ heap.previous[heap.next[n]] = n /\ heap.next[heap.previous[n]] = n
    BY DEF Lists, Linked
  <1>3. /\ Home(at, heap.next[n]) = Home(at, n)
        /\ Home(at, heap.previous[n]) = Home(at, n)
    BY <1>2 DEF Lists
  <1>4. Home(at, n) \in Sentinels
    BY DEF Home, Used, Places
  <1> QED BY <1>1, <1>2, <1>3, <1>4

\* An empty list has no commands; the front of another is one of them.
LEMMA FrontOfList ==
  ASSUME NEW at \in Places, NEW heap, Lists(heap, at), NEW list \in Sentinels
  PROVE  /\ heap.next[list] = list => Members(at, list) = {}
         /\ heap.next[list] # list => heap.next[list] \in Members(at, list)
  <1>1. list \in Used(at) /\ Home(at, list) = list
    BY DEF Used, Home
  <1>2. /\ heap.next[list] \in Used(at) /\ Home(at, heap.next[list]) = list
        /\ Used(at) \subseteq Nodes /\ None \notin Nodes
    BY <1>1, ListsFacts
  <1>3. ASSUME heap.next[list] # list PROVE heap.next[list] \in Members(at, list)
    BY <1>2, <1>3 DEF Home, Used, Members
  <1>4. ASSUME heap.next[list] = list PROVE Members(at, list) = {}
    <2> DEFINE S == Nodes \ Members(at, list)
    <2>1. S \in SUBSET Nodes /\ Sentinels \subseteq S
      BY PacketsAssumption DEF Members, Nodes
    <2>2. ASSUME NEW n \in S, n \in Used(at) PROVE heap.next[n] \in S
      <3>1. heap.next[n] \in Used(at) /\ Home(at, heap.next[n]) = Home(at, n)
        BY <2>2, ListsFacts
      <3>2. CASE heap.next[n] \in Members(at, list)
        <4>1. Home(at, heap.next[n]) = list
          BY <3>2, PacketsAssumption DEF Members, Home
        <4>2. n = list
          BY <2>2, <3>1, <4>1 DEF Home, Members, Used
        <4>3. list \notin Members(at, list)
          BY PacketsAssumption DEF Members
        <4> QED BY <1>4, <3>2, <4>2, <4>3
      <3> QED BY <1>2, <3>1, <3>2
    <2>3. Used(at) \subseteq S
      BY <2>1, <2>2 DEF Lists, Closed
    <2>4. Members(at, list) \subseteq Used(at)
      BY PacketsAssumption DEF Members, Used, Nodes
    <2> QED BY <2>3, <2>4
  <1> QED BY <1>3, <1>4

\* No node is its own neighbour but the sentinel of an empty list.
LEMMA NotItsOwn ==
  ASSUME NEW at \in Places, NEW heap, Lists(heap, at), NEW c \in Commands, at[c] # None
  PROVE  heap.next[c] # c /\ heap.previous[c] # c
  <1>1. c \in Used(at) /\ c \notin Sentinels
    BY PacketsAssumption DEF Used
  <1>2. heap.next[c] # c
    <2> SUFFICES ASSUME heap.next[c] = c PROVE FALSE
      OBVIOUS
    <2> DEFINE S == Nodes \ {c}
    <2>1. ASSUME NEW n \in S, n \in Used(at) PROVE heap.next[n] \in S
      BY <1>1, <2>1, ListsFacts
    <2>2. S \in SUBSET Nodes /\ Sentinels \subseteq S
      BY <1>1 DEF Nodes
    <2>3. Used(at) \subseteq S
      BY <2>1, <2>2 DEF Lists, Closed
    <2> QED BY <1>1, <2>3
  <1> QED BY <1>1, <1>2, ListsFacts

\* A command that is in no list goes in front of position.
LEMMA InsertLists ==
  ASSUME NEW at \in Places, NEW heap, Lists(heap, at),
         NEW position \in Used(at), NEW c \in Commands, at[c] = None
  PROVE  /\ [at EXCEPT ![c] = Home(at, position)] \in Places
         /\ Lists(EnetListInsert(heap, position, c), [at EXCEPT ![c] = Home(at, position)])
  <1> DEFINE to == [at EXCEPT ![c] = Home(at, position)]
             new == EnetListInsert(heap, position, c)
             before == heap.previous[position]
  <1>1. /\ c \in Nodes /\ c \notin Sentinels /\ c \notin Used(at)
        /\ Used(at) \in SUBSET Nodes /\ None \notin Nodes
        /\ before \in Used(at) /\ heap.next[before] = position
        /\ Home(at, before) = Home(at, position) /\ Home(at, position) \in Sentinels
    BY ListsFacts, PacketsAssumption DEF Used, Nodes
  <1>2. to \in Places
    BY <1>1 DEF Places
  <1>3. Used(to) = Used(at) \cup {c}
    BY <1>1 DEF Used, Places, Nodes
  <1>4. heap \in Heaps(Nodes, Nodes \cup {None}) /\ Linked(heap, Used(at))
    BY DEF Lists
  <1>5. /\ Linked(new, Used(at) \cup {c})
        /\ new.next = [heap.next EXCEPT ![c] = position, ![before] = c]
    BY <1>1, <1>4, InsertKeepsLinked DEF EnetListInsert
  <1>6. new \in Heaps(Nodes, Nodes \cup {None})
    BY <1>1, <1>4 DEF EnetListInsert, Heaps
  <1>7. /\ new.next[c] = position /\ new.next[before] = c
        /\ \A n \in Used(at) \ {before} : new.next[n] = heap.next[n]
    BY <1>1, <1>4, <1>5 DEF Heaps
  <1>8. /\ Home(to, c) = Home(at, position)
        /\ \A n \in Used(at) : Home(to, n) = Home(at, n)
    BY <1>1 DEF Home, Used, Places
  <1> HIDE DEF to, new, before
  <1>9. ASSUME NEW n \in Used(to) PROVE Home(to, new.next[n]) = Home(to, n)
    <2>1. CASE n = c
      BY <1>7, <1>8, <2>1
    <2>2. CASE n = before
      BY <1>1, <1>7, <1>8, <2>2
    <2>3. CASE n \in Used(at) \ {before}
      <3>1. heap.next[n] \in Used(at) /\ Home(at, heap.next[n]) = Home(at, n)
        BY <2>3, ListsFacts
      <3> QED BY <1>7, <1>8, <2>3, <3>1
    <2> QED BY <1>3, <2>1, <2>2, <2>3
  <1>10. ASSUME NEW S \in SUBSET Nodes, Sentinels \subseteq S, Closed(new, to, S)
         PROVE  Used(to) \subseteq S
    <2> DEFINE R == S \ {c}
    <2>1. ASSUME NEW n \in R, n \in Used(at) PROVE heap.next[n] \in R
      <3>1. new.next[n] \in S
        BY <1>3, <1>10, <2>1 DEF Closed
      <3>2. CASE n = before
        <4>1. position \in S
          BY <1>3, <1>7, <1>10, <3>1, <3>2 DEF Closed
        <4> QED BY <1>1, <3>2, <4>1
      <3>3. CASE n # before
        <4>1. heap.next[n] \in Used(at)
          BY <2>1, ListsFacts
        <4> QED BY <1>1, <1>7, <2>1, <3>1, <3>3, <4>1
      <3> QED BY <3>2, <3>3
    <2>2. Used(at) \subseteq R
      BY <1>1, <1>10, <2>1 DEF Lists, Closed
    <2>3. c \in S
      BY <1>1, <1>3, <1>7, <1>10, <2>2 DEF Closed
    <2> QED BY <1>3, <2>2, <2>3
  <1>11. Lists(new, to)
    BY <1>3, <1>5, <1>6, <1>9, <1>10 DEF Lists
  <1> QED BY <1>2, <1>11 DEF to, new, before

\* A command leaves the list it is in.
LEMMA RemoveLists ==
  ASSUME NEW at \in Places, NEW heap, Lists(heap, at),
         NEW c \in Commands, at[c] # None
  PROVE  /\ [at EXCEPT ![c] = None] \in Places
         /\ Lists(EnetListRemove(heap, c), [at EXCEPT ![c] = None])
  <1> DEFINE to == [at EXCEPT ![c] = None]
             new == EnetListRemove(heap, c)
             before == heap.previous[c]
             after == heap.next[c]
  <1>1. /\ c \in Used(at) /\ c \notin Sentinels
        /\ Used(at) \in SUBSET Nodes /\ None \notin Nodes
        /\ before \in Used(at) /\ after \in Used(at) /\ heap.next[before] = c
        /\ Home(at, before) = Home(at, c) /\ Home(at, after) = Home(at, c)
    BY ListsFacts, PacketsAssumption DEF Used
  <1>2. before # c /\ after # c
    BY NotItsOwn
  <1>3. to \in Places /\ Used(to) = Used(at) \ {c}
    BY <1>1 DEF Used, Places
  <1>4. heap \in Heaps(Nodes, Nodes \cup {None}) /\ Linked(heap, Used(at))
    BY DEF Lists
  <1>5. /\ Linked(new, Used(at) \ {c})
        /\ new.next = [heap.next EXCEPT ![before] = after]
    BY <1>1, <1>4, RemoveKeepsLinked DEF EnetListRemove
  <1>6. new \in Heaps(Nodes, Nodes \cup {None})
    BY <1>1, <1>4 DEF EnetListRemove, Heaps
  <1>7. /\ new.next[before] = after
        /\ \A n \in Used(at) \ {before} : new.next[n] = heap.next[n]
    BY <1>1, <1>4, <1>5 DEF Heaps
  <1>8. \A n \in Used(at) \ {c} : Home(to, n) = Home(at, n)
    BY <1>1 DEF Home, Used, Places
  <1> HIDE DEF to, new, before, after
  <1>9. ASSUME NEW n \in Used(to) PROVE Home(to, new.next[n]) = Home(to, n)
    <2>1. CASE n = before
      BY <1>1, <1>2, <1>3, <1>7, <1>8, <2>1
    <2>2. CASE n # before
      <3>1. heap.next[n] \in Used(at) /\ Home(at, heap.next[n]) = Home(at, n) /\ heap.previous[heap.next[n]] = n
        BY <1>3, <2>2, ListsFacts
      <3>2. heap.next[n] # c
        BY <2>2, <3>1 DEF before
      <3> QED BY <1>3, <1>7, <1>8, <2>2, <3>1, <3>2
    <2> QED BY <2>1, <2>2
  <1>10. ASSUME NEW S \in SUBSET Nodes, Sentinels \subseteq S, Closed(new, to, S)
         PROVE  Used(to) \subseteq S
    <2> DEFINE R == (S \ {c}) \cup (IF before \in S THEN {c} ELSE {})
    <2>1. ASSUME NEW n \in R, n \in Used(at) PROVE heap.next[n] \in R
      <3>1. CASE n = c
        <4>1. before \in S
          BY <3>1, <2>1
        <4>2. after \in S
          BY <1>1, <1>2, <1>3, <1>7, <1>10, <4>1 DEF Closed
        <4> QED BY <1>2, <3>1, <4>2 DEF after
      <3>2. CASE n = before
        BY <1>1, <1>2, <2>1, <3>2
      <3>3. CASE n # c /\ n # before
        <4>1. heap.next[n] \in Used(at) /\ heap.previous[heap.next[n]] = n
          BY <2>1, ListsFacts
        <4>2. heap.next[n] # c
          BY <3>3, <4>1 DEF before
        <4>3. new.next[n] \in S
          BY <1>3, <1>10, <2>1, <3>3 DEF Closed
        <4> QED BY <1>7, <2>1, <3>3, <4>2, <4>3
      <3> QED BY <3>1, <3>2, <3>3
    <2>2. R \in SUBSET Nodes /\ Sentinels \subseteq R
      BY <1>1, <1>10
    <2>3. Used(at) \subseteq R
      BY <2>1, <2>2 DEF Lists, Closed
    <2> QED BY <1>3, <2>3
  <1>11. Lists(new, to)
    BY <1>3, <1>5, <1>6, <1>9, <1>10 DEF Lists
  <1> QED BY <1>3, <1>11 DEF to, new

\* The nodes w[lo], ..., w[hi] of a list follow one another.
Stretch(heap, at, list, w, lo, hi, run) ==
  /\ \A i \in lo..hi : w[i] \in Members(at, list)
  /\ \A i \in (lo + 1)..hi : heap.next[w[i - 1]] = w[i]
  /\ \A i \in lo..hi : heap.previous[w[lo]] # w[i]
  /\ run = {w[i] : i \in lo..hi}

\* A run of a list goes, in its order, to the back of another.
LEMMA MoveLists ==
  ASSUME NEW at \in Places, NEW heap, Lists(heap, at),
         NEW list \in Sentinels, NEW position \in Sentinels, position # list,
         NEW lo \in Nat, NEW hi \in Nat, lo <= hi, NEW w, NEW run,
         Stretch(heap, at, list, w, lo, hi, run)
  PROVE  /\ [c \in Commands |-> IF c \in run THEN position ELSE at[c]] \in Places
         /\ Lists(EnetListMove(heap, position, w[lo], w[hi]),
                  [c \in Commands |-> IF c \in run THEN position ELSE at[c]])
  <1> DEFINE to == [c \in Commands |-> IF c \in run THEN position ELSE at[c]]
             first == w[lo]
             last == w[hi]
             new == EnetListMove(heap, position, first, last)
             front == heap.previous[first]
             rest == heap.next[last]
             before == heap.previous[position]
  <1> USE DEF Stretch
  <1>1. /\ Used(at) \in SUBSET Nodes /\ None \notin Nodes
        /\ run \subseteq Commands /\ run \subseteq Used(at) /\ run \cap Sentinels = {}
        /\ first \in run /\ last \in run /\ position \in Used(at) /\ list \in Used(at)
        /\ \A n \in run : Home(at, n) = list
    <2>1. lo \in lo..hi /\ hi \in lo..hi
      OBVIOUS
    <2>2. run \subseteq Members(at, list) /\ first \in run /\ last \in run
      BY <2>1
    <2>3. None \notin Sentinels /\ Commands \cap Sentinels = {}
      BY PacketsAssumption DEF Nodes
    <2> QED BY <2>2, <2>3, PacketsAssumption DEF Members, Used, Home, Nodes
  <1>2. /\ front \in Used(at) /\ Home(at, front) = list /\ heap.next[front] = first
        /\ rest \in Used(at) /\ Home(at, rest) = list /\ heap.previous[rest] = last
        /\ before \in Used(at) /\ Home(at, before) = position /\ heap.next[before] = position
    <2>1. Home(at, position) = position
      BY DEF Home
    <2> QED BY <1>1, <2>1, ListsFacts
  <1>3. front \notin run /\ before \notin run /\ before # front /\ rest # position
    BY <1>1, <1>2 DEF Home
  <1>4. ASSUME NEW n \in Used(at)
        PROVE  /\ n \in run /\ n # last => heap.next[n] \in run
               /\ n \notin run /\ n # front => heap.next[n] \notin run
    <2>1. ASSUME n \in run, n # last PROVE heap.next[n] \in run
      <3>1. PICK i \in lo..hi : n = w[i]
        BY <2>1
      <3>2. i + 1 \in (lo + 1)..hi /\ i + 1 \in lo..hi /\ (i + 1) - 1 = i
        BY <2>1, <3>1
      <3> QED BY <3>1, <3>2
    <2>2. ASSUME n \notin run, heap.next[n] \in run PROVE n = front
      <3>1. PICK i \in lo..hi : heap.next[n] = w[i]
        BY <2>2
      <3>2. heap.previous[w[i]] = n
        BY <3>1, ListsFacts
      <3>3. CASE i = lo
        BY <3>2, <3>3
      <3>4. CASE i # lo
        <4>1. i \in (lo + 1)..hi /\ i - 1 \in lo..hi
          BY <3>4
        <4>2. heap.next[w[i - 1]] = w[i] /\ w[i - 1] \in run
          BY <4>1
        <4>3. heap.previous[w[i]] = w[i - 1]
          BY <1>1, <4>2, ListsFacts
        <4> QED BY <2>2, <3>2, <4>2, <4>3
      <3> QED BY <3>3, <3>4
    <2> QED BY <2>1, <2>2
  <1>5. to \in Places /\ Used(to) = Used(at)
    BY <1>1 DEF Places, Used, Nodes
  <1>6. heap \in Heaps(Nodes, Nodes \cup {None}) /\ Linked(heap, Used(at))
    BY DEF Lists
  <1>7. Linked(new, Used(at))
    <2>1. position # first
      BY <1>1
    <2> HIDE DEF first, last
    <2> QED BY <1>1, <1>6, <2>1, MoveKeepsLinked
  <1>8. new.next = [heap.next EXCEPT ![front] = rest, ![last] = position, ![before] = first]
    BY <1>1, <1>2, <1>3, <1>6 DEF EnetListMove, Heaps
  <1>9. new \in Heaps(Nodes, Nodes \cup {None})
    BY <1>1, <1>2, <1>3, <1>6 DEF EnetListMove, Heaps
  <1> HIDE DEF to, new, first, last, front, rest, before
  <1>10. /\ new.next[front] = rest /\ new.next[last] = position /\ new.next[before] = first
         /\ \A n \in Used(at) \ {front, last, before} : new.next[n] = heap.next[n]
    BY <1>1, <1>2, <1>3, <1>6, <1>8 DEF Heaps
  <1>11. /\ \A n \in run : Home(to, n) = position
         /\ \A n \in Used(at) \ run : Home(to, n) = Home(at, n)
    BY <1>1 DEF Home, Used, to
  <1>12. rest \notin run
    <2>1. last \notin {front}
      BY <1>1, <1>3
    <2> SUFFICES ASSUME rest \in run PROVE FALSE
      OBVIOUS
    <2>2. PICK i \in lo..hi : rest = w[i]
      BY <2>1
    <2>3. CASE i = lo
      <3>1. front = last
        BY <1>2, <2>2, <2>3 DEF front, first
      <3> QED BY <2>1, <3>1
    <2>4. CASE i # lo
      \* Then the run is a circle that can never be met from a sentinel.
      <3> DEFINE S == Nodes \ {w[j] : j \in i..hi}
      <3>1. ASSUME NEW n \in S, n \in Used(at) PROVE heap.next[n] \in S
        <4>1. heap.next[n] \in Nodes
          BY <1>1, <3>1, ListsFacts
        <4>2. ASSUME NEW j \in i..hi, heap.next[n] = w[j] PROVE FALSE
          <5>1. heap.previous[w[j]] = n
            BY <3>1, <4>2, ListsFacts
          <5>2. CASE j = i
            <6>1. n = last
              BY <1>2, <2>2, <5>1, <5>2
            <6>2. last \in {w[k] : k \in i..hi}
              BY DEF last
            <6> QED BY <6>1, <6>2
          <5>3. CASE j # i
            <6>1. j \in (lo + 1)..hi /\ j - 1 \in i..hi /\ j - 1 \in lo..hi
              BY <5>3
            <6>2. heap.next[w[j - 1]] = w[j] /\ w[j - 1] \in run
              BY <6>1
            <6>3. heap.previous[w[j]] = w[j - 1]
              BY <1>1, <6>2, ListsFacts
            <6> QED BY <5>1, <6>1, <6>3
          <5> QED BY <5>2, <5>3
        <4> QED BY <4>1, <4>2
      <3>2. S \in SUBSET Nodes /\ Sentinels \subseteq S
        <4>1. {w[j] : j \in i..hi} \subseteq run
          BY <2>4
        <4> QED BY <1>1, <4>1 DEF Nodes
      <3>3. Used(at) \subseteq S
        BY <3>1, <3>2 DEF Lists, Closed
      <3>4. w[i] \in Used(at) /\ w[i] \notin S
        BY <1>1, <2>2
      <3> QED BY <3>3, <3>4
    <2> QED BY <2>3, <2>4
  <1>13. ASSUME NEW n \in Used(to) PROVE Home(to, new.next[n]) = Home(to, n)
    <2>1. heap.next[n] \in Used(at) /\ Home(at, heap.next[n]) = Home(at, n)
      BY <1>5, ListsFacts
    <2>2. CASE n = front
      BY <1>2, <1>3, <1>10, <1>11, <1>12, <2>2
    <2>3. CASE n = last
      BY <1>1, <1>10, <1>11, <2>3 DEF Home
    <2>4. CASE n = before
      BY <1>1, <1>2, <1>3, <1>10, <1>11, <2>4
    <2>5. CASE n \notin {front, last, before}
      BY <1>4, <1>5, <1>10, <1>11, <2>1, <2>5
    <2> QED BY <2>2, <2>3, <2>4, <2>5
  <1>14. ASSUME NEW S \in SUBSET Nodes, Sentinels \subseteq S, Closed(new, to, S)
         PROVE  Used(to) \subseteq S
    <2>1. ASSUME NEW n \in S, n \in Used(at) PROVE new.next[n] \in S
      BY <1>5, <1>14, <2>1 DEF Closed
    <2>2. ASSUME first \in S PROVE run \subseteq S /\ position \in S
      <3> DEFINE T == {j \in 0..(hi - lo) : w[lo + j] \in S}
      <3>1. 0 \in T
        BY <2>2 DEF first
      <3>2. ASSUME NEW j \in 1..(hi - lo), j - 1 \in T PROVE j \in T
        <4>1. lo + j \in (lo + 1)..hi /\ lo + (j - 1) \in lo..hi /\ (lo + j) - 1 = lo + (j - 1)
          OBVIOUS
        <4> DEFINE x == w[lo + (j - 1)]
        <4>2. heap.next[x] = w[lo + j] /\ x \in run /\ x \in S
          BY <3>2, <4>1
        <4>3. w[lo + j] \in run
          BY <4>1
        <4> HIDE DEF x
        <4>4. CASE x = last
          <5>1. rest \in run
            BY <4>2, <4>3, <4>4 DEF rest
          <5> QED BY <1>12, <5>1
        <4>5. CASE x # last
          <5>1. new.next[x] = w[lo + j]
            BY <1>1, <1>3, <1>10, <4>2, <4>5
          <5> QED BY <1>1, <2>1, <4>2, <5>1
        <4> QED BY <4>4, <4>5
      <3>3. hi - lo \in Nat
        OBVIOUS
      <3>4. \A j \in 0..(hi - lo) : j \in T
        <4> HIDE DEF T
        <4> QED BY <3>1, <3>2, <3>3, UpTo
      <3>5. ASSUME NEW i \in lo..hi PROVE w[i] \in S
        <4>1. i - lo \in T /\ lo + (i - lo) = i
          BY <3>4
        <4> QED BY <4>1
      <3>6. run \subseteq S
        BY <3>5
      <3> QED BY <1>14, <3>6
    <2> DEFINE R == (S \ run) \cup (IF front \in S THEN run ELSE {})
    <2>3. ASSUME NEW n \in R, n \in Used(at) PROVE heap.next[n] \in R
      <3>1. heap.next[n] \in Used(at)
        BY <2>3, ListsFacts
      <3>2. CASE n = front
        BY <1>1, <1>2, <1>3, <2>3, <3>2
      <3>3. CASE n = last
        <4>1. front \in S
          BY <1>1, <2>3, <3>3
        <4>2. rest \in S
          BY <1>2, <1>10, <2>1, <4>1
        <4> QED BY <1>12, <3>3, <4>2 DEF rest
      <3>4. CASE n = before
        <4>1. heap.next[n] = position /\ position \in S /\ position \notin run
          BY <1>1, <1>2, <1>14, <3>4
        <4> QED BY <4>1
      <3>5. CASE n \notin {front, last, before}
        <4>1. CASE n \in run
          BY <1>4, <2>3, <3>5, <4>1
        <4>2. CASE n \notin run
          <5>1. new.next[n] = heap.next[n] /\ heap.next[n] \notin run
            BY <1>4, <1>10, <2>3, <3>5, <4>2
          <5>2. n \in S
            BY <2>3, <4>2
          <5>3. heap.next[n] \in S
            BY <2>1, <2>3, <5>1, <5>2
          <5> QED BY <5>1, <5>3
        <4> QED BY <4>1, <4>2
      <3> QED BY <3>2, <3>3, <3>4, <3>5
    <2>4. R \in SUBSET Nodes /\ Sentinels \subseteq R
      BY <1>1, <1>14
    <2>5. Used(at) \subseteq R
      <3> HIDE DEF R
      <3> QED BY <2>3, <2>4 DEF Lists, Closed
    <2>6. run \subseteq S
      <3>1. before \in S
        BY <1>2, <1>3, <2>5
      <3>2. first \in S
        BY <1>2, <1>10, <2>1, <3>1
      <3> QED BY <2>2, <3>2
    <2> QED BY <1>5, <2>5, <2>6
  <1>15. Lists(new, to)
    BY <1>5, <1>7, <1>9, <1>13, <1>14 DEF Lists
  <1> QED BY <1>5, <1>15 DEF to, new, first, last

LEMMA NodesFinite ==
  /\ IsFiniteSet(Nodes) /\ IsFiniteSet(Commands) /\ IsFiniteSet(Peers)
  /\ Cardinality(Nodes) \in Nat /\ Cardinality(Commands) \in Nat /\ Cardinality(Peers) \in Nat
  <1>1. IsFiniteSet(Queues) /\ IsFiniteSet({SentUnreliable, Fragments})
    <2>1. Queues = ((({"outgoing"} \cup {"sendReliable"}) \cup {"sent"}) \cup {"incoming"}) \cup {"dispatched"}
      BY DEF Queues
    <2>2. {SentUnreliable, Fragments} = {SentUnreliable} \cup {Fragments}
      OBVIOUS
    <2>3. IsFiniteSet(Queues)
      <3> DEFINE A == {"outgoing"} \cup {"sendReliable"}
                 B == A \cup {"sent"}
                 C == B \cup {"incoming"}
      <3>1. IsFiniteSet(A)
        BY FS_Singleton, FS_Union
      <3>2. IsFiniteSet(B)
        <4> HIDE DEF A
        <4> QED BY <3>1, FS_Singleton, FS_Union
      <3>3. IsFiniteSet(C)
        <4> HIDE DEF B
        <4> QED BY <3>2, FS_Singleton, FS_Union
      <3>4. Queues = C \cup {"dispatched"}
        BY <2>1
      <3> HIDE DEF C
      <3> QED BY <3>3, <3>4, FS_Singleton, FS_Union
    <2>4. IsFiniteSet({SentUnreliable, Fragments})
      <3>1. IsFiniteSet({SentUnreliable})
        BY FS_Singleton
      <3> QED BY <2>2, <3>1, FS_AddElement
    <2> QED BY <2>3, <2>4
  <1>2. IsFiniteSet(Queues \X Peers) /\ IsFiniteSet(Commands) /\ IsFiniteSet(Peers)
    BY <1>1, PacketsAssumption, FS_Product
  <1>3. IsFiniteSet(Sentinels)
    BY <1>1, <1>2, FS_Union DEF Sentinels
  <1>4. IsFiniteSet(Nodes)
    BY <1>2, <1>3, FS_Union DEF Nodes
  <1> QED BY <1>2, <1>4, FS_CardinalityType

\* The commands of a list in their order: w leads from the sentinel, w[0], along the
\* commands of the list, each of them once, and back.
InOrder(heap, at, list, w, L) ==
  /\ L \in Nat /\ w \in [0..L -> Nodes]
  /\ w[0] = list
  /\ \A i \in 1..L : w[i] = heap.next[w[i - 1]]
  /\ heap.next[w[L]] = list
  /\ \A i, j \in 0..L : w[i] = w[j] => i = j
  /\ {w[i] : i \in 1..L} = Members(at, list)

\* f walks along next, and is back for the first time after K steps.
Around(heap, at, list, N, f, K) ==
  /\ f \in [0..N -> Nodes] /\ K \in 1..N
  /\ f[0] = list /\ f[K] = list
  /\ \A i \in 1..N : f[i] = heap.next[f[i - 1]]
  /\ \A i \in 1..(K - 1) : f[i] # list
  /\ InOrder(heap, at, list, [i \in 0..(K - 1) |-> f[i]], K - 1)

\* Those who walk along next from a sentinel are back there before they have met more
\* nodes than there are.
LEMMA WalkAround ==
  ASSUME NEW at \in Places, NEW heap, Lists(heap, at), NEW list \in Sentinels,
         NEW N \in Nat, N = Cardinality(Nodes)
  PROVE  \E f, K : Around(heap, at, list, N, f, K)
  <1> DEFINE step == [n \in 1..N |-> [x \in Used(at) |-> heap.next[x]]]
  <1>1. list \in Used(at) /\ Home(at, list) = list /\ Used(at) \in SUBSET Nodes
    BY ListsFacts DEF Used, Home
  <1>2. step \in [1..N -> [Used(at) -> Used(at)]]
    BY ListsFacts
  <1>3. PICK f : Steps(f, Used(at), list, step, N)
    <2> HIDE DEF step
    <2> QED BY <1>1, <1>2, Iterates
  <1>4. /\ f \in [0..N -> Used(at)] /\ f[0] = list
        /\ \A i \in 1..N : f[i] = heap.next[f[i - 1]]
    <2>1. ASSUME NEW i \in 1..N PROVE f[i] = heap.next[f[i - 1]]
      <3>1. i - 1 \in 0..N
        OBVIOUS
      <3>2. f[i - 1] \in Used(at) /\ f[i] = step[i][f[i - 1]]
        BY <1>3, <3>1 DEF Steps
      <3> QED BY <3>2
    <2> QED BY <1>3, <2>1 DEF Steps
  <1> HIDE DEF step
  <1>5. f \in [0..N -> Nodes]
    BY <1>1, <1>4
  <1>6. ASSUME NEW i \in 0..N, NEW j \in 0..N, i < j, f[i] = f[j] PROVE f[j - i] = list
    <2> DEFINE T == {d \in 0..i : f[i - d] = f[j - d]}
    <2>1. 0 \in T
      BY <1>6
    <2>2. ASSUME NEW d \in 1..i, d - 1 \in T PROVE d \in T
      <3>1. /\ i - (d - 1) \in 1..N /\ j - (d - 1) \in 1..N
            /\ (i - (d - 1)) - 1 = i - d /\ (j - (d - 1)) - 1 = j - d
            /\ i - d \in 0..N /\ j - d \in 0..N
        BY <1>6
      <3>2. f[i - (d - 1)] = heap.next[f[i - d]] /\ f[j - (d - 1)] = heap.next[f[j - d]]
        BY <1>4, <3>1
      <3>3. f[i - d] \in Used(at) /\ f[j - d] \in Used(at)
        BY <1>4, <3>1
      <3>4. heap.next[f[i - d]] = heap.next[f[j - d]]
        BY <2>2, <3>2
      <3>5. f[i - d] = f[j - d]
        BY <3>3, <3>4, ListsFacts
      <3> QED BY <3>5
    <2>3. i \in T
      <3> HIDE DEF T
      <3>1. \A d \in 0..i : d \in T
        BY <2>1, <2>2, UpTo
      <3> QED BY <3>1
    <2> QED BY <1>4, <2>3
  <1> DEFINE W == {k \in 1..N : f[k] = list}
  <1>7. W # {}
    <2>1. IsFiniteSet(0..N) /\ Cardinality(0..N) = N + 1
      BY FS_Interval
    <2>2. PICK x \in 0..N, y \in 0..N : x # y /\ f[x] = f[y]
      BY <1>5, <2>1, NodesFinite, FS_PigeonHole
    <2>3. CASE x < y
      <3>1. f[y - x] = list /\ y - x \in 1..N
        BY <1>6, <2>2, <2>3
      <3> QED BY <3>1
    <2>4. CASE y < x
      <3>1. f[x - y] = list /\ x - y \in 1..N
        BY <1>6, <2>2, <2>4
      <3> QED BY <3>1
    <2> QED BY <2>2, <2>3, <2>4
  <1>8. PICK K \in W : \A k \in W : K <= k
    <2>1. W \in SUBSET Nat
      OBVIOUS
    <2> QED BY <1>7, <2>1, LeastNumber
  <1>9. /\ K \in 1..N /\ f[K] = list
        /\ \A i \in 1..(K - 1) : f[i] # list
    BY <1>8
  <1> DEFINE L == K - 1
             w == [i \in 0..L |-> f[i]]
  <1>10. \A i, j \in 0..L : f[i] = f[j] => i = j
    <2>1. ASSUME NEW i \in 0..L, NEW j \in 0..L, i < j, f[i] = f[j] PROVE FALSE
      <3>1. f[j - i] = list
        BY <1>6, <1>9, <2>1
      <3> QED BY <1>9, <2>1, <3>1
    <2> QED BY <2>1
  <1>11. ASSUME NEW i \in 0..N PROVE Home(at, f[i]) = list
    <2> DEFINE T == {j \in 0..N : Home(at, f[j]) = list}
    <2>1. 0 \in T
      BY <1>1, <1>4
    <2>2. ASSUME NEW j \in 1..N, j - 1 \in T PROVE j \in T
      <3>1. f[j - 1] \in Used(at) /\ f[j] = heap.next[f[j - 1]]
        BY <1>4
      <3> QED BY <2>2, <3>1, ListsFacts
    <2> HIDE DEF T
    <2>3. \A j \in 0..N : j \in T
      BY <2>1, <2>2, UpTo
    <2> QED BY <2>3 DEF T
  <1>12. {w[i] : i \in 1..L} = Members(at, list)
    <2>1. ASSUME NEW i \in 1..L PROVE w[i] \in Members(at, list)
      <3>0. i \in 0..N /\ i \in 1..(K - 1) /\ i \in 0..L
        BY <1>9
      <3>1. f[i] \in Used(at) /\ Home(at, f[i]) = list /\ f[i] # list
        BY <1>4, <1>9, <1>11, <3>0
      <3>2. f[i] \in Members(at, list)
        BY <3>1 DEF Home, Used, Members
      <3> QED BY <3>0, <3>2
    <2>2. Members(at, list) \subseteq {w[i] : i \in 1..L}
      <3> DEFINE S == (Nodes \ Members(at, list)) \cup {f[i] : i \in 0..L}
      <3>1. S \in SUBSET Nodes /\ Sentinels \subseteq S
        <4>1. Sentinels \cap Members(at, list) = {}
          BY PacketsAssumption DEF Members
        <4>2. \A i \in 0..L : f[i] \in Nodes
          BY <1>5, <1>9
        <4> QED BY <4>1, <4>2 DEF Nodes
      <3>2. ASSUME NEW n \in S, n \in Used(at) PROVE heap.next[n] \in S
        <4>1. heap.next[n] \in Nodes /\ Home(at, heap.next[n]) = Home(at, n)
          BY <1>1, <3>2, ListsFacts
        <4>2. CASE n \in {f[i] : i \in 0..L}
          <5>1. PICK i \in 0..L : n = f[i]
            BY <4>2
          <5>2. i + 1 \in 1..N /\ (i + 1) - 1 = i
            BY <1>9
          <5>3. heap.next[n] = f[i + 1]
            BY <1>4, <5>1, <5>2
          <5>4. CASE i = L
            <6>1. heap.next[n] = list
              BY <1>9, <5>3, <5>4
            <6> QED BY <3>1, <6>1
          <5>5. CASE i # L
            <6>1. i + 1 \in 0..L
              BY <5>5
            <6> QED BY <5>3, <6>1
          <5> QED BY <5>4, <5>5
        <4>3. CASE n \notin {f[i] : i \in 0..L}
          <5>1. n \notin Members(at, list) /\ n # list
            <6>1. f[0] = list /\ 0 \in 0..L
              BY <1>4, <1>9
            <6> QED BY <3>2, <4>3, <6>1
          <5>2. Home(at, n) # list
            BY <3>2, <5>1 DEF Home, Members, Used
          <5>3. heap.next[n] \notin Members(at, list)
            BY <4>1, <5>2, PacketsAssumption DEF Home, Members
          <5> QED BY <4>1, <5>3
        <4> QED BY <4>2, <4>3
      <3>3. Used(at) \subseteq S
        <4> HIDE DEF S
        <4> QED BY <3>1, <3>2 DEF Lists, Closed
      <3>4. ASSUME NEW c \in Members(at, list) PROVE c \in {w[i] : i \in 1..L}
        <4>1. c \in Used(at) /\ c # list
          BY PacketsAssumption DEF Members, Used, Nodes
        <4>2. PICK i \in 0..L : c = f[i]
          BY <3>3, <4>1
        <4>3. i \in 1..L
          BY <1>4, <4>1, <4>2
        <4> QED BY <4>2, <4>3
      <3> QED BY <3>4
    <2> QED BY <2>1, <2>2
  <1>13. InOrder(heap, at, list, w, L)
    <2>1. L \in Nat /\ w \in [0..L -> Nodes] /\ w[0] = list
      BY <1>4, <1>5, <1>9
    <2>2. \A i \in 1..L : w[i] = heap.next[w[i - 1]]
      BY <1>4, <1>9
    <2>3. heap.next[w[L]] = list
      <3>1. L \in 0..L /\ K \in 1..N /\ K - 1 = L
        BY <1>9
      <3> QED BY <1>4, <1>9, <3>1
    <2>4. \A i, j \in 0..L : w[i] = w[j] => i = j
      BY <1>10
    <2> HIDE DEF w
    <2> QED BY <1>12, <2>1, <2>2, <2>3, <2>4 DEF InOrder
  <1>14. Around(heap, at, list, N, f, K)
    <2> HIDE DEF W
    <2> QED BY <1>4, <1>5, <1>9, <1>13 DEF Around
  <1> QED BY <1>14

\* ElementsOf gives the commands of a list in their order.
LEMMA ElementsIs ==
  ASSUME NEW at \in Places, NEW heap, Lists(heap, at), NEW list \in Sentinels
  PROVE  \E L, w : /\ InOrder(heap, at, list, w, L)
                   /\ ElementsOf(heap, list) = [i \in 1..L |-> w[i]]
                   /\ Len(ElementsOf(heap, list)) = L
                   /\ ToSet(ElementsOf(heap, list)) = Members(at, list)
  <1> DEFINE N == Cardinality(Nodes)
             Round(sofar) == LET following == heap.next[sofar[Len(sofar)]]
                             IN  IF following = list \/ following \notin Nodes
                                 THEN sofar ELSE Append(sofar, following)
             Is(g) == g = [k \in 0..N |-> IF k = 0 THEN <<list>> ELSE Round(g[k - 1])]
  <1>1. N \in Nat /\ N = Cardinality(Nodes)
    BY NodesFinite
  <1>2. DOMAIN heap.next = Nodes
    BY DEF Lists, Heaps
  <1>3. ElementsOf(heap, list) = Tail((CHOOSE g : Is(g))[N])
    BY <1>2 DEF ElementsOf
  <1> HIDE DEF N
  <1>0. PICK f, K : Around(heap, at, list, N, f, K)
    BY <1>1, WalkAround
  <1>4. /\ f \in [0..N -> Nodes] /\ K \in 1..N
        /\ f[0] = list /\ f[K] = list
        /\ \A i \in 1..N : f[i] = heap.next[f[i - 1]]
        /\ \A i \in 1..(K - 1) : f[i] # list
    BY <1>0 DEF Around
  <1> DEFINE Long(k) == IF k < K THEN k + 1 ELSE K
             First(n) == [i \in 1..n |-> f[i - 1]]
             M == [k \in 0..N |-> First(Long(k))]
  <1>5. ASSUME NEW n \in 1..K
        PROVE  /\ First(n) \in Seq(Nodes) /\ Len(First(n)) = n /\ First(n)[n] = f[n - 1]
               /\ n < K => Append(First(n), f[n]) = First(n + 1)
    <2>0. \A i \in 1..n : i - 1 \in 0..N /\ f[i - 1] \in Nodes
      BY <1>1, <1>4
    <2>1. First(n) \in Seq(Nodes) /\ Len(First(n)) = n /\ First(n)[n] = f[n - 1]
      <3>1. First(n) \in [1..n -> Nodes] /\ n \in Nat /\ n \in 1..n
        BY <2>0, <1>4
      <3>2. First(n)[n] = f[n - 1]
        BY <3>1
      <3> HIDE DEF First
      <3> QED BY <3>1, <3>2
    <2>2. ASSUME n < K PROVE Append(First(n), f[n]) = First(n + 1)
      <3>0. n \in 0..N
        BY <1>1, <1>4
      <3>1. f[n] \in Nodes
        BY <1>4, <3>0
      <3>2. Append(First(n), f[n]) = [i \in 1..(n + 1) |-> IF i = n + 1 THEN f[n] ELSE First(n)[i]]
        <4> DEFINE s == First(n)
        <4> HIDE DEF s
        <4>1. s \in Seq(Nodes) /\ Len(s) = n /\ n \in Nat
          BY <1>4, <2>1 DEF s
        <4>2. Append(s, f[n]) = [i \in 1..(n + 1) |-> IF i = n + 1 THEN f[n] ELSE s[i]]
          BY <3>1, <4>1
        <4> QED BY <4>2 DEF s
      <3>3. \A i \in 1..(n + 1) : (IF i = n + 1 THEN f[n] ELSE First(n)[i]) = f[i - 1]
        BY <1>4
      <3> QED BY <3>2, <3>3
    <2> QED BY <2>1, <2>2
  <1>6. ASSUME NEW k \in 1..N PROVE Round(First(Long(k - 1))) = First(Long(k))
    <2> DEFINE n == Long(k - 1)
    <2>1. n \in 1..K
      BY <1>1, <1>4
    <2>2. f[n] = heap.next[f[n - 1]] /\ f[n] \in Nodes
      BY <1>4, <2>1
    <2>3. CASE n < K
      <3>1. Long(k) = n + 1 /\ f[n] # list
        BY <1>1, <1>4, <2>1, <2>3
      <3>2. Append(First(n), f[n]) = First(n + 1) /\ First(n)[n] = f[n - 1] /\ Len(First(n)) = n
        BY <1>5, <2>1, <2>3
      <3> HIDE DEF First, n, Long
      <3> QED BY <2>2, <3>1, <3>2 DEF n
    <2>4. CASE n = K
      <3>1. Long(k) = K /\ f[n] = list
        BY <1>1, <1>4, <2>1, <2>4
      <3>2. First(n)[n] = f[n - 1] /\ Len(First(n)) = n
        BY <1>5, <2>1
      <3> HIDE DEF First, n, Long
      <3> QED BY <2>2, <2>4, <3>1, <3>2 DEF n
    <2>5. n < K \/ n = K
      <3> HIDE DEF n
      <3> QED BY <1>4, <2>1
    <2> HIDE DEF n, Round, First, Long
    <2> QED BY <2>3, <2>4, <2>5 DEF n
  <1>7. Is(M)
    <2>1. First(Long(0)) = <<list>>
      <3>1. Long(0) = 1
        BY <1>4
      <3>2. First(1) = <<list>>
        <4>1. \A i \in 1..1 : f[i - 1] = list
          BY <1>4
        <4>2. First(1) = [i \in 1..1 |-> list]
          BY <4>1
        <4> HIDE DEF First
        <4> QED BY <4>2
      <3> QED BY <3>1, <3>2
    <2>2. ASSUME NEW k \in 0..N PROVE M[k] = IF k = 0 THEN <<list>> ELSE Round(M[k - 1])
      <3>1. CASE k = 0
        BY <2>1, <3>1
      <3>2. CASE k # 0
        <4>1. k \in 1..N /\ k - 1 \in 0..N
          BY <1>1, <3>2
        <4>2. M[k] = First(Long(k)) /\ M[k - 1] = First(Long(k - 1))
          BY <4>1
        <4> HIDE DEF M, First, Long, Round
        <4> QED BY <1>6, <3>2, <4>1, <4>2
      <3> QED BY <3>1, <3>2
    <2> HIDE DEF First, Long, Round
    <2> QED BY <2>2
  <1> DEFINE g == CHOOSE h : Is(h)
  <1>8. Is(g)
    <2> HIDE DEF Is, M
    <2> QED BY <1>7
  <1>9. g[N] = M[N]
    <2> HIDE DEF g, M, Round
    <2> DEFINE T == {k \in 0..N : g[k] = M[k]}
    <2>1. 0 \in T
      BY <1>1, <1>7, <1>8
    <2>2. ASSUME NEW k \in 1..N, k - 1 \in T PROVE k \in T
      <3>1. k \in 0..N /\ k # 0 /\ g[k - 1] = M[k - 1]
        BY <2>2
      <3>2. g[k] = Round(g[k - 1]) /\ M[k] = Round(M[k - 1])
        BY <1>7, <1>8, <3>1
      <3> QED BY <3>1, <3>2
    <2> HIDE DEF T
    <2>3. \A k \in 0..N : k \in T
      BY <1>1, <2>1, <2>2, UpTo
    <2> QED BY <1>1, <2>3 DEF T
  <1> DEFINE L == K - 1
             w == [i \in 0..L |-> f[i]]
  <1>10. ElementsOf(heap, list) = [i \in 1..L |-> w[i]]
    <2>1. ElementsOf(heap, list) = Tail(M[N])
      <3> HIDE DEF M, Is
      <3> QED BY <1>3, <1>9
    <2>2. M[N] = First(K)
      BY <1>1, <1>4
    <2>3. Tail(First(K)) = [i \in 1..(K - 1) |-> First(K)[i + 1]]
      <3>1. First(K) \in Seq(Nodes) /\ Len(First(K)) = K
        BY <1>1, <1>4, <1>5
      <3>2. K \in Nat /\ K >= 1
        BY <1>1, <1>4
      <3> DEFINE s == First(K)
      <3> HIDE DEF s
      <3>3. Tail(s) = [i \in 1..(K - 1) |-> s[i + 1]]
        BY <3>1, <3>2 DEF s
      <3> QED BY <3>3 DEF s
    <2>4. ASSUME NEW i \in 1..(K - 1) PROVE First(K)[i + 1] = w[i]
      BY <1>4
    <2> HIDE DEF M, First, w
    <2> QED BY <2>1, <2>2, <2>3, <2>4
  <1>11. InOrder(heap, at, list, w, L)
    BY <1>0 DEF Around
  <1> HIDE DEF L, w
  <1>12. Len(ElementsOf(heap, list)) = L
    BY <1>10, <1>11 DEF InOrder
  <1>13. ToSet(ElementsOf(heap, list)) = Members(at, list)
    BY <1>10, <1>11 DEF InOrder, ToSet
  <1> QED BY <1>10, <1>11, <1>12, <1>13

-----------------------------------------------------------------------------
(* The invariant.                                                          *)

\* A command whose kind is a control has no packet.
Records == {r \in [kind : Kinds \cup Controls \cup {"free", "incoming"}, packet : Packets \cup {None},
                   first : BOOLEAN, attempted : BOOLEAN] : r.kind \in Controls => r.packet = None}

Memory == [heap : Heaps(Nodes, Nodes \cup {None}), command : [Commands -> Records],
           count : [Packets -> Int], holder : [Packets -> Holders]]

Structure(m, at) == m \in Memory /\ at \in Places /\ Lists(m.heap, at)

\* The commands in no list are the free ones, and the lists of received commands hold
\* no others.
Placed(m, at) ==
  \A c \in Commands : /\ at[c] = None <=> m.command[c] = Free
                      /\ at[c] \in {"incoming", "dispatched"} \X Peers => m.command[c].kind = "incoming"

\* The commands that hold a packet and are counted.
Held(m, at, k, uncounted) == {c \in Commands : m.command[c].packet = k /\ at[c] # uncounted}
Counted(m, at, uncounted) == \A k \in Packets : m.count[k] = Cardinality(Held(m, at, k, uncounted))

\* ENet owns the packets it has commands for; the one being sent is the application's.
Owned(m, sent) ==
  /\ \A k \in Packets \ {sent} :
       m.holder[k] = "library" <=> \E c \in Commands : m.command[c].packet = k
  /\ sent \in Packets => m.holder[sent] = "application"

\* A packet that was received has one command, and is not being sent.
Incoming(m, sent) ==
  \A c \in Commands : m.command[c].kind = "incoming" =>
    /\ m.command[c].packet \in Packets \ {sent}
    /\ \A d \in Commands : m.command[d].packet = m.command[c].packet => d = c

\* The local list of enet_peer_send has commands of the packet being sent.
Fragmented(m, at, sent) ==
  \A c \in Commands : at[c] = Fragments =>
    sent \in Packets /\ m.command[c].packet = sent /\ m.command[c].kind \in Kinds

Good(m, at, sent, uncounted) ==
  /\ Structure(m, at)
  /\ Placed(m, at)
  /\ Counted(m, at, uncounted)
  /\ Owned(m, sent)
  /\ Incoming(m, sent)
  /\ Fragmented(m, at, sent)

-----------------------------------------------------------------------------
(* What the operations do to the lists and leave alone.                    *)

\* The fields of the memory other than the links.
Rest(m, command, count, holder) == m.command = command /\ m.count = count /\ m.holder = holder

LEMMA FreeIsRecord == Free \in Records /\ Free.packet = None /\ Free.kind = "free"
  BY DEF Free, Records, Controls

\* The fields of a memory.
LEMMA MemoryFields ==
  ASSUME NEW m \in Memory
  PROVE  /\ m.heap \in Heaps(Nodes, Nodes \cup {None}) /\ m.command \in [Commands -> Records]
         /\ m.count \in [Packets -> Int] /\ m.holder \in [Packets -> Holders]
         /\ \A c \in Commands : m.command[c].packet \in Packets \cup {None}
  BY DEF Memory, Records

LEMMA UnlinkIs ==
  ASSUME NEW m, NEW at, Structure(m, at), NEW c \in Commands, at[c] # None
  PROVE  /\ Structure(Unlink(m, c), [at EXCEPT ![c] = None])
         /\ Rest(Unlink(m, c), m.command, m.count, m.holder)
  <1> DEFINE heap == EnetListRemove(m.heap, c)
             to == [at EXCEPT ![c] = None]
  <1>1. to \in Places /\ Lists(heap, to)
    BY RemoveLists DEF Structure
  <1>2. heap \in Heaps(Nodes, Nodes \cup {None})
    BY <1>1 DEF Lists
  <1>3. Unlink(m, c) = [m EXCEPT !.heap = heap]
    BY DEF Unlink
  <1> HIDE DEF heap, to
  <1>4. [m EXCEPT !.heap = heap] \in Memory
    BY <1>2 DEF Structure, Memory
  <1>5. [m EXCEPT !.heap = heap].heap = heap /\ Rest([m EXCEPT !.heap = heap], m.command, m.count, m.holder)
    BY DEF Structure, Memory, Rest
  <1> QED BY <1>1, <1>3, <1>4, <1>5 DEF Structure, to

LEMMA PushIs ==
  ASSUME NEW m, NEW at, Structure(m, at), NEW c \in Commands, at[c] = None, NEW position \in Used(at)
  PROVE  /\ Structure(Push(m, position, c), [at EXCEPT ![c] = Home(at, position)])
         /\ Rest(Push(m, position, c), m.command, m.count, m.holder)
  <1> DEFINE heap == EnetListInsert(m.heap, position, c)
             to == [at EXCEPT ![c] = Home(at, position)]
  <1>1. to \in Places /\ Lists(heap, to)
    BY InsertLists DEF Structure
  <1>2. heap \in Heaps(Nodes, Nodes \cup {None})
    BY <1>1 DEF Lists
  <1>3. Push(m, position, c) = [m EXCEPT !.heap = heap]
    BY DEF Push
  <1> HIDE DEF heap, to
  <1>4. [m EXCEPT !.heap = heap] \in Memory
    BY <1>2 DEF Structure, Memory
  <1>5. [m EXCEPT !.heap = heap].heap = heap /\ Rest([m EXCEPT !.heap = heap], m.command, m.count, m.holder)
    BY DEF Structure, Memory, Rest
  <1> QED BY <1>1, <1>3, <1>4, <1>5 DEF Structure, to

\* What a node that is in no list points to is nobody's business.
LEMMA UnusedLinks ==
  ASSUME NEW at \in Places, NEW heap, Lists(heap, at),
         NEW other \in Heaps(Nodes, Nodes \cup {None}),
         \A n \in Used(at) : other.next[n] = heap.next[n] /\ other.previous[n] = heap.previous[n]
  PROVE  Lists(other, at)
  <1>1. Linked(other, Used(at))
    BY DEF Lists, Linked
  <1>2. \A n \in Used(at) : Home(at, other.next[n]) = Home(at, n)
    BY DEF Lists
  <1>3. ASSUME NEW S \in SUBSET Nodes, Sentinels \subseteq S, Closed(other, at, S)
        PROVE  Used(at) \subseteq S
    <2>1. Closed(heap, at, S)
      BY <1>3 DEF Closed
    <2> QED BY <1>3, <2>1 DEF Lists
  <1> QED BY <1>1, <1>2, <1>3 DEF Lists

LEMMA FreeIs ==
  ASSUME NEW m, NEW at, Structure(m, at), NEW c \in Commands, at[c] = None
  PROVE  /\ Structure(FreeCommand(m, c), at)
         /\ Rest(FreeCommand(m, c), [m.command EXCEPT ![c] = Free], m.count, m.holder)
  <1> DEFINE heap == [next |-> [m.heap.next EXCEPT ![c] = None], previous |-> [m.heap.previous EXCEPT ![c] = None]]
             new == [m EXCEPT !.command[c] = Free, !.heap = heap]
  <1>1. m \in Memory /\ at \in Places /\ Lists(m.heap, at) /\ m.heap \in Heaps(Nodes, Nodes \cup {None})
    BY MemoryFields DEF Structure
  <1>2. c \notin Used(at) /\ c \in Nodes
    BY PacketsAssumption DEF Used, Nodes
  <1>3. heap \in Heaps(Nodes, Nodes \cup {None})
    BY <1>1, <1>2 DEF Heaps
  <1>4. \A n \in Used(at) : heap.next[n] = m.heap.next[n] /\ heap.previous[n] = m.heap.previous[n]
    BY <1>1, <1>2 DEF Heaps, Used, Nodes
  <1>5. FreeCommand(m, c) = new
    BY DEF FreeCommand
  <1> HIDE DEF heap
  <1>6. Lists(heap, at)
    BY <1>1, <1>3, <1>4, UnusedLinks
  <1> DEFINE command == [m.command EXCEPT ![c] = Free]
  <1>7. command \in [Commands -> Records]
    BY <1>1, FreeIsRecord DEF Memory
  <1> HIDE DEF command
  <1>8. new \in Memory
    BY <1>1, <1>3, <1>7 DEF Memory, command
  <1>9. new.heap = heap /\ Rest(new, command, m.count, m.holder)
    BY <1>1 DEF Rest, Memory, command
  <1> HIDE DEF new
  <1> QED BY <1>1, <1>5, <1>6, <1>8, <1>9 DEF Structure, command

\* A command that was allocated goes into a list.
LEMMA NewIs ==
  ASSUME NEW m, NEW at, Structure(m, at), NEW c \in Commands, at[c] = None,
         NEW position \in Used(at), NEW record \in Records
  PROVE  /\ Structure(Push(NewCommand(m, c, record), position, c), [at EXCEPT ![c] = Home(at, position)])
         /\ Rest(Push(NewCommand(m, c, record), position, c),
                 [m.command EXCEPT ![c] = record], m.count, m.holder)
  <1> DEFINE new == NewCommand(m, c, record)
  <1>1. new = [m EXCEPT !.command = [m.command EXCEPT ![c] = record]]
    BY DEF NewCommand
  <1>2. new \in Memory /\ new.heap = m.heap /\ Rest(new, [m.command EXCEPT ![c] = record], m.count, m.holder)
    BY <1>1 DEF Structure, Memory, Rest
  <1>3. Structure(new, at)
    BY <1>2 DEF Structure
  <1> HIDE DEF new
  <1>4. /\ Structure(Push(new, position, c), [at EXCEPT ![c] = Home(at, position)])
        /\ Rest(Push(new, position, c), new.command, new.count, new.holder)
    BY <1>3, PushIs
  <1> QED BY <1>2, <1>4 DEF Rest, new

\* A command goes from its list to another place.
LEMMA RelocateIs ==
  ASSUME NEW m, NEW at, Structure(m, at), NEW c \in Commands, at[c] # None,
         NEW position \in Used(at), position # c
  PROVE  /\ Structure(Push(Unlink(m, c), position, c), [at EXCEPT ![c] = Home(at, position)])
         /\ Rest(Push(Unlink(m, c), position, c), m.command, m.count, m.holder)
  <1> DEFINE to == [at EXCEPT ![c] = None]
             cut == Unlink(m, c)
  <1>1. Structure(cut, to) /\ Rest(cut, m.command, m.count, m.holder)
    BY UnlinkIs
  <1>2. at \in [Commands -> Sentinels \cup {None}]
    BY DEF Structure, Places
  <1>3. to[c] = None /\ position \in Used(to) /\ Home(to, position) = Home(at, position)
    BY <1>2, PacketsAssumption DEF Used, Home, Nodes
  <1>4. [to EXCEPT ![c] = Home(at, position)] = [at EXCEPT ![c] = Home(at, position)]
    BY <1>2
  <1> HIDE DEF to, cut
  <1>5. /\ Structure(Push(cut, position, c), [to EXCEPT ![c] = Home(to, position)])
        /\ Rest(Push(cut, position, c), cut.command, cut.count, cut.holder)
    BY <1>1, <1>3, PushIs
  <1> QED BY <1>1, <1>3, <1>4, <1>5 DEF Rest, cut

LEMMA ReleaseIs ==
  ASSUME NEW m, NEW at, Structure(m, at), NEW k \in Packets \cup {None},
         k \in Packets => m.holder[k] = "library"
  PROVE  /\ Structure(Release(m, k), at)
         /\ Rest(Release(m, k), m.command,
                 IF k = None THEN m.count ELSE [m.count EXCEPT ![k] = m.count[k] - 1],
                 IF k # None /\ m.count[k] = 1 THEN [m.holder EXCEPT ![k] = "nobody"] ELSE m.holder)
  <1>1. None \notin Packets
    BY PacketsAssumption
  <1>2. CASE k = None
    BY <1>2 DEF Release, Rest
  <1>3. CASE k \in Packets
    <2> DEFINE count == [m.count EXCEPT ![k] = m.count[k] - 1]
               less == [m EXCEPT !.count = count]
               freed == [less EXCEPT !.holder[k] = "nobody"]
    <2>1. count \in [Packets -> Int] /\ m.count[k] \in Int /\ count[k] = m.count[k] - 1
      BY <1>3, MemoryFields DEF Structure
    <2> HIDE DEF count
    <2>2. less \in Memory /\ less.heap = m.heap /\ less.count = count
          /\ less.command = m.command /\ less.holder = m.holder
      BY <2>1 DEF Structure, Memory
    <2>3. freed \in Memory /\ freed.heap = m.heap /\ freed.count = count /\ freed.command = m.command
          /\ freed.holder = [m.holder EXCEPT ![k] = "nobody"]
      <3> HIDE DEF less
      <3>1. [less.holder EXCEPT ![k] = "nobody"] \in [Packets -> Holders]
        BY <2>2, MemoryFields DEF Holders
      <3> QED BY <2>2, <3>1 DEF Memory
    <2>4. Release(m, k) = IF less.count[k] = 0 THEN EnetPacketDestroy(less, k) ELSE less
      BY <1>1, <1>3 DEF Release, count
    <2>5. less.holder[k] = "library"
      BY <1>3, <2>2
    <2> HIDE DEF less
    <2>6. EnetPacketDestroy(less, k) = freed
      BY <2>5 DEF EnetPacketDestroy
    <2> HIDE DEF freed
    <2>7. CASE m.count[k] = 1
      <3>1. Release(m, k) = freed
        BY <2>1, <2>2, <2>4, <2>6, <2>7
      <3> QED BY <1>1, <1>3, <2>3, <2>7, <3>1 DEF Structure, Rest, count
    <2>8. CASE m.count[k] # 1
      <3>1. Release(m, k) = less
        BY <2>1, <2>2, <2>4, <2>8
      <3> QED BY <1>1, <1>3, <2>2, <2>8, <3>1 DEF Structure, Rest, count
    <2> QED BY <2>7, <2>8
  <1> QED BY <1>2, <1>3

LEMMA HeldFinite ==
  ASSUME NEW m, NEW at, NEW k, NEW uncounted
  PROVE  IsFiniteSet(Held(m, at, k, uncounted)) /\ Cardinality(Held(m, at, k, uncounted)) \in Nat
  BY NodesFinite, FS_Subset, FS_CardinalityType DEF Held

\* The counts and the holders when a command has let go of its packet.
Fewer(m, k) == IF k = None THEN m.count ELSE [m.count EXCEPT ![k] = m.count[k] - 1]
Owners(m, k) == IF k # None /\ m.count[k] = 1 THEN [m.holder EXCEPT ![k] = "nobody"] ELSE m.holder

\* A command leaves its list and is freed, and its packet with it if it has no other.
LEMMA DropGood ==
  ASSUME NEW m, NEW at, Good(m, at, None, None), NEW c \in Commands, at[c] # None
  PROVE  /\ Good(DropCommand(m, c), [at EXCEPT ![c] = None], None, None)
         /\ Rest(DropCommand(m, c), [m.command EXCEPT ![c] = Free],
                 Fewer(m, m.command[c].packet), Owners(m, m.command[c].packet))
  <1> DEFINE k == m.command[c].packet
             to == [at EXCEPT ![c] = None]
             cut == Unlink(m, c)
             released == Release(cut, k)
             new == FreeCommand(released, c)
             count == IF k = None THEN m.count ELSE [m.count EXCEPT ![k] = m.count[k] - 1]
             holder == IF k # None /\ m.count[k] = 1 THEN [m.holder EXCEPT ![k] = "nobody"] ELSE m.holder
             command == [m.command EXCEPT ![c] = Free]
  <1>1. Structure(m, at) /\ m \in Memory /\ at \in [Commands -> Sentinels \cup {None}]
    BY DEF Good, Structure, Places
  <1>2. k \in Packets \cup {None} /\ None \notin Packets /\ None \notin Sentinels
    BY <1>1, MemoryFields, PacketsAssumption DEF Nodes
  <1>3. k \in Packets => m.holder[k] = "library"
    BY <1>2 DEF Good, Owned
  <1>4. Structure(cut, to) /\ Rest(cut, m.command, m.count, m.holder)
    BY <1>1, UnlinkIs
  <1> HIDE DEF cut
  <1>5. Structure(released, to) /\ Rest(released, m.command, count, holder)
    <2> HIDE DEF k, to
    <2>1. k \in Packets => cut.holder[k] = "library"
      BY <1>3, <1>4 DEF Rest
    <2>2. /\ Structure(released, to)
          /\ Rest(released, cut.command,
                  IF k = None THEN cut.count ELSE [cut.count EXCEPT ![k] = cut.count[k] - 1],
                  IF k # None /\ cut.count[k] = 1 THEN [cut.holder EXCEPT ![k] = "nobody"] ELSE cut.holder)
      BY <1>2, <1>4, <2>1, ReleaseIs
    <2> HIDE DEF released
    <2> QED BY <1>4, <2>2 DEF Rest
  <1> HIDE DEF released
  <1>6. to[c] = None /\ \A d \in Commands \ {c} : to[d] = at[d]
    BY <1>1
  <1> HIDE DEF to
  <1>7. Structure(new, to) /\ Rest(new, command, count, holder)
    <2>1. Structure(new, to) /\ Rest(new, [released.command EXCEPT ![c] = Free], released.count, released.holder)
      BY <1>5, <1>6, FreeIs
    <2> QED BY <1>5, <2>1 DEF Rest
  <1>8. DropCommand(m, c) = new
    BY DEF DropCommand, new, released, cut
  <1>9. /\ command[c] = Free /\ \A d \in Commands \ {c} : command[d] = m.command[d]
        /\ Free.packet = None /\ Free.kind = "free"
    BY <1>1, MemoryFields, FreeIsRecord
  <1> HIDE DEF new, command, holder, count
  <1>10. Placed(new, to)
    <2>1. Placed(m, at)
      BY DEF Good
    <2>2. None \notin {"incoming", "dispatched"} \X Peers
      BY <1>2 DEF Sentinels, Queues
    <2> QED BY <1>6, <1>7, <1>9, <2>1, <2>2 DEF Placed, Rest
  <1>11. ASSUME NEW x \in Packets
         PROVE  /\ Held(m, at, x, None) = {d \in Commands : m.command[d].packet = x}
                /\ Held(new, to, x, None) = {d \in Commands : m.command[d].packet = x} \ {c}
    <2>1. \A d \in Commands : m.command[d].packet = x => at[d] # None
      BY <1>2, FreeIsRecord DEF Good, Placed
    <2>2. \A d \in Commands : command[d].packet = x <=> d # c /\ m.command[d].packet = x
      BY <1>2, <1>9
    <2> QED BY <1>6, <1>7, <2>1, <2>2 DEF Held, Rest
  <1>12. Counted(new, to, None)
    <2> SUFFICES ASSUME NEW x \in Packets PROVE count[x] = Cardinality(Held(new, to, x, None))
      BY <1>7 DEF Counted, Rest
    <2> DEFINE H == Held(m, at, x, None)
    <2>1. m.count[x] = Cardinality(H) /\ IsFiniteSet(H) /\ m.count \in [Packets -> Int]
      BY <1>1, HeldFinite, MemoryFields DEF Good, Counted
    <2>2. Held(new, to, x, None) = H \ {c}
      BY <1>11
    <2>3. c \in H <=> k = x
      BY <1>11
    <2> HIDE DEF H, k
    <2>4. Cardinality(H \ {c}) = IF c \in H THEN Cardinality(H) - 1 ELSE Cardinality(H)
      BY <2>1, FS_RemoveElement
    <2> QED BY <1>2, <2>1, <2>2, <2>3, <2>4 DEF count
  <1>13. Owned(new, None)
    <2> SUFFICES ASSUME NEW x \in Packets
                 PROVE  holder[x] = "library" <=> \E d \in Commands : command[d].packet = x
      BY <1>2, <1>7 DEF Owned, Rest
    <2>1. m.holder[x] = "library" <=> \E d \in Commands : m.command[d].packet = x
      BY <1>2 DEF Good, Owned
    <2>2. m.holder \in [Packets -> Holders] /\ m.count \in [Packets -> Int]
      BY <1>1, MemoryFields
    <2>3. CASE x # k
      <3>1. holder[x] = m.holder[x]
        BY <2>2, <2>3 DEF holder
      <3>2. (\E d \in Commands : command[d].packet = x) <=> \E d \in Commands : m.command[d].packet = x
        BY <1>2, <1>9, <2>3
      <3> QED BY <2>1, <3>1, <3>2
    <2>4. CASE x = k
      <3> DEFINE H == Held(m, at, x, None)
                 G == Held(new, to, x, None)
      <3>1. m.count[x] = Cardinality(H) /\ IsFiniteSet(H) /\ IsFiniteSet(G)
        BY HeldFinite DEF Good, Counted
      <3>2. G = H \ {c} /\ c \in H
        BY <1>11, <2>4
      <3>3. (\E d \in Commands : command[d].packet = x) <=> G # {}
        BY <1>2, <1>9, <1>11
      <3> HIDE DEF H, G, k
      <3>4. Cardinality(G) = m.count[x] - 1
        BY <3>1, <3>2, FS_RemoveElement
      <3>5. Cardinality(G) = 0 <=> G = {}
        BY <3>1, FS_EmptySet
      <3>6. holder[x] = "library" <=> m.count[x] # 1
        BY <1>2, <1>3, <2>2, <2>4 DEF holder
      <3>7. m.count[x] \in Int
        BY <2>2
      <3> QED BY <3>3, <3>4, <3>5, <3>6, <3>7
    <2> QED BY <2>3, <2>4
  <1>14. Incoming(new, None) /\ Fragmented(new, to, None)
    <2>1. Incoming(m, None) /\ Fragmented(m, at, None)
      BY DEF Good
    <2>2. Incoming(new, None)
      BY <1>2, <1>7, <1>9, <2>1 DEF Incoming, Rest
    <2>3. Fragmented(new, to, None)
      <3>1. None # Fragments
        BY <1>2 DEF Sentinels
      <3> QED BY <1>2, <1>6, <2>1, <3>1 DEF Fragmented
    <2> QED BY <2>2, <2>3
  <1>15. Good(new, to, None, None)
    BY <1>7, <1>10, <1>12, <1>13, <1>14 DEF Good
  <1> QED BY <1>7, <1>8, <1>15 DEF to, command, count, holder, k, Fewer, Owners

\* A command goes from its list to another place.
LEMMA RelocateGood ==
  ASSUME NEW m, NEW at, NEW sent, Good(m, at, sent, None), NEW c \in Commands, at[c] # None,
         NEW position \in Used(at), position # c, Home(at, position) # Fragments,
         Home(at, position) \in {"incoming", "dispatched"} \X Peers => m.command[c].kind = "incoming"
  PROVE  /\ Good(Push(Unlink(m, c), position, c), [at EXCEPT ![c] = Home(at, position)], sent, None)
         /\ Rest(Push(Unlink(m, c), position, c), m.command, m.count, m.holder)
  <1> DEFINE list == Home(at, position)
             to == [at EXCEPT ![c] = list]
             new == Push(Unlink(m, c), position, c)
  <1>1. Structure(m, at) /\ at \in [Commands -> Sentinels \cup {None}] /\ None \notin Sentinels
    BY PacketsAssumption DEF Good, Structure, Places, Nodes
  <1>2. Structure(new, to) /\ Rest(new, m.command, m.count, m.holder)
    BY <1>1, RelocateIs
  <1>3. list \in Sentinels
    BY <1>1, ListsFacts DEF Structure
  <1> HIDE DEF new, list
  <1>4. to[c] = list /\ \A d \in Commands \ {c} : to[d] = at[d]
    BY <1>1
  <1> HIDE DEF to
  <1>5. Placed(new, to)
    <2>1. Placed(m, at)
      BY DEF Good
    <2> QED BY <1>1, <1>2, <1>3, <1>4, <2>1 DEF Placed, Rest, list
  <1>6. Counted(new, to, None)
    <2>1. ASSUME NEW k \in Packets PROVE Held(new, to, k, None) = Held(m, at, k, None)
      BY <1>1, <1>2, <1>3, <1>4 DEF Held, Rest
    <2>2. Counted(m, at, None)
      BY DEF Good
    <2> QED BY <1>2, <2>1, <2>2 DEF Counted, Rest
  <1>7. Owned(new, sent) /\ Incoming(new, sent) /\ Fragmented(new, to, sent)
    <2>1. Owned(m, sent) /\ Incoming(m, sent) /\ Fragmented(m, at, sent)
      BY DEF Good
    <2>2. Owned(new, sent)
      BY <1>2, <2>1 DEF Owned, Rest
    <2>3. Incoming(new, sent)
      BY <1>2, <2>1 DEF Incoming, Rest
    <2>4. Fragmented(new, to, sent)
      BY <1>2, <1>4, <2>1 DEF Fragmented, Rest, list
    <2> QED BY <2>2, <2>3, <2>4
  <1>8. Good(new, to, sent, None)
    BY <1>2, <1>5, <1>6, <1>7 DEF Good
  <1> QED BY <1>2, <1>8 DEF new, to, list

\* A fragment that is not needed is freed; it was not counted.
LEMMA GiveBackGood ==
  ASSUME NEW m, NEW at, NEW sent, Good(m, at, sent, Fragments), NEW c \in Commands, at[c] = Fragments
  PROVE  /\ Good(GiveBack(m, c), [at EXCEPT ![c] = None], sent, Fragments)
         /\ Rest(GiveBack(m, c), [m.command EXCEPT ![c] = Free], m.count, m.holder)
  <1> DEFINE to == [at EXCEPT ![c] = None]
             cut == Unlink(m, c)
             new == FreeCommand(cut, c)
             command == [m.command EXCEPT ![c] = Free]
  <1>1. /\ Structure(m, at) /\ at \in [Commands -> Sentinels \cup {None}]
        /\ None \notin Sentinels /\ None \notin Packets /\ Fragments \in Sentinels
    BY PacketsAssumption DEF Good, Structure, Places, Nodes, Sentinels
  <1>2. Structure(cut, to) /\ Rest(cut, m.command, m.count, m.holder)
    BY <1>1, UnlinkIs
  <1>3. to[c] = None /\ \A d \in Commands \ {c} : to[d] = at[d]
    BY <1>1
  <1> HIDE DEF cut, to
  <1>4. Structure(new, to) /\ Rest(new, command, m.count, m.holder)
    <2>1. Structure(new, to) /\ Rest(new, [cut.command EXCEPT ![c] = Free], cut.count, cut.holder)
      BY <1>2, <1>3, FreeIs
    <2> QED BY <1>2, <2>1 DEF Rest
  <1>5. /\ command[c] = Free /\ \A d \in Commands \ {c} : command[d] = m.command[d]
        /\ Free.packet = None /\ Free.kind = "free"
    BY <1>1, MemoryFields, FreeIsRecord DEF Structure
  <1> HIDE DEF new, command
  <1>6. Placed(new, to)
    <2>1. Placed(m, at)
      BY DEF Good
    <2>2. None \notin {"incoming", "dispatched"} \X Peers
      BY <1>1 DEF Sentinels, Queues
    <2> QED BY <1>3, <1>4, <1>5, <2>1, <2>2 DEF Placed, Rest
  <1>7. Counted(new, to, Fragments)
    <2>1. ASSUME NEW k \in Packets PROVE Held(new, to, k, Fragments) = Held(m, at, k, Fragments)
      BY <1>1, <1>3, <1>4, <1>5 DEF Held, Rest
    <2>2. Counted(m, at, Fragments)
      BY DEF Good
    <2> QED BY <1>4, <2>1, <2>2 DEF Counted, Rest
  <1>8. Fragmented(m, at, sent) /\ sent \in Packets /\ m.command[c].packet = sent
    BY DEF Good, Fragmented
  <1>9. Owned(new, sent)
    <2>1. Owned(m, sent)
      BY DEF Good
    <2>2. ASSUME NEW k \in Packets \ {sent}
          PROVE  (\E d \in Commands : command[d].packet = k) <=> \E d \in Commands : m.command[d].packet = k
      BY <1>1, <1>5, <1>8
    <2> QED BY <1>4, <2>1, <2>2 DEF Owned, Rest
  <1>10. Incoming(new, sent)
    <2>1. Incoming(m, sent)
      BY DEF Good
    <2> QED BY <1>1, <1>4, <1>5, <2>1 DEF Incoming, Rest
  <1>11. Fragmented(new, to, sent)
    BY <1>1, <1>3, <1>4, <1>5, <1>8 DEF Fragmented, Rest
  <1>12. Good(new, to, sent, Fragments)
    BY <1>4, <1>6, <1>7, <1>9, <1>10, <1>11 DEF Good
  <1>13. GiveBack(m, c) = new
    BY DEF GiveBack, new, cut
  <1> QED BY <1>4, <1>12, <1>13 DEF to, command

\* A fragment is allocated.
LEMMA AllocateGood ==
  ASSUME NEW m, NEW at, NEW k \in Packets, NEW kind \in Kinds, Good(m, at, k, Fragments),
         FreeCommands(m) # {}
  PROVE  \E c \in FreeCommands(m), record \in Records :
           /\ at[c] = None /\ record # Free
           /\ Good(Allocate(m, k, kind), [at EXCEPT ![c] = Fragments], k, Fragments)
           /\ Rest(Allocate(m, k, kind), [m.command EXCEPT ![c] = record], m.count, m.holder)
  <1> DEFINE c == CHOOSE c \in FreeCommands(m) : TRUE
             record == [kind |-> kind, packet |-> k, first |-> Empty(m, Fragments), attempted |-> FALSE]
             to == [at EXCEPT ![c] = Fragments]
             new == Push(NewCommand(m, c, record), Fragments, c)
             command == [m.command EXCEPT ![c] = record]
  <1>1. c \in FreeCommands(m)
    OBVIOUS
  <1>2. c \in Commands /\ m.command[c] = Free
    BY <1>1 DEF FreeCommands
  <1>3. /\ record \in Records /\ record.packet = k /\ record.kind = kind
        /\ kind \notin {"free", "incoming"} /\ record # Free
    BY DEF Records, Kinds, Controls, Empty, Free
  <1>4. Allocate(m, k, kind) = new
    BY DEF Allocate
  <1> HIDE DEF c, record
  <1>5. /\ Structure(m, at) /\ at \in [Commands -> Sentinels \cup {None}]
        /\ None \notin Sentinels /\ None \notin Packets /\ Fragments \in Sentinels
        /\ Fragments \in Used(at) /\ Home(at, Fragments) = Fragments
    BY PacketsAssumption DEF Good, Structure, Places, Nodes, Sentinels, Used, Home
  <1>6. at[c] = None
    BY <1>2 DEF Good, Placed
  <1>7. Structure(new, to) /\ Rest(new, command, m.count, m.holder)
    <2>1. /\ Structure(new, [at EXCEPT ![c] = Home(at, Fragments)])
          /\ Rest(new, command, m.count, m.holder)
      BY <1>2, <1>3, <1>5, <1>6, NewIs
    <2> QED BY <1>5, <2>1
  <1>8. to[c] = Fragments /\ \A d \in Commands \ {c} : to[d] = at[d]
    BY <1>2, <1>5
  <1>9. command[c] = record /\ \A d \in Commands \ {c} : command[d] = m.command[d]
    BY <1>2, <1>5, MemoryFields DEF Structure
  <1> HIDE DEF new, to, command
  <1>10. Fragments \notin {"incoming", "dispatched"} \X Peers
    BY DEF Fragments
  <1>11. Placed(new, to)
    <2>1. Placed(m, at)
      BY DEF Good
    <2> QED BY <1>3, <1>5, <1>7, <1>8, <1>9, <1>10, <2>1 DEF Placed, Rest
  <1>12. Counted(new, to, Fragments)
    <2>1. ASSUME NEW x \in Packets PROVE Held(new, to, x, Fragments) = Held(m, at, x, Fragments)
      <3>1. c \notin Held(m, at, x, Fragments) /\ c \notin Held(new, to, x, Fragments)
        BY <1>2, <1>5, <1>8, FreeIsRecord DEF Held
      <3> QED BY <1>7, <1>8, <1>9, <3>1 DEF Held, Rest
    <2>2. Counted(m, at, Fragments)
      BY DEF Good
    <2> QED BY <1>7, <2>1, <2>2 DEF Counted, Rest
  <1>13. Owned(new, k)
    <2>1. Owned(m, k)
      BY DEF Good
    <2>2. ASSUME NEW x \in Packets \ {k}
          PROVE  (\E d \in Commands : command[d].packet = x) <=> \E d \in Commands : m.command[d].packet = x
      BY <1>2, <1>3, <1>5, <1>9, FreeIsRecord
    <2> QED BY <1>7, <2>1, <2>2 DEF Owned, Rest
  <1>14. Incoming(new, k)
    <2>1. Incoming(m, k)
      BY DEF Good
    <2> QED BY <1>2, <1>3, <1>7, <1>9, <2>1 DEF Incoming, Rest
  <1>15. Fragmented(new, to, k)
    <2>1. Fragmented(m, at, k)
      BY DEF Good
    <2> QED BY <1>3, <1>7, <1>8, <1>9, <2>1 DEF Fragmented, Rest
  <1>16. Good(new, to, k, Fragments)
    BY <1>7, <1>11, <1>12, <1>13, <1>14, <1>15 DEF Good
  <1> QED BY <1>1, <1>3, <1>4, <1>6, <1>7, <1>16 DEF to, command

-----------------------------------------------------------------------------
(* The loops.                                                              *)

GoodMemories(sent, uncounted) == {m \in Memory : \E at \in Places : Good(m, at, sent, uncounted)}

LEMMA GoodMemory ==
  ASSUME NEW m, NEW at, NEW sent, NEW uncounted, Good(m, at, sent, uncounted)
  PROVE  m \in GoodMemories(sent, uncounted) /\ m \in Memory /\ at \in Places
  BY DEF GoodMemories, Good, Structure

\* What one round of DropAll does.
DropFront(m, list) == IF Empty(m, list) THEN m ELSE DropCommand(m, FirstOf(m, list))

LEMMA DropFrontGood ==
  ASSUME NEW m, NEW at, Good(m, at, None, None), NEW list \in Sentinels
  PROVE  \E to \in Places : /\ Good(DropFront(m, list), to, None, None)
                            /\ \A c \in Commands : at[c] # list => /\ to[c] = at[c]
                                                                   /\ DropFront(m, list).command[c] = m.command[c]
  <1>1. at \in Places /\ at \in [Commands -> Sentinels \cup {None}] /\ Lists(m.heap, at) /\ m \in Memory
    BY DEF Good, Structure, Places
  <1>2. CASE Empty(m, list)
    BY <1>1, <1>2 DEF DropFront
  <1>3. CASE ~Empty(m, list)
    <2> DEFINE c == FirstOf(m, list)
               to == [at EXCEPT ![c] = None]
    <2>1. c \in Commands /\ at[c] = list /\ at[c] # None
      BY <1>1, <1>3, FrontOfList, PacketsAssumption DEF Empty, FirstOf, Members, Nodes
    <2> HIDE DEF c
    <2>2. Good(DropCommand(m, c), to, None, None) /\ DropCommand(m, c).command = [m.command EXCEPT ![c] = Free]
      BY <2>1, DropGood DEF Rest
    <2>3. DropFront(m, list) = DropCommand(m, c)
      BY <1>3 DEF DropFront, c
    <2>4. \A d \in Commands : at[d] # list => to[d] = at[d] /\ [m.command EXCEPT ![c] = Free][d] = m.command[d]
      BY <1>1, <2>1, MemoryFields
    <2>5. to \in Places
      BY <2>2, GoodMemory
    <2> HIDE DEF to
    <2> QED BY <2>2, <2>3, <2>4, <2>5
  <1> QED BY <1>2, <1>3

LEMMA DropAllGood ==
  ASSUME NEW m \in GoodMemories(None, None), NEW list \in Sentinels
  PROVE  DropAll(m, list) \in GoodMemories(None, None)
  <1> DEFINE S == GoodMemories(None, None)
             N == Cardinality(Commands)
             step == [x \in S |-> DropFront(x, list)]
             Is(g) == g = [i \in 0..N |-> IF i = 0 THEN m ELSE DropFront(g[i - 1], list)]
  <1>1. N \in Nat /\ m \in S
    BY NodesFinite
  <1>2. step \in [S -> S]
    <2> SUFFICES ASSUME NEW x \in S PROVE DropFront(x, list) \in S
      OBVIOUS
    <2>1. PICK at \in Places : Good(x, at, None, None)
      BY DEF GoodMemories
    <2>2. PICK to \in Places : Good(DropFront(x, list), to, None, None)
      BY <2>1, DropFrontGood
    <2> QED BY <2>2, GoodMemory
  <1>3. DropAll(m, list) = (CHOOSE g : Is(g))[N]
    BY DEF DropAll, Drain, Repeat, DropFront
  <1> HIDE DEF N, step, S
  <1>4. PICK f : Repetition(f, S, m, step, N)
    BY <1>1, <1>2, Repeats
  <1>5. Is(f)
    <2>1. ASSUME NEW i \in 0..N PROVE f[i] = IF i = 0 THEN m ELSE DropFront(f[i - 1], list)
      <3>1. CASE i = 0
        BY <1>4, <3>1 DEF Repetition
      <3>2. CASE i # 0
        <4>1. i \in 1..N /\ i - 1 \in 0..N
          BY <1>1, <3>2
        <4> QED BY <1>4, <3>2, <4>1 DEF Repetition, step
      <3> QED BY <3>1, <3>2
    <2>2. f = [i \in 0..N |-> f[i]]
      BY <1>4 DEF Repetition
    <2> QED BY <2>1, <2>2
  <1> DEFINE g == CHOOSE h : Is(h)
  <1>6. Is(g)
    <2> HIDE DEF Is
    <2> QED BY <1>5
  <1> HIDE DEF g
  <1> DEFINE T == {i \in 0..N : g[i] \in S}
  <1>7. 0 \in T
    BY <1>1, <1>6 DEF S
  <1>8. ASSUME NEW i \in 1..N, i - 1 \in T PROVE i \in T
    <2>1. i \in 0..N /\ i # 0 /\ g[i - 1] \in S
      BY <1>1, <1>8
    <2>2. g[i] = DropFront(g[i - 1], list)
      BY <1>6, <2>1
    <2>3. step[g[i - 1]] \in S /\ step[g[i - 1]] = DropFront(g[i - 1], list)
      BY <1>2, <2>1 DEF step
    <2> QED BY <2>1, <2>2, <2>3
  <1>9. \A i \in 0..N : i \in T
    <2> HIDE DEF T
    <2> QED BY <1>1, <1>7, <1>8, UpTo
  <1>10. g[N] \in S
    BY <1>1, <1>9
  <1> QED BY <1>3, <1>10 DEF g, S

\* The packets in B have a command in the datagram.
Pointed(m, at, peer, B) ==
  \A k \in B : \E c \in Commands : /\ m.command[c].packet = k
                                   /\ at[c] \in {SentUnreliable, Queue("sent", peer)}

PointedMemories(peer, B) == {m \in Memory : \E at \in Places : Good(m, at, None, None) /\ Pointed(m, at, peer, B)}

\* The loop of the throttle, which leaves alone what is in the datagram.
LEMMA ThrottleGood ==
  ASSUME NEW peer \in Peers, NEW p, NEW B, NEW m \in PointedMemories(p, B), NEW c
  PROVE  DropAlike(m, Queue("outgoing", peer), c) \in PointedMemories(p, B)
  <1> DEFINE queue == Queue("outgoing", peer)
             S == PointedMemories(p, B)
             N == Cardinality(Commands)
             Round(x) == IF Empty(x, queue) \/ ~SameNumbers(m, c, FirstOf(x, queue)) THEN x
                             ELSE DropCommand(x, FirstOf(x, queue))
             step == [x \in S |-> Round(x)]
             Is(g) == g = [i \in 0..N |-> IF i = 0 THEN m ELSE Round(g[i - 1])]
             g == CHOOSE h : Is(h)
  <1>1. N \in Nat /\ m \in S /\ queue \in Sentinels /\ queue \notin {SentUnreliable, Queue("sent", p)}
    BY NodesFinite DEF Queue, Sentinels, Queues, SentUnreliable
  <1>2. ASSUME NEW x \in S PROVE Round(x) \in S
    <2>1. Round(x) = x \/ Round(x) = DropFront(x, queue)
      BY DEF DropFront
    <2>2. PICK at \in Places : Good(x, at, None, None) /\ Pointed(x, at, p, B)
      BY DEF PointedMemories
    <2> HIDE DEF queue, Round
    <2>3. PICK to \in Places :
            /\ Good(DropFront(x, queue), to, None, None)
            /\ \A d \in Commands : at[d] # queue => to[d] = at[d] /\ DropFront(x, queue).command[d] = x.command[d]
      BY <1>1, <2>2, DropFrontGood
    <2>4. Pointed(DropFront(x, queue), to, p, B)
      BY <1>1, <2>2, <2>3 DEF Pointed
    <2>5. DropFront(x, queue) \in S
      BY <2>3, <2>4, GoodMemory DEF PointedMemories
    <2> QED BY <2>1, <2>5
  <1>3. DropAlike(m, queue, c) = g[N]
    BY DEF DropAlike, Repeat
  <1> HIDE DEF N, S, Round
  <1>4. step \in [S -> S]
    BY <1>2
  <1> HIDE DEF step
  <1>5. PICK f : Repetition(f, S, m, step, N)
    BY <1>1, <1>4, Repeats
  <1>6. Is(f)
    <2>1. ASSUME NEW i \in 0..N PROVE f[i] = IF i = 0 THEN m ELSE Round(f[i - 1])
      <3>1. CASE i = 0
        BY <1>5, <3>1 DEF Repetition
      <3>2. CASE i # 0
        <4>1. i \in 1..N /\ i - 1 \in 0..N
          BY <1>1, <3>2
        <4> QED BY <1>5, <3>2, <4>1 DEF Repetition, step
      <3> QED BY <3>1, <3>2
    <2>2. f = [i \in 0..N |-> f[i]]
      BY <1>5 DEF Repetition
    <2> QED BY <2>1, <2>2
  <1>7. Is(g)
    <2> HIDE DEF Is
    <2> QED BY <1>6
  <1> HIDE DEF g
  <1> DEFINE T == {i \in 0..N : g[i] \in S}
  <1>8. 0 \in T
    BY <1>1, <1>7
  <1>9. ASSUME NEW i \in 1..N, i - 1 \in T PROVE i \in T
    <2>1. i \in 0..N /\ i # 0 /\ g[i - 1] \in S
      BY <1>1, <1>9
    <2>2. g[i] = Round(g[i - 1])
      BY <1>7, <2>1
    <2> QED BY <1>2, <2>1, <2>2
  <1>10. \A i \in 0..N : i \in T
    <2> HIDE DEF T
    <2> QED BY <1>1, <1>8, <1>9, UpTo
  <1>11. g[N] \in S
    BY <1>1, <1>10
  <1> QED BY <1>3, <1>11 DEF S

\* A walk along a list: where it is, and two places it may put commands in front of.
Walking(walk, at, list, a, A, b, B) ==
  /\ Good(walk.memory, at, None, None)
  /\ walk.current \in Used(at) /\ Home(at, walk.current) = list
  /\ a \in Used(at) /\ Home(at, a) = A
  /\ b \in Used(at) /\ Home(at, b) = B

Walks(list, a, A, b, B) ==
  {walk \in [memory : Memory, current : Nodes] : \E at \in Places : Walking(walk, at, list, a, A, b, B)}

\* The walk of enet_protocol_check_timeouts.
LEMMA TimeoutGood ==
  ASSUME NEW peer \in Peers, NEW m \in GoodMemories(None, None), NEW overdue \in SUBSET Commands
  PROVE  Requeue(m, peer, overdue) \in GoodMemories(None, None)
  <1> DEFINE list == Queue("sent", peer)
             A == Queue("outgoing", peer)
             B == Queue("sendReliable", peer)
             a == FirstOf(m, A)
             b == FirstOf(m, B)
             S == Walks(list, a, A, b, B)
             N == Cardinality(Commands)
             Position(c) ==
               FirstOf(m, Queue(IF m.command[c].packet = None THEN "outgoing" ELSE "sendReliable", peer))
             Back(x, c) == IF c \in overdue THEN Push(Unlink(x, c), Position(c), c) ELSE x
             Round(walk) == IF walk.current = list THEN walk
                            ELSE [memory |-> Back(walk.memory, walk.current),
                                  current |-> walk.memory.heap.next[walk.current]]
             base == [memory |-> m, current |-> FirstOf(m, list)]
             step == [x \in S |-> Round(x)]
             Is(g) == g = [i \in 0..N |-> IF i = 0 THEN base ELSE Round(g[i - 1])]
             g == CHOOSE h : Is(h)
  <1>1. /\ N \in Nat
        /\ list \in Sentinels /\ A \in Sentinels /\ B \in Sentinels
        /\ list # A /\ list # B /\ Fragments \notin {list, A, B}
        /\ A \notin {"incoming", "dispatched"} \X Peers /\ B \notin {"incoming", "dispatched"} \X Peers
    BY NodesFinite DEF Queue, Sentinels, Queues, Fragments
  <1>2. \A c : Position(c) \in {a, b}
    OBVIOUS
  <1>3. base \in S
    <2>1. PICK at \in Places : Good(m, at, None, None)
      BY DEF GoodMemories
    <2>2. Lists(m.heap, at) /\ m \in Memory
      BY <2>1 DEF Good, Structure
    <2> HIDE DEF list, A, B
    <2>3. ASSUME NEW s \in Sentinels
          PROVE  FirstOf(m, s) \in Used(at) /\ Home(at, FirstOf(m, s)) = s /\ FirstOf(m, s) \in Nodes
      <3>1. s \in Used(at) /\ Home(at, s) = s
        BY DEF Used, Home
      <3>2. m.heap.next[s] \in Used(at) /\ Home(at, m.heap.next[s]) = s /\ Used(at) \subseteq Nodes
        BY <2>2, <3>1, ListsFacts
      <3> QED BY <3>2 DEF FirstOf
    <2>4. Walking(base, at, list, a, A, b, B)
      BY <1>1, <2>1, <2>3 DEF Walking
    <2>5. base \in [memory : Memory, current : Nodes]
      BY <1>1, <2>2, <2>3
    <2> HIDE DEF base, a, b
    <2> QED BY <2>4, <2>5 DEF Walks
  <1>4. ASSUME NEW x \in S PROVE Round(x) \in S
    <2> DEFINE c == x.current
               after == x.memory.heap.next[c]
               new == Back(x.memory, c)
    <2>1. PICK at \in Places : Walking(x, at, list, a, A, b, B)
      BY DEF Walks
    <2>2. CASE c = list
      BY <2>2
    <2>3. CASE c # list
      <3> HIDE DEF list, A, B, a, b, Position
      <3>1. /\ Good(x.memory, at, None, None) /\ Lists(x.memory.heap, at) /\ c \in Used(at) /\ Home(at, c) = list
            /\ a \in Used(at) /\ Home(at, a) = A /\ b \in Used(at) /\ Home(at, b) = B
        BY <2>1 DEF Walking, Good, Structure
      <3>2. c \in Commands /\ at[c] = list /\ at[c] # None
        BY <1>1, <2>3, <3>1, PacketsAssumption DEF Home, Used, Nodes
      <3> HIDE DEF c
      <3>3. after \in Used(at) /\ Home(at, after) = list /\ after # c /\ after \in Nodes
        BY <3>1, <3>2, ListsFacts, NotItsOwn
      <3> HIDE DEF after
      <3>4. \E to \in Places : /\ Good(new, to, None, None)
                               /\ \A n \in Used(at) \ {c} : n \in Used(to) /\ Home(to, n) = Home(at, n)
        <4>1. CASE c \in overdue
          <5> DEFINE q == Position(c)
          <5>1. q \in {a, b}
            BY <1>2
          <5> HIDE DEF q
          <5>2. q \in Used(at) /\ Home(at, q) \in {A, B} /\ q # c
            BY <1>1, <3>1, <5>1
          <5> DEFINE to == [at EXCEPT ![c] = Home(at, q)]
          <5>3. Good(Push(Unlink(x.memory, c), q, c), to, None, None)
            BY <1>1, <3>1, <3>2, <5>2, RelocateGood
          <5>4. new = Push(Unlink(x.memory, c), q, c)
            BY <4>1 DEF q
          <5>5. \A n \in Used(at) \ {c} : n \in Used(to) /\ Home(to, n) = Home(at, n)
            BY DEF Used, Home, Places
          <5>6. to \in Places
            BY <5>3, GoodMemory
          <5> HIDE DEF to, new
          <5> QED BY <5>3, <5>4, <5>5, <5>6
        <4>2. CASE c \notin overdue
          BY <3>1, <4>2
        <4> QED BY <4>1, <4>2
      <3> HIDE DEF new
      <3>5. PICK to \in Places : /\ Good(new, to, None, None)
                                 /\ \A n \in Used(at) \ {c} : n \in Used(to) /\ Home(to, n) = Home(at, n)
        BY <3>4
      <3> DEFINE y == [memory |-> new, current |-> after]
      <3>6. Walking(y, to, list, a, A, b, B)
        <4>1. a # c /\ b # c
          BY <1>1, <3>1
        <4> QED BY <3>1, <3>3, <3>5, <4>1 DEF Walking
      <3>7. y \in [memory : Memory, current : Nodes]
        BY <3>3, <3>5, GoodMemory
      <3>8. Round(x) = y
        BY <2>3 DEF c, after, new
      <3> HIDE DEF y, Round
      <3> QED BY <3>6, <3>7, <3>8 DEF Walks
    <2> QED BY <2>2, <2>3
  <1> HIDE DEF N, S, Round, base
  <1>6. step \in [S -> S]
    BY <1>4
  <1> HIDE DEF step
  <1>7. PICK f : Repetition(f, S, base, step, N)
    BY <1>1, <1>3, <1>6, Repeats
  <1>8. Is(f)
    <2>1. ASSUME NEW i \in 0..N PROVE f[i] = IF i = 0 THEN base ELSE Round(f[i - 1])
      <3>1. CASE i = 0
        BY <1>7, <3>1 DEF Repetition
      <3>2. CASE i # 0
        <4>1. i \in 1..N /\ i - 1 \in 0..N
          BY <1>1, <3>2
        <4> QED BY <1>7, <3>2, <4>1 DEF Repetition, step
      <3> QED BY <3>1, <3>2
    <2>2. f = [i \in 0..N |-> f[i]]
      BY <1>7 DEF Repetition
    <2> QED BY <2>1, <2>2
  <1>9. Is(g)
    <2> HIDE DEF Is
    <2> QED BY <1>8
  <1> HIDE DEF g
  <1> DEFINE T == {i \in 0..N : g[i] \in S}
  <1>10. 0 \in T
    BY <1>1, <1>3, <1>9
  <1>11. ASSUME NEW i \in 1..N, i - 1 \in T PROVE i \in T
    <2>1. i \in 0..N /\ i # 0 /\ g[i - 1] \in S
      BY <1>1, <1>11
    <2>2. g[i] = Round(g[i - 1])
      BY <1>9, <2>1
    <2> QED BY <1>4, <2>1, <2>2
  <1>12. \A i \in 0..N : i \in T
    <2> HIDE DEF T
    <2> QED BY <1>1, <1>10, <1>11, UpTo
  <1>13. g[N].memory \in GoodMemories(None, None)
    <2>1. g[N] \in S
      BY <1>1, <1>12
    <2> QED BY <2>1, GoodMemory DEF S, Walks, Walking
  <1> QED BY <1>13 DEF Requeue, Walk, Repeat, Stride, N, g, Round, base

\* The run of received commands that enet_peer_dispatch_incoming_unreliable_commands
\* moves, if there is one.
LEMMA MoveGood ==
  ASSUME NEW m \in GoodMemories(None, None), NEW peer \in Peers, NEW first \in Nat, NEW last \in Nat,
         1 <= first, last <= Len(Elements(m, Queue("incoming", peer)))
  PROVE  LET waiting == Elements(m, Queue("incoming", peer))
             moved == IF first > last THEN m
                      ELSE [m EXCEPT !.heap = EnetListMove(@, Queue("dispatched", peer), waiting[first], waiting[last])]
         IN  moved \in GoodMemories(None, None)
  <1> DEFINE list == Queue("incoming", peer)
             other == Queue("dispatched", peer)
             waiting == Elements(m, list)
             heap == EnetListMove(m.heap, other, waiting[first], waiting[last])
             new == [m EXCEPT !.heap = heap]
  <1>1. CASE first > last
    BY <1>1
  <1>2. CASE first <= last
    <2>1. /\ list \in Sentinels /\ other \in Sentinels /\ list # other
          /\ list \in {"incoming", "dispatched"} \X Peers /\ other \in {"incoming", "dispatched"} \X Peers
          /\ list # Fragments /\ other # Fragments
      BY DEF Queue, Sentinels, Queues, Fragments
    <2>2. PICK at \in Places : Good(m, at, None, None)
      BY DEF GoodMemories
    <2>3. Lists(m.heap, at) /\ m \in Memory /\ at \in [Commands -> Sentinels \cup {None}] /\ None \notin Sentinels
      BY <2>2, PacketsAssumption DEF Good, Structure, Places, Nodes
    <2> HIDE DEF list, other
    <2>4. PICK L, w : /\ InOrder(m.heap, at, list, w, L)
                      /\ ElementsOf(m.heap, list) = [i \in 1..L |-> w[i]]
                      /\ Len(ElementsOf(m.heap, list)) = L
      BY <2>1, <2>3, ElementsIs
    <2>5. /\ L \in Nat /\ first \in 1..L /\ last \in 1..L
          /\ waiting[first] = w[first] /\ waiting[last] = w[last]
      BY <1>2, <2>4 DEF InOrder, Elements, list
    <2>6. /\ \A i \in first..last : w[i] \in Members(at, list)
          /\ \A i \in (first + 1)..last : m.heap.next[w[i - 1]] = w[i]
          /\ \A i \in first..last : m.heap.previous[w[first]] # w[i]
      <3>1. ASSUME NEW i \in first..last PROVE w[i] \in Members(at, list)
        <4>1. i \in 1..L
          BY <2>5
        <4> QED BY <2>4, <4>1 DEF InOrder
      <3>2. ASSUME NEW i \in (first + 1)..last PROVE m.heap.next[w[i - 1]] = w[i]
        <4>1. i \in 1..L
          BY <2>5
        <4> QED BY <2>4, <4>1 DEF InOrder
      <3>3. ASSUME NEW i \in first..last PROVE m.heap.previous[w[first]] # w[i]
        <4>1. first - 1 \in 0..L /\ i \in 0..L /\ i # first - 1 /\ first \in 1..L
          BY <2>5
        <4>2. w[first] = m.heap.next[w[first - 1]] /\ w[first - 1] # w[i]
          BY <2>4, <4>1 DEF InOrder
        <4>3. w[first - 1] \in Used(at)
          <5>1. CASE first - 1 = 0
            BY <2>1, <2>4, <5>1 DEF InOrder, Used
          <5>2. CASE first - 1 # 0
            <6>1. first - 1 \in 1..L
              BY <4>1, <5>2
            <6>2. w[first - 1] \in Members(at, list)
              BY <2>4, <6>1 DEF InOrder
            <6> QED BY <2>1, <2>3, <6>2 DEF Members, Used
          <5> QED BY <5>1, <5>2
        <4>4. m.heap.previous[w[first]] = w[first - 1]
          BY <2>3, <4>2, <4>3, ListsFacts
        <4> QED BY <4>2, <4>4
      <3> QED BY <3>1, <3>2, <3>3
    <2> DEFINE run == {w[i] : i \in first..last}
               to == [c \in Commands |-> IF c \in run THEN other ELSE at[c]]
    <2>7. to \in Places /\ Lists(heap, to)
      <3>1. heap = EnetListMove(m.heap, other, w[first], w[last])
        BY <2>5
      <3>2. Stretch(m.heap, at, list, w, first, last, run)
        BY <2>6 DEF Stretch
      <3>3. first \in Nat /\ last \in Nat /\ first <= last
        BY <1>2
      <3> HIDE DEF heap, run
      <3>4. /\ [c \in Commands |-> IF c \in run THEN other ELSE at[c]] \in Places
            /\ Lists(EnetListMove(m.heap, other, w[first], w[last]),
                     [c \in Commands |-> IF c \in run THEN other ELSE at[c]])
        BY <2>1, <2>3, <3>2, <3>3, MoveLists
      <3> QED BY <3>1, <3>4
    <2>8. heap \in Heaps(Nodes, Nodes \cup {None})
      BY <2>7 DEF Lists
    <2> HIDE DEF heap
    <2>9. Structure(new, to) /\ Rest(new, m.command, m.count, m.holder)
      <3>1. new \in Memory
        BY <2>3, <2>8 DEF Memory
      <3>2. new.heap = heap /\ Rest(new, m.command, m.count, m.holder)
        BY <2>3 DEF Memory, Rest
      <3> HIDE DEF new
      <3> QED BY <2>7, <3>1, <3>2 DEF Structure
    <2>10. \A c \in Commands : to[c] = at[c] \/ (to[c] = other /\ at[c] = list)
      BY <2>6 DEF Members
    <2> HIDE DEF new, to, run
    <2>11. Good(m, at, None, None)
      BY <2>2
    <2>12. Placed(new, to)
      BY <2>1, <2>3, <2>9, <2>10, <2>11 DEF Good, Placed, Rest
    <2>13. Counted(new, to, None)
      <3>1. ASSUME NEW k \in Packets PROVE Held(new, to, k, None) = Held(m, at, k, None)
        BY <2>1, <2>3, <2>9, <2>10 DEF Held, Rest
      <3>2. Counted(m, at, None)
        BY <2>11 DEF Good
      <3> QED BY <2>9, <3>1, <3>2 DEF Counted, Rest
    <2>14. Owned(new, None)
      BY <2>9, <2>11 DEF Good, Owned, Rest
    <2>15. Incoming(new, None)
      BY <2>9, <2>11 DEF Good, Incoming, Rest
    <2>16. Fragmented(new, to, None)
      BY <2>1, <2>9, <2>10, <2>11 DEF Good, Fragmented, Rest
    <2>17. new \in GoodMemories(None, None)
      <3>1. Good(new, to, None, None)
        BY <2>9, <2>12, <2>13, <2>14, <2>15, <2>16 DEF Good
      <3> QED BY <3>1, GoodMemory
    <2> QED BY <1>2, <2>17 DEF new, heap, list, other
  <1> QED BY <1>1, <1>2

\* What the dispatching of a channel does: the run, and then the walk of
\* enet_peer_remove_incoming_commands.
LEMMA DispatchedGood ==
  ASSUME NEW m \in GoodMemories(None, None), NEW peer \in Peers, NEW queued,
         NEW run \in Runs(Len(Elements(m, Queue("incoming", peer))))
  PROVE  Dispatched(m, peer, run[1], run[2], run[3], queued) \in GoodMemories(None, None)
  <1> DEFINE list == Queue("incoming", peer)
             size == Len(Elements(m, list))
             N == run[3]
             waiting == Elements(m, list)
             moved == IF run[1] > run[2] THEN m
                      ELSE [m EXCEPT !.heap = EnetListMove(@, Queue("dispatched", peer), waiting[run[1]], waiting[run[2]])]
  <1>1. list \in Sentinels
    BY DEF Queue, Sentinels, Queues
  <1>2. size \in Nat
    <2>1. PICK at \in Places : Lists(m.heap, at)
      BY DEF GoodMemories, Good, Structure
    <2> HIDE DEF list
    <2> QED BY <1>1, <2>1, ElementsIs DEF InOrder, Elements
  <1>3. run[1] \in Nat /\ run[2] \in Nat /\ run[3] \in Nat /\ 1 <= run[1] /\ run[2] <= size
    <2> HIDE DEF size
    <2>1. run \in (1..size + 1) \X (0..size) \X (0..size)
      BY DEF Runs, size
    <2> QED BY <1>2, <2>1
  <1>4. moved \in GoodMemories(None, None)
    BY <1>3, MoveGood
  <1>5. N \in Nat
    BY <1>3
  <1> HIDE DEF moved, list, N
  <1> DEFINE S == Walks(list, list, list, list, list)
             Others(x, c) == IF c = queued THEN x ELSE DropCommand(x, c)
             Round(walk) == IF walk.current = list THEN walk
                            ELSE [memory |-> Others(walk.memory, walk.current),
                                  current |-> walk.memory.heap.next[walk.current]]
             base == [memory |-> moved, current |-> FirstOf(moved, list)]
             step == [x \in S |-> Round(x)]
             Is(g) == g = [i \in 0..N |-> IF i = 0 THEN base ELSE Round(g[i - 1])]
             g == CHOOSE h : Is(h)
  <1>11. \A at : list \in Used(at) /\ Home(at, list) = list
    BY <1>1 DEF Used, Home
  <1>12. base \in S
    <2>1. PICK at \in Places : Good(moved, at, None, None)
      BY <1>4 DEF GoodMemories
    <2>2. Lists(moved.heap, at) /\ moved \in Memory
      BY <2>1 DEF Good, Structure
    <2>3. moved.heap.next[list] \in Used(at) /\ Home(at, moved.heap.next[list]) = list /\ Used(at) \subseteq Nodes
      BY <1>11, <2>2, ListsFacts
    <2>4. base \in [memory : Memory, current : Nodes] /\ base.memory = moved /\ base.current = moved.heap.next[list]
      BY <2>2, <2>3 DEF FirstOf
    <2> HIDE DEF base
    <2>5. Walking(base, at, list, list, list, list, list)
      BY <1>11, <2>1, <2>3, <2>4 DEF Walking
    <2> QED BY <2>4, <2>5 DEF Walks
  <1>13. ASSUME NEW x \in S PROVE Round(x) \in S
    <2> DEFINE c == x.current
               after == x.memory.heap.next[c]
               new == Others(x.memory, c)
    <2>1. PICK at \in Places : Walking(x, at, list, list, list, list, list)
      BY DEF Walks
    <2>2. CASE c = list
      BY <2>2
    <2>3. CASE c # list
      <3>1. /\ Good(x.memory, at, None, None) /\ Lists(x.memory.heap, at) /\ c \in Used(at) /\ Home(at, c) = list
        BY <2>1 DEF Walking, Good, Structure
      <3>2. c \in Commands /\ at[c] = list /\ at[c] # None
        BY <2>3, <3>1, PacketsAssumption DEF Home, Used, Nodes
      <3> HIDE DEF c
      <3>3. after \in Used(at) /\ Home(at, after) = list /\ after # c /\ after \in Nodes
        BY <3>1, <3>2, ListsFacts, NotItsOwn
      <3> HIDE DEF after
      <3>4. \E to \in Places : /\ Good(new, to, None, None)
                               /\ \A n \in Used(at) \ {c} : n \in Used(to) /\ Home(to, n) = Home(at, n)
        <4>1. CASE c = queued
          BY <3>1, <4>1
        <4>2. CASE c # queued
          <5> DEFINE to == [at EXCEPT ![c] = None]
          <5>1. Good(DropCommand(x.memory, c), to, None, None)
            BY <3>1, <3>2, DropGood
          <5>2. \A n \in Used(at) \ {c} : n \in Used(to) /\ Home(to, n) = Home(at, n)
            BY DEF Used, Home, Places
          <5>3. to \in Places
            BY <5>1, GoodMemory
          <5> HIDE DEF to
          <5> QED BY <4>2, <5>1, <5>2, <5>3
        <4> QED BY <4>1, <4>2
      <3> HIDE DEF new
      <3>5. PICK to \in Places : /\ Good(new, to, None, None)
                                 /\ \A n \in Used(at) \ {c} : n \in Used(to) /\ Home(to, n) = Home(at, n)
        BY <3>4
      <3> DEFINE y == [memory |-> new, current |-> after]
      <3>6. Walking(y, to, list, list, list, list, list)
        BY <1>11, <3>3, <3>5 DEF Walking
      <3>7. y \in [memory : Memory, current : Nodes]
        BY <3>3, <3>5, GoodMemory
      <3>8. Round(x) = y
        BY <2>3 DEF c, after, new
      <3> HIDE DEF y, Round
      <3> QED BY <3>6, <3>7, <3>8 DEF Walks
    <2> QED BY <2>2, <2>3
  <1> HIDE DEF S, Round, base
  <1>14. step \in [S -> S]
    BY <1>13
  <1> HIDE DEF step
  <1>15. PICK f : Repetition(f, S, base, step, N)
    BY <1>5, <1>12, <1>14, Repeats
  <1>16. Is(f)
    <2>1. ASSUME NEW i \in 0..N PROVE f[i] = IF i = 0 THEN base ELSE Round(f[i - 1])
      <3>1. CASE i = 0
        BY <1>15, <3>1 DEF Repetition
      <3>2. CASE i # 0
        <4>1. i \in 1..N /\ i - 1 \in 0..N
          BY <1>5, <3>2
        <4> QED BY <1>15, <3>2, <4>1 DEF Repetition, step
      <3> QED BY <3>1, <3>2
    <2>2. f = [i \in 0..N |-> f[i]]
      BY <1>15 DEF Repetition
    <2> QED BY <2>1, <2>2
  <1>17. Is(g)
    <2> HIDE DEF Is
    <2> QED BY <1>16
  <1> HIDE DEF g
  <1> DEFINE T == {i \in 0..N : g[i] \in S}
  <1>18. 0 \in T
    BY <1>5, <1>12, <1>17
  <1>19. ASSUME NEW i \in 1..N, i - 1 \in T PROVE i \in T
    <2>1. i \in 0..N /\ i # 0 /\ g[i - 1] \in S
      BY <1>5, <1>19
    <2>2. g[i] = Round(g[i - 1])
      BY <1>17, <2>1
    <2> QED BY <1>13, <2>1, <2>2
  <1>20. \A i \in 0..N : i \in T
    <2> HIDE DEF T
    <2> QED BY <1>5, <1>18, <1>19, UpTo
  <1>21. g[N].memory \in GoodMemories(None, None)
    <2>1. g[N] \in S
      BY <1>5, <1>20
    <2> QED BY <2>1, GoodMemory DEF S, Walks, Walking
  <1> QED BY <1>21 DEF Dispatched, Walk, Repeat, Stride, g, Round, base, list, moved, waiting, N

-----------------------------------------------------------------------------
(* enet_peer_send.                                                         *)

\* A memory some way through the allocation of the fragments.
Allocated(x, at, k, m, i) ==
  /\ Good(x, at, k, Fragments)
  /\ x.count = m.count
  /\ Cardinality(Members(at, Fragments)) = i
  /\ Cardinality(FreeCommands(x)) = Cardinality(FreeCommands(m)) - i

LEMMA AllocateStep ==
  ASSUME NEW m, NEW k \in Packets, NEW kind \in Kinds, NEW i \in Nat, NEW x, NEW at,
         Allocated(x, at, k, m, i), i < Cardinality(FreeCommands(m)), IsFiniteSet(FreeCommands(m))
  PROVE  /\ Allocate(x, k, kind) \in Memory
         /\ \E to \in Places : Allocated(Allocate(x, k, kind), to, k, m, i + 1)
  <1> DEFINE new == Allocate(x, k, kind)
             F == FreeCommands(x)
             M == Members(at, Fragments)
  <1>1. IsFiniteSet(F) /\ IsFiniteSet(M) /\ Cardinality(FreeCommands(m)) \in Nat
    BY NodesFinite, FS_Subset, FS_CardinalityType DEF FreeCommands, Members
  <1>2. F # {}
    <2> HIDE DEF F
    <2>1. Cardinality(F) # 0
      BY <1>1 DEF Allocated, F
    <2> QED BY <1>1, <2>1, FS_EmptySet
  <1>3. PICK c \in FreeCommands(x), record \in Records :
          /\ at[c] = None /\ record # Free
          /\ Good(new, [at EXCEPT ![c] = Fragments], k, Fragments)
          /\ Rest(new, [x.command EXCEPT ![c] = record], x.count, x.holder)
    BY <1>2, AllocateGood DEF Allocated
  <1> DEFINE to == [at EXCEPT ![c] = Fragments]
  <1>4. /\ x.command \in [Commands -> Records] /\ at \in Places /\ c \in Commands /\ x.command[c] = Free
        /\ None # Fragments
    BY MemoryFields, PacketsAssumption DEF Allocated, Good, Structure, FreeCommands, Nodes, Sentinels
  <1>5. FreeCommands(new) = F \ {c} /\ c \in F
    BY <1>3, <1>4 DEF FreeCommands, Rest
  <1>6. Members(to, Fragments) = M \cup {c} /\ c \notin M
    BY <1>3, <1>4 DEF Members, Places
  <1>7. Cardinality(F) = Cardinality(FreeCommands(m)) - i /\ Cardinality(M) = i
    BY DEF Allocated
  <1>8. new.count = m.count
    BY <1>3 DEF Allocated, Rest
  <1>9. new \in Memory /\ to \in Places
    BY <1>3, GoodMemory
  <1> HIDE DEF new, F, M, to
  <1>10. Cardinality(F \ {c}) = Cardinality(F) - 1 /\ Cardinality(M \cup {c}) = Cardinality(M) + 1
    BY <1>1, <1>5, <1>6, FS_RemoveElement, FS_AddElement
  <1>11. Allocated(new, to, k, m, i + 1)
    <2>1. Good(new, to, k, Fragments)
      BY <1>3 DEF to
    <2>2. Cardinality(Members(to, Fragments)) = i + 1
      BY <1>6, <1>7, <1>10
    <2>3. Cardinality(FreeCommands(new)) = Cardinality(FreeCommands(m)) - (i + 1)
      BY <1>1, <1>5, <1>7, <1>10
    <2> QED BY <1>8, <2>1, <2>2, <2>3 DEF Allocated
  <1> QED BY <1>9, <1>11 DEF new

LEMMA AllocateFragmentsGood ==
  ASSUME NEW m, NEW k \in Packets, NEW kind \in Kinds, NEW N \in Nat, NEW at \in Places,
         Allocated(m, at, k, m, 0), N <= Cardinality(FreeCommands(m))
  PROVE  \E to \in Places : Allocated(AllocateFragments(m, k, kind, N), to, k, m, N)
  <1> DEFINE step == [x \in Memory |-> IF Allocate(x, k, kind) \in Memory THEN Allocate(x, k, kind) ELSE x]
             Is(g) == g = [i \in 0..N |-> IF i = 0 THEN m ELSE Allocate(g[i - 1], k, kind)]
             g == CHOOSE h : Is(h)
  <1>1. step \in [Memory -> Memory]
    OBVIOUS
  <1> HIDE DEF step
  <1>2. m \in Memory /\ IsFiniteSet(FreeCommands(m)) /\ Cardinality(FreeCommands(m)) \in Nat
    <2>1. m \in Memory
      BY DEF Allocated, Good, Structure
    <2>2. IsFiniteSet(FreeCommands(m))
      BY NodesFinite, FS_Subset DEF FreeCommands
    <2> QED BY <2>1, <2>2, FS_CardinalityType
  <1>3. PICK f : Repetition(f, Memory, m, step, N)
    BY <1>1, <1>2, Repeats
  <1> DEFINE T == {i \in 0..N : \E to \in Places : Allocated(f[i], to, k, m, i)}
  <1>4. 0 \in T
    BY <1>3 DEF Repetition
  <1>5. ASSUME NEW i \in 1..N, i - 1 \in T
        PROVE  i \in T /\ f[i] = Allocate(f[i - 1], k, kind)
    <2>1. PICK to \in Places : Allocated(f[i - 1], to, k, m, i - 1)
      BY <1>5
    <2>2. i - 1 \in Nat /\ i - 1 \in 0..N /\ i - 1 < Cardinality(FreeCommands(m)) /\ (i - 1) + 1 = i /\ i \in 0..N
      BY <1>2
    <2>3. /\ Allocate(f[i - 1], k, kind) \in Memory
          /\ \E then \in Places : Allocated(Allocate(f[i - 1], k, kind), then, k, m, (i - 1) + 1)
      BY <1>2, <2>1, <2>2, AllocateStep
    <2>4. f[i] = Allocate(f[i - 1], k, kind)
      BY <1>3, <2>2, <2>3 DEF Repetition, step
    <2> QED BY <2>2, <2>3, <2>4
  <1>6. \A i \in 0..N : i \in T
    <2> HIDE DEF T
    <2> QED BY <1>4, <1>5, UpTo
  <1>7. Is(f)
    <2>1. ASSUME NEW i \in 0..N PROVE f[i] = IF i = 0 THEN m ELSE Allocate(f[i - 1], k, kind)
      <3>1. CASE i = 0
        BY <1>3, <3>1 DEF Repetition
      <3>2. CASE i # 0
        <4>1. i \in 1..N /\ i - 1 \in 0..N
          BY <3>2
        <4> HIDE DEF T
        <4> QED BY <1>5, <1>6, <3>2, <4>1
      <3> QED BY <3>1, <3>2
    <2>2. f = [i \in 0..N |-> f[i]]
      BY <1>3 DEF Repetition
    <2> QED BY <2>1, <2>2
  <1>8. Is(g)
    <2> HIDE DEF Is
    <2> QED BY <1>7
  <1> HIDE DEF g
  <1> DEFINE U == {i \in 0..N : g[i] = f[i]}
  <1>9. 0 \in U
    BY <1>7, <1>8
  <1>10. ASSUME NEW i \in 1..N, i - 1 \in U PROVE i \in U
    <2>1. i \in 0..N /\ i # 0 /\ g[i - 1] = f[i - 1]
      BY <1>10
    <2>2. g[i] = Allocate(g[i - 1], k, kind) /\ f[i] = Allocate(f[i - 1], k, kind)
      BY <1>7, <1>8, <2>1
    <2> QED BY <2>1, <2>2
  <1>11. \A i \in 0..N : i \in U
    <2> HIDE DEF U
    <2> QED BY <1>9, <1>10, UpTo
  <1>12. g[N] = f[N] /\ N \in T
    BY <1>6, <1>11
  <1>13. AllocateFragments(m, k, kind, N) = g[N]
    BY DEF AllocateFragments, Repeat, g
  <1> QED BY <1>12, <1>13


\* A memory some way through the emptying of the local list.
Draining(x, at, k, uncounted, count, left) ==
  /\ Good(x, at, k, uncounted)
  /\ x.count = count
  /\ Cardinality(Members(at, Fragments)) <= left

\* The fragment at the front goes to list.
Moved(x, y, at, list, k, uncounted) ==
  \A c \in Members(at, Fragments) : c = FirstOf(x, Fragments) =>
    Good(y, [at EXCEPT ![c] = list], k, uncounted) /\ y.count = x.count

\* A round empties the list a bit more, whatever is done with the fragment.
LEMMA DrainStep ==
  ASSUME NEW k \in Packets, NEW uncounted, NEW count, NEW left \in Nat, NEW x, NEW at \in Places,
         Draining(x, at, k, uncounted, count, left), ~Empty(x, Fragments), NEW y, NEW list \in Sentinels \cup {None},
         list # Fragments, Moved(x, y, at, list, k, uncounted)
  PROVE  y \in Memory /\ left # 0 /\ \E to \in Places : Draining(y, to, k, uncounted, count, left - 1)
  <1> DEFINE c == FirstOf(x, Fragments)
             to == [at EXCEPT ![c] = list]
             M == Members(at, Fragments)
  <1>1. Lists(x.heap, at) /\ Fragments \in Sentinels
    BY DEF Draining, Good, Structure, Sentinels
  <1>2. c \in M
    BY <1>1, FrontOfList DEF Empty, FirstOf
  <1>3. Members(to, Fragments) = M \ {c}
    BY <1>2 DEF Members, Places
  <1>4. IsFiniteSet(M)
    BY NodesFinite, FS_Subset DEF Members
  <1>5. Good(y, to, k, uncounted) /\ y.count = count
    BY <1>2 DEF Draining, Moved
  <1>6. Cardinality(M) <= left
    BY DEF Draining
  <1> HIDE DEF c, to, M
  <1>7. Cardinality(M \ {c}) = Cardinality(M) - 1 /\ Cardinality(M) \in Nat /\ Cardinality(M \ {c}) \in Nat
    BY <1>2, <1>4, FS_RemoveElement, FS_CardinalityType, FS_Subset
  <1>8. left # 0 /\ Cardinality(Members(to, Fragments)) <= left - 1
    BY <1>3, <1>6, <1>7
  <1>9. Draining(y, to, k, uncounted, count, left - 1)
    BY <1>5, <1>8 DEF Draining
  <1> QED BY <1>5, <1>8, <1>9, GoodMemory

\* At the end of it nothing is left.
LEMMA Drained ==
  ASSUME NEW x, NEW at \in Places, NEW k, NEW uncounted, NEW count, NEW left,
         Draining(x, at, k, uncounted, count, left)
  PROVE  /\ left = 0 => Members(at, Fragments) = {}
         /\ Empty(x, Fragments) => Members(at, Fragments) = {}
  <1>1. Cardinality(Members(at, Fragments)) \in Nat /\ IsFiniteSet(Members(at, Fragments))
    BY NodesFinite, FS_Subset, FS_CardinalityType DEF Members
  <1>2. left = 0 => Members(at, Fragments) = {}
    <2> DEFINE M == Members(at, Fragments)
    <2> HIDE DEF M
    <2>1. Cardinality(M) \in Nat /\ IsFiniteSet(M) /\ (left = 0 => Cardinality(M) <= 0)
      BY <1>1 DEF Draining, M
    <2>2. left = 0 => M = {}
      BY <2>1, FS_EmptySet
    <2> QED BY <2>2 DEF M
  <1>3. Empty(x, Fragments) => Members(at, Fragments) = {}
    <2>1. Lists(x.heap, at) /\ Fragments \in Sentinels
      BY DEF Draining, Good, Structure, Sentinels
    <2> QED BY <2>1, FrontOfList DEF Empty
  <1> QED BY <1>2, <1>3

\* With nothing in the local list it does not matter whether that counts.
LEMMA NothingUncounted ==
  ASSUME NEW m, NEW at \in Places, NEW sent, Members(at, Fragments) = {}
  PROVE  Good(m, at, sent, Fragments) <=> Good(m, at, sent, None)
  <1>1. ASSUME Structure(m, at), Placed(m, at), NEW k \in Packets
        PROVE  Held(m, at, k, Fragments) = Held(m, at, k, None)
    <2>1. None \notin Packets /\ \A c \in Commands : at[c] = None => m.command[c].packet = None
      BY <1>1, FreeIsRecord, PacketsAssumption DEF Placed
    <2> QED BY <2>1 DEF Held, Members
  <1>2. ASSUME Structure(m, at), Placed(m, at)
        PROVE  Counted(m, at, Fragments) <=> Counted(m, at, None)
    BY <1>1, <1>2 DEF Counted
  <1> QED BY <1>2 DEF Good


\* If not all fragments could be allocated, none is left of those that could.
LEMMA FreeFragmentsGood ==
  ASSUME NEW m, NEW at \in Places, NEW k \in Packets, Good(m, at, k, Fragments)
  PROVE  \E to \in Places : /\ Good(FreeFragments(m), to, k, None) /\ Members(to, Fragments) = {}
                           /\ FreeFragments(m).count = m.count
  <1> DEFINE N == Cardinality(Commands)
             Round(x) == IF Empty(x, Fragments) THEN x ELSE GiveBack(x, FirstOf(x, Fragments))
             step == [x \in Memory |-> IF Round(x) \in Memory THEN Round(x) ELSE x]
             Is(g) == g = [i \in 0..N |-> IF i = 0 THEN m ELSE Round(g[i - 1])]
             g == CHOOSE h : Is(h)
             Left(x, left) == \E to \in Places : Draining(x, to, k, Fragments, m.count, left)
  <1>1. N \in Nat /\ m \in Memory
    BY NodesFinite DEF Good, Structure
  <1>2. Left(m, N)
    <2>1. Members(at, Fragments) \subseteq Commands /\ IsFiniteSet(Commands)
      BY NodesFinite DEF Members
    <2>2. Cardinality(Members(at, Fragments)) <= N
      BY <2>1, FS_Subset
    <2> QED BY <2>2 DEF Draining
  <1>3. ASSUME NEW x, NEW i \in Nat, Left(x, i), i # 0
        PROVE  Round(x) \in Memory /\ Left(Round(x), i - 1)
    <2>1. PICK to \in Places : Draining(x, to, k, Fragments, m.count, i)
      BY <1>3
    <2>2. Good(x, to, k, Fragments) /\ x.count = m.count /\ x \in Memory
      BY <2>1, GoodMemory DEF Draining
    <2>3. CASE Empty(x, Fragments)
      <3>1. Members(to, Fragments) = {}
        BY <2>1, <2>3, Drained
      <3>2. Cardinality(Members(to, Fragments)) = 0
        BY <3>1, FS_EmptySet
      <3>3. Draining(x, to, k, Fragments, m.count, i - 1)
        BY <1>3, <2>2, <3>2 DEF Draining
      <3> QED BY <2>2, <2>3, <3>3
    <2>4. CASE ~Empty(x, Fragments)
      <3> DEFINE c == FirstOf(x, Fragments)
                 y == GiveBack(x, c)
      <3>1. ASSUME NEW d \in Members(to, Fragments), d = c
            PROVE  Good(y, [to EXCEPT ![d] = None], k, Fragments) /\ y.count = x.count
        <4>1. d \in Commands /\ to[d] = Fragments
          BY DEF Members
        <4>2. /\ Good(GiveBack(x, d), [to EXCEPT ![d] = None], k, Fragments)
              /\ Rest(GiveBack(x, d), [x.command EXCEPT ![d] = Free], x.count, x.holder)
          BY <2>2, <4>1, GiveBackGood
        <4> QED BY <3>1, <4>2 DEF Rest
      <3>2. None \in Sentinels \cup {None} /\ None # Fragments
        BY PacketsAssumption DEF Nodes, Sentinels
      <3>3. Round(x) = y
        BY <2>4
      <3> HIDE DEF y, Round
      <3>4. Moved(x, y, to, None, k, Fragments)
        BY <3>1 DEF Moved
      <3>5. y \in Memory /\ \E then \in Places : Draining(y, then, k, Fragments, m.count, i - 1)
        BY <1>3, <2>1, <2>4, <3>2, <3>4, DrainStep
      <3> QED BY <3>3, <3>5
    <2> QED BY <2>3, <2>4
  <1> HIDE DEF N, Round, Left
  <1>4. step \in [Memory -> Memory]
    OBVIOUS
  <1> HIDE DEF step
  <1>5. PICK f : Repetition(f, Memory, m, step, N)
    BY <1>1, <1>4, Repeats
  <1> DEFINE T == {i \in 0..N : Left(f[i], N - i)}
  <1>6. 0 \in T
    BY <1>1, <1>2, <1>5 DEF Repetition
  <1>7. ASSUME NEW i \in 1..N, i - 1 \in T
        PROVE  i \in T /\ f[i] = Round(f[i - 1])
    <2>1. N - (i - 1) \in Nat /\ N - (i - 1) # 0 /\ (N - (i - 1)) - 1 = N - i /\ i \in 0..N /\ i - 1 \in 0..N
      BY <1>1
    <2>2. Left(f[i - 1], N - (i - 1)) /\ f[i - 1] \in Memory
      BY <1>5, <1>7, <2>1 DEF Repetition
    <2>3. Round(f[i - 1]) \in Memory /\ Left(Round(f[i - 1]), (N - (i - 1)) - 1)
      BY <1>3, <2>1, <2>2
    <2>4. f[i] = Round(f[i - 1])
      BY <1>5, <2>2, <2>3 DEF Repetition, step
    <2> QED BY <2>1, <2>3, <2>4
  <1>8. \A i \in 0..N : i \in T
    <2> HIDE DEF T
    <2> QED BY <1>1, <1>6, <1>7, UpTo
  <1>9. Is(f)
    <2>1. ASSUME NEW i \in 0..N PROVE f[i] = IF i = 0 THEN m ELSE Round(f[i - 1])
      <3>1. CASE i = 0
        BY <1>5, <3>1 DEF Repetition
      <3>2. CASE i # 0
        <4>1. i \in 1..N /\ i - 1 \in 0..N
          BY <1>1, <3>2
        <4> HIDE DEF T
        <4> QED BY <1>7, <1>8, <3>2, <4>1
      <3> QED BY <3>1, <3>2
    <2>2. f = [i \in 0..N |-> f[i]]
      BY <1>5 DEF Repetition
    <2> QED BY <2>1, <2>2
  <1>10. Is(g)
    <2> HIDE DEF Is
    <2> QED BY <1>9
  <1> HIDE DEF g
  <1> DEFINE U == {i \in 0..N : g[i] = f[i]}
  <1>11. 0 \in U
    BY <1>1, <1>9, <1>10
  <1>12. ASSUME NEW i \in 1..N, i - 1 \in U PROVE i \in U
    <2>1. i \in 0..N /\ i # 0 /\ g[i - 1] = f[i - 1]
      BY <1>1, <1>12
    <2>2. g[i] = Round(g[i - 1]) /\ f[i] = Round(f[i - 1])
      BY <1>9, <1>10, <2>1
    <2> QED BY <2>1, <2>2
  <1>13. \A i \in 0..N : i \in U
    <2> HIDE DEF U
    <2> QED BY <1>1, <1>11, <1>12, UpTo
  <1>14. g[N] = f[N] /\ Left(f[N], 0)
    <2>1. N \in 0..N /\ N - N = 0
      BY <1>1
    <2> QED BY <1>8, <1>13, <2>1
  <1>15. FreeFragments(m) = g[N]
    BY DEF FreeFragments, Drain, Repeat, g, N, Round
  <1>16. PICK to \in Places : Draining(g[N], to, k, Fragments, m.count, 0)
    BY <1>14 DEF Left
  <1>17. Members(to, Fragments) = {} /\ Good(g[N], to, k, Fragments) /\ g[N].count = m.count
    BY <1>16, Drained DEF Draining
  <1>18. Good(g[N], to, k, None)
    BY <1>17, NothingUncounted
  <1> QED BY <1>15, <1>17, <1>18

\* Otherwise all of them are queued.
LEMMA SetupFragmentsGood ==
  ASSUME NEW peer \in Peers, NEW m, NEW at \in Places, NEW k \in Packets, Good(m, at, k, None)
  PROVE  \E to \in Places : /\ Good(SetupFragments(m, peer), to, k, None) /\ Members(to, Fragments) = {}
                           /\ SetupFragments(m, peer).count = m.count
  <1> DEFINE N == Cardinality(Commands)
             Round(x) == IF Empty(x, Fragments) THEN x ELSE HandOver(x, peer, FirstOf(x, Fragments))
             step == [x \in Memory |-> IF Round(x) \in Memory THEN Round(x) ELSE x]
             Is(g) == g = [i \in 0..N |-> IF i = 0 THEN m ELSE Round(g[i - 1])]
             g == CHOOSE h : Is(h)
             Left(x, left) == \E to \in Places : Draining(x, to, k, None, m.count, left)
  <1>1. N \in Nat /\ m \in Memory
    BY NodesFinite DEF Good, Structure
  <1>2. Left(m, N)
    <2>1. Members(at, Fragments) \subseteq Commands /\ IsFiniteSet(Commands)
      BY NodesFinite DEF Members
    <2>2. Cardinality(Members(at, Fragments)) <= N
      BY <2>1, FS_Subset
    <2> QED BY <2>2 DEF Draining
  <1>3. ASSUME NEW x, NEW i \in Nat, Left(x, i), i # 0
        PROVE  Round(x) \in Memory /\ Left(Round(x), i - 1)
    <2>1. PICK to \in Places : Draining(x, to, k, None, m.count, i)
      BY <1>3
    <2>2. Good(x, to, k, None) /\ x.count = m.count /\ x \in Memory
      BY <2>1, GoodMemory DEF Draining
    <2>3. CASE Empty(x, Fragments)
      <3>1. Members(to, Fragments) = {}
        BY <2>1, <2>3, Drained
      <3>2. Cardinality(Members(to, Fragments)) = 0
        BY <3>1, FS_EmptySet
      <3>3. Draining(x, to, k, None, m.count, i - 1)
        BY <1>3, <2>2, <3>2 DEF Draining
      <3> QED BY <2>2, <2>3, <3>3
    <2>4. CASE ~Empty(x, Fragments)
      <3> DEFINE c == FirstOf(x, Fragments)
                 y == HandOver(x, peer, c)
                 list == Queue(IF Unlink(x, c).command[c].kind = "reliable" THEN "sendReliable" ELSE "outgoing", peer)
      <3>1. /\ list \in Sentinels /\ list # Fragments /\ list # None
            /\ list \notin {"incoming", "dispatched"} \X Peers
        BY PacketsAssumption DEF Queue, Sentinels, Queues, Fragments, Nodes
      <3>2. y = Push(Unlink(x, c), list, c)
        BY DEF HandOver, SetupOutgoing
      <3>3. Round(x) = y
        BY <2>4
      <3> HIDE DEF y, Round, list
      <3>4. ASSUME NEW d \in Members(to, Fragments), d = c
            PROVE  Good(y, [to EXCEPT ![d] = list], k, None) /\ y.count = x.count
        <4>1. d \in Commands /\ to[d] = Fragments /\ to[d] # None /\ list # d
          BY <3>1, PacketsAssumption DEF Members, Nodes, Sentinels
        <4>2. list \in Used(to) /\ Home(to, list) = list
          BY <3>1 DEF Used, Home
        <4>3. /\ Good(Push(Unlink(x, d), list, d), [to EXCEPT ![d] = Home(to, list)], k, None)
              /\ Rest(Push(Unlink(x, d), list, d), x.command, x.count, x.holder)
          BY <2>2, <3>1, <4>1, <4>2, RelocateGood
        <4> QED BY <3>2, <3>4, <4>2, <4>3 DEF Rest
      <3>5. Moved(x, y, to, list, k, None)
        BY <3>4 DEF Moved
      <3>6. y \in Memory /\ \E then \in Places : Draining(y, then, k, None, m.count, i - 1)
        BY <1>3, <2>1, <2>4, <3>1, <3>5, DrainStep
      <3> QED BY <3>3, <3>6
    <2> QED BY <2>3, <2>4
  <1> HIDE DEF N, Round, Left
  <1>4. step \in [Memory -> Memory]
    OBVIOUS
  <1> HIDE DEF step
  <1>5. PICK f : Repetition(f, Memory, m, step, N)
    BY <1>1, <1>4, Repeats
  <1> DEFINE T == {i \in 0..N : Left(f[i], N - i)}
  <1>6. 0 \in T
    BY <1>1, <1>2, <1>5 DEF Repetition
  <1>7. ASSUME NEW i \in 1..N, i - 1 \in T
        PROVE  i \in T /\ f[i] = Round(f[i - 1])
    <2>1. N - (i - 1) \in Nat /\ N - (i - 1) # 0 /\ (N - (i - 1)) - 1 = N - i /\ i \in 0..N /\ i - 1 \in 0..N
      BY <1>1
    <2>2. Left(f[i - 1], N - (i - 1)) /\ f[i - 1] \in Memory
      BY <1>5, <1>7, <2>1 DEF Repetition
    <2>3. Round(f[i - 1]) \in Memory /\ Left(Round(f[i - 1]), (N - (i - 1)) - 1)
      BY <1>3, <2>1, <2>2
    <2>4. f[i] = Round(f[i - 1])
      BY <1>5, <2>2, <2>3 DEF Repetition, step
    <2> QED BY <2>1, <2>3, <2>4
  <1>8. \A i \in 0..N : i \in T
    <2> HIDE DEF T
    <2> QED BY <1>1, <1>6, <1>7, UpTo
  <1>9. Is(f)
    <2>1. ASSUME NEW i \in 0..N PROVE f[i] = IF i = 0 THEN m ELSE Round(f[i - 1])
      <3>1. CASE i = 0
        BY <1>5, <3>1 DEF Repetition
      <3>2. CASE i # 0
        <4>1. i \in 1..N /\ i - 1 \in 0..N
          BY <1>1, <3>2
        <4> HIDE DEF T
        <4> QED BY <1>7, <1>8, <3>2, <4>1
      <3> QED BY <3>1, <3>2
    <2>2. f = [i \in 0..N |-> f[i]]
      BY <1>5 DEF Repetition
    <2> QED BY <2>1, <2>2
  <1>10. Is(g)
    <2> HIDE DEF Is
    <2> QED BY <1>9
  <1> HIDE DEF g
  <1> DEFINE U == {i \in 0..N : g[i] = f[i]}
  <1>11. 0 \in U
    BY <1>1, <1>9, <1>10
  <1>12. ASSUME NEW i \in 1..N, i - 1 \in U PROVE i \in U
    <2>1. i \in 0..N /\ i # 0 /\ g[i - 1] = f[i - 1]
      BY <1>1, <1>12
    <2>2. g[i] = Round(g[i - 1]) /\ f[i] = Round(f[i - 1])
      BY <1>9, <1>10, <2>1
    <2> QED BY <2>1, <2>2
  <1>13. \A i \in 0..N : i \in U
    <2> HIDE DEF U
    <2> QED BY <1>1, <1>11, <1>12, UpTo
  <1>14. g[N] = f[N] /\ Left(f[N], 0)
    <2>1. N \in 0..N /\ N - N = 0
      BY <1>1
    <2> QED BY <1>8, <1>13, <2>1
  <1>15. SetupFragments(m, peer) = g[N]
    BY DEF SetupFragments, Drain, Repeat, g, N, Round
  <1>16. PICK to \in Places : Draining(g[N], to, k, None, m.count, 0)
    BY <1>14 DEF Left
  <1>17. Members(to, Fragments) = {} /\ Good(g[N], to, k, None) /\ g[N].count = m.count
    BY <1>16, Drained DEF Draining
  <1>18. Good(g[N], to, k, None)
    BY <1>17, NothingUncounted
  <1> QED BY <1>15, <1>17, <1>18


\* referenceCount is raised by the number of the fragments that are to be queued.
LEMMA CountFragments ==
  ASSUME NEW m, NEW at \in Places, NEW k \in Packets, Good(m, at, k, Fragments),
         NEW n, n = Cardinality(Members(at, Fragments))
  PROVE  Good(Refer(m, k, n), at, k, None) /\ Refer(m, k, n).count[k] = m.count[k] + n
  <1> DEFINE count == [m.count EXCEPT ![k] = m.count[k] + n]
             new == Refer(m, k, n)
             M == Members(at, Fragments)
  <1>1. new = [m EXCEPT !.count = count]
    BY DEF Refer
  <1> HIDE DEF new
  <1>2. /\ m \in Memory /\ m.count \in [Packets -> Int] /\ IsFiniteSet(M) /\ n \in Nat
        /\ None \notin Packets /\ None # Fragments
    <2>1. m \in Memory
      BY DEF Good, Structure
    <2>2. IsFiniteSet(M)
      BY NodesFinite, FS_Subset DEF Members
    <2>3. n \in Nat
      BY <2>2, FS_CardinalityType
    <2> QED BY <2>1, <2>2, <2>3, MemoryFields, PacketsAssumption DEF Nodes, Sentinels
  <1>3. count \in [Packets -> Int] /\ count[k] = m.count[k] + n /\ \A x \in Packets \ {k} : count[x] = m.count[x]
    BY <1>2
  <1> HIDE DEF count
  <1>4. new \in Memory /\ new.count = count /\ new.command = m.command /\ new.holder = m.holder /\ new.heap = m.heap
    BY <1>1, <1>2, <1>3 DEF Memory
  <1>5. Structure(m, at) /\ Placed(m, at) /\ Counted(m, at, Fragments) /\ Owned(m, k) /\ Incoming(m, k) /\ Fragmented(m, at, k)
    BY DEF Good
  <1>6. Structure(new, at) /\ Placed(new, at) /\ Owned(new, k) /\ Incoming(new, k) /\ Fragmented(new, at, k)
    BY <1>4, <1>5 DEF Structure, Placed, Owned, Incoming, Fragmented
  <1>7. Counted(new, at, None)
    <2> SUFFICES ASSUME NEW x \in Packets PROVE count[x] = Cardinality(Held(new, at, x, None))
      BY <1>4 DEF Counted
    <2> DEFINE H == Held(m, at, x, Fragments)
    <2>1. m.count[x] = Cardinality(H) /\ IsFiniteSet(H)
      BY <1>5, HeldFinite DEF Counted
    <2>2. \A c \in Commands : at[c] = None => m.command[c].packet = None
      BY <1>5, FreeIsRecord DEF Placed
    <2>3. \A c \in M : c \in Commands /\ at[c] = Fragments /\ m.command[c].packet = k
      BY <1>5 DEF Members, Fragmented
    <2>4. CASE x = k
      <3>1. Held(new, at, x, None) = H \cup M
        BY <1>2, <1>4, <2>2, <2>3, <2>4 DEF Held, Members
      <3>2. H \cap M = {}
        BY DEF Held, Members
      <3> HIDE DEF H, M
      <3>3. Cardinality(H \cup M) = Cardinality(H) + Cardinality(M)
        <4>1. Cardinality(H \cup M) = Cardinality(H) + Cardinality(M) - Cardinality(H \cap M)
          BY <1>2, <2>1, FS_Union
        <4>2. Cardinality(H) \in Nat /\ Cardinality(M) \in Nat
          BY <1>2, <2>1, FS_CardinalityType
        <4>3. Cardinality(H \cap M) = 0
          BY <3>2, FS_EmptySet
        <4> QED BY <4>1, <4>2, <4>3
      <3>4. n = Cardinality(M)
        BY DEF M
      <3> QED BY <1>3, <2>1, <2>4, <3>1, <3>3, <3>4
    <2>5. CASE x # k
      <3>1. Held(new, at, x, None) = H
        BY <1>2, <1>4, <2>2, <2>3, <2>5 DEF Held, Members
      <3> HIDE DEF H
      <3> QED BY <1>3, <2>1, <2>5, <3>1
    <2> QED BY <2>4, <2>5
  <1>8. Good(new, at, k, None)
    BY <1>6, <1>7 DEF Good
  <1> QED BY <1>3, <1>4, <1>8 DEF new

\* A packet is queued with all its fragments, or not at all: the count says so.
LEMMA EnetPeerSendGood ==
  ASSUME NEW m, NEW at \in Places, NEW peer \in Peers, NEW k \in Packets, NEW kind \in Kinds,
         NEW pieces \in Nat, NEW got \in Nat, got <= pieces, got <= Cardinality(FreeCommands(m)),
         Good(m, at, k, None), Members(at, Fragments) = {}
  PROVE  LET sent == EnetPeerSend(m, peer, k, kind, pieces, got)
         IN  \E to \in Places : /\ Good(sent, to, k, None) /\ Members(to, Fragments) = {}
                                /\ sent.count[k] = m.count[k] + (IF got < pieces THEN 0 ELSE pieces)
  <1> DEFINE allocated == AllocateFragments(m, k, kind, got)
             raised == Refer(allocated, k, pieces)
             sent == EnetPeerSend(m, peer, k, kind, pieces, got)
  <1>0. m.count \in [Packets -> Int]
    BY MemoryFields DEF Good, Structure
  <1>1. Allocated(m, at, k, m, 0)
    <2>1. Good(m, at, k, Fragments) /\ Cardinality(Members(at, Fragments)) = 0
      BY NothingUncounted, FS_EmptySet
    <2>2. Cardinality(FreeCommands(m)) = Cardinality(FreeCommands(m)) - 0
      <3>1. IsFiniteSet(FreeCommands(m))
        BY NodesFinite, FS_Subset DEF FreeCommands
      <3>2. Cardinality(FreeCommands(m)) \in Nat
        BY <3>1, FS_CardinalityType
      <3> QED BY <3>2
    <2> QED BY <2>1, <2>2 DEF Allocated
  <1>2. PICK to \in Places : Allocated(allocated, to, k, m, got)
    BY <1>1, AllocateFragmentsGood
  <1> HIDE DEF allocated
  <1>3. /\ Good(allocated, to, k, Fragments) /\ allocated.count = m.count
        /\ Cardinality(Members(to, Fragments)) = got
    BY <1>2 DEF Allocated
  <1>4. CASE got < pieces
    <2>1. sent = FreeFragments(allocated)
      BY <1>4 DEF EnetPeerSend, allocated
    <2> HIDE DEF sent
    <2>2. PICK then \in Places : /\ Good(FreeFragments(allocated), then, k, None) /\ Members(then, Fragments) = {}
                                 /\ FreeFragments(allocated).count = allocated.count
      BY <1>3, FreeFragmentsGood
    <2>3. /\ Good(sent, then, k, None) /\ Members(then, Fragments) = {}
          /\ sent.count[k] = m.count[k] + (IF got < pieces THEN 0 ELSE pieces)
      BY <1>0, <1>3, <1>4, <2>1, <2>2
    <2> QED BY <2>3 DEF sent
  <1>5. CASE got = pieces
    <2>1. sent = SetupFragments(raised, peer)
      BY <1>5 DEF EnetPeerSend, allocated
    <2> HIDE DEF sent
    <2>2. Good(raised, to, k, None) /\ raised.count[k] = allocated.count[k] + pieces
      <3>1. pieces = Cardinality(Members(to, Fragments))
        BY <1>3, <1>5
      <3>2. Good(allocated, to, k, Fragments)
        BY <1>3
      <3> QED BY <3>1, <3>2, CountFragments
    <2> HIDE DEF raised
    <2>3. PICK then \in Places : /\ Good(SetupFragments(raised, peer), then, k, None) /\ Members(then, Fragments) = {}
                                 /\ SetupFragments(raised, peer).count = raised.count
      BY <2>2, SetupFragmentsGood
    <2>4. sent.count[k] = m.count[k] + (IF got < pieces THEN 0 ELSE pieces)
      BY <1>0, <1>3, <1>5, <2>1, <2>2, <2>3
    <2>5. Good(sent, then, k, None) /\ Members(then, Fragments) = {}
      BY <2>1, <2>3
    <2> QED BY <2>4, <2>5 DEF sent
  <1> QED BY <1>4, <1>5


\* The allocations that succeed are no more than those asked for, or than can.
LEMMA AllocationsIs ==
  ASSUME NEW m, NEW wanted \in Nat
  PROVE  LET got == Allocations(m, wanted)
         IN  got \in Nat /\ got <= wanted /\ got <= Cardinality(FreeCommands(m))
  <1>1. IsFiniteSet(FreeCommands(m))
    BY NodesFinite, FS_Subset DEF FreeCommands
  <1>2. Cardinality(FreeCommands(m)) \in Nat
    BY <1>1, FS_CardinalityType
  <1> QED BY <1>2 DEF Allocations


\* Who is connected is sent the packet one after the other.
LEMMA BroadcastGood ==
  ASSUME NEW m, NEW at \in Places, NEW k \in Packets, NEW kind \in Kinds, NEW pieces \in Nat,
         NEW connected \in SUBSET Peers, NEW wanted \in [connected -> Nat],
         \A p \in connected : wanted[p] <= pieces,
         Good(m, at, k, None), Members(at, Fragments) = {}
  PROVE  \E to \in Places : /\ Good(Broadcast(m, k, kind, pieces, connected, wanted), to, k, None)
                            /\ Members(to, Fragments) = {}
  <1> DEFINE N == Cardinality(connected)
             Sent(x) == \E to \in Places : Good(x, to, k, None) /\ Members(to, Fragments) = {}
             S == {round \in [memory : Memory, left : SUBSET connected] : Sent(round.memory)}
             Round(round) == BroadcastTo(round, k, kind, pieces, wanted)
             base == [memory |-> m, left |-> connected]
             step == [x \in S |-> Round(x)]
             Is(g) == g = [i \in 0..N |-> IF i = 0 THEN base ELSE Round(g[i - 1])]
             g == CHOOSE h : Is(h)
  <1>1. N \in Nat
    <2>1. IsFiniteSet(connected)
      BY PacketsAssumption, FS_Subset
    <2> QED BY <2>1, FS_CardinalityType
  <1>2. base \in S
    BY GoodMemory
  <1>3. ASSUME NEW x \in S PROVE Round(x) \in S
    <2>1. CASE x.left = {}
      BY <2>1 DEF BroadcastTo
    <2>2. CASE x.left # {}
      <3> DEFINE p == CHOOSE p \in x.left : TRUE
                 got == Allocations(x.memory, wanted[p])
                 new == EnetPeerSend(x.memory, p, k, kind, pieces, got)
                 y == [memory |-> new, left |-> x.left \ {p}]
      <3>1. p \in x.left /\ p \in connected /\ p \in Peers /\ wanted[p] \in Nat /\ wanted[p] <= pieces
        BY <2>2
      <3>2. Round(x) = y
        BY <2>2 DEF BroadcastTo
      <3> HIDE DEF p
      <3>3. got \in Nat /\ got <= wanted[p] /\ got <= Cardinality(FreeCommands(x.memory))
        BY <3>1, AllocationsIs
      <3> HIDE DEF got
      <3>4. got <= pieces
        BY <3>1, <3>3
      <3>5. PICK at1 \in Places : Good(x.memory, at1, k, None) /\ Members(at1, Fragments) = {}
        OBVIOUS
      <3>6. PICK to \in Places : Good(new, to, k, None) /\ Members(to, Fragments) = {}
        BY <3>1, <3>3, <3>4, <3>5, EnetPeerSendGood
      <3>7. new \in Memory
        BY <3>6, GoodMemory
      <3> HIDE DEF new, Round
      <3> QED BY <3>2, <3>6, <3>7
    <2> QED BY <2>1, <2>2
  <1> HIDE DEF N, S, Round, base
  <1>4. step \in [S -> S]
    BY <1>3
  <1> HIDE DEF step
  <1>5. PICK f : Repetition(f, S, base, step, N)
    BY <1>1, <1>2, <1>4, Repeats
  <1>6. Is(f)
    <2>1. ASSUME NEW i \in 0..N PROVE f[i] = IF i = 0 THEN base ELSE Round(f[i - 1])
      <3>1. CASE i = 0
        BY <1>5, <3>1 DEF Repetition
      <3>2. CASE i # 0
        <4>1. i \in 1..N /\ i - 1 \in 0..N
          BY <1>1, <3>2
        <4> QED BY <1>5, <3>2, <4>1 DEF Repetition, step
      <3> QED BY <3>1, <3>2
    <2>2. f = [i \in 0..N |-> f[i]]
      BY <1>5 DEF Repetition
    <2> QED BY <2>1, <2>2
  <1>7. Is(g)
    <2> HIDE DEF Is
    <2> QED BY <1>6
  <1> HIDE DEF g
  <1> DEFINE T == {i \in 0..N : g[i] \in S}
  <1>8. 0 \in T
    BY <1>1, <1>2, <1>7
  <1>9. ASSUME NEW i \in 1..N, i - 1 \in T PROVE i \in T
    <2>1. i \in 0..N /\ i # 0 /\ g[i - 1] \in S
      BY <1>1, <1>9
    <2>2. g[i] = Round(g[i - 1])
      BY <1>7, <2>1
    <2> QED BY <1>3, <2>1, <2>2
  <1>10. \A i \in 0..N : i \in T
    <2> HIDE DEF T
    <2> QED BY <1>1, <1>8, <1>9, UpTo
  <1>11. g[N] \in S
    BY <1>1, <1>10
  <1>12. Broadcast(m, k, kind, pieces, connected, wanted) = g[N].memory
    BY DEF Broadcast, Repeat, g, N, Round, base
  <1> QED BY <1>11, <1>12 DEF S


-----------------------------------------------------------------------------
(* The other operations.                                                   *)

\* What does not change who owns a packet, nor a count, changes nothing.
LEMMA SameGood ==
  ASSUME NEW m, NEW at, Good(m, at, None, None), NEW new, Structure(new, at),
         new.command = m.command, new.count = m.count,
         \A k \in Packets : new.holder[k] = "library" <=> m.holder[k] = "library"
  PROVE  Good(new, at, None, None)
  <1>1. None \notin Packets
    BY PacketsAssumption
  <1>2. Structure(new, at) /\ Placed(new, at) /\ Fragmented(new, at, None)
    BY DEF Good, Placed, Fragmented
  <1>3. Counted(new, at, None)
    <2>1. \A k \in Packets : Held(new, at, k, None) = Held(m, at, k, None)
      BY DEF Held
    <2> QED BY <2>1 DEF Good, Counted
  <1>4. Owned(new, None) /\ Incoming(new, None)
    BY <1>1 DEF Good, Owned, Incoming
  <1> QED BY <1>2, <1>3, <1>4 DEF Good

\* The list of enet_peer_send is empty between its calls.
LEMMA NoFragments ==
  ASSUME NEW m, NEW at, Good(m, at, None, None)
  PROVE  at \in Places /\ Members(at, Fragments) = {}
  BY PacketsAssumption DEF Good, Structure, Fragmented, Members

\* A packet without commands has the count 0, and the other way round.
LEMMA CountOf ==
  ASSUME NEW m, NEW at, NEW sent, Good(m, at, sent, None), NEW k \in Packets
  PROVE  m.count[k] \in Nat /\ (m.count[k] # 0 <=> \E c \in Commands : m.command[c].packet = k)
  <1> DEFINE H == Held(m, at, k, None)
  <1>1. m.count[k] = Cardinality(H) /\ IsFiniteSet(H) /\ Cardinality(H) \in Nat
    BY HeldFinite DEF Good, Counted
  <1>2. H # {} <=> \E c \in Commands : m.command[c].packet = k
    BY FreeIsRecord, PacketsAssumption DEF Good, Placed, Held
  <1> HIDE DEF H
  <1>3. Cardinality(H) = 0 <=> H = {}
    BY <1>1, FS_EmptySet
  <1> QED BY <1>1, <1>2, <1>3

\* enet_peer_send is given a packet of the application's, which has no command.
LEMMA SendBegins ==
  ASSUME NEW m, NEW at, Good(m, at, None, None), NEW k \in Packets, m.holder[k] = "application"
  PROVE  Good(m, at, k, None) /\ m.count[k] = 0
  <1>1. None \notin Packets /\ m.holder[k] # "library"
    BY PacketsAssumption
  <1>2. ~\E c \in Commands : m.command[c].packet = k
    BY <1>1 DEF Good, Owned
  <1>3. Owned(m, k) /\ Incoming(m, k) /\ Fragmented(m, at, k)
    BY <1>1, <1>2 DEF Good, Owned, Incoming, Fragmented
  <1> QED BY <1>2, <1>3, CountOf DEF Good

\* Afterwards ENet owns it if it was queued at all.
LEMMA SendEnds ==
  ASSUME NEW m, NEW at, NEW k \in Packets, Good(m, at, k, None), Members(at, Fragments) = {},
         NEW holder \in Holders, holder = "library" <=> m.count[k] # 0
  PROVE  Good([m EXCEPT !.holder[k] = holder], at, None, None)
  <1> DEFINE new == [m EXCEPT !.holder[k] = holder]
  <1>1. m \in Memory /\ m.holder \in [Packets -> Holders] /\ None \notin Packets
    BY MemoryFields, PacketsAssumption DEF Good, Structure
  <1>2. [m.holder EXCEPT ![k] = holder] \in [Packets -> Holders]
    BY <1>1
  <1>3. /\ new \in Memory /\ new.heap = m.heap /\ new.command = m.command /\ new.count = m.count
        /\ new.holder = [m.holder EXCEPT ![k] = holder]
    BY <1>1, <1>2 DEF Memory
  <1> HIDE DEF new
  <1>4. Structure(new, at) /\ Placed(new, at)
    BY <1>3 DEF Good, Structure, Placed
  <1>5. Counted(new, at, None)
    <2>1. \A x \in Packets : Held(new, at, x, None) = Held(m, at, x, None)
      BY <1>3 DEF Held
    <2> QED BY <1>3, <2>1 DEF Good, Counted
  <1>6. Owned(new, None)
    <2>1. new.holder[k] = "library" <=> \E c \in Commands : m.command[c].packet = k
      BY <1>1, <1>3, CountOf
    <2>2. \A x \in Packets \ {k} : new.holder[x] = "library" <=> \E c \in Commands : m.command[c].packet = x
      BY <1>1, <1>3 DEF Good, Owned
    <2> QED BY <1>1, <1>3, <2>1, <2>2 DEF Owned
  <1>7. Incoming(new, None)
    BY <1>1, <1>3 DEF Good, Incoming
  <1>8. Fragmented(new, at, None)
    BY DEF Fragmented, Members
  <1> QED BY <1>4, <1>5, <1>6, <1>7, <1>8 DEF Good, new

\* Whether a command was sent before matters to no list and no count.
LEMMA AttemptedGood ==
  ASSUME NEW m, NEW at, Good(m, at, None, None), NEW c \in Commands, at[c] # None
  PROVE  /\ Good([m EXCEPT !.command[c].attempted = TRUE], at, None, None)
         /\ \A d \in Commands : [m EXCEPT !.command[c].attempted = TRUE].command[d].packet = m.command[d].packet
  <1> DEFINE record == [m.command[c] EXCEPT !.attempted = TRUE]
             command == [m.command EXCEPT ![c] = record]
             new == [m EXCEPT !.command = command]
  <1>0. [m EXCEPT !.command[c].attempted = TRUE] = new
    OBVIOUS
  <1>1. m \in Memory /\ m.command \in [Commands -> Records] /\ None \notin Packets
    BY MemoryFields, PacketsAssumption DEF Good, Structure
  <1>2. m.command[c] \in Records /\ m.command[c] # Free
    BY <1>1 DEF Good, Placed
  <1>3. /\ record \in Records /\ record.packet = m.command[c].packet /\ record.kind = m.command[c].kind
        /\ record.attempted = TRUE
    BY <1>2 DEF Records
  <1>4. record # Free
    BY <1>3 DEF Free
  <1> HIDE DEF record
  <1>5. /\ command \in [Commands -> Records] /\ command[c] = record
        /\ \A d \in Commands \ {c} : command[d] = m.command[d]
    BY <1>1, <1>3
  <1> HIDE DEF command
  <1>6. new \in Memory /\ new.heap = m.heap /\ new.command = command /\ new.count = m.count /\ new.holder = m.holder
    BY <1>1, <1>5 DEF Memory
  <1> HIDE DEF new
  <1>7. \A d \in Commands : /\ command[d].packet = m.command[d].packet /\ command[d].kind = m.command[d].kind
                            /\ command[d] = Free <=> m.command[d] = Free
    BY <1>2, <1>3, <1>4, <1>5
  <1>8. Structure(new, at)
    BY <1>6 DEF Good, Structure
  <1>9. Placed(new, at) /\ Fragmented(new, at, None)
    BY <1>6, <1>7 DEF Good, Placed, Fragmented
  <1>10. Counted(new, at, None)
    <2>1. \A x \in Packets : Held(new, at, x, None) = Held(m, at, x, None)
      BY <1>6, <1>7 DEF Held
    <2> QED BY <1>6, <2>1 DEF Good, Counted
  <1>11. Owned(new, None)
    BY <1>1, <1>6, <1>7 DEF Good, Owned
  <1>12. Incoming(new, None)
    BY <1>1, <1>6, <1>7 DEF Good, Incoming
  <1>13. Good(new, at, None, None)
    BY <1>8, <1>9, <1>10, <1>11, <1>12 DEF Good
  <1> QED BY <1>0, <1>6, <1>7, <1>13


\* A command without a packet is queued.
LEMMA ControlGood ==
  ASSUME NEW m, NEW at, Good(m, at, None, None), NEW c \in Commands, m.command[c] = Free,
         NEW kind \in Controls, NEW list \in Sentinels, list # Fragments,
         list \notin {"incoming", "dispatched"} \X Peers
  PROVE  Push(NewCommand(m, c, [Free EXCEPT !.kind = kind]), list, c) \in GoodMemories(None, None)
  <1> DEFINE record == [Free EXCEPT !.kind = kind]
             to == [at EXCEPT ![c] = list]
             new == Push(NewCommand(m, c, record), list, c)
             command == [m.command EXCEPT ![c] = record]
  <1>1. record \in Records /\ record.packet = None /\ record.kind = kind /\ record # Free /\ kind # "incoming"
    BY DEF Records, Controls, Free
  <1> HIDE DEF record
  <1>2. /\ Structure(m, at) /\ at \in [Commands -> Sentinels \cup {None}] /\ at[c] = None
        /\ None \notin Sentinels /\ None \notin Packets /\ m.command \in [Commands -> Records]
        /\ list \in Used(at) /\ Home(at, list) = list /\ Free.packet = None
    BY MemoryFields, FreeIsRecord, PacketsAssumption DEF Good, Structure, Places, Placed, Nodes, Used, Home
  <1>3. Structure(new, to) /\ Rest(new, command, m.count, m.holder)
    <2>1. /\ Structure(new, [at EXCEPT ![c] = Home(at, list)])
          /\ Rest(new, command, m.count, m.holder)
      BY <1>1, <1>2, NewIs
    <2> QED BY <1>2, <2>1
  <1>4. /\ to[c] = list /\ \A d \in Commands \ {c} : to[d] = at[d]
        /\ command[c] = record /\ \A d \in Commands \ {c} : command[d] = m.command[d]
    BY <1>2
  <1> HIDE DEF new, to, command
  <1>5. Placed(new, to)
    BY <1>1, <1>2, <1>3, <1>4 DEF Good, Placed, Rest
  <1>6. Counted(new, to, None)
    <2>1. ASSUME NEW x \in Packets PROVE Held(new, to, x, None) = Held(m, at, x, None)
      <3>1. c \notin Held(m, at, x, None) /\ c \notin Held(new, to, x, None)
        BY <1>1, <1>2, <1>3, <1>4 DEF Held, Rest
      <3> QED BY <1>3, <1>4, <3>1 DEF Held, Rest
    <2> QED BY <1>3, <2>1 DEF Good, Counted, Rest
  <1>7. Owned(new, None)
    <2>1. ASSUME NEW x \in Packets
          PROVE  (\E d \in Commands : command[d].packet = x) <=> \E d \in Commands : m.command[d].packet = x
      BY <1>1, <1>2, <1>4
    <2> QED BY <1>2, <1>3, <2>1 DEF Good, Owned, Rest
  <1>8. Incoming(new, None)
    BY <1>1, <1>2, <1>3, <1>4 DEF Good, Incoming, Rest
  <1>9. Fragmented(new, to, None)
    BY <1>2, <1>4 DEF Good, Fragmented
  <1>10. Good(new, to, None, None)
    BY <1>3, <1>5, <1>6, <1>7, <1>8, <1>9 DEF Good
  <1> QED BY <1>10, GoodMemory DEF new, record

\* A packet that was received comes with a command of its own.
LEMMA QueuedGood ==
  ASSUME NEW m, NEW at, Good(m, at, None, None), NEW c \in Commands, m.command[c] = Free,
         NEW k \in Packets, m.holder[k] = "nobody", NEW peer \in Peers,
         NEW position \in Used(at), Home(at, position) = Queue("incoming", peer)
  PROVE  Push(Received(m, k, c), position, c) \in GoodMemories(None, None)
  <1> DEFINE list == Queue("incoming", peer)
             record == [Free EXCEPT !.kind = "incoming", !.packet = k]
             count == [m.count EXCEPT ![k] = 1]
             holder == [m.holder EXCEPT ![k] = "library"]
             owned == [m EXCEPT !.count[k] = 1, !.holder[k] = "library"]
             to == [at EXCEPT ![c] = list]
             new == Push(NewCommand(owned, c, record), position, c)
             command == [m.command EXCEPT ![c] = record]
  <1>1. record \in Records /\ record.packet = k /\ record.kind = "incoming" /\ record # Free
    BY DEF Records, Controls, Free
  <1>2. list \in Sentinels /\ list # Fragments /\ list # None
    BY PacketsAssumption DEF Queue, Sentinels, Queues, Fragments, Nodes
  <1> HIDE DEF record, list
  <1>3. /\ m \in Memory /\ Structure(m, at) /\ at \in [Commands -> Sentinels \cup {None}] /\ at[c] = None
        /\ None \notin Packets /\ m.command \in [Commands -> Records]
        /\ m.count \in [Packets -> Int] /\ m.holder \in [Packets -> Holders] /\ Free.packet = None
    BY MemoryFields, FreeIsRecord, PacketsAssumption DEF Good, Structure, Places, Placed
  <1>4. /\ count \in [Packets -> Int] /\ holder \in [Packets -> Holders]
        /\ count[k] = 1 /\ holder[k] = "library"
        /\ \A x \in Packets \ {k} : count[x] = m.count[x] /\ holder[x] = m.holder[x]
    BY <1>3 DEF Holders
  <1>5. owned = [m EXCEPT !.count = count, !.holder = holder]
    OBVIOUS
  <1> HIDE DEF owned, count, holder
  <1>6. /\ owned \in Memory /\ owned.heap = m.heap /\ owned.command = m.command
        /\ owned.count = count /\ owned.holder = holder
    BY <1>3, <1>4, <1>5 DEF Memory
  <1>7. Structure(owned, at)
    BY <1>3, <1>6 DEF Structure
  <1>8. Structure(new, to) /\ Rest(new, command, count, holder)
    <2>1. /\ Structure(new, [at EXCEPT ![c] = Home(at, position)])
          /\ Rest(new, [owned.command EXCEPT ![c] = record], owned.count, owned.holder)
      BY <1>1, <1>3, <1>6, <1>7, NewIs
    <2> QED BY <1>6, <2>1 DEF Rest, list
  <1>9. /\ to[c] = list /\ \A d \in Commands \ {c} : to[d] = at[d]
        /\ command[c] = record /\ \A d \in Commands \ {c} : command[d] = m.command[d]
    BY <1>3
  <1> HIDE DEF new, to, command
  <1>10. \A d \in Commands : m.command[d].packet # k
    BY <1>3 DEF Good, Owned
  <1>11. Placed(new, to)
    BY <1>1, <1>2, <1>8, <1>9 DEF Good, Placed, Rest
  <1>12. Counted(new, to, None)
    <2> SUFFICES ASSUME NEW x \in Packets PROVE count[x] = Cardinality(Held(new, to, x, None))
      BY <1>8 DEF Counted, Rest
    <2>1. CASE x = k
      <3>1. Held(new, to, x, None) = {c}
        BY <1>1, <1>2, <1>8, <1>9, <1>10, <2>1 DEF Held, Rest
      <3> QED BY <1>4, <2>1, <3>1, FS_Singleton
    <2>2. CASE x # k
      <3>1. Held(new, to, x, None) = Held(m, at, x, None)
        BY <1>1, <1>3, <1>8, <1>9, <2>2 DEF Held, Rest
      <3> QED BY <1>4, <2>2, <3>1 DEF Good, Counted
    <2> QED BY <2>1, <2>2
  <1>13. Owned(new, None)
    <2> SUFFICES ASSUME NEW x \in Packets PROVE holder[x] = "library" <=> \E d \in Commands : command[d].packet = x
      BY <1>3, <1>8 DEF Owned, Rest
    <2>1. CASE x = k
      BY <1>1, <1>4, <1>9, <2>1
    <2>2. CASE x # k
      <3>1. (\E d \in Commands : command[d].packet = x) <=> \E d \in Commands : m.command[d].packet = x
        BY <1>1, <1>3, <1>9, <2>2
      <3> QED BY <1>3, <1>4, <2>2, <3>1 DEF Good, Owned
    <2> QED BY <2>1, <2>2
  <1>14. Incoming(new, None)
    BY <1>1, <1>3, <1>8, <1>9, <1>10 DEF Good, Incoming, Rest
  <1>15. Fragmented(new, to, None)
    BY <1>2, <1>3, <1>9 DEF Good, Fragmented
  <1>16. Good(new, to, None, None)
    BY <1>8, <1>11, <1>12, <1>13, <1>14, <1>15 DEF Good
  <1> QED BY <1>16, GoodMemory DEF Received, new, owned, record


-----------------------------------------------------------------------------
(* The steps.                                                              *)

IInv ==
  /\ sending \in Peers \cup {None}
  /\ buffers \subseteq Packets
  /\ sending = None => buffers = {}
  /\ memory \in PointedMemories(sending, buffers)

\* Between two datagrams no packet is pointed into.
LEMMA AtRest ==
  ASSUME IInv, Idle
  PROVE  memory \in GoodMemories(None, None) /\ \E at \in Places : Good(memory, at, None, None)
  BY DEF IInv, Idle, PointedMemories, GoodMemories

LEMMA StaysAtRest ==
  ASSUME IInv, Idle, memory' \in GoodMemories(None, None), UNCHANGED <<sending, buffers>>
  PROVE  IInv'
  <1>1. sending' = None /\ buffers' = {} /\ None \in Peers \cup {None}
    BY DEF IInv, Idle
  <1>2. PICK at \in Places : Good(memory', at, None, None)
    BY DEF GoodMemories
  <1>3. Pointed(memory', at, sending', buffers')
    BY <1>1 DEF Pointed
  <1>4. memory' \in PointedMemories(sending', buffers')
    BY <1>1, <1>2, <1>3, GoodMemory DEF PointedMemories
  <1> QED BY <1>1, <1>4 DEF IInv

\* While a datagram is assembled.
LEMMA StaysPointed ==
  ASSUME sending' \in Peers \cup {None}, buffers' \subseteq Packets, sending' # None,
         NEW at \in Places, Good(memory', at, None, None), Pointed(memory', at, sending', buffers')
  PROVE  IInv'
  BY GoodMemory DEF IInv, PointedMemories

LEMMA InitIs ==
  ASSUME Init
  PROVE  IInv
  <1> DEFINE heap == memory.heap
             at == [c \in Commands |-> None]
  <1>1. /\ None \notin Nodes /\ None \notin Packets /\ Commands \cap Sentinels = {}
        /\ Sentinels \subseteq Nodes
    BY PacketsAssumption DEF Nodes
  <1>2. at \in Places /\ Used(at) = Sentinels
    BY <1>1 DEF Places, Used
  <1>3. /\ heap.next = [n \in Nodes |-> IF n \in Sentinels THEN n ELSE None]
        /\ heap.previous = [n \in Nodes |-> IF n \in Sentinels THEN n ELSE None]
        /\ heap \in Heaps(Nodes, Nodes \cup {None})
    <2>1. ASSUME NEW n \in Sentinels PROVE EnetListClear(Unset, n).next[n] = n /\ EnetListClear(Unset, n).previous[n] = n
      BY <1>1 DEF EnetListClear, Unset
    <2>2. /\ heap.next = [n \in Nodes |-> IF n \in Sentinels THEN EnetListClear(Unset, n).next[n] ELSE None]
          /\ heap.previous = [n \in Nodes |-> IF n \in Sentinels THEN EnetListClear(Unset, n).previous[n] ELSE None]
          /\ heap = [next |-> heap.next, previous |-> heap.previous]
      BY DEF Init
    <2> HIDE DEF heap
    <2>3. /\ heap.next = [n \in Nodes |-> IF n \in Sentinels THEN n ELSE None]
          /\ heap.previous = [n \in Nodes |-> IF n \in Sentinels THEN n ELSE None]
      BY <2>1, <2>2
    <2>4. heap.next \in [Nodes -> Nodes \cup {None}] /\ heap.previous \in [Nodes -> Nodes \cup {None}]
      BY <2>3
    <2> QED BY <2>2, <2>3, <2>4 DEF Heaps
  <1>4. /\ memory.command = [c \in Commands |-> Free] /\ memory.count = [k \in Packets |-> 0]
        /\ memory.holder = [k \in Packets |-> "nobody"]
        /\ memory = [heap |-> heap, command |-> memory.command, count |-> memory.count, holder |-> memory.holder]
    BY DEF Init
  <1> HIDE DEF heap, at
  <1>5. memory \in Memory
    <2>1. memory.command \in [Commands -> Records]
      BY <1>4, FreeIsRecord
    <2>2. memory.count \in [Packets -> Int] /\ memory.holder \in [Packets -> Holders]
      BY <1>4 DEF Holders
    <2> QED BY <1>3, <1>4, <2>1, <2>2 DEF Memory
  <1>6. Lists(heap, at)
    <2>1. Linked(heap, Used(at))
      BY <1>1, <1>2, <1>3 DEF Linked
    <2>2. \A n \in Used(at) : Home(at, heap.next[n]) = Home(at, n)
      BY <1>1, <1>2, <1>3
    <2> QED BY <1>2, <1>3, <2>1, <2>2 DEF Lists
  <1>7. Structure(memory, at)
    BY <1>2, <1>5, <1>6 DEF Structure, heap
  <1>8. \A c \in Commands : at[c] = None /\ memory.command[c] = Free
    BY <1>4 DEF at
  <1>9. Counted(memory, at, None)
    <2>1. \A k \in Packets : Held(memory, at, k, None) = {}
      BY <1>8 DEF Held
    <2> QED BY <1>4, <2>1, FS_EmptySet DEF Counted
  <1>10. Placed(memory, at) /\ Owned(memory, None) /\ Incoming(memory, None) /\ Fragmented(memory, at, None)
    <2>1. None \notin {"incoming", "dispatched"} \X Peers /\ None # Fragments
      BY <1>1 DEF Sentinels, Queues
    <2> QED BY <1>1, <1>4, <1>8, <2>1, FreeIsRecord DEF Placed, Owned, Incoming, Fragmented
  <1>11. Good(memory, at, None, None)
    BY <1>7, <1>9, <1>10 DEF Good
  <1>12. Pointed(memory, at, sending, buffers)
    BY DEF Init, Pointed
  <1> QED BY <1>11, <1>12, GoodMemory DEF Init, IInv, PointedMemories


LEMMA CreateStep ==
  ASSUME IInv, EnetPacketCreate
  PROVE  IInv'
  <1>1. PICK at \in Places : Good(memory, at, None, None)
    BY AtRest DEF EnetPacketCreate
  <1>2. PICK k \in FreePackets(memory) : memory' = [memory EXCEPT !.holder[k] = "application"]
    BY DEF EnetPacketCreate
  <1>3. k \in Packets /\ memory.holder[k] = "nobody" /\ memory \in Memory /\ memory.holder \in [Packets -> Holders]
    BY <1>1, <1>2, MemoryFields DEF FreePackets, Good, Structure
  <1>4. [memory.holder EXCEPT ![k] = "application"] \in [Packets -> Holders]
    BY <1>3 DEF Holders
  <1>5. /\ memory' \in Memory /\ memory'.heap = memory.heap /\ memory'.command = memory.command
        /\ memory'.count = memory.count /\ memory'.holder = [memory.holder EXCEPT ![k] = "application"]
    BY <1>2, <1>3, <1>4 DEF Memory
  <1>6. Structure(memory', at)
    BY <1>1, <1>5 DEF Good, Structure
  <1>7. Good(memory', at, None, None)
    BY <1>1, <1>3, <1>5, <1>6, SameGood
  <1> QED BY <1>7, GoodMemory, StaysAtRest DEF EnetPacketCreate

LEMMA DestroyStep ==
  ASSUME IInv, ApplicationDestroys
  PROVE  IInv'
  <1>1. PICK at \in Places : Good(memory, at, None, None)
    BY AtRest DEF ApplicationDestroys
  <1>2. PICK k \in Packets : memory.holder[k] = "application" /\ memory' = EnetPacketDestroy(memory, k)
    BY DEF ApplicationDestroys
  <1>3. memory \in Memory /\ memory.holder \in [Packets -> Holders]
    BY <1>1, MemoryFields DEF Good, Structure
  <1>4. memory' = [memory EXCEPT !.holder[k] = "nobody"]
    BY <1>2 DEF EnetPacketDestroy
  <1>5. [memory.holder EXCEPT ![k] = "nobody"] \in [Packets -> Holders]
    BY <1>3 DEF Holders
  <1>6. /\ memory' \in Memory /\ memory'.heap = memory.heap /\ memory'.command = memory.command
        /\ memory'.count = memory.count /\ memory'.holder = [memory.holder EXCEPT ![k] = "nobody"]
    BY <1>3, <1>4, <1>5 DEF Memory
  <1>7. Structure(memory', at)
    BY <1>1, <1>6 DEF Good, Structure
  <1>8. Good(memory', at, None, None)
    BY <1>1, <1>2, <1>3, <1>6, <1>7, SameGood
  <1> QED BY <1>8, GoodMemory, StaysAtRest DEF ApplicationDestroys

LEMMA SendStep ==
  ASSUME IInv, NEW peer \in Peers, ApplicationSends(peer)
  PROVE  IInv'
  <1>1. PICK at \in Places : Good(memory, at, None, None)
    BY AtRest DEF ApplicationSends
  <1> DEFINE Choice(k, kind, pieces, wanted) ==
               LET got == Allocations(memory, wanted)
                   sent == EnetPeerSend(memory, peer, k, kind, pieces, got)
               IN  /\ memory.holder[k] = "application"
                   /\ wanted <= pieces
                   /\ memory' = IF got < pieces THEN sent ELSE [sent EXCEPT !.holder[k] = "library"]
  <1>0. PICK k \in Packets, kind \in Kinds :
          \E pieces \in PiecesOf(kind), wanted \in 0..MaxFragments : Choice(k, kind, pieces, wanted)
    BY DEF ApplicationSends
  <1>2. PICK pieces \in PiecesOf(kind), wanted \in 0..MaxFragments : Choice(k, kind, pieces, wanted)
    BY <1>0
  <1> DEFINE got == Allocations(memory, wanted)
             sent == EnetPeerSend(memory, peer, k, kind, pieces, got)
  <1>3. /\ memory.holder[k] = "application" /\ wanted <= pieces
        /\ memory' = IF got < pieces THEN sent ELSE [sent EXCEPT !.holder[k] = "library"]
    BY <1>2
  <1>4. pieces \in Nat /\ pieces # 0 /\ wanted \in Nat
    BY PacketsAssumption DEF PiecesOf
  <1>5. got \in Nat /\ got <= wanted /\ got <= Cardinality(FreeCommands(memory))
    BY <1>4, AllocationsIs
  <1> HIDE DEF got
  <1>6. got <= pieces
    BY <1>3, <1>4, <1>5
  <1>7. Good(memory, at, k, None) /\ memory.count[k] = 0 /\ Members(at, Fragments) = {}
    BY <1>1, <1>3, SendBegins, NoFragments
  <1>8. PICK to \in Places : /\ Good(sent, to, k, None) /\ Members(to, Fragments) = {}
                             /\ sent.count[k] = memory.count[k] + (IF got < pieces THEN 0 ELSE pieces)
    BY <1>4, <1>5, <1>6, <1>7, EnetPeerSendGood
  <1> HIDE DEF sent
  <1>9. CASE got < pieces
    <2>1. sent.count[k] = 0 /\ sent.holder[k] = "application" /\ sent \in Memory /\ "application" \in Holders
      BY <1>7, <1>8, <1>9 DEF Good, Owned, Structure, Holders
    <2>2. Good([sent EXCEPT !.holder[k] = "application"], to, None, None)
      BY <1>8, <2>1, SendEnds
    <2>3. [sent EXCEPT !.holder[k] = "application"] = sent
      BY <2>1 DEF Memory
    <2> QED BY <1>3, <1>9, <2>2, <2>3, GoodMemory, StaysAtRest DEF ApplicationSends
  <1>10. CASE ~(got < pieces)
    <2>1. sent.count[k] # 0 /\ "library" \in Holders
      BY <1>4, <1>7, <1>8, <1>10 DEF Holders
    <2>2. Good([sent EXCEPT !.holder[k] = "library"], to, None, None)
      BY <1>8, <2>1, SendEnds
    <2> QED BY <1>3, <1>10, <2>2, GoodMemory, StaysAtRest DEF ApplicationSends
  <1> QED BY <1>9, <1>10

LEMMA BroadcastStep ==
  ASSUME IInv, EnetHostBroadcast
  PROVE  IInv'
  <1>1. PICK at \in Places : Good(memory, at, None, None)
    BY AtRest DEF EnetHostBroadcast
  <1> DEFINE Choice(k, kind, pieces, connected, wanted) ==
               LET sent == Broadcast(memory, k, kind, pieces, connected, wanted)
               IN  /\ memory.holder[k] = "application"
                   /\ \A p \in connected : wanted[p] <= pieces
                   /\ memory' = IF sent.count[k] = 0 THEN EnetPacketDestroy(sent, k)
                                ELSE [sent EXCEPT !.holder[k] = "library"]
  <1>0. PICK k \in Packets, kind \in Kinds, connected \in SUBSET Peers :
          \E pieces \in PiecesOf(kind), wanted \in [connected -> 0..MaxFragments] :
            Choice(k, kind, pieces, connected, wanted)
    BY DEF EnetHostBroadcast
  <1>2. PICK pieces \in PiecesOf(kind), wanted \in [connected -> 0..MaxFragments] :
          Choice(k, kind, pieces, connected, wanted)
    BY <1>0
  <1> DEFINE sent == Broadcast(memory, k, kind, pieces, connected, wanted)
  <1>3. /\ memory.holder[k] = "application" /\ \A p \in connected : wanted[p] <= pieces
        /\ memory' = IF sent.count[k] = 0 THEN EnetPacketDestroy(sent, k)
                     ELSE [sent EXCEPT !.holder[k] = "library"]
    BY <1>2
  <1>4. pieces \in Nat /\ wanted \in [connected -> Nat]
    BY PacketsAssumption DEF PiecesOf
  <1>5. Good(memory, at, k, None) /\ Members(at, Fragments) = {}
    BY <1>1, <1>3, SendBegins, NoFragments
  <1>6. PICK to \in Places : Good(sent, to, k, None) /\ Members(to, Fragments) = {}
    BY <1>3, <1>4, <1>5, BroadcastGood
  <1> HIDE DEF sent
  <1>7. CASE sent.count[k] = 0
    <2>1. sent.holder[k] = "application" /\ "nobody" \in Holders
      BY <1>6 DEF Good, Owned, Holders
    <2>2. memory' = [sent EXCEPT !.holder[k] = "nobody"]
      BY <1>3, <1>7, <2>1 DEF EnetPacketDestroy
    <2>3. Good([sent EXCEPT !.holder[k] = "nobody"], to, None, None)
      BY <1>6, <1>7, <2>1, SendEnds
    <2> QED BY <2>2, <2>3, GoodMemory, StaysAtRest DEF EnetHostBroadcast
  <1>8. CASE sent.count[k] # 0
    <2>1. "library" \in Holders
      BY DEF Holders
    <2>2. Good([sent EXCEPT !.holder[k] = "library"], to, None, None)
      BY <1>6, <1>8, <2>1, SendEnds
    <2> QED BY <1>3, <1>8, <2>2, GoodMemory, StaysAtRest DEF EnetHostBroadcast
  <1> QED BY <1>7, <1>8


\* The command at the front of a list.
LEMMA FrontIs ==
  ASSUME NEW m, NEW at, Good(m, at, None, None), NEW list \in Sentinels, ~Empty(m, list), NEW c, c = FirstOf(m, list)
  PROVE  c \in Commands /\ at[c] = list /\ at[c] # None
  <1>1. at \in Places /\ Lists(m.heap, at)
    BY DEF Good, Structure
  <1> QED BY <1>1, FrontOfList, PacketsAssumption DEF Empty, FirstOf, Members, Nodes

LEMMA ReceiveStep ==
  ASSUME IInv, NEW peer \in Peers, EnetPeerReceive(peer)
  PROVE  IInv'
  <1>1. PICK at \in Places : Good(memory, at, None, None)
    BY AtRest DEF EnetPeerReceive
  <1> DEFINE list == Queue("dispatched", peer)
             c == FirstOf(memory, list)
             k == memory.command[c].packet
             to == [at EXCEPT ![c] = None]
             cut == FreeCommand(Unlink(memory, c), c)
             dropped == DropCommand(memory, c)
             command == [memory.command EXCEPT ![c] = Free]
             count == [memory.count EXCEPT ![k] = memory.count[k] - 1]
             holder == [memory.holder EXCEPT ![k] = "application"]
  <1>2. list \in Sentinels /\ list \in {"incoming", "dispatched"} \X Peers
    BY DEF Queue, Sentinels, Queues
  <1>3. c \in Commands /\ at[c] = list /\ at[c] # None
    <2> HIDE DEF list
    <2>1. ~Empty(memory, list)
      BY DEF EnetPeerReceive, list
    <2> QED BY <1>1, <1>2, <2>1, FrontIs
  <1>4. memory' = [cut EXCEPT !.count[k] = @ - 1, !.holder[k] = "application"]
    BY DEF EnetPeerReceive
  <1> HIDE DEF c, list
  <1>5. /\ k \in Packets /\ memory.command[c].kind = "incoming"
        /\ \A d \in Commands : memory.command[d].packet = k => d = c
    BY <1>1, <1>2, <1>3 DEF Good, Placed, Incoming
  <1>6. Good(dropped, to, None, None) /\ Rest(dropped, command, Fewer(memory, k), Owners(memory, k))
    BY <1>1, <1>3, DropGood
  <1>7. /\ memory \in Memory /\ memory.command \in [Commands -> Records] /\ memory.count \in [Packets -> Int]
        /\ memory.holder \in [Packets -> Holders] /\ None \notin Packets /\ Structure(memory, at)
    BY <1>1, MemoryFields, PacketsAssumption DEF Good, Structure
  <1>8. Structure(cut, to) /\ Rest(cut, command, memory.count, memory.holder)
    <2> DEFINE out == Unlink(memory, c)
    <2>1. Structure(out, to) /\ Rest(out, memory.command, memory.count, memory.holder)
      BY <1>3, <1>7, UnlinkIs
    <2>2. to[c] = None
      BY <1>3 DEF Places
    <2> HIDE DEF out, to
    <2>3. /\ Structure(FreeCommand(out, c), to)
          /\ Rest(FreeCommand(out, c), [out.command EXCEPT ![c] = Free], out.count, out.holder)
      BY <1>3, <2>1, <2>2, FreeIs
    <2> QED BY <2>1, <2>3 DEF Rest, out
  <1> HIDE DEF dropped, cut, k, to
  <1>9. command[c].packet = None /\ \A d \in Commands \ {c} : command[d] = memory.command[d]
    BY <1>3, <1>7, FreeIsRecord
  <1> HIDE DEF command
  <1>10. memory' = [cut EXCEPT !.count = count, !.holder = holder]
    BY <1>4, <1>8 DEF Rest
  <1>11. /\ count \in [Packets -> Int] /\ holder \in [Packets -> Holders] /\ holder[k] = "application"
         /\ \A x \in Packets \ {k} : holder[x] = memory.holder[x]
    BY <1>5, <1>7 DEF Holders
  <1>12. count = Fewer(memory, k)
    BY <1>5, <1>7 DEF Fewer
  <1> HIDE DEF count, holder
  <1>13. /\ memory' \in Memory /\ memory'.heap = cut.heap /\ memory'.command = command
         /\ memory'.count = count /\ memory'.holder = holder
    BY <1>8, <1>10, <1>11 DEF Rest, Structure, Memory
  <1>14. ASSUME NEW x \in Packets PROVE holder[x] = "library" <=> dropped.holder[x] = "library"
    <2>1. CASE x = k
      <3>1. dropped.holder[x] # "library"
        BY <1>5, <1>6, <1>7, <1>9, <2>1 DEF Good, Owned, Rest
      <3> QED BY <1>11, <2>1, <3>1
    <2>2. CASE x # k
      <3>1. Owners(memory, k)[x] = memory.holder[x]
        BY <1>7, <2>2 DEF Owners
      <3> QED BY <1>6, <1>11, <2>2, <3>1 DEF Rest
    <2> QED BY <2>1, <2>2
  <1>15. Structure(memory', to)
    BY <1>8, <1>13 DEF Structure
  <1>16. Good(memory', to, None, None)
    BY <1>6, <1>12, <1>13, <1>14, <1>15, SameGood DEF Rest
  <1> QED BY <1>16, GoodMemory, StaysAtRest DEF EnetPeerReceive


LEMMA ResetStep ==
  ASSUME IInv, NEW peer \in Peers, EnetPeerResetQueues(peer)
  PROVE  IInv'
  <1> DEFINE Dropped(m, queue) == DropAll(m, Queue(queue, peer))
             outgoing == Dropped(Dropped(Dropped(memory, "sent"), "outgoing"), "sendReliable")
  <1>1. \A queue \in Queues : Queue(queue, peer) \in Sentinels
    BY DEF Queue, Sentinels
  <1>2. ASSUME NEW m \in GoodMemories(None, None), NEW queue \in Queues
        PROVE  Dropped(m, queue) \in GoodMemories(None, None)
    BY <1>1, DropAllGood
  <1>3. memory' = Dropped(Dropped(outgoing, "dispatched"), "incoming")
    BY DEF EnetPeerResetQueues
  <1>4. memory \in GoodMemories(None, None)
    BY AtRest DEF EnetPeerResetQueues
  <1> HIDE DEF Dropped
  <1>5. outgoing \in GoodMemories(None, None)
    BY <1>2, <1>4 DEF Queues
  <1> HIDE DEF outgoing
  <1>6. memory' \in GoodMemories(None, None)
    BY <1>2, <1>3, <1>5 DEF Queues
  <1> QED BY <1>6, StaysAtRest DEF EnetPeerResetQueues

LEMMA ControlStep ==
  ASSUME IInv, NEW peer \in Peers, NEW kind \in Controls, QueueControl(peer, kind)
  PROVE  IInv'
  <1> DEFINE c == CHOOSE c \in FreeCommands(memory) : TRUE
             record == [Free EXCEPT !.kind = kind]
             list == Queue("outgoing", peer)
             created == NewCommand(memory, c, record)
  <1>1. PICK at \in Places : Good(memory, at, None, None)
    BY AtRest DEF QueueControl
  <1>2. c \in Commands /\ memory.command[c] = Free
    BY DEF QueueControl, FreeCommands
  <1>3. memory' = SetupOutgoing(created, peer, c)
    BY DEF QueueControl
  <1> HIDE DEF c
  <1>4. created.command[c].kind = kind /\ kind # "reliable"
    BY <1>1, <1>2, MemoryFields DEF NewCommand, Good, Structure, Memory, Controls, Free
  <1>5. memory' = Push(created, list, c)
    BY <1>3, <1>4 DEF SetupOutgoing
  <1>6. list \in Sentinels /\ list # Fragments /\ list \notin {"incoming", "dispatched"} \X Peers
    BY DEF Queue, Sentinels, Queues, Fragments
  <1> HIDE DEF list
  <1>7. memory' \in GoodMemories(None, None)
    BY <1>1, <1>2, <1>5, <1>6, ControlGood
  <1> QED BY <1>7, StaysAtRest DEF QueueControl

\* Before a datagram, and while it is assembled, what the buffers point into is in it.
LEMMA MayPoint ==
  ASSUME IInv, NEW peer \in Peers, MaySend(peer)
  PROVE  \E at \in Places : Good(memory, at, None, None) /\ Pointed(memory, at, peer, buffers)
  <1>1. PICK at \in Places : Good(memory, at, None, None) /\ Pointed(memory, at, sending, buffers)
    BY DEF IInv, PointedMemories
  <1>2. Pointed(memory, at, peer, buffers)
    <2>1. CASE sending = None
      BY <2>1 DEF IInv, Pointed
    <2>2. CASE sending = peer
      BY <1>1, <2>2
    <2> QED BY <2>1, <2>2 DEF MaySend
  <1> QED BY <1>1, <1>2

LEMMA TakeReliableStep ==
  ASSUME IInv, NEW peer \in Peers, NEW queue \in {"outgoing", "sendReliable"}, TakeReliable(peer, queue)
  PROVE  IInv'
  <1> DEFINE list == Queue(queue, peer)
             sent == Queue("sent", peer)
             c == FirstOf(memory, list)
             k == memory.command[c].packet
             put == Push(Unlink(memory, c), sent, c)
  <1>1. PICK at \in Places : Good(memory, at, None, None) /\ Pointed(memory, at, peer, buffers)
    BY MayPoint DEF TakeReliable
  <1>2. /\ list \in Sentinels /\ sent \in Sentinels /\ list \notin {SentUnreliable, sent} /\ sent # Fragments
        /\ sent \notin {"incoming", "dispatched"} \X Peers
    BY DEF Queue, Sentinels, Queues, Fragments, SentUnreliable
  <1>3. c \in Commands /\ at[c] = list /\ at[c] # None
    <2> HIDE DEF list
    <2>1. ~Empty(memory, list)
      BY DEF TakeReliable, list
    <2> QED BY <1>1, <1>2, <2>1, FrontIs
  <1>4. memory' = [put EXCEPT !.command[c].attempted = TRUE] /\ sending' = peer /\ PointInto(k)
    BY DEF TakeReliable
  <1> DEFINE to == [at EXCEPT ![c] = sent]
  <1> HIDE DEF c, list, sent
  <1>5. Good(put, to, None, None) /\ Rest(put, memory.command, memory.count, memory.holder)
    <2>1. sent \in Used(at) /\ Home(at, sent) = sent /\ sent # c
      BY <1>2, <1>3, PacketsAssumption DEF Used, Home
    <2> QED BY <1>1, <1>2, <1>3, <2>1, RelocateGood
  <1>6. to[c] = sent /\ \A d \in Commands \ {c} : to[d] = at[d]
    BY <1>3 DEF Places
  <1>7. to \in Places
    BY <1>5, GoodMemory
  <1> HIDE DEF put, to
  <1>8. /\ Good(memory', to, None, None)
        /\ \A d \in Commands : memory'.command[d].packet = memory.command[d].packet
    <2>1. to[c] # None
      BY <1>2, <1>6, PacketsAssumption DEF Nodes
    <2> QED BY <1>3, <1>4, <1>5, <2>1, AttemptedGood DEF Rest
  <1>9. buffers' \subseteq Packets /\ buffers' \subseteq buffers \cup {k} /\ (k = None => buffers' = buffers)
    <2>1. k \in Packets \cup {None}
      BY <1>1, <1>3, MemoryFields DEF Good, Structure
    <2> HIDE DEF k
    <2> QED BY <1>4, <2>1 DEF PointInto, IInv
  <1>10. Pointed(memory', to, peer, buffers')
    <2> SUFFICES ASSUME NEW x \in buffers'
                 PROVE  \E d \in Commands : memory'.command[d].packet = x /\ to[d] \in {SentUnreliable, sent}
      BY DEF Pointed, sent
    <2>1. CASE x \in buffers
      <3>1. PICK d \in Commands : memory.command[d].packet = x /\ at[d] \in {SentUnreliable, sent}
        BY <1>1, <2>1 DEF Pointed, sent
      <3> QED BY <1>2, <1>3, <1>6, <1>8, <3>1
    <2>2. CASE x = k
      BY <1>3, <1>6, <1>8, <2>2
    <2> QED BY <1>9, <2>1, <2>2
  <1> QED BY <1>4, <1>7, <1>8, <1>9, <1>10, StaysPointed, PacketsAssumption


LEMMA TakeUnreliableStep ==
  ASSUME IInv, NEW peer \in Peers, TakeUnreliable(peer)
  PROVE  IInv'
  <1> DEFINE list == Queue("outgoing", peer)
             c == FirstOf(memory, list)
             k == memory.command[c].packet
             put == Push(Unlink(memory, c), SentUnreliable, c)
  <1>1. PICK at \in Places : Good(memory, at, None, None) /\ Pointed(memory, at, peer, buffers)
    BY MayPoint DEF TakeUnreliable
  <1>2. /\ list \in Sentinels /\ list \notin {SentUnreliable, Queue("sent", peer)}
        /\ SentUnreliable \in Sentinels /\ SentUnreliable # Fragments
        /\ SentUnreliable \notin {"incoming", "dispatched"} \X Peers
    BY DEF Queue, Sentinels, Queues, Fragments, SentUnreliable
  <1>3. c \in Commands /\ at[c] = list /\ at[c] # None
    <2> HIDE DEF list
    <2>1. ~Empty(memory, list)
      BY DEF TakeUnreliable, list
    <2> QED BY <1>1, <1>2, <2>1, FrontIs
  <1>4. memory' = put /\ sending' = peer /\ PointInto(k)
    BY DEF TakeUnreliable
  <1> DEFINE to == [at EXCEPT ![c] = SentUnreliable]
  <1> HIDE DEF c, list
  <1>5. Good(put, to, None, None) /\ Rest(put, memory.command, memory.count, memory.holder)
    <2>1. SentUnreliable \in Used(at) /\ Home(at, SentUnreliable) = SentUnreliable /\ SentUnreliable # c
      BY <1>2, <1>3, PacketsAssumption DEF Used, Home
    <2> QED BY <1>1, <1>2, <1>3, <2>1, RelocateGood
  <1>6. to[c] = SentUnreliable /\ \A d \in Commands \ {c} : to[d] = at[d]
    BY <1>3 DEF Places
  <1>7. to \in Places
    BY <1>5, GoodMemory
  <1> HIDE DEF put, to
  <1>8. memory'.command = memory.command
    BY <1>4, <1>5 DEF Rest
  <1>9. buffers' \subseteq Packets /\ buffers' \subseteq buffers \cup {k}
    <2>1. k \in Packets \cup {None}
      BY <1>1, <1>3, MemoryFields DEF Good, Structure
    <2> HIDE DEF k
    <2> QED BY <1>4, <2>1 DEF PointInto, IInv
  <1>10. Pointed(memory', to, peer, buffers')
    <2> SUFFICES ASSUME NEW x \in buffers'
                 PROVE  \E d \in Commands : /\ memory'.command[d].packet = x
                                            /\ to[d] \in {SentUnreliable, Queue("sent", peer)}
      BY DEF Pointed
    <2>1. CASE x \in buffers
      <3>1. PICK d \in Commands : memory.command[d].packet = x /\ at[d] \in {SentUnreliable, Queue("sent", peer)}
        BY <1>1, <2>1 DEF Pointed
      <3> QED BY <1>2, <1>3, <1>6, <1>8, <3>1
    <2>2. CASE x = k
      BY <1>3, <1>6, <1>8, <2>2
    <2> QED BY <1>9, <2>1, <2>2
  <1> QED BY <1>4, <1>5, <1>7, <1>9, <1>10, StaysPointed, PacketsAssumption

LEMMA TakeNoticeStep ==
  ASSUME IInv, NEW peer \in Peers, TakeNotice(peer)
  PROVE  IInv'
  <1> DEFINE list == Queue("outgoing", peer)
             c == FirstOf(memory, list)
             dropped == DropCommand(memory, c)
  <1>1. PICK at \in Places : Good(memory, at, None, None) /\ Pointed(memory, at, peer, buffers)
    BY MayPoint DEF TakeNotice
  <1>2. list \in Sentinels /\ list \notin {SentUnreliable, Queue("sent", peer)}
    BY DEF Queue, Sentinels, Queues, SentUnreliable
  <1>3. c \in Commands /\ at[c] = list /\ at[c] # None
    <2> HIDE DEF list
    <2>1. ~Empty(memory, list)
      BY DEF TakeNotice, list
    <2> QED BY <1>1, <1>2, <2>1, FrontIs
  <1>4. memory' = FreeCommand(Unlink(memory, c), c) /\ sending' = peer /\ memory.command[c].kind = "notice"
        /\ buffers' = buffers
    BY DEF TakeNotice
  <1> DEFINE to == [at EXCEPT ![c] = None]
  <1> HIDE DEF c, list
  <1>5. memory.command[c].packet = None
    <2>1. memory.command[c] \in Records
      BY <1>1, <1>3, MemoryFields DEF Good, Structure
    <2> QED BY <1>4, <2>1 DEF Records, Controls
  <1>6. memory' = dropped
    BY <1>4, <1>5 DEF DropCommand, Release
  <1>7. Good(dropped, to, None, None) /\ dropped.command = [memory.command EXCEPT ![c] = Free]
    BY <1>1, <1>3, DropGood DEF Rest
  <1>8. to \in Places /\ \A d \in Commands \ {c} : to[d] = at[d] /\ dropped.command[d] = memory.command[d]
    <2>1. memory.command \in [Commands -> Records]
      BY <1>1, MemoryFields DEF Good, Structure
    <2>2. to \in Places
      BY <1>7, GoodMemory
    <2> HIDE DEF dropped
    <2> QED BY <1>3, <1>7, <2>1, <2>2 DEF Places
  <1> HIDE DEF dropped, to
  <1>9. Pointed(memory', to, peer, buffers')
    <2> SUFFICES ASSUME NEW x \in buffers
                 PROVE  \E d \in Commands : /\ memory'.command[d].packet = x
                                            /\ to[d] \in {SentUnreliable, Queue("sent", peer)}
      BY <1>4 DEF Pointed
    <2>1. PICK d \in Commands : memory.command[d].packet = x /\ at[d] \in {SentUnreliable, Queue("sent", peer)}
      BY <1>1 DEF Pointed
    <2> QED BY <1>2, <1>3, <1>6, <1>8, <2>1
  <1>10. buffers' \subseteq Packets
    BY <1>4 DEF IInv
  <1> QED BY <1>4, <1>6, <1>7, <1>8, <1>9, <1>10, StaysPointed, PacketsAssumption

LEMMA ThrottleStep ==
  ASSUME IInv, NEW peer \in Peers, ThrottleDrop(peer)
  PROVE  IInv'
  <1> DEFINE c == FirstOf(memory, Queue("outgoing", peer))
  <1>1. memory' = DropAlike(memory, Queue("outgoing", peer), c) /\ UNCHANGED <<sending, buffers>>
    BY DEF ThrottleDrop
  <1> HIDE DEF c
  <1>2. DropAlike(memory, Queue("outgoing", peer), c) \in PointedMemories(sending, buffers)
    BY ThrottleGood DEF IInv
  <1> QED BY <1>1, <1>2 DEF IInv

LEMMA SocketStep ==
  ASSUME IInv, SocketSend
  PROVE  IInv'
  <1>1. memory' = DropAll(memory, SentUnreliable) /\ sending' = None /\ buffers' = {}
    BY DEF SocketSend
  <1>2. memory \in GoodMemories(None, None)
    BY GoodMemory DEF IInv, PointedMemories
  <1>3. DropAll(memory, SentUnreliable) \in GoodMemories(None, None)
    BY <1>2, DropAllGood DEF Sentinels
  <1>4. PICK at \in Places : Good(memory', at, None, None)
    BY <1>1, <1>3 DEF GoodMemories
  <1>5. Pointed(memory', at, sending', buffers')
    BY <1>1 DEF Pointed
  <1> QED BY <1>1, <1>4, <1>5, GoodMemory DEF IInv, PointedMemories

LEMMA TimeoutStep ==
  ASSUME IInv, NEW peer \in Peers, Timeout(peer)
  PROVE  IInv'
  <1>1. PICK overdue \in SUBSET Commands : memory' = Requeue(memory, peer, overdue)
    BY DEF Timeout
  <1>2. memory \in GoodMemories(None, None)
    BY AtRest DEF Timeout
  <1>3. memory' \in GoodMemories(None, None)
    BY <1>1, <1>2, TimeoutGood
  <1> QED BY <1>3, StaysAtRest DEF Timeout

\* The commands of a list, however an action looks for them.
LEMMA ElementsOfList ==
  ASSUME NEW m, NEW at, Good(m, at, None, None), NEW list \in Sentinels
  PROVE  /\ ToSet(Elements(m, list)) = Members(at, list) /\ Len(Elements(m, list)) \in Nat
         /\ \A i \in 1..Len(Elements(m, list)) : Elements(m, list)[i] \in Members(at, list)
  <1>1. at \in Places /\ Lists(m.heap, at)
    BY DEF Good, Structure
  <1>2. PICK L, w : /\ InOrder(m.heap, at, list, w, L)
                    /\ ElementsOf(m.heap, list) = [i \in 1..L |-> w[i]]
                    /\ Len(ElementsOf(m.heap, list)) = L
                    /\ ToSet(ElementsOf(m.heap, list)) = Members(at, list)
    BY <1>1, ElementsIs
  <1> QED BY <1>2 DEF Elements, InOrder

LEMMA AcknowledgeStep ==
  ASSUME IInv, NEW peer \in Peers, Acknowledge(peer)
  PROVE  IInv'
  <1> DEFINE a == Elements(memory, Queue("sent", peer))
             b == Elements(memory, Queue("outgoing", peer))
             d == Elements(memory, Queue("sendReliable", peer))
  <1>1. PICK at \in Places : Good(memory, at, None, None)
    BY AtRest DEF Acknowledge
  <1>2. PICK c \in ToSet(a) \cup FoundInQueue(b) \cup FoundInQueue(d) : memory' = DropCommand(memory, c)
    BY DEF Acknowledge
  <1>3. \A queue \in Queues : Queue(queue, peer) \in Sentinels
    BY DEF Queue, Sentinels
  <1>4. ToSet(a) = Members(at, Queue("sent", peer))
    BY <1>1, <1>3, ElementsOfList DEF Queues
  <1>5. /\ FoundInQueue(b) \subseteq Members(at, Queue("outgoing", peer))
        /\ FoundInQueue(d) \subseteq Members(at, Queue("sendReliable", peer))
    <2>1. /\ \A i \in 1..Len(b) : b[i] \in Members(at, Queue("outgoing", peer))
          /\ \A i \in 1..Len(d) : d[i] \in Members(at, Queue("sendReliable", peer))
      BY <1>1, <1>3, ElementsOfList DEF Queues
    <2> HIDE DEF b, d
    <2>2. \A q : FoundInQueue(q) \subseteq {q[i] : i \in 1..Len(q)}
      BY DEF FoundInQueue
    <2> QED BY <2>1, <2>2
  <1> HIDE DEF a, b, d
  <1>6. c \in Commands /\ at[c] \in Sentinels
    BY <1>2, <1>3, <1>4, <1>5 DEF Members, Queues
  <1>7. Good(memory', [at EXCEPT ![c] = None], None, None)
    <2>1. at[c] # None
      BY <1>6, PacketsAssumption DEF Nodes
    <2> QED BY <1>1, <1>2, <1>6, <2>1, DropGood
  <1> QED BY <1>7, GoodMemory, StaysAtRest DEF Acknowledge

LEMMA DispatchStep ==
  ASSUME IInv, NEW peer \in Peers, DispatchIncoming(peer)
  PROVE  IInv'
  <1>1. PICK run \in Runs(Len(Elements(memory, Queue("incoming", peer)))) :
          memory' = Dispatched(memory, peer, run[1], run[2], run[3], None)
    BY DEF DispatchIncoming
  <1>2. memory \in GoodMemories(None, None)
    BY AtRest DEF DispatchIncoming
  <1>3. memory' \in GoodMemories(None, None)
    BY <1>1, <1>2, DispatchedGood
  <1> QED BY <1>3, StaysAtRest DEF DispatchIncoming

LEMMA QueueIncomingStep ==
  ASSUME IInv, NEW peer \in Peers, EnetPeerQueueIncomingCommand(peer)
  PROVE  IInv'
  <1> DEFINE k == CHOOSE k \in FreePackets(memory) : TRUE
             c == CHOOSE c \in FreeCommands(memory) : TRUE
             list == Queue("incoming", peer)
             created == Received(memory, k, c)
  <1>1. PICK at \in Places : Good(memory, at, None, None)
    BY AtRest DEF EnetPeerQueueIncomingCommand
  <1>2. k \in Packets /\ memory.holder[k] = "nobody" /\ c \in Commands /\ memory.command[c] = Free
    BY DEF EnetPeerQueueIncomingCommand, FreePackets, FreeCommands
  <1>3. PICK position \in ToSet(Elements(memory, list)) \cup {list} :
          \E run \in Runs(Len(Elements(Push(created, position, c), list))) :
            memory' = Dispatched(Push(created, position, c), peer, run[1], run[2], run[3], c)
    BY DEF EnetPeerQueueIncomingCommand
  <1>4. PICK run \in Runs(Len(Elements(Push(created, position, c), list))) :
          memory' = Dispatched(Push(created, position, c), peer, run[1], run[2], run[3], c)
    BY <1>3
  <1>5. position \in Used(at) /\ Home(at, position) = list
    <2>1. list \in Sentinels
      BY DEF Queue, Sentinels, Queues
    <2> HIDE DEF list
    <2>2. ToSet(Elements(memory, list)) = Members(at, list)
      BY <1>1, <2>1, ElementsOfList
    <2> QED BY <2>1, <2>2, PacketsAssumption DEF Members, Used, Home, Nodes
  <1> HIDE DEF k, c
  <1>6. Push(created, position, c) \in GoodMemories(None, None)
    BY <1>1, <1>2, <1>5, QueuedGood
  <1> HIDE DEF created
  <1>7. memory' \in GoodMemories(None, None)
    BY <1>4, <1>6, DispatchedGood
  <1> QED BY <1>7, StaysAtRest DEF EnetPeerQueueIncomingCommand

\* A step that changes nothing.
LEMMA StutterStep ==
  ASSUME IInv, UNCHANGED vars
  PROVE  IInv'
  BY DEF IInv, vars

\* The inductive invariant: some assignment of the commands to the lists agrees with
\* the links both ways, with referenceCount and with who owns each packet, and what the
\* buffers point into has a command that outlives them.  (The bookkeeping of
\* peer.c, protocol.c, packet.c and list.c together.)
THEOREM PacketsInvariant == Spec => []IInv
  <1>1. Init => IInv
    BY InitIs
  <1>2. IInv /\ [Next]_vars => IInv'
    <2> SUFFICES ASSUME IInv, [Next]_vars PROVE IInv'
      OBVIOUS
    <2>1. CASE EnetPacketCreate
      BY <2>1, CreateStep
    <2>2. CASE ApplicationDestroys
      BY <2>2, DestroyStep
    <2>3. CASE EnetHostBroadcast
      BY <2>3, BroadcastStep
    <2>4. CASE SocketSend
      BY <2>4, SocketStep
    <2>5. ASSUME NEW p \in Peers, ApplicationSends(p) PROVE IInv'
      BY <2>5, SendStep
    <2>6. ASSUME NEW p \in Peers, EnetPeerReceive(p) PROVE IInv'
      BY <2>6, ReceiveStep
    <2>7. ASSUME NEW p \in Peers, EnetPeerResetQueues(p) PROVE IInv'
      BY <2>7, ResetStep
    <2>8. ASSUME NEW p \in Peers, NEW kind \in Controls, QueueControl(p, kind) PROVE IInv'
      BY <2>8, ControlStep
    <2>9. ASSUME NEW p \in Peers, NEW queue \in {"outgoing", "sendReliable"}, TakeReliable(p, queue) PROVE IInv'
      BY <2>9, TakeReliableStep
    <2>10. ASSUME NEW p \in Peers, TakeUnreliable(p) PROVE IInv'
      BY <2>10, TakeUnreliableStep
    <2>11. ASSUME NEW p \in Peers, TakeNotice(p) PROVE IInv'
      BY <2>11, TakeNoticeStep
    <2>12. ASSUME NEW p \in Peers, ThrottleDrop(p) PROVE IInv'
      BY <2>12, ThrottleStep
    <2>13. ASSUME NEW p \in Peers, Timeout(p) PROVE IInv'
      BY <2>13, TimeoutStep
    <2>14. ASSUME NEW p \in Peers, Acknowledge(p) PROVE IInv'
      BY <2>14, AcknowledgeStep
    <2>15. ASSUME NEW p \in Peers, DispatchIncoming(p) PROVE IInv'
      BY <2>15, DispatchStep
    <2>16. ASSUME NEW p \in Peers, EnetPeerQueueIncomingCommand(p) PROVE IInv'
      BY <2>16, QueueIncomingStep
    <2>17. CASE UNCHANGED vars
      BY <2>17, StutterStep
    <2> QED BY <2>1, <2>2, <2>3, <2>4, <2>5, <2>6, <2>7, <2>8, <2>9, <2>10, <2>11, <2>12, <2>13, <2>14,
               <2>15, <2>16, <2>17 DEF Next
  <1> QED BY <1>1, <1>2, PTL DEF Spec

-----------------------------------------------------------------------------
(* What it says of the code.                                               *)

\* The assignment at one moment.
LEMMA Assigned ==
  ASSUME IInv
  PROVE  \E at \in Places : Good(memory, at, None, None) /\ Pointed(memory, at, sending, buffers)
  BY DEF IInv, PointedMemories

LEMMA IInvCounts ==
  ASSUME IInv
  PROVE  CountsHolders
  <1>1. PICK at \in Places : Good(memory, at, None, None)
    BY Assigned
  <1>2. ASSUME NEW k \in Packets
        PROVE  memory.count[k] = Cardinality({c \in Commands : memory.command[c].packet = k})
    <2>1. Held(memory, at, k, None) = {c \in Commands : memory.command[c].packet = k}
      BY <1>1, FreeIsRecord, PacketsAssumption DEF Good, Placed, Held
    <2> QED BY <1>1, <2>1 DEF Good, Counted
  <1> QED BY <1>2 DEF CountsHolders

LEMMA IInvTypes ==
  ASSUME IInv
  PROVE  TypeOK
  <1>1. PICK at \in Places : Good(memory, at, None, None)
    BY Assigned
  <1>2. memory \in Memory
    BY <1>1 DEF Good, Structure
  <1>3. /\ memory.heap.next \in [Nodes -> Nodes \cup {None}]
        /\ memory.heap.previous \in [Nodes -> Nodes \cup {None}]
    BY <1>2, MemoryFields DEF Heaps
  <1>4. ASSUME NEW c \in Commands
        PROVE  /\ memory.command[c].kind \in Kinds \cup Controls \cup {"free", "incoming"}
               /\ memory.command[c].packet \in Packets \cup {None}
    BY <1>2, MemoryFields DEF Records
  <1>5. ASSUME NEW k \in Packets
        PROVE  memory.count[k] \in 0..Cardinality(Commands)
    <2> DEFINE H == {c \in Commands : memory.command[c].packet = k}
    <2>1. memory.count[k] = Cardinality(H)
      BY IInvCounts DEF CountsHolders
    <2>2. Cardinality(H) \in Nat /\ Cardinality(Commands) \in Nat /\ Cardinality(H) <= Cardinality(Commands)
      BY NodesFinite, PacketsAssumption, FS_Subset, FS_CardinalityType
    <2> HIDE DEF H
    <2> QED BY <2>1, <2>2
  <1>6. memory.count \in [Packets -> 0..Cardinality(Commands)] /\ memory.holder \in [Packets -> Holders]
    BY <1>2, <1>5, MemoryFields
  <1> QED BY <1>3, <1>4, <1>6 DEF TypeOK, IInv

LEMMA IInvLinked ==
  ASSUME IInv
  PROVE  ListsLinked
  <1> DEFINE allocated == Commands \ FreeCommands(memory)
  <1>1. PICK at \in Places : Good(memory, at, None, None)
    BY Assigned
  <1>2. \A c \in Commands : c \in allocated <=> at[c] # None
    BY <1>1 DEF Good, Placed, FreeCommands
  <1> HIDE DEF allocated
  <1>3. allocated \subseteq Commands
    BY DEF allocated
  <1>4. Used(at) = Sentinels \cup allocated
    BY <1>2, <1>3 DEF Used
  <1>5. Linked(memory.heap, Sentinels \cup allocated)
    BY <1>1, <1>4 DEF Good, Structure, Lists
  <1>6. ASSUME NEW c \in allocated
        PROVE  Cardinality({s \in Sentinels : c \in ToSet(Elements(memory, s))}) = 1
    <2>1. c \in Commands /\ at[c] \in Sentinels
      BY <1>2, <1>3 DEF Places
    <2>2. ASSUME NEW s \in Sentinels
          PROVE  c \in ToSet(Elements(memory, s)) <=> s = at[c]
      <3>1. ToSet(Elements(memory, s)) = Members(at, s)
        BY <1>1, ElementsOfList
      <3> QED BY <2>1, <3>1 DEF Members
    <2>3. {s \in Sentinels : c \in ToSet(Elements(memory, s))} = {at[c]}
      BY <2>1, <2>2
    <2> QED BY <2>3, FS_Singleton
  <1> QED BY <1>5, <1>6 DEF ListsLinked, allocated

LEMMA IInvDangles ==
  ASSUME IInv
  PROVE  NothingDangles
  <1>1. PICK at \in Places : Good(memory, at, None, None) /\ Pointed(memory, at, sending, buffers)
    BY Assigned
  <1>2. memory \in Memory /\ None \notin Packets
    BY <1>1, PacketsAssumption DEF Good, Structure
  <1>3. \A c \in Commands : memory.command[c].packet \in Packets \cup {None}
    BY <1>2, MemoryFields
  <1>4. \A c \in Commands : memory.command[c].packet # None => memory.holder[memory.command[c].packet] = "library"
    BY <1>1, <1>2, <1>3 DEF Good, Owned
  <1>5. \A k \in buffers : \E c \in Commands : memory.command[c].packet = k
    BY <1>1 DEF Pointed
  <1> QED BY <1>4, <1>5 DEF NothingDangles

LEMMA IInvLeaks ==
  ASSUME IInv
  PROVE  NothingLeaks
  <1>1. PICK at \in Places : Good(memory, at, None, None)
    BY Assigned
  <1>2. memory \in Memory /\ None \notin Packets
    BY <1>1, PacketsAssumption DEF Good, Structure
  <1>3. ASSUME NEW k \in Packets
        PROVE  memory.holder[k] # "freedTwice" /\ (memory.holder[k] = "library" => memory.count[k] > 0)
    <2>1. memory.holder[k] \in Holders
      BY <1>2, MemoryFields
    <2>2. memory.count[k] \in Nat /\ (memory.count[k] # 0 <=> \E c \in Commands : memory.command[c].packet = k)
      BY <1>1, CountOf
    <2>3. memory.holder[k] = "library" => \E c \in Commands : memory.command[c].packet = k
      BY <1>1, <1>2 DEF Good, Owned
    <2> QED BY <2>1, <2>2, <2>3 DEF Holders
  <1> QED BY <1>3 DEF NothingLeaks

\* The fields of packets, commands and list nodes keep values of their kinds; above all
\* referenceCount never goes below 0.
THEOREM PacketsTyped == Spec => []TypeOK
  <1>1. IInv => TypeOK
    BY IInvTypes
  <1> QED BY <1>1, PacketsInvariant, PTL

\* Whatever is queued, moved between lists, dropped or freed, every allocated command
\* is in exactly one list, and the links of the lists agree both ways.
THEOREM ListsAlwaysLinked == Spec => []ListsLinked
  <1>1. IInv => ListsLinked
    BY IInvLinked
  <1> QED BY <1>1, PacketsInvariant, PTL

\* referenceCount is the number of commands with the packet, after every call.
THEOREM CountsAlwaysHold == Spec => []CountsHolders
  <1>1. IInv => CountsHolders
    BY IInvCounts
  <1> QED BY <1>1, PacketsInvariant, PTL

\* No command and no buffer of a datagram that enet_protocol_send_outgoing_commands
\* assembles points to a packet that was destroyed or handed to the application.
THEOREM NothingEverDangles == Spec => []NothingDangles
  <1>1. IInv => NothingDangles
    BY IInvDangles
  <1> QED BY <1>1, PacketsInvariant, PTL

\* enet_packet_destroy is called once for each packet ENet owns, by the last command
\* that lets go of it: none is freed twice and none is left without a command.
THEOREM NothingEverLeaks == Spec => []NothingLeaks
  <1>1. IInv => NothingLeaks
    BY IInvLeaks
  <1> QED BY <1>1, PacketsInvariant, PTL

=============================================================================
