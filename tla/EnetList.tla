------------------------------ MODULE EnetList ------------------------------
(***************************************************************************)
(* The doubly linked, circular lists of src/src/list.c.  A heap holds two  *)
(* fields of every node, next and previous; a list is its sentinel, and    *)
(* the operators write the two fields in the order the code writes them.   *)
(***************************************************************************)
EXTENDS Naturals, FiniteSets, Sequences

\* enet_list_clear: the sentinel is its own neighbour.
EnetListClear(heap, list) ==
  [next     |-> [heap.next EXCEPT ![list] = list],
   previous |-> [heap.previous EXCEPT ![list] = list]]

\* enet_list_insert: node goes in front of position.
EnetListInsert(heap, position, node) ==
  LET before == heap.previous[position]
  IN  [next     |-> [heap.next EXCEPT ![node] = position, ![before] = node],
       previous |-> [heap.previous EXCEPT ![node] = before, ![position] = node]]

\* enet_list_remove: the neighbours of position meet; position keeps its fields.
EnetListRemove(heap, position) ==
  [next     |-> [heap.next EXCEPT ![heap.previous[position]] = heap.next[position]],
   previous |-> [heap.previous EXCEPT ![heap.next[position]] = heap.previous[position]]]

\* As enet_list_move, without the link back from what followed the run.
EnetListMoveKeepsBack(heap, position, first, last) ==
  LET cutNext == [heap.next EXCEPT ![heap.previous[first]] = heap.next[last]]
      before == heap.previous[position]
  IN  [next     |-> [cutNext EXCEPT ![last] = position, ![before] = first],
       previous |-> [heap.previous EXCEPT ![first] = before, ![position] = last]]

\* enet_list_move: the run first .. last leaves its place and goes in front of
\* position.  The neighbour of position is read after the run was cut out.
EnetListMove(heap, position, first, last) ==
  LET cutNext == [heap.next EXCEPT ![heap.previous[first]] = heap.next[last]]
      cutPrevious == [heap.previous EXCEPT ![heap.next[last]] = heap.previous[first]]
      before == cutPrevious[position]
  IN  [next     |-> [cutNext EXCEPT ![last] = position, ![before] = first],
       previous |-> [cutPrevious EXCEPT ![first] = before, ![position] = last]]

-----------------------------------------------------------------------------
\* The nodes of a list from its front to its back, as the loops along next meet
\* them until they are back at the sentinel.
ElementsOf(heap, list) ==
  LET met[k \in 0..Cardinality(DOMAIN heap.next)] ==
        IF k = 0 THEN <<list>>
        ELSE LET sofar == met[k - 1]
                 following == heap.next[sofar[Len(sofar)]]
             IN  IF following = list \/ following \notin DOMAIN heap.next
                 THEN sofar ELSE Append(sofar, following)
  IN  Tail(met[Cardinality(DOMAIN heap.next)])

\* The nodes in some list, their neighbours told from the one side and the other:
\* every node of them is what its neighbours say it is.
Linked(heap, nodes) ==
  \A n \in nodes : /\ heap.next[n] \in nodes
                   /\ heap.previous[n] \in nodes
                   /\ heap.previous[heap.next[n]] = n
                   /\ heap.next[heap.previous[n]] = n
=============================================================================
