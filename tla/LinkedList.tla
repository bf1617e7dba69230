------------------------------ MODULE LinkedList -------------------------------
(***************************************************************************)
(* The looping list of src/linked_list.rs as operators: an array of        *)
(* KEY_COUNT nodes linked by index, with the indices of its first and last *)
(* node and the count of the indices handed out.  An operator returns the  *)
(* list its method leaves behind; where the method indexes out of the      *)
(* array a predicate named ...Panics says when.                            *)
(* A value is a record with a data_address, the key of the order; an       *)
(* address is a page and an offset.                                        *)
(***************************************************************************)
EXTENDS Naturals

CONSTANT KEY_COUNT    \* the N of LinkedList<_, N>

(* check_consts refuses a key count that collides with the index 0xFFFF.   *)
ASSUME ListConstants == KEY_COUNT \in 1 .. 65534

Indices == 0 .. KEY_COUNT - 1

(* 0xFFFF, the index of nothing; first and last are it when None.          *)
NoIndex == 65535

Node(previous, value, next) ==
  [previous |-> previous, value |-> value, next |-> next]

(* LinkedList::new: zeroed memory.                                         *)
NewList(zero) ==
  [data |-> [i \in Indices |-> Node(0, zero, 0)],
   first |-> NoIndex, last |-> NoIndex, len |-> 0]

(* get_value, get_value_mut and get_node panic.                            *)
Outside(ll, i) == i >= ll.len

(* l <= r of Address.                                                      *)
AtOrBefore(l, r) == l.page < r.page \/ (l.page = r.page /\ l.off <= r.off)

(* The first n + 1 nodes from the node start on, along the links.          *)
Walks(ll, start, n) ==
  {path \in [0 .. n -> Indices] :
     /\ path[0] = start
     /\ \A k \in 1 .. n : path[k] = ll.data[path[k - 1]].next}

(* add_value_index: the value becomes node i, behind the last node.        *)
AddAtIndex(ll, value, i) ==
  IF ll.last = NoIndex
    THEN [ll EXCEPT !.data[i] = Node(0, value, 0), !.first = i, !.last = i]
    ELSE LET next == ll.data[ll.last].next
             linked == [ll.data EXCEPT ![ll.last].next = i]
             stored == [linked EXCEPT ![i] = Node(ll.last, value, next)]
         IN  [ll EXCEPT !.data = [stored EXCEPT ![next].previous = i],
                        !.last = i]

(* The search loop of insert_sorted_index passes n nodes.                  *)
Passes(ll, value, path, n) ==
  \A k \in 0 .. n - 1 :
    /\ AtOrBefore(ll.data[path[k]].value.data_address, value.data_address)
    /\ k > 0 => path[k] # ll.first

(* It stops at node n: back at the first one, or at a greater value.       *)
StopsAt(ll, value, path, n) ==
  \/ n > 0 /\ path[n] = ll.first
  \/ ~AtOrBefore(ll.data[path[n]].value.data_address, value.data_address)

(* The index the search ends with: 0xFFFF unless the loop has moved.       *)
Found(ll, value) ==
  CHOOSE i \in Indices \cup {NoIndex} :
    \E n \in 0 .. KEY_COUNT : \E path \in Walks(ll, ll.first, n) :
      /\ Passes(ll, value, path, n)
      /\ StopsAt(ll, value, path, n)
      /\ i = IF n = 0 THEN NoIndex ELSE path[n]

(* The rest of insert_sorted_index.  The search shadows the parameter      *)
(* index, so the value is stored at the index that was found.              *)
LinkBefore(ll, value, i) ==
  LET pi == ll.data[i].previous
      next == ll.data[pi].next
      linked == [ll.data EXCEPT ![i].previous = i, ![pi].next = i]
  IN  [ll EXCEPT !.data = [linked EXCEPT ![i] = Node(pi, value, next)]]

InsertSortedIndex(ll, value, index) ==
  IF ll.first = NoIndex
    THEN AddAtIndex(ll, value, index)
    ELSE LET i == Found(ll, value)
         IN  IF i = ll.first
               THEN AddAtIndex(ll, value, i)
               ELSE LinkBefore(ll, value, i)

(* A value before the first: data[0xFFFF].                                 *)
InsertPanics(ll, value) == ll.first # NoIndex /\ Found(ll, value) = NoIndex

(* insert_sorted with room left; the new index is the old length.          *)
Grown(ll) == [ll EXCEPT !.len = @ + 1]

(* remove: the neighbours of node i are linked past it.                    *)
Unlinked(ll, i) ==
  LET ni == ll.data[i].next
      pi == ll.data[i].previous
  IN  [ll EXCEPT !.data[pi].next = ni, !.data[ni].previous = pi]

(* update_value of an index in the list: with one node nothing is done.    *)
UpdateValue(ll, i, value) ==
  IF ll.len <= 1 THEN ll ELSE InsertSortedIndex(Unlinked(ll, i), value, i)

UpdatePanics(ll, i, value) ==
  ll.len > 1 /\ InsertPanics(Unlinked(ll, i), value)
===============================================================================
