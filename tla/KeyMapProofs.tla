----------------------------- MODULE KeyMapProofs ------------------------------
(***************************************************************************)
(* Theorems of KeyMap, for every number of keys and pages and in both      *)
(* builds.  They rest on what the shadowed index of insert_sorted_index    *)
(* makes of the list: node 0 linked to itself.                             *)
(***************************************************************************)
EXTENDS KeyMap, TLAPS

Stores ==
  [record_address : RecordAddresses \cup {0}, data_address : Addresses,
   data_size : Sizes, key : Keys]

Zeroed ==
  [record_address : RecordAddresses \cup {0},
   data_address : {[page |-> 0, off |-> 0]}, data_size : {0}, key : Keys]

Lists ==
  [data : [Indices -> [previous : {0}, value : Stores \cup Zeroed, next : {0}]],
   first : {0, NoIndex}, last : {0, NoIndex}, len : 0 .. KEY_COUNT]

(* A list is empty or a ring of node 0 alone, which holds an entry.        *)
Ring(l) ==
  /\ l \in Lists
  /\ l.last = l.first
  /\ l.first = 0 => Value(l, 0) \in Stores

(* Every index in the tables has been handed out.                          *)
Listed(pt, n) ==
  /\ DOMAIN pt \subseteq Pages
  /\ \A p \in DOMAIN pt : pt[p] \in Indices /\ pt[p] < n

ListInv == Ring(ll) /\ (ll.first = NoIndex <=> ll.len = 0)

TableInv ==
  /\ key_table \in [Keys -> Indices \cup {NoIndex}]
  /\ \A k \in Keys : key_table[k] # NoIndex => key_table[k] < ll.len
  /\ KeysApart

PageInv == Listed(page_table, ll.len) /\ HeldPageListed

CursorInv ==
  \/ cursor = Idle
  \/ /\ cursor \in [page : Pages, start : Indices, current : Indices \cup {NoIndex}]
     /\ cursor.current # NoIndex => cursor.current < ll.len

StatusInv ==
  /\ phase \in {"loading", "ready", "refused"}
  /\ fault \in {"none", "bounds", "unwrap", "underflow", "spins"}

IInv == ListInv /\ TableInv /\ PageInv /\ CursorInv /\ StatusInv

-------------------------------------------------------------------------------
(* The list.                                                               *)

LEMMA ZeroIndex == 0 \in Indices /\ NoIndex \notin Indices /\ NoIndex # 0
BY ListConstants DEF Indices, NoIndex

(* The search goes once around the single node, or not at all.             *)
LEMMA FoundInRing ==
  ASSUME NEW l, Ring(l), l.first = 0, NEW value
  PROVE  Found(l, value) =
           IF AtOrBefore(Value(l, 0).data_address, value.data_address)
             THEN 0 ELSE NoIndex
<1> DEFINE before == AtOrBefore(l.data[0].value.data_address, value.data_address)
           Ends(i, n, path) ==
             /\ Passes(l, value, path, n)
             /\ StopsAt(l, value, path, n)
             /\ i = IF n = 0 THEN NoIndex ELSE path[n]
           answer == IF before THEN 0 ELSE NoIndex
<1>1. l.data[0].next = 0
  BY ZeroIndex DEF Ring, Lists
<1>2. \E n \in 0 .. KEY_COUNT : \E path \in Walks(l, l.first, n) :
        Ends(answer, n, path)
  <2>1. CASE before
    <3> DEFINE path == [k \in 0 .. 1 |-> 0]
    <3>1. path \in [0 .. 1 -> Indices] /\ path[0] = l.first
      BY ZeroIndex
    <3>2. ASSUME NEW k \in 1 .. 1 PROVE path[k] = l.data[path[k - 1]].next
      <4>1. k = 1 /\ k - 1 = 0 /\ path[1] = 0 /\ path[0] = 0
        OBVIOUS
      <4> QED BY <1>1, <4>1
    <3>3. 1 \in 0 .. KEY_COUNT /\ path \in Walks(l, l.first, 1)
      <4>1. 1 \in 0 .. KEY_COUNT
        BY ListConstants
      <4> HIDE DEF path
      <4> QED BY <4>1, <3>1, <3>2 DEF Walks
    <3>4. Ends(answer, 1, path)
      BY <2>1 DEF Passes, StopsAt
    <3> QED BY <3>3, <3>4
  <2>2. CASE ~before
    <3> DEFINE path == [k \in 0 .. 0 |-> 0]
    <3>1. 0 \in 0 .. KEY_COUNT /\ path \in Walks(l, l.first, 0)
      <4>1. 0 \in 0 .. KEY_COUNT
        BY ListConstants
      <4>2. path \in [0 .. 0 -> Indices] /\ path[0] = l.first
        BY ZeroIndex
      <4>3. \A k \in 1 .. 0 : FALSE
        OBVIOUS
      <4> HIDE DEF path
      <4> QED BY <4>1, <4>2, <4>3 DEF Walks
    <3>2. Ends(answer, 0, path)
      BY <2>2 DEF Passes, StopsAt
    <3> QED BY <3>1, <3>2
  <2> QED BY <2>1, <2>2
<1>3. ASSUME NEW i, NEW n \in 0 .. KEY_COUNT, NEW path \in Walks(l, l.first, n),
             Ends(i, n, path)
      PROVE  i = answer
  <2>1. /\ path[0] = 0
        /\ \A k \in 1 .. n : path[k] = l.data[path[k - 1]].next
    BY DEF Walks
  <2>2. ASSUME n > 0 PROVE path[1] = 0
    <3>1. 1 \in 1 .. n /\ 1 - 1 = 0
      BY <2>2, ListConstants
    <3>2. path[1] = l.data[path[1 - 1]].next
      BY <2>1, <3>1
    <3> QED BY <1>1, <2>1, <3>1, <3>2
  <2>3. ASSUME n > 0 PROVE before
    <3>1. 0 \in 0 .. n - 1
      BY <2>3, ListConstants
    <3> QED BY <1>3, <2>1, <3>1 DEF Passes
  <2>4. ASSUME n > 1 PROVE FALSE
    <3>1. 1 \in 0 .. n - 1 /\ 1 > 0 /\ n > 0
      BY <2>4, ListConstants
    <3> QED BY <1>3, <2>2, <3>1 DEF Passes
  <2>5. n = 0 \/ n = 1
    BY <2>4, ListConstants
  <2> QED BY <1>3, <2>1, <2>2, <2>3, <2>5 DEF StopsAt
<1>4. answer \in Indices \cup {NoIndex}
  BY ZeroIndex
<1>5. Found(l, value) = answer
  BY <1>2, <1>3, <1>4 DEF Found
<1> QED BY <1>5 DEF Value

(* insert_sorted_index leaves the ring of node 0 with the new entry in it. *)
LEMMA InsertInRing ==
  ASSUME NEW l, Ring(l), NEW value \in Stores, NEW i,
         l.first = NoIndex => i = 0,
         ~InsertPanics(l, value)
  PROVE  LET r == InsertSortedIndex(l, value, i)
         IN  /\ Ring(r) /\ r.first = 0 /\ r.len = l.len
             /\ Value(r, 0) = value
<1> DEFINE r == InsertSortedIndex(l, value, i)
<1>1. Node(0, value, 0) \in [previous : {0}, value : Stores \cup Zeroed, next : {0}]
  BY DEF Node
<1>2. CASE l.first = NoIndex
  <2>1. r = [l EXCEPT !.data[0] = Node(0, value, 0), !.first = 0, !.last = 0]
    BY <1>2 DEF Ring, InsertSortedIndex, AddAtIndex
  <2> DEFINE nodes == [l.data EXCEPT ![0] = Node(0, value, 0)]
  <2>2. /\ nodes \in [Indices -> [previous : {0}, value : Stores \cup Zeroed,
                                  next : {0}]]
        /\ nodes[0].value = value
    BY <1>1, ZeroIndex DEF Ring, Lists, Node
  <2>3. r = [l EXCEPT !.data = nodes, !.first = 0, !.last = 0]
    BY <2>1
  <2> HIDE DEF nodes
  <2> QED BY <1>2, <2>2, <2>3, ZeroIndex DEF Ring, Lists, Value
<1>3. CASE l.first = 0
  <2>1. Found(l, value) = 0
        /\ AtOrBefore(Value(l, 0).data_address, value.data_address)
    BY <1>3, FoundInRing, ZeroIndex DEF InsertPanics
  <2>2. r = AddAtIndex(l, value, 0)
    BY <1>3, <2>1, ZeroIndex DEF InsertSortedIndex
  <2>3. l.last = 0 /\ l.data[0].next = 0 /\ l.data[0].previous = 0
    BY <1>3, ZeroIndex DEF Ring, Lists
  <2> DEFINE linked == [l.data EXCEPT ![0].next = 0]
             stored == [linked EXCEPT ![0] = Node(0, value, 0)]
             again == [stored EXCEPT ![0].previous = 0]
  <2>4. r = [l EXCEPT !.data = again, !.last = 0]
    BY <2>2, <2>3, ZeroIndex DEF AddAtIndex
  <2>5. /\ again \in [Indices -> [previous : {0}, value : Stores \cup Zeroed,
                                  next : {0}]]
        /\ again[0].value = value
    <3>1. linked \in [Indices -> [previous : {0}, value : Stores \cup Zeroed, next : {0}]]
      BY ZeroIndex DEF Ring, Lists
    <3>2. /\ stored \in [Indices -> [previous : {0}, value : Stores \cup Zeroed, next : {0}]]
          /\ stored[0] = Node(0, value, 0)
      BY <1>1, <3>1, ZeroIndex
    <3> HIDE DEF stored
    <3> QED BY <3>2, ZeroIndex DEF Node
  <2> HIDE DEF again
  <2> QED BY <1>3, <2>1, <2>4, <2>5, ZeroIndex DEF Ring, Lists, Value
<1> QED BY <1>2, <1>3 DEF Ring, Lists

(* remove has no neighbours to link.                                       *)
LEMMA UnlinkInRing ==
  ASSUME NEW l, Ring(l), NEW i \in Indices
  PROVE  /\ Ring(Unlinked(l, i)) /\ Unlinked(l, i).first = l.first
         /\ Unlinked(l, i).len = l.len
         /\ Value(Unlinked(l, i), 0) = Value(l, 0)
<1> DEFINE one == [l.data EXCEPT ![0].next = 0]
           two == [one EXCEPT ![0].previous = 0]
           Nodes == [Indices -> [previous : {0}, value : Stores \cup Zeroed,
                                 next : {0}]]
<1>1. l.data \in Nodes /\ l.data[i].next = 0 /\ l.data[i].previous = 0
  BY DEF Ring, Lists
<1>2. one \in Nodes /\ one[0].value = l.data[0].value
  BY <1>1, ZeroIndex
<1>3. two \in Nodes /\ two[0].value = l.data[0].value
  <2> HIDE DEF one
  <2> QED BY <1>2, ZeroIndex
<1>4. Unlinked(l, i) = [l EXCEPT !.data = two]
  BY <1>1 DEF Unlinked, Ring, Lists
<1> HIDE DEF two
<1> QED BY <1>3, <1>4, ZeroIndex DEF Ring, Lists, Value
-------------------------------------------------------------------------------
(* The page table.                                                         *)

LEMMA WithListed ==
  ASSUME NEW pt, NEW n, Listed(pt, n), NEW page \in Pages,
         NEW i \in Indices, i < n
  PROVE  /\ Listed(With(pt, page, i), n)
         /\ page \in DOMAIN With(pt, page, i)
         /\ DOMAIN pt \subseteq DOMAIN With(pt, page, i)
BY DEF Listed, With

(* page_table_new lists the page of the entry, and loses none.             *)
LEMMA NewListed ==
  ASSUME NEW pt, NEW n, Listed(pt, n), NEW address \in Addresses, NEW size,
         Fits(address, size), NEW i \in Indices, i < n
  PROVE  LET new == PageTableNew(pt, address, size, i)
         IN  /\ Listed(new, n)
             /\ address.page \in DOMAIN new
             /\ DOMAIN pt \subseteq DOMAIN new
<1>1. address.page \in Pages /\ PageOf(address, size - 1) \in Pages
  BY DEF Addresses, Fits
<1>2. /\ Listed(With(pt, address.page, i), n)
      /\ address.page \in DOMAIN With(pt, address.page, i)
      /\ DOMAIN pt \subseteq DOMAIN With(pt, address.page, i)
  BY <1>1, WithListed
<1> QED BY <1>1, <1>2, WithListed DEF PageTableNew

(* page_table_old keeps the page of the entry that follows.                *)
LEMMA OldListed ==
  ASSUME NEW pt, NEW n \in Nat, Listed(pt, n), 0 < n, NEW l, NEW page, NEW i
  PROVE  LET left == PageTableOld(pt, l, page, i, 0)
         IN  /\ Listed(left, n)
             /\ Value(l, 0).data_address.page \in DOMAIN pt =>
                  Value(l, 0).data_address.page \in DOMAIN left
BY ZeroIndex DEF Listed, PageTableOld, Without

-------------------------------------------------------------------------------
(* The operations.                                                         *)

MapInv == ListInv /\ TableInv /\ PageInv

(* What an operation of a store in use leaves behind.                      *)
Kept ==
  /\ MapInv'
  /\ ll'.len >= ll.len
  /\ fault' \in {fault, "bounds", "unwrap", "underflow"}
  /\ ll.first = 0 => ll'.first = 0

LEMMA LengthTyped == ListInv => ll.len \in 0 .. KEY_COUNT /\ ll.len \in Nat
<1>1. ListInv => ll.len \in 0 .. KEY_COUNT
  BY DEF ListInv, Ring, Lists
<1>2. \A n \in 0 .. KEY_COUNT : n \in Nat
  BY ListConstants
<1> QED BY <1>1, <1>2

LEMMA FailKeeps ==
  ASSUME MapInv, phase' = phase, UNCHANGED <<ll, key_table, page_table>>,
         fault' \in {fault, "bounds", "unwrap", "underflow"}
  PROVE  Kept
<1>1. ListInv' /\ TableInv' /\ PageInv'
  <2>1. ListInv'
    BY DEF MapInv, ListInv
  <2>2. TableInv'
    BY DEF MapInv, TableInv, KeysApart
  <2>3. PageInv'
    BY DEF MapInv, PageInv, HeldPageListed, Value
  <2> QED BY <2>1, <2>2, <2>3
<1>2. ll.len >= ll.len
  <2>1. ll.len \in Nat
    BY LengthTyped DEF MapInv
  <2> QED BY <2>1
<1>3. ll' = ll
  OBVIOUS
<1> QED BY <1>1, <1>2, <1>3 DEF Kept, MapInv

LEMMA GrownInRing ==
  ASSUME ListInv, ll.len < KEY_COUNT
  PROVE  /\ Ring(Grown(ll)) /\ Grown(ll).first = ll.first
         /\ Grown(ll).len = ll.len + 1 /\ Value(Grown(ll), 0) = Value(ll, 0)
<1>1. ll \in Lists /\ ll.len \in 0 .. KEY_COUNT
  BY DEF ListInv, Ring, Lists
<1>2. ll.len + 1 \in 0 .. KEY_COUNT
  BY <1>1, ListConstants
<1> DEFINE n == ll.len + 1
<1>3. Grown(ll) = [ll EXCEPT !.len = n]
  BY DEF Grown
<1> HIDE DEF n
<1>4. [ll EXCEPT !.len = n] \in Lists
  BY <1>1, <1>2 DEF Lists, n
<1>5. /\ Grown(ll).data = ll.data /\ Grown(ll).first = ll.first
      /\ Grown(ll).last = ll.last /\ Grown(ll).len = n
  BY <1>1, <1>3 DEF Lists
<1> QED BY <1>3, <1>4, <1>5 DEF ListInv, Ring, Value, n

(* add_value_inner, with a page table that lists the page of the value     *)
(* once the map is in use.                                                 *)
LEMMA AddKeeps ==
  ASSUME MapInv, phase' = phase, NEW value \in Stores, NEW pt,
         key_table[value.key] = NoIndex,
         AddValue(value, pt),
         ll.len < KEY_COUNT =>
           /\ Listed(pt, ll.len + 1)
           /\ phase = "ready" => value.data_address.page \in DOMAIN pt
  PROVE  Kept
<1>1. CASE Full \/ InsertPanics(Grown(ll), value)
  BY <1>1, FailKeeps DEF AddValue, Fail
<1>2. CASE ~Full /\ ~InsertPanics(Grown(ll), value)
  <2>1. /\ ll' = InsertSortedIndex(Grown(ll), value, ll.len)
        /\ key_table' = [key_table EXCEPT ![value.key] = ll.len]
        /\ page_table' = pt /\ fault' = fault
    BY <1>2 DEF AddValue, Stored
  <2>2. ll.len \in Nat /\ ll.len < KEY_COUNT /\ ll.len \in Indices
    <3>1. ll.len \in Nat /\ ~(ll.len >= KEY_COUNT)
      BY <1>2, LengthTyped DEF Full, MapInv
    <3> QED BY <3>1, ListConstants DEF Indices
  <2>3. Grown(ll).first = NoIndex => ll.len = 0
    BY <2>2, GrownInRing DEF MapInv, ListInv
  <2>4. /\ Ring(ll') /\ ll'.first = 0 /\ ll'.len = ll.len + 1
        /\ Value(ll', 0) = value
    BY <1>2, <2>1, <2>2, <2>3, GrownInRing, InsertInRing DEF MapInv
  <2>5. ListInv'
    BY <2>2, <2>4, ZeroIndex DEF ListInv
  <2>6. TableInv'
    <3>1. value.key \in Keys /\ ll.len # NoIndex
      BY <2>2, ZeroIndex DEF Stores
    <3>2. \A k \in Keys : key_table'[k] # NoIndex =>
            \/ k = value.key /\ key_table'[k] = ll.len
            \/ k # value.key /\ key_table'[k] = key_table[k] /\ key_table[k] < ll.len
      BY <2>1, <3>1 DEF MapInv, TableInv
    <3>3. key_table' \in [Keys -> Indices \cup {NoIndex}]
      BY <2>1, <2>2, <3>1 DEF MapInv, TableInv
    <3>4. ASSUME NEW k \in Keys, key_table'[k] # NoIndex
          PROVE  key_table'[k] < ll'.len
      <4>0. key_table'[k] \in Indices
        BY <3>3, <3>4
      <4>1. key_table'[k] \in Nat
        BY <4>0, ListConstants DEF Indices
      <4>2. key_table'[k] = ll.len \/ key_table'[k] < ll.len
        BY <3>2, <3>4
      <4> QED BY <2>2, <2>4, <4>1, <4>2
    <3>5. KeysApart'
      <4> SUFFICES ASSUME NEW j \in Keys, NEW k \in Keys, j # k,
                          key_table'[j] # NoIndex, key_table'[j] = key_table'[k]
                   PROVE  FALSE
        BY DEF KeysApart
      <4>1. key_table'[j] = ll.len => key_table'[k] # ll.len
        <5> SUFFICES ASSUME key_table'[j] = ll.len PROVE key_table'[k] # ll.len
          OBVIOUS
        <5>1. CASE j = value.key
          <6>1. key_table'[k] < ll.len
            BY <3>1, <3>2, <5>1
          <6> QED BY <2>2, <6>1
        <5>2. CASE j # value.key
          <6>1. key_table'[j] < ll.len
            BY <3>2, <5>2
          <6> QED BY <2>2, <6>1
        <5> QED BY <5>1, <5>2
      <4>2. j # value.key /\ k # value.key
        BY <3>2, <4>1
      <4>3. key_table[j] = key_table[k] /\ key_table[j] # NoIndex
        BY <3>2, <4>2
      <4> QED BY <4>3 DEF MapInv, TableInv, KeysApart
    <3> QED BY <3>3, <3>4, <3>5 DEF TableInv
  <2>7. PageInv'
    BY <2>1, <2>2, <2>4 DEF PageInv, HeldPageListed
  <2> QED BY <2>1, <2>2, <2>4, <2>5, <2>6, <2>7 DEF Kept, MapInv
<1> QED BY <1>1, <1>2
(* update_record and update_value: with one index handed out the value is  *)
(* not stored and the front keeps its page; otherwise the new value is the *)
(* front.                                                                  *)
LEMMA UpdateKeeps ==
  ASSUME MapInv, phase' = phase, phase = "ready", NEW value \in Stores,
         Fits(value.data_address, value.data_size),
         UpdateRecord(value)
  PROVE  Kept
<1> DEFINE i == key_table[value.key]
           tv == Value(ll, i)
           updated == UpdateValue(ll, i, value)
           left == PageTableOld(page_table, updated, tv.data_address.page, i, 0)
           twice == PageTableOld(left, updated, EndPage(tv), i, 0)
           new == PageTableNew(twice, value.data_address, value.data_size, i)
<1>1. CASE i = NoIndex
  BY <1>1, FailKeeps DEF UpdateRecord
<1>2. CASE i # NoIndex
  <2>1. i \in Indices /\ i < ll.len /\ ll.len \in Nat
    <3>1. value.key \in Keys
      BY DEF Stores
    <3>2. i \in Indices /\ i < ll.len
      BY <1>2, <3>1 DEF MapInv, TableInv
    <3>3. ll.len \in 0 .. KEY_COUNT
      BY DEF MapInv, ListInv, Ring, Lists
    <3> QED BY <3>2, <3>3, ListConstants
  <2>2. 0 < ll.len /\ i \in Nat
    BY <2>1, ListConstants DEF Indices
  <2>3. ll.first = 0 /\ Ring(ll) /\ ll.data[i].next = 0
    BY <2>1, <2>2 DEF MapInv, ListInv, Ring, Lists
  <2>4. ~Outside(ll, i) /\ ~Outside(ll, 0)
    BY <2>1, <2>2 DEF Outside
  <2>5. CASE UNCHANGED <<ll, key_table, page_table>>
             /\ fault' \in {"underflow", "bounds", "unwrap"}
    BY <2>5, FailKeeps
  <2>6. CASE /\ ll' = updated /\ page_table' = new
             /\ key_table' = key_table /\ fault' = fault
             /\ ~UpdatePanics(ll, i, value)
    <3>1. /\ Ring(updated) /\ updated.first = 0 /\ updated.len = ll.len
          /\ \/ Value(updated, 0) = value
             \/ Value(updated, 0) = Value(ll, 0)
      <4>1. CASE ll.len <= 1
        BY <2>3, <4>1 DEF UpdateValue, MapInv
      <4>2. CASE ll.len > 1
        <5>1. ~(ll.len <= 1)
          BY <2>1, <4>2
        <5>2. updated = InsertSortedIndex(Unlinked(ll, i), value, i)
          BY <5>1 DEF UpdateValue
        <5>3. ~InsertPanics(Unlinked(ll, i), value)
          BY <2>6, <4>2 DEF UpdatePanics
        <5>4. /\ Ring(Unlinked(ll, i)) /\ Unlinked(ll, i).first = 0
              /\ Unlinked(ll, i).len = ll.len
              /\ Value(Unlinked(ll, i), 0) = Value(ll, 0)
          BY <2>1, <2>3, UnlinkInRing
        <5> HIDE DEF i, tv, left, twice, new, updated
        <5> QED BY <5>2, <5>3, <5>4, InsertInRing, ZeroIndex
      <4> QED BY <2>1, <4>1, <4>2
    <3>2. Listed(page_table, ll.len) /\ Listed(left, ll.len) /\ Listed(twice, ll.len)
      BY <2>1, <2>2, OldListed DEF MapInv, PageInv
    <3>3. value.data_address \in Addresses
      BY DEF Stores
    <3>4. /\ Listed(new, ll.len)
          /\ value.data_address.page \in DOMAIN new
          /\ DOMAIN twice \subseteq DOMAIN new
      BY <2>1, <3>2, <3>3, NewListed
    <3>5. Value(updated, 0).data_address.page \in DOMAIN new
      <4>1. CASE Value(updated, 0) = value
        BY <3>4, <4>1
      <4>2. CASE Value(updated, 0) = Value(ll, 0)
        <5>1. Value(updated, 0).data_address.page \in DOMAIN page_table
          BY <2>3, <4>2, ZeroIndex DEF MapInv, PageInv, HeldPageListed
        <5>2. Value(updated, 0).data_address.page \in DOMAIN left
          BY <2>1, <2>2, <3>2, <5>1, OldListed
        <5>3. Value(updated, 0).data_address.page \in DOMAIN twice
          BY <2>1, <2>2, <3>2, <5>2, OldListed
        <5> QED BY <3>4, <5>3
      <4> QED BY <3>1, <4>1, <4>2
    <3> HIDE DEF i, tv, left, twice, new, updated
    <3>6. ListInv'
      BY <2>2, <2>3, <2>6, <3>1, ZeroIndex DEF MapInv, ListInv
    <3>7. TableInv'
      BY <2>6, <3>1 DEF MapInv, TableInv, KeysApart
    <3>8. PageInv'
      BY <2>6, <3>1, <3>4, <3>5 DEF PageInv, HeldPageListed
    <3> QED BY <2>1, <2>6, <3>1, <3>6, <3>7, <3>8 DEF Kept, MapInv
  <2>7. \/ /\ UNCHANGED <<ll, key_table, page_table>>
           /\ fault' \in {"underflow", "bounds", "unwrap"}
        \/ /\ ll' = updated /\ page_table' = new
           /\ key_table' = key_table /\ fault' = fault
           /\ ~UpdatePanics(ll, i, value)
    BY <1>2, <2>3, <2>4 DEF UpdateRecord, Fail
  <2> QED BY <2>5, <2>6, <2>7
<1> QED BY <1>1, <1>2
-------------------------------------------------------------------------------
(* The invariant.                                                          *)

LEMMA InitHolds == Init => IInv
<1> SUFFICES ASSUME Init PROVE IInv
  OBVIOUS
<1>1. ZeroValue \in Zeroed
  BY ListConstants DEF ZeroValue, TableValue, Zeroed, Keys
<1>2. ll \in Lists /\ ll.first = NoIndex /\ ll.last = NoIndex /\ ll.len = 0
  BY <1>1, ListConstants DEF Init, NewList, Node, Lists
<1>3. ListInv
  BY <1>2, ZeroIndex DEF ListInv, Ring
<1>4. TableInv
  BY DEF Init, TableInv, KeysApart
<1>5. PageInv
  BY DEF Init, PageInv, Listed, HeldPageListed
<1> QED BY <1>3, <1>4, <1>5 DEF IInv, Init, CursorInv, StatusInv

(* An operation of the map that returns or panics.                         *)
LEMMA KeptSettles ==
  ASSUME IInv, Kept, CursorInv', phase' \in {"loading", "ready", "refused"}
  PROVE  IInv'
BY DEF IInv, Kept, MapInv, StatusInv

LEMMA CursorStays ==
  ASSUME ListInv, CursorInv, Kept, cursor' = cursor
  PROVE  CursorInv'
<1>1. ll.len \in Nat /\ ll'.len \in Nat /\ ll'.len >= ll.len
  <2>1. ll.len \in 0 .. KEY_COUNT /\ ll'.len \in 0 .. KEY_COUNT
    BY DEF ListInv, Kept, MapInv, Ring, Lists
  <2> QED BY <2>1, ListConstants DEF Kept
<1>2. \A i \in Indices : i < ll.len => i < ll'.len
  BY <1>1, ListConstants DEF Indices
<1> QED BY <1>2, ZeroIndex DEF CursorInv, Idle

LEMMA LoadKeeps ==
  ASSUME IInv, NEW k \in Keys, NEW size \in Sizes, NEW address \in Addresses,
         NEW ra \in RecordAddresses, Load(k, size, address, ra)
  PROVE  IInv'
<1> DEFINE value == TableValue(ra, address, size, k)
<1>1. MapInv /\ CursorInv /\ fault = "none" /\ phase = "loading"
  BY DEF IInv, MapInv, Load, Loading
<1>2. CASE key_table[k] # NoIndex \/ Full
  <2>1. phase' = "refused" /\ UNCHANGED <<ll, key_table, page_table, fault, cursor>>
    BY <1>2 DEF Load
  <2>2. IInv'
    BY <2>1 DEF IInv, ListInv, TableInv, KeysApart, PageInv, HeldPageListed,
                CursorInv, StatusInv
  <2> QED BY <2>1, <2>2
<1>3. CASE key_table[k] = NoIndex /\ ~Full
  <2>1. phase' = phase /\ AddValue(value, page_table) /\ cursor' = cursor
    BY <1>3 DEF Load
  <2>2. value \in Stores /\ value.key = k
    BY DEF TableValue, Stores
  <2>3. Listed(page_table, ll.len + 1)
    <3>1. ll.len \in 0 .. KEY_COUNT
      BY DEF IInv, ListInv, Ring, Lists
    <3>2. \A n \in Indices : n < ll.len => n < ll.len + 1
      BY <3>1, ListConstants DEF Indices
    <3> QED BY <3>2 DEF IInv, PageInv, Listed
  <2>4. Kept
    <3> HIDE DEF value
    <3> QED BY <1>1, <1>3, <2>1, <2>2, <2>3, AddKeeps
  <2>5. CursorInv'
    BY <2>1, <2>4, CursorStays DEF IInv
  <2> QED BY <1>1, <2>1, <2>4, <2>5, KeptSettles
<1> QED BY <1>2, <1>3
(* initialise walks the ring once: the one page it lists is the front's.   *)
LEMMA InitialiseKeeps ==
  ASSUME IInv, Initialise
  PROVE  IInv'
<1>1. /\ phase' = "ready" /\ UNCHANGED <<ll, key_table, cursor, fault>>
  BY DEF Initialise
<1>2. PageInv'
  <2>1. CASE ll.first = NoIndex /\ page_table' = page_table
    BY <1>1, <2>1 DEF IInv, PageInv, HeldPageListed
  <2>2. ASSUME NEW n \in Indices, NEW path \in Walks(ll, ll.first, n),
               \A k \in 1 .. n : path[k] # ll.first,
               page_table' =
                 [p \in {Value(ll, path[k]).data_address.page : k \in 0 .. n}
                    |-> path[Front(path, n, p)]]
        PROVE  PageInv'
    <3>1. /\ path \in [0 .. n -> Indices] /\ path[0] = ll.first
          /\ \A k \in 1 .. n : path[k] = ll.data[path[k - 1]].next
      BY <2>2 DEF Walks
    <3>2. n \in Nat /\ 0 \in 0 .. n
      BY ListConstants DEF Indices
    <3>3. ll.first = 0 /\ ll.len # 0 /\ Value(ll, 0) \in Stores
      BY <3>1, <3>2, ZeroIndex DEF IInv, ListInv, Ring, Lists
    <3>4. n = 0
      <4> SUFFICES ASSUME n # 0 PROVE FALSE
        OBVIOUS
      <4>1. 1 \in 1 .. n /\ 1 - 1 = 0
        BY <3>2
      <4>2. path[1] = ll.data[path[0]].next
        BY <3>1, <4>1
      <4>3. path[1] = 0
        BY <3>1, <3>3, <4>2, ZeroIndex DEF IInv, ListInv, Ring, Lists
      <4> QED BY <2>2, <3>3, <4>1, <4>3
    <3> DEFINE page == Value(ll, 0).data_address.page
    <3>5. \A k \in 0 .. n : k = 0 /\ path[k] = 0
      BY <3>1, <3>3, <3>4
    <3>6. {Value(ll, path[k]).data_address.page : k \in 0 .. n} = {page}
      BY <3>2, <3>5
    <3>7. Front(path, n, page) = 0
      <4>1. \A j \in 0 + 1 .. n : FALSE
        BY <3>4
      <4>2. \E k \in 0 .. n :
              /\ Value(ll, path[k]).data_address.page = page
              /\ k > 0 => ~Value(ll, path[k - 1]).data_address.page = page
              /\ \A j \in k + 1 .. n :
                   Value(ll, path[j]).data_address.page = page
                     => Value(ll, path[j - 1]).data_address.page = page
        BY <3>2, <3>5, <4>1
      <4>3. Front(path, n, page) \in 0 .. n
        BY <4>2 DEF Front
      <4> QED BY <3>5, <4>3
    <3>8. page_table' = [p \in {page} |-> 0]
      BY <2>2, <3>5, <3>6, <3>7, <3>2
    <3>9. page \in Pages
      BY <3>3 DEF Stores, Addresses
    <3>10. 0 < ll.len
      <4>1. ll.len \in 0 .. KEY_COUNT
        BY DEF IInv, ListInv, Ring, Lists
      <4> QED BY <3>3, <4>1, ListConstants
    <3> HIDE DEF page
    <3>11. Listed(page_table', ll.len)
      BY <3>8, <3>9, <3>10, ZeroIndex DEF Listed
    <3>12. HeldPageListed'
      BY <1>1, <3>3, <3>8 DEF HeldPageListed, page
    <3> QED BY <1>1, <3>11, <3>12 DEF PageInv
  <2> QED BY <2>1, <2>2 DEF Initialise
<1>3. ListInv' /\ TableInv' /\ CursorInv' /\ StatusInv'
  BY <1>1 DEF IInv, ListInv, TableInv, KeysApart, CursorInv, StatusInv
<1> QED BY <1>1, <1>2, <1>3 DEF IInv

LEMMA WriteKeeps ==
  ASSUME IInv, NEW k \in Keys, NEW size \in Sizes, NEW address \in Addresses,
         NEW ra \in RecordAddresses, Write(k, size, address, ra)
  PROVE  IInv'
<1>1. /\ MapInv /\ phase = "ready" /\ fault = "none" /\ Fits(address, size)
      /\ phase' = phase /\ cursor' = cursor
  BY DEF IInv, MapInv, Write, Ready
<1>2. \A j \in Keys : TableValue(ra, address, size, j) \in Stores
  BY DEF TableValue, Stores
<1>3. Kept
  <2>1. CASE key_table[k] = NoIndex
    <3> DEFINE value == TableValue(ra, address, size, k)
               pt == PageTableNew(page_table, address, size, ll.len)
    <3>1. AddValue(value, pt) /\ value \in Stores /\ value.key = k
          /\ value.data_address = address
      BY <1>2, <2>1 DEF Write, TableValue
    <3>2. ASSUME ll.len < KEY_COUNT
          PROVE  /\ Listed(pt, ll.len + 1)
                 /\ value.data_address.page \in DOMAIN pt
      <4>1. ll.len \in Nat /\ ll.len \in Indices /\ ll.len < ll.len + 1
        <5>1. ll.len \in 0 .. KEY_COUNT
          BY DEF IInv, ListInv, Ring, Lists
        <5> QED BY <3>2, <5>1, ListConstants DEF Indices
      <4>2. \A n \in Indices : n < ll.len => n < ll.len + 1
        BY <4>1, ListConstants DEF Indices
      <4>3. Listed(page_table, ll.len + 1)
        BY <4>2 DEF IInv, PageInv, Listed
      <4> QED BY <1>1, <3>1, <4>1, <4>3, NewListed
    <3> HIDE DEF value, pt
    <3> QED BY <1>1, <2>1, <3>1, <3>2, AddKeeps
  <2>2. CASE key_table[k] # NoIndex
    <3>1. key_table[k] \in Indices /\ key_table[k] < ll.len
      BY <2>2 DEF IInv, TableInv
    <3>2. ~Outside(ll, key_table[k])
      <4>1. ll.len \in 0 .. KEY_COUNT
        BY DEF IInv, ListInv, Ring, Lists
      <4> QED BY <3>1, <4>1, ListConstants DEF Outside, Indices
    <3> DEFINE held == Value(ll, key_table[k]).key
               value == TableValue(ra, address, size, held)
    <3>3. held \in Keys
      BY <3>1 DEF IInv, ListInv, Ring, Lists, Value, Stores, Zeroed
    <3>4. value \in Stores /\ value.data_address = address /\ value.data_size = size
      BY <1>2, <3>3 DEF TableValue
    <3>5. UpdateRecord(value)
      BY <2>2, <3>2 DEF Write
    <3> HIDE DEF value
    <3> QED BY <1>1, <3>4, <3>5, UpdateKeeps
  <2> QED BY <2>1, <2>2
<1>4. CursorInv'
  BY <1>1, <1>3, CursorStays DEF IInv
<1> QED BY <1>1, <1>3, <1>4, KeptSettles
(* The iterator only meets indices that have been handed out.              *)
LEMMA CursorInside ==
  ASSUME IInv, Moving
  PROVE  /\ cursor.current \in Indices /\ cursor.page \in Pages
         /\ ~Outside(ll, cursor.current) /\ ~Outside(ll, 0)
         /\ ll.data[cursor.current].next = 0
<1>1. /\ cursor.current \in Indices /\ cursor.page \in Pages
      /\ cursor.current < ll.len
  BY DEF IInv, CursorInv, Moving
<1>2. ll.len \in 0 .. KEY_COUNT
  BY DEF IInv, ListInv, Ring, Lists
<1>3. ~(cursor.current >= ll.len) /\ ~(0 >= ll.len)
  BY <1>1, <1>2, ListConstants DEF Indices
<1> QED BY <1>1, <1>3 DEF Outside, IInv, ListInv, Ring, Lists

LEMMA MoveNextKeeps ==
  ASSUME IInv, NEW address \in Addresses, NEW ra \in RecordAddresses,
         MoveNext(address, ra)
  PROVE  IInv'
<1> DEFINE tv == Value(ll, cursor.current)
           value == TableValue(ra, address, tv.data_size, tv.key)
<1>1. /\ MapInv /\ Moving /\ phase = "ready" /\ phase' = phase
      /\ cursor' = [cursor EXCEPT
           !.current = IF 0 = cursor.start THEN NoIndex ELSE 0]
  BY CursorInside DEF IInv, MapInv, MoveNext, Moving, Ready
<1>2. Kept
  <2>1. CASE UNCHANGED <<ll, key_table, page_table, fault>>
    BY <1>1, <2>1, FailKeeps
  <2>2. CASE /\ tv.data_address.page = cursor.page
             /\ Fits(address, tv.data_size) /\ UpdateRecord(value)
    <3>1. tv \in Stores
      <4>1. tv \in Stores \cup Zeroed
        BY <1>1, CursorInside DEF IInv, ListInv, Ring, Lists, Value
      <4>2. tv.data_address.page \in Pages /\ 0 \notin Pages
        BY <1>1, <2>2, CursorInside, KeyMapConstants DEF Pages
      <4> QED BY <4>1, <4>2 DEF Zeroed
    <3>2. /\ value \in Stores /\ value.data_address = address
          /\ value.data_size = tv.data_size
      BY <3>1 DEF Stores, TableValue
    <3> HIDE DEF value, tv
    <3> QED BY <1>1, <2>2, <3>2, UpdateKeeps
  <2> QED BY <2>1, <2>2 DEF MoveNext
<1>3. CursorInv'
  <2>1. cursor \in [page : Pages, start : Indices, current : Indices \cup {NoIndex}]
    BY <1>1 DEF IInv, CursorInv, Moving
  <2>2. ll.len \in 0 .. KEY_COUNT /\ ll'.len \in 0 .. KEY_COUNT /\ ~(0 >= ll.len)
    BY <1>1, <1>2, CursorInside DEF Outside, MapInv, Kept, ListInv, Ring, Lists
  <2>3. 0 < ll'.len
    BY <1>2, <2>2, ListConstants DEF Kept
  <2> QED BY <1>1, <2>1, <2>3, ZeroIndex DEF CursorInv
<1> QED BY <1>1, <1>2, <1>3, KeptSettles

(* Steps that only move the cursor, or end in a fault.                     *)
LEMMA TablesStay ==
  ASSUME IInv, UNCHANGED <<ll, key_table, page_table, phase>>, CursorInv',
         fault' \in {fault, "underflow", "spins"}
  PROVE  IInv'
BY DEF IInv, ListInv, TableInv, KeysApart, PageInv, HeldPageListed, StatusInv

LEMMA CursorKeeps ==
  ASSUME IInv,
         \/ \E p \in Pages : MoveBegin(p) \/ Space(p)
         \/ MoveFaults \/ MoveEnd
  PROVE  IInv'
<1>1. ASSUME NEW p \in Pages, MoveBegin(p) PROVE IInv'
  <2>1. page_table[p] \in Indices /\ page_table[p] < ll.len
    BY <1>1 DEF MoveBegin, IInv, PageInv, Listed
  <2>2. CursorInv'
    BY <1>1, <2>1 DEF MoveBegin, CursorInv
  <2> QED BY <1>1, <2>2, TablesStay DEF MoveBegin
<1>2. ASSUME NEW p \in Pages, Space(p) PROVE IInv'
  <2>1. page_table[p] \in Indices /\ page_table[p] < ll.len
    BY <1>2 DEF Space, IInv, PageInv, Listed
  <2>2. ll.len \in 0 .. KEY_COUNT
    BY DEF IInv, ListInv, Ring, Lists
  <2>3. ~Outside(ll, page_table[p])
    BY <2>1, <2>2, ListConstants DEF Outside, Indices
  <2>4. fault' \in {"underflow", "spins"}
        /\ UNCHANGED <<ll, key_table, page_table, phase, cursor>>
    BY <1>2, <2>3 DEF Space, Fail
  <2>5. CursorInv'
    BY <2>4 DEF IInv, CursorInv
  <2> QED BY <2>4, <2>5, TablesStay
<1>3. CASE MoveFaults
  <2>1. fault' = "underflow"
        /\ UNCHANGED <<ll, key_table, page_table, phase, cursor>>
    BY <1>3, CursorInside DEF MoveFaults, Fail
  <2>2. CursorInv'
    BY <2>1 DEF IInv, CursorInv
  <2> QED BY <2>1, <2>2, TablesStay
<1>4. CASE MoveEnd
  <2>1. CursorInv'
    BY <1>4 DEF MoveEnd, CursorInv
  <2> QED BY <1>4, <2>1, TablesStay DEF MoveEnd
<1> QED BY <1>1, <1>2, <1>3, <1>4

(* set_record changes no data address.                                     *)
LEMMA MoveRecordKeeps ==
  ASSUME IInv, NEW i \in Indices, NEW ra \in RecordAddresses, MoveRecord(i, ra)
  PROVE  IInv'
<1> DEFINE node == [ll.data[i] EXCEPT !.value.record_address = ra]
           nodes == [ll.data EXCEPT ![i] = node]
<1>1. ll' = [ll EXCEPT !.data = nodes]
      /\ UNCHANGED <<key_table, page_table, phase, cursor, fault>>
  BY DEF MoveRecord
<1>2. ll \in Lists /\ ll.data[i] \in [previous : {0}, value : Stores \cup Zeroed,
                                     next : {0}]
  BY DEF IInv, ListInv, Ring, Lists
<1>3. /\ node \in [previous : {0}, value : Stores \cup Zeroed, next : {0}]
      /\ node.value.data_address = ll.data[i].value.data_address
      /\ ll.data[i].value \in Stores => node.value \in Stores
  BY <1>2 DEF Stores, Zeroed
<1> HIDE DEF node
<1>4. /\ nodes \in [Indices -> [previous : {0}, value : Stores \cup Zeroed,
                                next : {0}]]
      /\ nodes[0].value.data_address = ll.data[0].value.data_address
      /\ ll.data[0].value \in Stores => nodes[0].value \in Stores
  BY <1>2, <1>3, ZeroIndex DEF Lists
<1> HIDE DEF nodes
<1>5. /\ ll' \in Lists /\ ll'.data = nodes /\ ll'.first = ll.first
      /\ ll'.last = ll.last /\ ll'.len = ll.len
  BY <1>1, <1>2, <1>4 DEF Lists
<1>6. ListInv' /\ Value(ll', 0).data_address = Value(ll, 0).data_address
  BY <1>4, <1>5 DEF IInv, ListInv, Ring, Value
<1>7. TableInv' /\ CursorInv' /\ StatusInv'
  BY <1>1, <1>5 DEF IInv, TableInv, KeysApart, CursorInv, StatusInv
<1>8. PageInv'
  BY <1>1, <1>2, <1>5, <1>6, ZeroIndex
     DEF IInv, PageInv, HeldPageListed, ListInv, Ring, Lists
<1> QED BY <1>5, <1>6, <1>7, <1>8 DEF IInv
LEMMA NextKeeps == IInv /\ Next => IInv'
<1> SUFFICES ASSUME IInv, Next PROVE IInv'
  OBVIOUS
<1> QED BY LoadKeeps, WriteKeeps, InitialiseKeeps, CursorKeeps, MoveNextKeeps,
           MoveRecordKeeps DEF Next

LEMMA StutterKeeps == IInv /\ UNCHANGED vars => IInv'
BY DEF IInv, ListInv, TableInv, KeysApart, PageInv, HeldPageListed, CursorInv,
       StatusInv, vars

LEMMA IInvariant == Spec => []IInv
BY InitHolds, NextKeeps, StutterKeeps, PTL DEF Spec

-------------------------------------------------------------------------------
(* The theorems.                                                           *)

(* The list, the tables and the iterator of the map keep their types.      *)
THEOREM TypeCorrect == Spec => []TypeOK
<1>1. ASSUME IInv PROVE TypeOK
  <2>1. Stores \cup Zeroed \subseteq TableValues
    BY DEF Stores, Zeroed, TableValues
  <2>2. ll \in [data : [Indices -> [previous : Indices, value : TableValues,
                                    next : Indices]],
                first : Indices \cup {NoIndex}, last : Indices \cup {NoIndex},
                len : 0 .. KEY_COUNT]
    BY <1>1, <2>1, ZeroIndex DEF IInv, ListInv, Ring, Lists
  <2>3. cursor \in [page : Pages \cup {0}, start : Indices \cup {NoIndex},
                    current : Indices \cup {NoIndex}]
    BY <1>1 DEF IInv, CursorInv, Idle
  <2>4. /\ key_table \in [Keys -> Indices \cup {NoIndex}]
        /\ DOMAIN page_table \subseteq Pages
        /\ \A p \in DOMAIN page_table : page_table[p] \in Indices
    BY <1>1 DEF IInv, TableInv, PageInv, Listed
  <2> QED BY <1>1, <2>2, <2>3, <2>4 DEF TypeOK, IInv, StatusInv
<1> QED BY <1>1, IInvariant, PTL

(* Updates, moves and iterators never follow an index that get_node        *)
(* refuses, in any map.                                                    *)
THEOREM NeverOutside == Spec => []ReadsInsideList
<1>1. IInv => ReadsInsideList
  BY DEF IInv, StatusInv, ReadsInsideList
<1> QED BY <1>1, IInvariant, PTL

(* No two keys of the table are ever given the same node index.            *)
THEOREM OwnIndices == Spec => []KeysApart
<1>1. IInv => KeysApart
  BY DEF IInv, TableInv
<1> QED BY <1>1, IInvariant, PTL

(* The page of the entry the list holds stays in the page table.           *)
THEOREM PageStaysListed == Spec => []HeldPageListed
<1>1. IInv => HeldPageListed
  BY DEF IInv, PageInv
<1> QED BY <1>1, IInvariant, PTL
===============================================================================
