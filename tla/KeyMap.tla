-------------------------------- MODULE KeyMap ---------------------------------
(***************************************************************************)
(* The index of the store (src/key_map.rs, src/key_map/iter.rs): a table   *)
(* from keys to nodes of a list sorted by data address, and a table from   *)
(* pages to the first node with data on the page.  It is driven as Nvs     *)
(* drives it: init loads the records found on the flash and calls          *)
(* initialise; afterwards a write adds a key or updates its record, and    *)
(* pages taken over by the map have their entries and records moved, which *)
(* updates them one by one while an iterator walks the list.               *)
(* A call that does not return ends the behaviour and is kept in fault.    *)
(***************************************************************************)
EXTENDS LinkedList

CONSTANTS
  TOTAL_PAGES,       \* pages of the partition; page 0 holds no data
  PAGE_SIZE,
  Sizes,             \* sizes of entries
  RecordAddresses,   \* addresses of records
  OverflowChecks     \* TRUE: arithmetic overflow panics (dev profile);
                     \* FALSE: it wraps (release profile)

ASSUME KeyMapConstants ==
  /\ TOTAL_PAGES \in Nat \ {0}
  /\ PAGE_SIZE \in Nat \ {0}
  /\ Sizes \subseteq 1 .. PAGE_SIZE
  /\ RecordAddresses \subseteq Nat \ {0}
  /\ OverflowChecks \in BOOLEAN

VARIABLES
  ll,           \* linked_list
  key_table,    \* index by key
  page_table,   \* index of the first entry of a page
  phase,        \* "loading" in Nvs::init, "ready", or "refused" by init
  cursor,       \* the PageValueIter of a move, or Idle
  fault         \* why the last call does not return

vars == <<ll, key_table, page_table, phase, cursor, fault>>

Keys == 0 .. KEY_COUNT - 1
Pages == 1 .. TOTAL_PAGES - 1

(* 0xFFFFFFFF >> PAGE_BIT, the page of an address that wrapped below 0.    *)
WrappedPage == TOTAL_PAGES

Addresses == [page : Pages, off : 0 .. PAGE_SIZE - 1]

TableValue(ra, address, size, key) ==
  [record_address |-> ra, data_address |-> address, data_size |-> size,
   key |-> key]

(* The value of a node nothing was stored in.                              *)
ZeroValue == TableValue(0, [page |-> 0, off |-> 0], 0, 0)

TableValues ==
  [record_address : RecordAddresses \cup {0},
   data_address : Addresses \cup {[page |-> 0, off |-> 0]},
   data_size : Sizes \cup {0},
   key : Keys]

Idle == [page |-> 0, start |-> NoIndex, current |-> NoIndex]

TypeOK ==
  /\ ll \in [data : [Indices -> [previous : Indices, value : TableValues,
                                 next : Indices]],
             first : Indices \cup {NoIndex}, last : Indices \cup {NoIndex},
             len : 0 .. KEY_COUNT]
  /\ key_table \in [Keys -> Indices \cup {NoIndex}]
  /\ DOMAIN page_table \subseteq Pages
  /\ \A p \in DOMAIN page_table : page_table[p] \in Indices
  /\ phase \in {"loading", "ready", "refused"}
  /\ cursor \in [page : Pages \cup {0}, start : Indices \cup {NoIndex},
                 current : Indices \cup {NoIndex}]
  /\ fault \in {"none", "bounds", "outside", "unwrap", "underflow", "spins"}

-------------------------------------------------------------------------------
(* Queries.                                                                *)

Value(l, i) == l.data[i].value

(* The page of the byte at distance n <= PAGE_SIZE.                        *)
PageOf(address, n) ==
  IF address.off + n < PAGE_SIZE THEN address.page ELSE address.page + 1

(* get_end_page: data_size - 1 underflows for a zeroed value.              *)
EndPage(tv) ==
  IF tv.data_size = 0 THEN WrappedPage
                      ELSE PageOf(tv.data_address, tv.data_size - 1)

EndPagePanics(tv) == OverflowChecks /\ tv.data_size = 0

IsOnPage(tv, page) == tv.data_address.page = page \/ EndPage(tv) = page

IsOnPagePanics(tv, page) == tv.data_address.page # page /\ EndPagePanics(tv)

(* Mutant: only the first byte has to be in the partition.                 *)
Fits_FirstByte(address, size) == address.page \in Pages

(* Data that is written fits the partition; page_table_new relies on it.   *)
Fits(address, size) == PageOf(address, size - 1) \in Pages

Bytes(address, size) ==
  {[page |-> PageOf(address, n), off |-> (address.off + n) % PAGE_SIZE] :
     n \in 0 .. size - 1}

(* New data is not placed on the data of another key, as far as the list   *)
(* still knows it.                                                         *)
Apart(k, address, size) ==
  LET held == Value(ll, ll.first)
  IN  ll.first # NoIndex /\ held.key # k =>
        Bytes(address, size) \cap Bytes(held.data_address, held.data_size) = {}

-------------------------------------------------------------------------------
(* The page table.                                                         *)

With(pt, page, i) ==
  IF page \in DOMAIN pt
    THEN pt ELSE [p \in DOMAIN pt \cup {page} |-> IF p = page THEN i ELSE pt[p]]

Without(pt, page) == [p \in DOMAIN pt \ {page} |-> pt[p]]

(* page_table_new: the page and the overflow page, unless listed.          *)
PageTableNew(pt, address, size, i) ==
  With(With(pt, address.page, i), PageOf(address, size - 1), i)

(* Mutant: an entry that leaves the front always takes the page with it.   *)
PageTableOld_AlwaysRemoves(pt, l, page, i, next) ==
  IF pt[page] # i THEN pt ELSE Without(pt, page)

(* page_table_old for a listed page: entry i, followed by next, leaves it. *)
PageTableOld(pt, l, page, i, next) ==
  IF pt[page] # i
    THEN pt
    ELSE IF Value(l, next).data_address.page = page
           THEN [pt EXCEPT ![page] = next]
           ELSE Without(pt, page)

-------------------------------------------------------------------------------
(* The operations; each sets fault and leaves phase and cursor alone.      *)

Fail(reason) == fault' = reason /\ UNCHANGED <<ll, key_table, page_table>>

(* Mutant: the length is not counted up.                                   *)
Stored_LenKept(value, index) == InsertSortedIndex(ll, value, index)

(* insert_sorted.                                                          *)
Stored(value, index) == InsertSortedIndex(Grown(ll), value, index)

(* insert_sorted has no index left.                                        *)
Full == ll.len >= KEY_COUNT

(* add_value_inner for a key that is not in the table yet; pt is the page  *)
(* table behind it.                                                        *)
AddValue(value, pt) ==
  IF Full THEN UNCHANGED <<ll, key_table, page_table, fault>>
  ELSE IF InsertPanics(Grown(ll), value) THEN Fail("bounds")
  ELSE /\ ll' = Stored(value, ll.len)
       /\ key_table' = [key_table EXCEPT ![value.key] = ll.len]
       /\ page_table' = pt
       /\ UNCHANGED fault

(* update_record: a key without an index leaves everything as it is.       *)
UpdateRecord(value) ==
  LET i == key_table[value.key]
      tv == Value(ll, i)
      next == ll.data[i].next
      updated == UpdateValue(ll, i, value)
      old_page == tv.data_address.page
      left == PageTableOld(page_table, updated, old_page, i, next)
  IN  IF i = NoIndex THEN UNCHANGED <<ll, key_table, page_table, fault>>
      ELSE IF Outside(ll, i) \/ Outside(ll, next) THEN Fail("outside")
      ELSE IF EndPagePanics(tv) THEN Fail("underflow")
      ELSE IF UpdatePanics(ll, i, value) THEN Fail("bounds")
      ELSE IF old_page \notin DOMAIN page_table \/ EndPage(tv) \notin DOMAIN left
        THEN Fail("unwrap")
      ELSE /\ ll' = updated
           /\ page_table' =
                PageTableNew(PageTableOld(left, updated, EndPage(tv), i, next),
                             value.data_address, value.data_size, i)
           /\ UNCHANGED <<key_table, fault>>

-------------------------------------------------------------------------------
(* Nvs::init.                                                              *)

Loading == phase = "loading" /\ fault = "none"

Init ==
  /\ ll = NewList(ZeroValue)
  /\ key_table = [k \in Keys |-> NoIndex]
  /\ page_table = [p \in {} |-> NoIndex]
  /\ phase = "loading"
  /\ cursor = Idle
  /\ fault = "none"

(* add_value of a record found on the flash; when it returns false, for a  *)
(* second record of a key, init fails with DuplicateKey.                   *)
Load(k, size, address, ra) ==
  /\ Loading
  /\ Fits(address, size) /\ Apart(k, address, size)
  /\ IF key_table[k] # NoIndex \/ Full
       THEN phase' = "refused" /\ UNCHANGED <<ll, key_table, page_table, fault>>
       ELSE UNCHANGED phase /\ AddValue(TableValue(ra, address, size, k), page_table)
  /\ UNCHANGED cursor

(* The front of each run of nodes on one page, around the whole list; a    *)
(* later run replaces an earlier one.                                      *)
Front(path, n, page) ==
  CHOOSE k \in 0 .. n :
    LET On(j) == Value(ll, path[j]).data_address.page = page
    IN  /\ On(k) /\ (k > 0 => ~On(k - 1))
        /\ \A j \in k + 1 .. n : On(j) => On(j - 1)

Initialise ==
  /\ Loading
  /\ phase' = "ready"
  /\ \/ ll.first = NoIndex /\ page_table' = page_table
     \/ \E n \in Indices : \E path \in Walks(ll, ll.first, n) :
          /\ ll.data[path[n]].next = ll.first
          /\ \A k \in 1 .. n : path[k] # ll.first
          /\ page_table' =
               [p \in {Value(ll, path[k]).data_address.page : k \in 0 .. n}
                  |-> path[Front(path, n, p)]]
  /\ UNCHANGED <<ll, key_table, cursor, fault>>

-------------------------------------------------------------------------------
(* Nvs in use.                                                             *)

Ready == phase = "ready" /\ fault = "none"

(* The end of write_key_values_force_inner: the record of the key's table  *)
(* value with the new size and address, or a record for a new key.         *)
Write(k, size, address, ra) ==
  /\ Ready /\ cursor = Idle
  /\ Fits(address, size) /\ Apart(k, address, size)
  /\ IF key_table[k] = NoIndex
       THEN AddValue(TableValue(ra, address, size, k),
                     PageTableNew(page_table, address, size, ll.len))
       ELSE IF Outside(ll, key_table[k])
         THEN Fail("outside")
         ELSE UpdateRecord(TableValue(ra, address, size,
                                      Value(ll, key_table[k]).key))
  /\ UNCHANGED <<phase, cursor>>

(* move_data_page of a page that is not free.                              *)
MoveBegin(page) ==
  /\ Ready /\ cursor = Idle
  /\ page \in DOMAIN page_table
  /\ cursor' = [page |-> page, start |-> page_table[page],
                current |-> page_table[page]]
  /\ UNCHANGED <<ll, key_table, page_table, phase, fault>>

Moving == Ready /\ cursor # Idle /\ cursor.current # NoIndex

(* PageValueIter::next panics: get_node, or get_end_page.                  *)
MoveFaults ==
  LET i == cursor.current
  IN  /\ Moving
      /\ Outside(ll, i) \/ IsOnPagePanics(Value(ll, i), cursor.page)
      /\ Fail(IF Outside(ll, i) THEN "outside" ELSE "underflow")
      /\ UNCHANGED <<phase, cursor>>

(* The iterator yields the node, which is ignored or an overflow entry, or *)
(* has its data moved to address and its record to ra.                     *)
MoveNext(address, ra) ==
  LET tv == Value(ll, cursor.current)
      next == ll.data[cursor.current].next
  IN  /\ Moving
      /\ ~Outside(ll, cursor.current)
      /\ ~IsOnPagePanics(tv, cursor.page) /\ IsOnPage(tv, cursor.page)
      /\ cursor' = [cursor EXCEPT
           !.current = IF next = cursor.start THEN NoIndex ELSE next]
      /\ \/ UNCHANGED <<ll, key_table, page_table, fault>>
         \/ /\ tv.data_address.page = cursor.page
            /\ Fits(address, tv.data_size)
            /\ UpdateRecord(TableValue(ra, address, tv.data_size, tv.key))
      /\ UNCHANGED phase

(* The iterator is exhausted, or the call returns an error half way.       *)
MoveEnd ==
  /\ Ready /\ cursor # Idle
  /\ cursor' = Idle
  /\ UNCHANGED <<ll, key_table, page_table, phase, fault>>

(* move_map_page: set_record for one of the values iter_map_page_values    *)
(* finds, which visits every index.                                        *)
MoveRecord(i, ra) ==
  /\ Ready
  /\ ~Outside(ll, i)
  /\ ll' = [ll EXCEPT !.data[i].value.record_address = ra]
  /\ UNCHANGED <<key_table, page_table, phase, cursor, fault>>

(* The loop of get_available_page_space leaves a page that has entries.    *)
SpaceReturns(page) ==
  \E n \in 0 .. KEY_COUNT : \E path \in Walks(ll, page_table[page], n) :
    /\ \A k \in 0 .. n - 1 : IsOnPage(Value(ll, path[k]), page)
    /\ ~IsOnPage(Value(ll, path[n]), page)

(* get_available_page_space before a page is rewritten; what it returns is *)
(* used by the data cursor.                                                *)
Space(page) ==
  /\ Ready
  /\ page \in DOMAIN page_table
  /\ LET i == page_table[page]
     IN  \/ /\ Outside(ll, i) \/ IsOnPagePanics(Value(ll, i), page)
            /\ Fail(IF Outside(ll, i) THEN "outside" ELSE "underflow")
         \/ ~SpaceReturns(page) /\ Fail("spins")
  /\ UNCHANGED <<phase, cursor>>

-------------------------------------------------------------------------------
Next ==
  \/ \E k \in Keys, s \in Sizes, a \in Addresses, ra \in RecordAddresses :
       Load(k, s, a, ra) \/ Write(k, s, a, ra)
  \/ Initialise
  \/ \E p \in Pages : MoveBegin(p) \/ Space(p)
  \/ \E a \in Addresses, ra \in RecordAddresses : MoveNext(a, ra)
  \/ MoveFaults \/ MoveEnd
  \/ \E i \in Indices, ra \in RecordAddresses : MoveRecord(i, ra)

Spec == Init /\ [][Next]_vars
-------------------------------------------------------------------------------
(* Properties.                                                             *)

(* No table, link or iterator ever leads outside the list: removing and    *)
(* re-adding nodes never leaves a stale index that get_node refuses.       *)
ReadsInsideList == fault # "outside"

(* Every key in the table owns a node index of its own.                    *)
KeysApart ==
  \A j, k \in Keys : j # k /\ key_table[j] # NoIndex => key_table[j] # key_table[k]

(* The page of the entry that the list holds is listed in the page table,  *)
(* whatever updates and moves came before: prepare_map asks is_page_free   *)
(* before it erases a page for records.                                    *)
HeldPageListed ==
  phase = "ready" /\ ll.first # NoIndex =>
    Value(ll, ll.first).data_address.page \in DOMAIN page_table

-------------------------------------------------------------------------------
(* What a comment says of the map.  The code does otherwise: it is refuted *)
(* by a run.                                                               *)

(* key_map.rs on key_table: "index by key".                                *)
IndexedByKey ==
  fault = "none" =>
    \A k \in Keys : key_table[k] # NoIndex => Value(ll, key_table[k]).key = k
===============================================================================
