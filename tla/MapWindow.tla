------------------------------- MODULE MapWindow -------------------------------
(***************************************************************************)
(* The two cursors of PageAddresses, the next record and the next data     *)
(* address, and the window of map pages, as the write path moves them      *)
(* (src/nvs/record_paging.rs, src/nvs/data_paging.rs, src/nvs/write.rs).   *)
(*                                                                         *)
(* One call of the store is a sequence of the steps                        *)
(*                                                                         *)
(*   idle -> prepare -> skip* -> ready -> place* -> record -> idle         *)
(*                        ^                            |                   *)
(*                        +--------- prepare <---------+  (entry moved)    *)
(*                                                                         *)
(* prepare/skip are prepare_map, place is prepare_data_page, record is     *)
(* write_record_inner.  What the pages hold is left out: whether a page    *)
(* has entries to move, and whether it is worth rewriting, is a choice     *)
(* (Relocation), at most MaxMoves times in a call, so the recursion of     *)
(* prepare_map through move_data_page and move_map_page is the loop        *)
(* through "ready" above.  Without Relocation every page is free and the   *)
(* steps are exactly those of the code.  Addresses count bytes and         *)
(* WRITE_SIZE is 1, the smallest check_consts accepts.                     *)
(***************************************************************************)
EXTENDS MapPadding

CONSTANTS
  PAGE_SIZE,        \* bytes of a page
  RecordsPerPage,   \* PAGE_SIZE \div RECORD_OFFSET
  Sizes,            \* sizes a caller may write
  OverflowChecks,   \* TRUE: arithmetic overflow panics (dev profile);
                    \* FALSE: it wraps (release profile)
  Relocation,       \* TRUE: pages the map takes over may hold entries
  MaxMoves,         \* bound: entries and records one call relocates
  MaxLag,           \* bound: map shifts between two completed writes
  MaxStart          \* bound: no call starts that could shift beyond it

ASSUME CursorConstants ==
  /\ PAGE_SIZE \in Nat \ {0}
  /\ RecordsPerPage \in Nat \ {0}
  /\ Sizes \subseteq 1 .. PAGE_SIZE
  /\ OverflowChecks \in BOOLEAN
  /\ Relocation \in BOOLEAN
  /\ MaxMoves \in Nat
  /\ MaxLag \in Nat \ {0}
  /\ MaxStart \in Nat

(* Two conditions the arithmetic relies on and check_consts does not       *)
(* enforce: the ring holds the padding of a map in the middle of a move,   *)
(* and the map, which starts behind the state pages while the recorded     *)
(* start is page 0, is in range from the beginning.                        *)
ASSUME RingFits ==
  /\ TOTAL_PAGES - STATE_PAGES > MaxLag + MAP_PRE_PADDING + MAP_POST_PADDING
  /\ STATE_PAGES <= MAPPING_MAX_RANGE

VARIABLES
  rec,       \* page_address.record, as page and slot
  data,      \* page_address.data, as page and byte offset
  update,    \* page_address.update_address_record
  old, new,  \* state.value and state.tmp_value, the first page of the map
  pc,        \* the step the call is at
  op,        \* the call: "write" or "flush"
  size,      \* its data size
  who,       \* whose data is being placed: "client" or "move"
  want,      \* the size being placed
  moves      \* entries and records relocated by this call

call == <<op, size, who, want, moves>>
vars == <<rec, data, update, old, new, pc, call>>

TypeOK ==
  /\ rec \in [page : Nat, slot : 0 .. RecordsPerPage - 1]
  /\ data \in [page : Nat, off : 0 .. PAGE_SIZE - 1]
  /\ update \in BOOLEAN
  /\ old \in Nat /\ new \in Nat
  /\ pc \in {"idle", "prepare", "skip", "ready", "place", "record", "panicked"}
  /\ op \in {"write", "flush"}
  /\ size \in 0 .. PAGE_SIZE
  /\ who \in {"client", "move"}
  /\ want \in 0 .. PAGE_SIZE
  /\ moves \in 0 .. MaxMoves

-------------------------------------------------------------------------------
(* Address arithmetic.                                                     *)

(* Mutant: the carry into the page is lost when the page is filled.        *)
plus_NoCarry(a, n) ==
  IF a.off + n > PAGE_SIZE
    THEN [page |-> a.page + 1, off |-> a.off + n - PAGE_SIZE]
    ELSE [page |-> a.page, off |-> a.off + n]

(* Address + n for n <= PAGE_SIZE.                                         *)
plus(a, n) ==
  IF a.off + n >= PAGE_SIZE
    THEN [page |-> a.page + 1, off |-> a.off + n - PAGE_SIZE]
    ELSE [page |-> a.page, off |-> a.off + n]

get_remaining_space(a) == (PAGE_SIZE - a.off) + 1

should_rewrite_page(remaining, required) == remaining >= required * 2

(* The next record address: *nra += RECORD_OFFSET.                         *)
NextSlot(r) ==
  IF r.slot + 1 = RecordsPerPage
    THEN [page |-> r.page + 1, slot |-> 0]
    ELSE [page |-> r.page, slot |-> r.slot + 1]

InPadding(page) == page_in_map_padding(page, old, new)

NextDataPage ==
  /\ data' = [page |-> next_data_page(data.page, old, new), off |-> 0]
  /\ update' = TRUE

(* Nvs::new: the map starts behind the state pages, its recorded start is  *)
(* the 0 that State::new is given.                                         *)
Init ==
  /\ rec = [page |-> STATE_PAGES, slot |-> 0]
  /\ data = [page |-> STATE_PAGES + 1 + MAP_POST_PADDING, off |-> 0]
  /\ update = TRUE
  /\ old = 0 /\ new = 0
  /\ pc = "idle" /\ op = "write" /\ size = 0
  /\ who = "client" /\ want = 0 /\ moves = 0

-------------------------------------------------------------------------------
(* The calls.                                                              *)

(* Bound: a call opens at most MaxMoves + 1 record pages.                  *)
CallFits ==
  /\ new - old + MaxMoves + 1 <= MaxLag
  /\ new + MaxMoves + 1 <= MaxStart

Write(s) ==
  /\ pc = "idle" /\ CallFits
  /\ pc' = "prepare" /\ op' = "write" /\ size' = s /\ moves' = 0
  /\ UNCHANGED <<rec, data, update, old, new, who, want>>

(* flush rewrites the data page record only if it is out of date.          *)
Flush ==
  /\ pc = "idle" /\ CallFits
  /\ update
  /\ pc' = "prepare" /\ op' = "flush" /\ size' = 0 /\ moves' = 0
  /\ UNCHANGED <<rec, data, update, old, new, who, want>>

-------------------------------------------------------------------------------
(* prepare_map.                                                            *)

KeepRecordPage ==
  /\ pc = "prepare"
  /\ rec.slot # 0
  /\ pc' = "ready"
  /\ UNCHANGED <<rec, data, update, old, new, call>>

(* Mutant: no loop around.                                                 *)
RecordPage_NoLoop == rec.page

(* The page the records continue on.                                       *)
RecordPage == IF is_page_overrun(rec.page) THEN STATE_PAGES ELSE rec.page

(* Mutant: the window may be one page too long.                            *)
MoveRecords_OffByOne ==
  RecordPage < new \/ RecordPage - new > MAPPING_MAX_RANGE

(* page - back_map_page >= MAPPING_MAX_RANGE over u32: below the first map *)
(* page the difference wraps to a number far above the range.              *)
MoveRecords == RecordPage < new \/ RecordPage - new >= MAPPING_MAX_RANGE

OpenRecordPage ==
  /\ pc = "prepare"
  /\ rec.slot = 0
  /\ OverflowChecks => RecordPage >= new
  /\ rec' = [page |-> RecordPage, slot |-> 0]
  /\ new' = IF MoveRecords THEN new + 1 ELSE new
  /\ pc' = "skip"
  /\ UNCHANGED <<data, update, old, call>>

(* The subtraction underflows in a build with overflow checks.             *)
RecordPageUnderflows ==
  /\ pc = "prepare"
  /\ rec.slot = 0
  /\ OverflowChecks /\ RecordPage < new
  /\ rec' = [page |-> RecordPage, slot |-> 0]
  /\ pc' = "panicked"
  /\ UNCHANGED <<data, update, old, new, call>>

SkipPadding ==
  /\ pc = "skip"
  /\ InPadding(data.page)
  /\ NextDataPage
  /\ UNCHANGED <<rec, old, new, pc, call>>

SkipDone ==
  /\ pc = "skip"
  /\ ~InPadding(data.page)
  /\ pc' = "ready"
  /\ UNCHANGED <<rec, data, update, old, new, call>>

-------------------------------------------------------------------------------
(* The page is ready for records.  What has to be moved first is moved,    *)
(* then the call places its own data.                                      *)

(* move_data_page: one entry of a page the map takes over.                 *)
MoveEntry(s) ==
  /\ pc = "ready"
  /\ Relocation /\ moves < MaxMoves
  /\ moves' = moves + 1
  /\ who' = "move" /\ want' = s /\ pc' = "place"
  /\ UNCHANGED <<rec, data, update, old, new, op, size>>

(* move_map_page: one record of the page the map has left, data in place.  *)
(* Its data page record may be on that page as well.                       *)
MoveRecord ==
  /\ pc = "ready"
  /\ new # old /\ moves < MaxMoves
  /\ moves' = moves + 1
  /\ who' = "move" /\ pc' = "record"
  /\ update' \in {update, TRUE}
  /\ UNCHANGED <<rec, data, old, new, op, size, want>>

PlaceClient ==
  /\ pc = "ready"
  /\ who' = "client" /\ want' = size /\ pc' = "place"
  /\ UNCHANGED <<rec, data, update, old, new, op, size, moves>>

-------------------------------------------------------------------------------
(* prepare_data_page and the data write that follows it.                   *)

Placing == pc = "place" /\ ~is_page_overrun(rec.page)

(* Only called to fix a page wrap (flush).                                 *)
PlaceNothing ==
  /\ Placing /\ want = 0
  /\ pc' = "record"
  /\ UNCHANGED <<rec, data, update, old, new, call>>

(* Writes want bytes at the data cursor and moves the cursor behind them;  *)
(* beyond the partition the flash refuses and the call returns its error   *)
(* with the cursor where it was.                                           *)
ProgramData ==
  LET last == plus(data, want - 1)
  IN  /\ IF is_page_overrun(last.page)
           THEN pc' = "idle" /\ data' = data
           ELSE pc' = "record" /\ data' = plus(data, want)
      /\ UNCHANGED <<rec, old, new, op, size, who, want, moves>>

(* A new page: erased, or about to be rewritten around its entries.        *)
PlaceAtPageStart ==
  /\ Placing /\ want > 0 /\ data.off = 0
  /\ ProgramData
  /\ update' = update

(* The page, or what rewriting it left of it, is not enough: the next one. *)
PlaceOnNextPage ==
  /\ Placing /\ want > 0
  /\ Relocation
  /\ NextDataPage
  /\ UNCHANGED <<rec, old, new, pc, call>>

(* The page is worth rewriting: its entries are moved to the data cursor.  *)
RewritePage ==
  /\ Placing /\ want > 0 /\ data.off = 0
  /\ Relocation
  /\ update' = TRUE /\ pc' = "ready"
  /\ UNCHANGED <<rec, data, old, new, call>>

(* Rewritten, and there is room left.                                      *)
PlaceAfterRewrite ==
  /\ Placing /\ want > 0 /\ data.off # 0
  /\ Relocation
  /\ should_rewrite_page(get_remaining_space(data), want)
  /\ ProgramData
  /\ update' = update

(* In the middle of a page, "enough space" (space <= data_size): the data  *)
(* goes to the cursor as it is.                                            *)
PlaceHere ==
  /\ Placing /\ want > 0 /\ data.off # 0
  /\ get_remaining_space(data) <= want
  /\ ProgramData
  /\ update' = update

(* Mutant: the padding behind the record page is forgotten.                *)
NextPageBlocked_OverrunOnly == is_page_overrun(rec.page + 1)

(* Otherwise the page behind the record page decides.                      *)
NextPageBlocked == InPadding(rec.page + 1) \/ is_page_overrun(rec.page + 1)

(* A record page beyond the partition, for which the loop repeats at once, *)
(* or more space than the data needs, which is taken for too little.       *)
NeedsNextPage ==
  \/ is_page_overrun(rec.page)
  \/ want > 0 /\ data.off # 0 /\ get_remaining_space(data) > want

(* overflow_size = data_size - space with space > data_size: a panic, or   *)
(* a number so large that no page is worth rewriting for it.               *)
Underflows == Placing /\ ~NextPageBlocked /\ OverflowChecks

PlaceElsewhere ==
  /\ pc = "place"
  /\ NeedsNextPage
  /\ IF Underflows
       THEN pc' = "panicked" /\ data' = data /\ update' = TRUE
       ELSE pc' = pc /\ NextDataPage
  /\ UNCHANGED <<rec, old, new, call>>

-------------------------------------------------------------------------------
(* write_record_inner, and what the call does behind it.                   *)

(* A moved entry: prepare_map again.                                       *)
RecordMoved ==
  /\ pc = "record" /\ who = "move"
  /\ rec' = NextSlot(rec)
  /\ pc' = "prepare"
  /\ UNCHANGED <<data, update, old, new, call>>

(* The end of a write: shift_tmp_to_value.                                 *)
RecordWritten ==
  /\ pc = "record" /\ who = "client" /\ op = "write"
  /\ rec' = NextSlot(rec)
  /\ old' = new
  /\ pc' = "idle"
  /\ UNCHANGED <<data, update, new, call>>

(* Mutant: flush shifts the start as a write does.                         *)
RecordFlushed_Shifts ==
  /\ pc = "record" /\ who = "client" /\ op = "flush"
  /\ rec' = NextSlot(rec)
  /\ update' = FALSE /\ old' = new
  /\ pc' = "idle"
  /\ UNCHANGED <<data, new, call>>

(* The end of a flush: the start of the map is not shifted.                *)
RecordFlushed ==
  /\ pc = "record" /\ who = "client" /\ op = "flush"
  /\ rec' = NextSlot(rec)
  /\ update' = FALSE
  /\ pc' = "idle"
  /\ UNCHANGED <<data, old, new, call>>

(* A read, erase or write of the flash fails: the call returns, the        *)
(* cursors stay where they are.                                            *)
FlashFails ==
  /\ pc \in {"ready", "place", "record"}
  /\ pc' = "idle"
  /\ UNCHANGED <<rec, data, update, old, new, op, size, who, want, moves>>

-------------------------------------------------------------------------------
Prepare == KeepRecordPage \/ OpenRecordPage \/ RecordPageUnderflows

Skip == SkipPadding \/ SkipDone

Relocate == (\E s \in Sizes : MoveEntry(s)) \/ MoveRecord

Place ==
  \/ PlaceNothing \/ PlaceAtPageStart \/ PlaceOnNextPage \/ RewritePage
  \/ PlaceAfterRewrite \/ PlaceHere \/ PlaceElsewhere

Record == RecordMoved \/ RecordWritten \/ RecordFlushed

(* The steps of a call in progress.                                        *)
Step == Prepare \/ Skip \/ Relocate \/ PlaceClient \/ Place \/ Record

Next == (\E s \in Sizes : Write(s)) \/ Flush \/ Step \/ FlashFails

(* The store is sequential code: a call that has started keeps running.    *)
Spec == Init /\ [][Next]_vars /\ WF_vars(Step)
-------------------------------------------------------------------------------
(* Safety.                                                                 *)

(* While a record is about to be written, its page lies in the window of   *)
(* MAPPING_MAX_RANGE pages that starts at the first map page, inside the   *)
(* ring: prepare_map has shifted the window before the page was opened.    *)
(* Holds up to the wrap of the record pages, where a build with overflow   *)
(* checks stops.                                                           *)
RecordInWindow ==
  pc \in {"skip", "ready", "place", "record"} =>
    rec.page \in RingPages /\ rec.page \in new .. new + MAPPING_MAX_RANGE - 1

(* A call panics in one place only: prepare_map, when the record pages     *)
(* have wrapped to the start of the ring and the first map page has not.   *)
(* The other subtraction that may underflow, overflow_size = data_size -   *)
(* space in prepare_page_inner, is never evaluated, because the page       *)
(* behind the record page is always padding or the end of the partition.   *)
PanicsOnlyAtWrap ==
  pc = "panicked" => rec = [page |-> STATE_PAGES, slot |-> 0] /\ STATE_PAGES < new

(* No page is prepared for data while the record page is beyond the        *)
(* partition: prepare_page_inner would repeat forever, for next_data_page  *)
(* does not move the record page that its loop looks at.                   *)
NeverSpins == pc = "place" => ~is_page_overrun(rec.page)

(* A call that panics or fails half way never moves the start of the map   *)
(* backwards, and only the end of a complete write makes a new start the   *)
(* recorded one; the start it records is the one whose window holds the    *)
(* record that the write has just added.                                   *)
StartAdvancesWithRecords ==
  [][/\ new' >= new /\ old' >= old
     /\ old' # old => /\ pc = "record" /\ who = "client" /\ op = "write"
                      /\ rec.page \in old' .. old' + MAPPING_MAX_RANGE - 1]_vars

(* How far a page is in front of the last page of the padding, in the      *)
(* order in which next_data_page walks around the ring.                    *)
PaddingLeft(page) ==
  LET last == get_last_map_padding_page(new)
  IN  IF page <= last THEN last - page ELSE last + TOTAL_PAGES - page

(* The padding of a map in the middle of a move leaves a page free.        *)
PageToSpare ==
  TOTAL_PAGES - STATE_PAGES > MaxLag + MAP_PRE_PADDING + MAP_POST_PADDING + 1

(* The while loop of prepare_map ends: each step of next_data_page comes   *)
(* nearer to the last page of the padding or out of the padding, from both *)
(* sides of the end of the ring and of a padding that wraps around it.     *)
SkippingEnds ==
  [][SkipPadding /\ InPadding(data.page)' =>
       PaddingLeft(data.page)' \in 0 .. PaddingLeft(data.page) - 1]_vars

-------------------------------------------------------------------------------
(* Liveness.                                                               *)

(* The while loop of prepare_map leaves the padding: next_data_page walks  *)
(* through it and then jumps behind its last page.  This is so in the lap  *)
(* a build with overflow checks makes.  Behind the wrap of the records a   *)
(* release build never brings tmp_value back, until the padding reaches    *)
(* around the ring and there is no way out of it.                          *)
PrepareTerminates == (pc = "skip") ~> (pc # "skip")
===============================================================================
