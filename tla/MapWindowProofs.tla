---------------------------- MODULE MapWindowProofs ----------------------------
(***************************************************************************)
(* Theorems of MapWindow, for every size of the ring and of its padding    *)
(* that satisfies CheckedConstants and RingFits; the last one also needs a *)
(* page that the padding leaves free.                                      *)
(***************************************************************************)
EXTENDS MapWindow, TLAPS

(* The record page is prepared: open, or being written.                    *)
Open == pc \in {"skip", "ready", "place", "record"} \/ rec.slot # 0

(* The call in progress will prepare one more record page.                 *)
Pending ==
  IF pc = "prepare" \/ (pc \in {"place", "record"} /\ who = "move") THEN 1 ELSE 0

(* How far the running operation may have moved the map from its recorded  *)
(* start; the moves left to a call are the shifts left to it.              *)
LagInv ==
  /\ old <= new
  /\ IF pc \in {"idle", "panicked"}
       THEN new - old <= MaxLag
       ELSE new - old + (MaxMoves - moves) + Pending <= MaxLag

(* In every build the record page is in the ring once it is open.          *)
RingInv ==
  /\ STATE_PAGES <= rec.page /\ rec.page <= TOTAL_PAGES
  /\ Open => rec.page < TOTAL_PAGES

(* With overflow checks the window follows the records until the wrap.     *)
WindowInv ==
  /\ pc # "panicked" => new <= rec.page /\ rec.page <= new + MAPPING_MAX_RANGE
  /\ pc # "panicked" /\ Open => rec.page < new + MAPPING_MAX_RANGE
  /\ PanicsOnlyAtWrap

IInv == TypeOK /\ LagInv /\ RingInv

USE DEF RingPages, is_page_overrun

-------------------------------------------------------------------------------
(* The page behind a record page of the window is in the padding, or       *)
(* beyond the partition (page_in_map_padding, as prepare_page_inner uses   *)
(* it).                                                                    *)
LEMMA NextPageIsBlocked ==
  ASSUME old \in Nat, new \in Nat, old <= new, new - old <= MaxLag,
         rec \in [page : Nat, slot : 0 .. RecordsPerPage - 1],
         new <= rec.page, rec.page < new + MAPPING_MAX_RANGE
  PROVE  NextPageBlocked
<1> DEFINE p == rec.page + 1
           first == get_first_map_padding_page(old)
           last == get_last_map_padding_page(new)
<1>1. p \in Nat /\ new < p /\ p < new + MAP_POST_PADDING
  BY CheckedConstants
<1>2. CASE p >= TOTAL_PAGES
  BY <1>2 DEF NextPageBlocked
<1>3. CASE p < TOTAL_PAGES
  <2>1. page_in_range(p, first, last)
    BY <1>1, <1>3, CheckedConstants, CursorConstants, RingFits
       DEF page_in_range, get_first_map_padding_page, get_last_map_padding_page
  <2> QED BY <2>1 DEF NextPageBlocked, InPadding, page_in_map_padding
<1> QED BY <1>1, <1>2, <1>3, CheckedConstants

(* Moving a cursor over at most a page of bytes keeps its offset in page.  *)
LEMMA PlusType ==
  ASSUME NEW a \in [page : Nat, off : 0 .. PAGE_SIZE - 1],
         NEW n \in 0 .. PAGE_SIZE
  PROVE  plus(a, n) \in [page : Nat, off : 0 .. PAGE_SIZE - 1]
  BY CursorConstants DEF plus

LEMMA NextSlotType ==
  ASSUME NEW r \in [page : Nat, slot : 0 .. RecordsPerPage - 1]
  PROVE  /\ NextSlot(r) \in [page : Nat, slot : 0 .. RecordsPerPage - 1]
         /\ \/ NextSlot(r).page = r.page /\ NextSlot(r).slot # 0
            \/ NextSlot(r).page = r.page + 1 /\ NextSlot(r).slot = 0
  BY CursorConstants DEF NextSlot

LEMMA NextDataPageType ==
  ASSUME NEW p \in Nat, old \in Nat, new \in Nat
  PROVE  next_data_page(p, old, new) \in Nat
<1>1. get_last_map_padding_page(new + 1) \in Nat
  BY CheckedConstants DEF get_last_map_padding_page
<1> QED BY <1>1, CheckedConstants DEF next_data_page

-------------------------------------------------------------------------------
(* The invariant of every build: types, the lag of the recorded start and  *)
(* the ring.                                                               *)

LEMMA InitIInv == Init => IInv
  BY CheckedConstants, CursorConstants, RingFits
     DEF Init, IInv, TypeOK, LagInv, RingInv, Open, Pending

LEMMA RecordPageInRing ==
  ASSUME TypeOK, RingInv
  PROVE  RecordPage \in RingPages
  BY CheckedConstants, RingFits, CursorConstants DEF TypeOK, RingInv, RecordPage

(* The data cursor and the type of every variable.                         *)
LEMMA TypeStep == IInv /\ [Next]_vars => TypeOK'
<1> SUFFICES ASSUME IInv, [Next]_vars PROVE TypeOK'
  OBVIOUS
<1> USE DEF TypeOK
<1>t. TypeOK
  BY DEF IInv
<1>p. \A n \in 0 .. PAGE_SIZE : plus(data, n) \in [page : Nat, off : 0 .. PAGE_SIZE - 1]
  BY <1>t, PlusType
<1>s. NextSlot(rec) \in [page : Nat, slot : 0 .. RecordsPerPage - 1]
  BY <1>t, NextSlotType
<1>r. [page |-> RecordPage, slot |-> 0] \in [page : Nat, slot : 0 .. RecordsPerPage - 1]
  BY <1>t, RecordPageInRing, CheckedConstants, CursorConstants DEF IInv
<1>d. NextDataPage => /\ data' \in [page : Nat, off : 0 .. PAGE_SIZE - 1]
                      /\ update' \in BOOLEAN
  BY <1>t, NextDataPageType, CursorConstants DEF NextDataPage
<1>z. Sizes \subseteq 0 .. PAGE_SIZE
  BY CursorConstants
<1>1. CASE \E z \in Sizes : Write(z)
  BY <1>1, <1>t, <1>z, CursorConstants DEF Write
<1>2. CASE Flush
  BY <1>2, <1>t, CursorConstants DEF Flush
<1>3. CASE Prepare
  BY <1>3, <1>t, <1>r DEF Prepare, KeepRecordPage, OpenRecordPage, RecordPageUnderflows, call
<1>4. CASE Skip
  BY <1>4, <1>t, <1>d DEF Skip, SkipPadding, SkipDone, call
<1>5. CASE Relocate
  <2>1. CASE \E z \in Sizes : MoveEntry(z)
    BY <2>1, <1>t, <1>z, CursorConstants DEF MoveEntry
  <2>2. CASE MoveRecord
    <3>1. update' \in BOOLEAN
      BY <2>2, <1>t, Zenon DEF MoveRecord
    <3>2. moves' \in 0 .. MaxMoves
      BY <2>2, <1>t, CursorConstants DEF MoveRecord
    <3> QED BY <2>2, <1>t, <3>1, <3>2 DEF MoveRecord
  <2> QED BY <1>5, <2>1, <2>2 DEF Relocate
<1>6. CASE PlaceClient
  BY <1>6, <1>t DEF PlaceClient
<1>7. CASE Place
  <2>1. ProgramData => /\ data' \in [page : Nat, off : 0 .. PAGE_SIZE - 1]
                       /\ pc' \in {"idle", "record"}
                       /\ UNCHANGED <<rec, old, new, op, size, who, want, moves>>
    BY <1>t, <1>p DEF ProgramData
  <2>2. CASE PlaceNothing \/ PlaceOnNextPage \/ RewritePage \/ PlaceElsewhere
    BY <2>2, <1>t, <1>d
       DEF PlaceNothing, PlaceOnNextPage, RewritePage, PlaceElsewhere, call
  <2>3. CASE PlaceAtPageStart \/ PlaceAfterRewrite \/ PlaceHere
    BY <2>3, <2>1, <1>t DEF PlaceAtPageStart, PlaceAfterRewrite, PlaceHere
  <2> QED BY <1>7, <2>2, <2>3 DEF Place
<1>8. CASE Record
  BY <1>8, <1>t, <1>s DEF Record, RecordMoved, RecordWritten, RecordFlushed, call
<1>9. CASE FlashFails
  BY <1>9, <1>t DEF FlashFails
<1>10. CASE UNCHANGED vars
  BY <1>10, <1>t DEF vars, call
<1> QED BY <1>1, <1>2, <1>3, <1>4, <1>5, <1>6, <1>7, <1>8, <1>9, <1>10 DEF Next, Step

(* A call starts with room for every shift it may make, and each relocated *)
(* entry pays for the page it may open.                                    *)
LEMMA LagStep == IInv /\ [Next]_vars => LagInv'
<1> SUFFICES ASSUME IInv, [Next]_vars PROVE LagInv'
  OBVIOUS
<1> USE DEF LagInv, Pending
<1>t. TypeOK /\ LagInv
  BY DEF IInv
<1>k. MaxMoves \in Nat /\ MaxLag \in Nat
  BY CursorConstants
<1>1. CASE \E z \in Sizes : Write(z)
  BY <1>1, <1>t, <1>k DEF TypeOK, Write, CallFits
<1>2. CASE Flush
  BY <1>2, <1>t, <1>k DEF TypeOK, Flush, CallFits
<1>3. CASE Prepare
  <2>1. CASE KeepRecordPage
    BY <2>1, <1>t, <1>k DEF TypeOK, KeepRecordPage, call
  <2>2. CASE OpenRecordPage
    <3>1. new' \in {new, new + 1}
      BY <2>2 DEF OpenRecordPage
    <3> QED BY <2>2, <3>1, <1>t, <1>k DEF TypeOK, OpenRecordPage, call
  <2>3. CASE RecordPageUnderflows
    BY <2>3, <1>t, <1>k DEF TypeOK, RecordPageUnderflows, call
  <2> QED BY <1>3, <2>1, <2>2, <2>3 DEF Prepare
<1>4. CASE Skip
  BY <1>4, <1>t, <1>k DEF TypeOK, Skip, SkipPadding, SkipDone, NextDataPage, call
<1>5. CASE Relocate
  <2>1. /\ moves < MaxMoves /\ moves' = moves + 1
        /\ UNCHANGED <<old, new>>
        /\ pc = "ready" /\ pc' \in {"place", "record"} /\ who' = "move"
    BY <1>5 DEF Relocate, MoveEntry, MoveRecord
  <2> QED BY <2>1, <1>t, <1>k DEF TypeOK
<1>6. CASE PlaceClient
  BY <1>6, <1>t, <1>k DEF TypeOK, PlaceClient
<1>7. CASE Place
  <2>1. /\ UNCHANGED <<old, new, op, who, moves>>
        /\ pc = "place" /\ pc' \in {"place", "idle", "record", "ready", "panicked"}
    BY <1>7 DEF Place, PlaceNothing, PlaceOnNextPage, RewritePage, PlaceElsewhere,
                PlaceAtPageStart, PlaceAfterRewrite, PlaceHere, ProgramData, Placing,
                call
  <2> QED BY <2>1, <1>t, <1>k DEF TypeOK
<1>8. CASE Record
  BY <1>8, <1>t, <1>k DEF TypeOK, Record, RecordMoved, RecordWritten, RecordFlushed, call
<1>9. CASE FlashFails
  BY <1>9, <1>t, <1>k DEF TypeOK, FlashFails
<1>10. CASE UNCHANGED vars
  BY <1>10, <1>t DEF vars, call
<1> QED BY <1>1, <1>2, <1>3, <1>4, <1>5, <1>6, <1>7, <1>8, <1>9, <1>10 DEF Next, Step

(* Only prepare_map opens a page, and it loops around first.               *)
LEMMA RingStep == IInv /\ [Next]_vars => RingInv'
<1> SUFFICES ASSUME IInv, [Next]_vars PROVE RingInv'
  OBVIOUS
<1> USE DEF RingInv, Open
<1>t. TypeOK /\ RingInv
  BY DEF IInv
<1>k. STATE_PAGES \in Nat /\ TOTAL_PAGES \in Nat
  BY CheckedConstants
<1>r. RecordPage \in Nat /\ STATE_PAGES <= RecordPage /\ RecordPage < TOTAL_PAGES
  BY <1>t, <1>k, RecordPageInRing DEF TypeOK, RecordPage
<1>s. \/ NextSlot(rec).page = rec.page /\ NextSlot(rec).slot # 0
      \/ NextSlot(rec).page = rec.page + 1 /\ NextSlot(rec).slot = 0
  BY <1>t, NextSlotType DEF TypeOK
<1>1. CASE \E z \in Sizes : Write(z)
  BY <1>1, <1>t DEF Write
<1>2. CASE Flush
  BY <1>2, <1>t DEF Flush
<1>3. CASE Prepare
  <2>1. CASE KeepRecordPage
    BY <2>1, <1>t DEF KeepRecordPage
  <2>2. CASE OpenRecordPage \/ RecordPageUnderflows
    BY <2>2, <1>r, <1>k DEF OpenRecordPage, RecordPageUnderflows
  <2> QED BY <1>3, <2>1, <2>2 DEF Prepare
<1>4. CASE Skip
  BY <1>4, <1>t DEF Skip, SkipPadding, SkipDone
<1>5. CASE Relocate
  BY <1>5, <1>t DEF Relocate, MoveEntry, MoveRecord
<1>6. CASE PlaceClient
  BY <1>6, <1>t DEF PlaceClient
<1>7. CASE Place
  <2>1. rec' = rec /\ pc = "place"
    BY <1>7 DEF Place, PlaceNothing, PlaceOnNextPage, RewritePage, PlaceElsewhere,
                PlaceAtPageStart, PlaceAfterRewrite, PlaceHere, ProgramData, Placing
  <2> QED BY <2>1, <1>t
<1>8. CASE Record
  <2>1. rec' = NextSlot(rec) /\ pc = "record" /\ pc' \in {"prepare", "idle"}
    BY <1>8 DEF Record, RecordMoved, RecordWritten, RecordFlushed
  <2> QED BY <2>1, <1>s, <1>t, <1>k DEF TypeOK
<1>9. CASE FlashFails
  BY <1>9, <1>t DEF FlashFails
<1>10. CASE UNCHANGED vars
  BY <1>10, <1>t DEF vars, call
<1> QED BY <1>1, <1>2, <1>3, <1>4, <1>5, <1>6, <1>7, <1>8, <1>9, <1>10 DEF Next, Step

LEMMA IInvariant == Spec => []IInv
<1>1. Init => IInv
  BY InitIInv
<1>2. IInv /\ [Next]_vars => IInv'
  BY TypeStep, LagStep, RingStep DEF IInv
<1> QED BY <1>1, <1>2, PTL DEF Spec

(* Every variable keeps its type: in particular the offset of the data     *)
(* cursor stays inside a page and a call never relocates more than its     *)
(* bound.                                                                  *)
THEOREM TypeCorrect == Spec => []TypeOK
<1>1. IInv => TypeOK
  BY DEF IInv
<1> QED BY <1>1, IInvariant, PTL

(* The endless loop of prepare_data_page over a record page beyond the     *)
(* partition is never entered, in any build and at any point of a move.    *)
THEOREM Spins == Spec => []NeverSpins
<1>1. IInv => NeverSpins
  BY CheckedConstants DEF IInv, TypeOK, RingInv, Open, NeverSpins
<1> QED BY <1>1, IInvariant, PTL

-------------------------------------------------------------------------------
(* The window of a build with overflow checks.                             *)

(* The wrap is far behind the state pages: if the records continue on the  *)
(* first page of the ring, the first map page is not there.                *)
LEMMA RecordPageOfWindow ==
  ASSUME TypeOK, RingInv, WindowInv, pc # "panicked"
  PROVE  \/ RecordPage = rec.page
         \/ RecordPage = STATE_PAGES /\ RecordPage < new
  BY CheckedConstants, CursorConstants, RingFits
     DEF TypeOK, RingInv, WindowInv, RecordPage

LEMMA WindowStep ==
  ASSUME OverflowChecks
  PROVE  IInv /\ WindowInv /\ [Next]_vars => WindowInv'
<1> SUFFICES ASSUME IInv, WindowInv, [Next]_vars PROVE WindowInv'
  OBVIOUS
<1>t. TypeOK /\ RingInv /\ LagInv
  BY DEF IInv
<1>p. pc = "prepare" => \/ RecordPage = rec.page
                        \/ RecordPage = STATE_PAGES /\ RecordPage < new
  BY <1>t, RecordPageOfWindow
<1> USE DEF WindowInv, Open, PanicsOnlyAtWrap
<1>k. MAPPING_MAX_RANGE \in Nat \ {0} /\ STATE_PAGES \in Nat /\ TOTAL_PAGES \in Nat
  BY CheckedConstants
<1>n. new \in Nat /\ rec.page \in Nat /\ RecordPage \in Nat
  BY <1>t, <1>k DEF TypeOK, RecordPage
<1>s. \/ NextSlot(rec).page = rec.page /\ NextSlot(rec).slot # 0
      \/ NextSlot(rec).page = rec.page + 1 /\ NextSlot(rec).slot = 0
  BY <1>t, NextSlotType DEF TypeOK
<1>1. CASE \E z \in Sizes : Write(z)
  BY <1>1 DEF Write
<1>2. CASE Flush
  BY <1>2 DEF Flush
<1>3. CASE Prepare
  <2>1. CASE KeepRecordPage
    BY <2>1 DEF KeepRecordPage
  <2>2. CASE OpenRecordPage
    <3>1. RecordPage = rec.page /\ new <= rec.page
      BY <2>2, <1>p, <1>n, <1>k DEF OpenRecordPage
    <3>2. CASE MoveRecords
      <4>1. rec.page = new + MAPPING_MAX_RANGE
        BY <2>2, <3>1, <3>2, <1>n, <1>k DEF OpenRecordPage, MoveRecords
      <4>2. rec'.page = rec.page /\ new' = new + 1 /\ pc' = "skip"
        BY <2>2, <3>1, <3>2 DEF OpenRecordPage
      <4> QED BY <4>1, <4>2, <1>n, <1>k
    <3>3. CASE ~MoveRecords
      <4>1. rec.page < new + MAPPING_MAX_RANGE
        BY <3>1, <3>3, <1>n, <1>k DEF MoveRecords
      <4>2. rec'.page = rec.page /\ new' = new /\ pc' = "skip"
        BY <2>2, <3>1, <3>3 DEF OpenRecordPage
      <4> QED BY <4>1, <4>2, <3>1, <1>n, <1>k
    <3> QED BY <3>2, <3>3
  <2>3. CASE RecordPageUnderflows
    <3>1. RecordPage = STATE_PAGES /\ RecordPage < new
      BY <2>3, <1>p, <1>n DEF RecordPageUnderflows
    <3> QED BY <2>3, <3>1 DEF RecordPageUnderflows
  <2> QED BY <1>3, <2>1, <2>2, <2>3 DEF Prepare
<1>4. CASE Skip
  BY <1>4 DEF Skip, SkipPadding, SkipDone
<1>5. CASE Relocate
  BY <1>5 DEF Relocate, MoveEntry, MoveRecord
<1>6. CASE PlaceClient
  BY <1>6 DEF PlaceClient
<1>7. CASE Place
  <2>1. pc = "place" => NextPageBlocked
    <3>1. LagInv /\ pc = "place" => old <= new /\ new - old <= MaxLag
      BY <1>t, <1>n, CursorConstants DEF LagInv, TypeOK, Pending
    <3> QED BY <3>1, <1>t, NextPageIsBlocked DEF TypeOK
  <2>2. UNCHANGED <<rec, new>> /\ pc = "place" /\ pc' # "panicked"
    BY <1>7, <2>1 DEF Place, PlaceNothing, PlaceOnNextPage, RewritePage, PlaceElsewhere,
                      PlaceAtPageStart, PlaceAfterRewrite, PlaceHere, ProgramData,
                      Placing, Underflows
  <2> QED BY <2>2
<1>8. CASE Record
  <2>1. /\ rec' = NextSlot(rec) /\ new' = new
        /\ pc = "record" /\ pc' \in {"prepare", "idle"}
    BY <1>8 DEF Record, RecordMoved, RecordWritten, RecordFlushed
  <2> QED BY <2>1, <1>s, <1>n, <1>k
<1>9. CASE FlashFails
  BY <1>9 DEF FlashFails
<1>10. CASE UNCHANGED vars
  BY <1>10 DEF vars, call
<1> QED BY <1>1, <1>2, <1>3, <1>4, <1>5, <1>6, <1>7, <1>8, <1>9, <1>10 DEF Next, Step

LEMMA WindowInvariant ==
  ASSUME OverflowChecks
  PROVE  Spec => [](IInv /\ WindowInv)
<1>1. Init => IInv /\ WindowInv
  BY InitIInv, CheckedConstants, RingFits
     DEF Init, WindowInv, Open, PanicsOnlyAtWrap
<1>2. IInv /\ WindowInv /\ [Next]_vars => (IInv /\ WindowInv)'
  BY TypeStep, LagStep, RingStep, WindowStep DEF IInv
<1> QED BY <1>1, <1>2, PTL DEF Spec

(* Records are only written inside the window that starts at the first     *)
(* map page (MAPPING_MAX_RANGE, prepare_map).                              *)
THEOREM Window ==
  ASSUME OverflowChecks
  PROVE  Spec => []RecordInWindow
<1>1. IInv /\ WindowInv => RecordInWindow
  BY CheckedConstants DEF IInv, TypeOK, RingInv, WindowInv, Open, RecordInWindow
<1> QED BY <1>1, WindowInvariant, PTL

(* The wrap of the record pages is the only panic: the subtraction in      *)
(* prepare_page_inner is not reached, whatever the padding and the ring.   *)
THEOREM Panics ==
  ASSUME OverflowChecks
  PROVE  Spec => []PanicsOnlyAtWrap
<1>1. IInv /\ WindowInv => PanicsOnlyAtWrap
  BY DEF WindowInv
<1> QED BY <1>1, WindowInvariant, PTL

(* The start of the map only advances, and a new start is recorded only    *)
(* with a record of its window.                                            *)
THEOREM StartAdvances ==
  ASSUME OverflowChecks
  PROVE  Spec => StartAdvancesWithRecords
<1> DEFINE P == /\ new' >= new /\ old' >= old
                /\ old' # old =>
                     /\ pc = "record" /\ who = "client" /\ op = "write"
                     /\ rec.page \in old' .. old' + MAPPING_MAX_RANGE - 1
<1>1. IInv /\ WindowInv /\ [Next]_vars => [P]_vars
  <2> SUFFICES ASSUME IInv, WindowInv, Next PROVE P
    OBVIOUS
  <2>t. TypeOK /\ LagInv
    BY DEF IInv
  <2>1. CASE RecordWritten
    <3>1. rec.page \in new .. new + MAPPING_MAX_RANGE - 1
      BY <2>1, <2>t, CheckedConstants DEF RecordWritten, WindowInv, Open, TypeOK
    <3> QED BY <2>1, <2>t, <3>1 DEF RecordWritten, TypeOK, LagInv
  <2>2. CASE OpenRecordPage
    BY <2>2, <2>t DEF OpenRecordPage, TypeOK
  <2>3. CASE ~RecordWritten /\ ~OpenRecordPage
    <3>1. UNCHANGED <<old, new>>
      BY <2>3 DEF Next, Step, Prepare, Skip, Relocate, Place, Record, Write, Flush,
           KeepRecordPage, RecordPageUnderflows, SkipPadding, SkipDone, MoveEntry,
           MoveRecord, PlaceClient, PlaceNothing, PlaceAtPageStart, PlaceOnNextPage,
           RewritePage, PlaceAfterRewrite, PlaceHere, PlaceElsewhere, ProgramData,
           RecordMoved, RecordFlushed, FlashFails
    <3> QED BY <2>t, <3>1 DEF TypeOK
  <2> QED BY <2>1, <2>2, <2>3
<1> QED BY <1>1, WindowInvariant, PTL DEF Spec, StartAdvancesWithRecords

-------------------------------------------------------------------------------
(* Leaving the padding.                                                    *)

(* The data cursor is in the ring, or just behind its last page.           *)
DataInv == STATE_PAGES <= data.page /\ data.page <= TOTAL_PAGES

LEMMA NextDataPageInRing ==
  ASSUME NEW p \in Nat, STATE_PAGES <= p, old \in Nat, new \in Nat, new < TOTAL_PAGES
  PROVE  /\ next_data_page(p, old, new) \in Nat
         /\ STATE_PAGES <= next_data_page(p, old, new)
         /\ next_data_page(p, old, new) <= TOTAL_PAGES
<1>1. /\ get_last_map_padding_page(new + 1) \in Nat
      /\ STATE_PAGES <= get_last_map_padding_page(new + 1)
      /\ get_last_map_padding_page(new + 1) < TOTAL_PAGES
  BY CheckedConstants, CursorConstants, RingFits DEF get_last_map_padding_page
<1> QED
  BY <1>1, CheckedConstants, CursorConstants, RingFits DEF next_data_page

(* Data is programmed inside the partition only.                           *)
LEMMA ProgramDataInRing ==
  ASSUME TypeOK, DataInv, want > 0, ProgramData
  PROVE  DataInv'
<1>1. CASE data' = data
  BY <1>1 DEF DataInv
<1>2. CASE data' = plus(data, want) /\ ~is_page_overrun(plus(data, want - 1).page)
  <2>1. /\ data.page \in Nat /\ data.off \in 0 .. PAGE_SIZE - 1 /\ want \in 1 .. PAGE_SIZE
    BY CursorConstants DEF TypeOK
  <2>2. data.page < TOTAL_PAGES
    BY <1>2, <2>1, CheckedConstants, CursorConstants DEF plus
  <2>3. data'.page = data.page \/ data'.page = data.page + 1
    BY <1>2, <2>1, CursorConstants DEF plus
  <2> QED
    BY <2>1, <2>2, <2>3, CheckedConstants DEF DataInv
<1> QED
  BY <1>1, <1>2 DEF ProgramData

LEMMA DataStep ==
  ASSUME IInv, WindowInv, DataInv, [Next]_vars
  PROVE  DataInv'
<1>1. TypeOK /\ old \in Nat /\ new \in Nat /\ data.page \in Nat
  BY DEF IInv, TypeOK
<1>2. pc \in {"skip", "place"} => new < TOTAL_PAGES
  BY <1>1, CheckedConstants DEF IInv, TypeOK, WindowInv, RingInv, Open
<1>3. pc \in {"skip", "place"} /\ NextDataPage => DataInv'
  BY <1>1, <1>2, NextDataPageInRing DEF NextDataPage, DataInv
<1>4. CASE SkipPadding
  BY <1>3, <1>4 DEF SkipPadding
<1>5. CASE PlaceAtPageStart \/ PlaceAfterRewrite \/ PlaceHere
  <2>1. want > 0 /\ ProgramData
    BY <1>5 DEF PlaceAtPageStart, PlaceAfterRewrite, PlaceHere
  <2> QED
    BY <1>1, <2>1, ProgramDataInRing
<1>6. CASE PlaceOnNextPage \/ PlaceElsewhere
  <2>1. pc = "place" /\ (NextDataPage \/ data' = data)
    BY <1>6 DEF PlaceOnNextPage, PlaceElsewhere, Placing
  <2> QED
    BY <1>3, <2>1 DEF DataInv
<1>7. ASSUME data' = data PROVE DataInv'
  BY <1>7 DEF DataInv
<1>8. ASSUME NEW s \in Sizes, Write(s) \/ MoveEntry(s) PROVE data' = data
  BY <1>8 DEF Write, MoveEntry
<1>9. CASE \/ Flush \/ Prepare \/ SkipDone \/ MoveRecord \/ PlaceClient \/ PlaceNothing
           \/ RewritePage \/ Record \/ FlashFails \/ UNCHANGED vars
  <2>1. data' = data
    BY <1>9 DEF Flush, Prepare, KeepRecordPage, OpenRecordPage, RecordPageUnderflows,
                SkipDone, MoveRecord, PlaceClient, PlaceNothing, RewritePage, Record,
                RecordMoved, RecordWritten, RecordFlushed, FlashFails, vars
  <2> QED
    BY <1>7, <2>1
<1> QED
  BY <1>4, <1>5, <1>6, <1>7, <1>8, <1>9 DEF Next, Step, Skip, Relocate, Place

(* The padding ends before it begins: the page behind its last one is      *)
(* outside.                                                                *)
LEMMA BehindThePadding ==
  ASSUME PageToSpare, old \in Nat, new \in Nat, old <= new, new - old <= MaxLag,
         new < TOTAL_PAGES
  PROVE  ~page_in_map_padding(get_last_map_padding_page(new + 1), old, new)
<1> DEFINE first == get_first_map_padding_page(old)
           last == get_last_map_padding_page(new)
           behind == get_last_map_padding_page(new + 1)
<1>1. ~page_in_range(behind, first, last)
  BY CheckedConstants, CursorConstants, RingFits
     DEF page_in_range, get_first_map_padding_page, get_last_map_padding_page, PageToSpare
<1> QED
  BY <1>1 DEF page_in_map_padding

(* Inside the padding the walk comes nearer to its end.                    *)
LEMMA WalkAdvances ==
  ASSUME PageToSpare, old \in Nat, new \in Nat, old <= new, new - old <= MaxLag,
         new < TOTAL_PAGES,
         NEW p \in Nat, STATE_PAGES <= p, p <= TOTAL_PAGES, InPadding(p),
         NEW q, q = next_data_page(p, old, new), InPadding(q)
  PROVE  PaddingLeft(q) \in 0 .. PaddingLeft(p) - 1
<1> DEFINE first == get_first_map_padding_page(old)
           last == get_last_map_padding_page(new)
           succ == IF is_page_overrun(p + 1) THEN STATE_PAGES ELSE p + 1
<1>1. q = succ /\ page_in_range(q, first, last) /\ page_in_range(p, first, last)
  BY BehindThePadding DEF next_data_page, InPadding, page_in_map_padding
<1>2. /\ last \in Nat /\ STATE_PAGES <= last /\ last < TOTAL_PAGES
      /\ first \in Int
  BY CheckedConstants, CursorConstants, RingFits
     DEF get_first_map_padding_page, get_last_map_padding_page
<1>3. p # last
  <2> SUFFICES ASSUME p = last PROVE FALSE
    OBVIOUS
  <2>1. succ = get_last_map_padding_page(new + 1)
    BY CheckedConstants, CursorConstants, RingFits DEF get_last_map_padding_page
  <2> QED
    BY <1>1, <2>1, BehindThePadding DEF page_in_map_padding
<1>4. (p <= last /\ q = p + 1 /\ q <= last) \/ (p > last /\ q = p + 1) \/ (p > last /\ q = STATE_PAGES)
  BY <1>1, <1>2, <1>3, CheckedConstants
<1>5. p > last /\ q = p + 1 => q < TOTAL_PAGES \/ q = STATE_PAGES
  BY <1>1, <1>2, CheckedConstants
<1> HIDE DEF first, last, succ
<1>6. /\ PaddingLeft(p) = IF p <= last THEN last - p ELSE last + TOTAL_PAGES - p
      /\ PaddingLeft(q) = IF q <= last THEN last - q ELSE last + TOTAL_PAGES - q
  BY DEF PaddingLeft, last
<1> QED
  BY <1>2, <1>4, <1>5, <1>6, CheckedConstants

(* The loop of prepare_map that leaves the padding (record_paging.rs:38)   *)
(* ends, for every ring that the padding does not fill: each round comes   *)
(* nearer to the end of the padding.  With the fairness of Spec this is    *)
(* PrepareTerminates.                                                      *)
THEOREM SkipsEnd ==
  ASSUME OverflowChecks, PageToSpare
  PROVE  Spec => SkippingEnds
<1> DEFINE P == SkipPadding /\ InPadding(data.page)' =>
                  PaddingLeft(data.page)' \in 0 .. PaddingLeft(data.page) - 1
<1>1. Init => DataInv
  BY CheckedConstants, CursorConstants, RingFits DEF Init, DataInv
<1>2. IInv /\ WindowInv /\ DataInv /\ [Next]_vars => DataInv'
  BY DataStep
<1>3. IInv /\ WindowInv /\ DataInv /\ [Next]_vars => [P]_vars
  <2> SUFFICES ASSUME IInv, WindowInv, DataInv, SkipPadding, InPadding(data.page)'
               PROVE  PaddingLeft(data.page)' \in 0 .. PaddingLeft(data.page) - 1
    OBVIOUS
  <2>1. /\ old \in Nat /\ new \in Nat /\ data.page \in Nat /\ old <= new
        /\ new < TOTAL_PAGES /\ InPadding(data.page) /\ UNCHANGED <<old, new>>
        /\ data'.page = next_data_page(data.page, old, new)
    BY CheckedConstants
       DEF IInv, TypeOK, LagInv, RingInv, WindowInv, Open, SkipPadding, NextDataPage
  <2>2. new - old <= MaxLag
    BY <2>1, CursorConstants DEF IInv, TypeOK, LagInv, SkipPadding, Pending
  <2>3. InPadding(data'.page)
    BY <2>1 DEF InPadding
  <2>4. PaddingLeft(data'.page) \in 0 .. PaddingLeft(data.page) - 1
    BY <2>1, <2>2, <2>3, WalkAdvances DEF DataInv
  <2> QED
    BY <2>1, <2>4 DEF PaddingLeft
<1> QED
  BY <1>1, <1>2, <1>3, WindowInvariant, PTL DEF Spec, SkippingEnds
===============================================================================
