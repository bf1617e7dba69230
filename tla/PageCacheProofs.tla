---------------------------- MODULE PageCacheProofs ----------------------------
(***************************************************************************)
(* Theorems of PageCache, for every size of the pages and of the store.    *)
(***************************************************************************)
EXTENDS PageCache, FiniteSetTheorems, TLAPS

(* The count is 0 or 1.  It is 0 while a scratch buffer is borrowed, so    *)
(* giving the buffer back makes it 1, with at least that buffer behind it. *)
CountInv ==
  /\ cold_count \in {0, 1}
  /\ cold_count = 1 => cold # {}
  /\ pc \in {"read", "compare"} => cold_count = 0
  /\ NeverUnwraps

(* Loaded pages stay loaded for as long as the call runs.                  *)
MovingInv ==
  \A p \in moving : p \in DOMAIN filled /\ filled[p] = PAGE_SIZE

(* So do the ranges handed out for the entry that waits.                   *)
EntryInv ==
  pc = "entry" =>
    /\ entry.page \in moving
    /\ entry.off \in Nat /\ entry.size \in Nat /\ entry.extra \in Nat
    /\ entry.end = entry.off + entry.size - entry.extra
    /\ entry.extra > 0 => entry.extra < PAGE_SIZE
    /\ entry.extra > 0 /\ ~entry.owed =>
         entry.page + 1 \in DOMAIN filled /\ filled[entry.page + 1] >= entry.extra

FilledInv ==
  /\ filled = [p \in DOMAIN filled |-> filled[p]]
  /\ \A p \in DOMAIN filled : filled[p] \in 0 .. PAGE_SIZE

ErrorInv ==
  /\ error = "missing" => pc = "idle"
  /\ MissesOnlyOverflow

IInv == CountInv /\ FilledInv /\ MovingInv /\ EntryInv /\ ErrorInv

-------------------------------------------------------------------------------
(* get_or_alloc with the count 0 or 1 and a buffer behind it: the buffer   *)
(* is there, and none is counted afterwards.                               *)
LEMMA TakeEmpties ==
  ASSUME CountInv
  PROVE  ~TakePanics /\ (Take => cold_count' = 0)
BY DEF CountInv, TakePanics, Take

LEMMA InitIInv == Init => IInv
BY DEF Init, Uncached, IInv, CountInv, FilledInv, MovingInv, EntryInv, ErrorInv,
       NeverUnwraps, MissesOnlyOverflow, NoEntry

(* The count over a step: one buffer is returned before the next is taken. *)
LEMMA CountStep ==
  ASSUME CountInv, [Next]_vars
  PROVE  CountInv'
<1> USE DEF CountInv, NeverUnwraps
<1>1. ASSUME NEW step \in {"read", "compare"}, Borrow(step) PROVE CountInv'
  BY <1>1, TakeEmpties DEF Borrow, WithBuffer
<1>2. CASE GiveBack
  BY <1>2, CacheConstants DEF GiveBack, Return
<1>3. ASSUME NEW call \in {"write", "flush"}, Start(call) PROVE CountInv'
  BY <1>3 DEF Start
<1>4. CASE PadValues
  BY <1>4, TakeEmpties DEF PadValues, WithBuffer
<1>5. CASE Finish
  BY <1>5 DEF Finish, DropAllPages
<1>6. CASE FlashFails
  BY <1>6 DEF FlashFails
<1>7. ASSUME NEW p \in Pages, LoadPage(p) PROVE CountInv'
  BY <1>7, TakeEmpties DEF LoadPage, WithBuffer
<1>8. ASSUME NEW p \in 1 .. TOTAL_PAGES, LoadFails(p) PROVE CountInv'
  BY <1>8, TakeEmpties DEF LoadFails
<1>9. ASSUME NEW p \in Pages, NEW o \in 0 .. PAGE_SIZE - 1,
             NEW s \in 1 .. PAGE_SIZE, PickEntry(p, o, s)
      PROVE  CountInv'
  BY <1>9, TakeEmpties DEF PickEntry, Overflow, WithBuffer
<1>10. ASSUME NEW p \in Pages, NEW n \in 1 .. PAGE_SIZE - 1, PickNested(p, n)
       PROVE  CountInv'
  BY <1>10, TakeEmpties DEF PickNested, Overflow, WithBuffer
<1>11. CASE WriteEntry
  BY <1>11 DEF WriteEntry
<1>12. CASE EntryMissing
  BY <1>12 DEF EntryMissing
<1>13. CASE UNCHANGED vars
  BY <1>13 DEF vars
<1> QED
  BY <1>1, <1>2, <1>3, <1>4, <1>5, <1>6, <1>7, <1>8, <1>9, <1>10, <1>11,
     <1>12, <1>13 DEF Next
-------------------------------------------------------------------------------
(* What is loaded of a page never shrinks.                                 *)
Grows ==
  \A p \in DOMAIN filled : p \in DOMAIN filled' /\ filled'[p] >= filled[p]

RangesInv == FilledInv /\ MovingInv /\ EntryInv /\ ErrorInv

LEMMA WithGrows ==
  ASSUME FilledInv, NEW page, NEW n \in 0 .. PAGE_SIZE,
         page \in DOMAIN filled => filled[page] <= n,
         filled' = With(page, n)
  PROVE  /\ FilledInv' /\ Grows
         /\ page \in DOMAIN filled' /\ filled'[page] = n
BY CacheConstants DEF FilledInv, Grows, With

LEMMA SameGrows ==
  ASSUME FilledInv, filled' = filled
  PROVE  FilledInv' /\ Grows
BY CacheConstants DEF FilledInv, Grows

(* A page that is loaded and stays as full is still a page being moved.    *)
LEMMA MovingKept ==
  ASSUME MovingInv, FilledInv, FilledInv', Grows, moving' = moving
  PROVE  MovingInv'
BY CacheConstants DEF MovingInv, FilledInv, Grows

(* The ranges of the waiting entry stay readable.                          *)
LEMMA EntryKept ==
  ASSUME EntryInv, FilledInv, FilledInv', Grows, moving \subseteq moving',
         entry' = entry, pc' = pc
  PROVE  EntryInv'
<1> SUFFICES ASSUME pc = "entry" PROVE EntryInv'
  BY DEF EntryInv
<1>1. CASE entry.extra > 0 /\ ~entry.owed
  <2>1. /\ entry.page + 1 \in DOMAIN filled
        /\ filled[entry.page + 1] >= entry.extra
    BY <1>1 DEF EntryInv
  <2>2. /\ entry.page + 1 \in DOMAIN filled'
        /\ filled'[entry.page + 1] >= entry.extra
    BY <2>1, CacheConstants DEF Grows, FilledInv, EntryInv
  <2> QED BY <2>2 DEF EntryInv
<1>2. CASE ~(entry.extra > 0 /\ ~entry.owed)
  BY <1>2 DEF EntryInv
<1> QED BY <1>1, <1>2

(* load_page.                                                              *)
LEMMA LoadStep ==
  ASSUME RangesInv, CountInv, NEW page \in Pages, LoadPage(page)
  PROVE  RangesInv'
<1>1. /\ filled' = With(page, PAGE_SIZE)
      /\ moving' = moving \cup {page}
      /\ pc \in {"move", "entry"}
      /\ UNCHANGED <<pc, entry, error>>
  BY TakeEmpties DEF LoadPage, WithBuffer
<1>2. PAGE_SIZE \in 0 .. PAGE_SIZE /\ (page \in DOMAIN filled => filled[page] <= PAGE_SIZE)
  BY CacheConstants DEF RangesInv, FilledInv
<1>3. FilledInv' /\ Grows /\ page \in DOMAIN filled' /\ filled'[page] = PAGE_SIZE
  BY <1>1, <1>2, WithGrows DEF RangesInv
<1>4. MovingInv'
  BY <1>1, <1>3, CacheConstants DEF MovingInv, RangesInv, FilledInv, Grows
<1>5. EntryInv'
  BY <1>1, <1>3, EntryKept DEF RangesInv
<1>6. ErrorInv'
  BY <1>1 DEF RangesInv, ErrorInv, MissesOnlyOverflow
<1> QED BY <1>3, <1>4, <1>5, <1>6 DEF RangesInv

(* What get_overflow_data leaves of the cache.                             *)
LEMMA OverflowGrows ==
  ASSUME FilledInv, NEW page, NEW n \in 1 .. PAGE_SIZE - 1,
         \/ page \in DOMAIN filled /\ filled' = Loaded(page, n)
         \/ page \notin DOMAIN filled /\ cold_count = 0 /\ filled' = filled
         \/ /\ page \notin DOMAIN filled /\ cold_count # 0
            /\ filled' = With(page, n)
  PROVE  /\ FilledInv' /\ Grows
         /\ ~Owed(page) => page \in DOMAIN filled' /\ filled'[page] >= n
<1>1. n \in 0 .. PAGE_SIZE
  BY CacheConstants
<1>2. CASE filled' = filled
  BY <1>2, SameGrows, CacheConstants DEF Owed, Loaded, FilledInv, With
<1>3. CASE filled' = With(page, n) /\ (page \in DOMAIN filled => filled[page] <= n)
  BY <1>1, <1>3, WithGrows
<1>4. page \in DOMAIN filled => filled[page] \in Nat
  BY CacheConstants DEF FilledInv
<1> QED BY <1>1, <1>2, <1>3, <1>4, CacheConstants DEF Loaded

(* get_tv_data.                                                            *)
LEMMA PickStep ==
  ASSUME RangesInv, CountInv, NEW page \in Pages,
         NEW off \in 0 .. PAGE_SIZE - 1, NEW size \in 1 .. PAGE_SIZE,
         PickEntry(page, off, size)
  PROVE  RangesInv'
<1> DEFINE extra == OverflowSize(off, size)
<1>1. extra \in 0 .. PAGE_SIZE - 1
  BY CacheConstants DEF OverflowSize
<1>2. /\ pc = "move" /\ page \in moving /\ pc' = "entry"
      /\ UNCHANGED <<moving, error>>
      /\ entry'.page = page /\ entry'.off = off /\ entry'.size = size
      /\ entry'.extra = extra /\ entry'.end = off + size - extra
      /\ extra # 0 => entry'.owed = Owed(page + 1)
  BY TakeEmpties DEF PickEntry, Overflow, WithBuffer
<1>3. \/ extra = 0 /\ filled' = filled
      \/ extra # 0 /\ page + 1 \in DOMAIN filled /\ filled' = Loaded(page + 1, extra)
      \/ /\ extra # 0 /\ page + 1 \notin DOMAIN filled
         /\ filled' = IF cold_count = 0 THEN filled ELSE With(page + 1, extra)
  BY TakeEmpties DEF PickEntry, Overflow, WithBuffer
<1>4. /\ FilledInv' /\ Grows
      /\ extra # 0 /\ ~Owed(page + 1) =>
           page + 1 \in DOMAIN filled' /\ filled'[page + 1] >= extra
  BY <1>1, <1>3, OverflowGrows, SameGrows, CacheConstants DEF RangesInv
<1>5. MovingInv'
  BY <1>2, <1>4, MovingKept DEF RangesInv
<1>6. EntryInv'
  BY <1>1, <1>2, <1>4, CacheConstants DEF EntryInv
<1>7. ErrorInv'
  BY <1>2 DEF RangesInv, ErrorInv, MissesOnlyOverflow
<1> QED BY <1>4, <1>5, <1>6, <1>7 DEF RangesInv

LEMMA NestedStep ==
  ASSUME RangesInv, CountInv, NEW page \in Pages,
         NEW n \in 1 .. PAGE_SIZE - 1, PickNested(page, n)
  PROVE  RangesInv'
<1>1. UNCHANGED <<pc, moving, entry, error>>
  BY TakeEmpties DEF PickNested, Overflow, WithBuffer
<1>2. \/ page \in DOMAIN filled /\ filled' = Loaded(page, n)
      \/ /\ page \notin DOMAIN filled
         /\ filled' = IF cold_count = 0 THEN filled ELSE With(page, n)
  BY TakeEmpties DEF PickNested, Overflow, WithBuffer
<1>3. FilledInv' /\ Grows
  BY <1>2, OverflowGrows DEF RangesInv
<1>4. MovingInv' /\ EntryInv'
  BY <1>1, <1>3, MovingKept, EntryKept DEF RangesInv
<1>5. ErrorInv'
  BY <1>1 DEF RangesInv, ErrorInv, MissesOnlyOverflow
<1> QED BY <1>3, <1>4, <1>5 DEF RangesInv

(* write_entry_data finds its data, unless it asks for bytes behind the    *)
(* end of the page.                                                        *)
LEMMA EntryReadable ==
  ASSUME RangesInv, pc = "entry", Missing
  PROVE  entry.off + entry.size > PAGE_SIZE
<1>1. entry.page \in DOMAIN filled /\ filled[entry.page] = PAGE_SIZE
  BY DEF RangesInv, EntryInv, MovingInv
<1>2. ~(entry.extra > 0 /\ ~entry.owed /\ Unreadable(entry.page + 1, entry.extra))
  BY CacheConstants DEF RangesInv, EntryInv, FilledInv, Unreadable
<1>3. entry.off < entry.end /\ PAGE_SIZE < entry.end
  BY <1>1, <1>2, CacheConstants DEF Missing, Unreadable, RangesInv, EntryInv
<1> QED BY <1>3, CacheConstants DEF RangesInv, EntryInv

LEMMA RangesStep ==
  ASSUME RangesInv, CountInv, [Next]_vars
  PROVE  RangesInv'
<1> USE DEF RangesInv, FilledInv, MovingInv, EntryInv, ErrorInv, MissesOnlyOverflow
<1>1. ASSUME NEW step \in {"read", "compare"}, Borrow(step) PROVE RangesInv'
  BY <1>1, TakeEmpties DEF Borrow, WithBuffer
<1>2. CASE GiveBack
  BY <1>2 DEF GiveBack
<1>3. ASSUME NEW call \in {"write", "flush"}, Start(call) PROVE RangesInv'
  BY <1>3 DEF Start
<1>4. CASE PadValues
  BY <1>4, TakeEmpties DEF PadValues, WithBuffer
<1>5. CASE Finish
  <2>1. FilledInv'
    BY <1>5 DEF Finish, DropAllPages, Uncached
  <2> QED BY <1>5, <2>1 DEF Finish, Ended
<1>6. CASE FlashFails
  BY <1>6 DEF FlashFails, Ended
<1>7. ASSUME NEW p \in 1 .. TOTAL_PAGES, LoadFails(p) PROVE RangesInv'
  BY <1>7 DEF LoadFails, Ended
<1>8. CASE WriteEntry
  BY <1>8 DEF WriteEntry
<1>9. CASE EntryMissing
  <2>1. entry.off + entry.size > PAGE_SIZE
    BY <1>9, EntryReadable DEF EntryMissing
  <2> QED BY <1>9, <2>1 DEF EntryMissing, Ended
<1>10. CASE UNCHANGED vars
  BY <1>10 DEF vars
<1> QED
  BY <1>1, <1>2, <1>3, <1>4, <1>5, <1>6, <1>7, <1>8, <1>9, <1>10, LoadStep,
     PickStep, NestedStep DEF Next

-------------------------------------------------------------------------------
(* Types.                                                                  *)

LEMMA KeptType ==
  ASSUME TypeOK
  PROVE  Kept \in 0 .. MAX_COLD_COUNT
<1>1. IsFiniteSet(Pages) /\ IsFiniteSet(1 .. MAX_COLD_COUNT)
  BY FS_Interval, CacheConstants DEF Pages
<1>2. IsFiniteSet(DOMAIN filled) /\ IsFiniteSet(cold)
  BY <1>1, FS_Subset DEF TypeOK
<1>3. Buffers \in Nat
  BY <1>2, FS_CardinalityType DEF Buffers
<1> QED BY <1>3, CacheConstants DEF Kept

ColdOK == cold \subseteq 1 .. MAX_COLD_COUNT /\ cold_count \in 0 .. MAX_COLD_COUNT

FilledOK ==
  DOMAIN filled \subseteq Pages /\ \A p \in DOMAIN filled : filled[p] \in 1 .. PAGE_SIZE

LEMMA TakeType ==
  ASSUME ColdOK, CountInv, Take
  PROVE  ColdOK'
<1>1. cold' \subseteq cold
  BY DEF Take
<1>2. cold_count' = 0
  BY TakeEmpties
<1>3. 0 \in 0 .. MAX_COLD_COUNT
  BY CacheConstants
<1> QED BY <1>1, <1>2, <1>3, Zenon DEF ColdOK

LEMMA WithType ==
  ASSUME FilledOK, NEW page \in Pages, NEW n \in 1 .. PAGE_SIZE, filled' = With(page, n)
  PROVE  FilledOK'
BY DEF FilledOK, With

(* What a step of get_overflow_data does to the cache.                     *)
LEMMA OverflowType ==
  ASSUME TypeOK, CountInv, NEW page \in Pages, NEW n \in 1 .. PAGE_SIZE - 1,
         NEW A, Overflow(page, n, A)
  PROVE  FilledOK' /\ ColdOK' /\ A
<1> USE DEF TypeOK, FilledOK
<1>1. n \in 1 .. PAGE_SIZE
  BY CacheConstants
<1>2. CASE page \in DOMAIN filled
  <2>1. filled' = Loaded(page, n) /\ A /\ UNCHANGED <<cold, cold_count>>
    BY <1>2 DEF Overflow
  <2>2. FilledOK'
    BY <1>1, <2>1, WithType DEF Loaded
  <2> QED BY <2>1, <2>2 DEF ColdOK
<1>3. CASE page \notin DOMAIN filled
  <2>1. Take /\ A /\ filled' = IF cold_count = 0 THEN filled ELSE With(page, n)
    BY <1>3, TakeEmpties DEF Overflow, WithBuffer
  <2>2. FilledOK'
    BY <1>1, <2>1, WithType
  <2>3. ColdOK'
    BY <2>1, TakeType DEF ColdOK
  <2> QED BY <2>1, <2>2, <2>3
<1> QED BY <1>2, <1>3

LEMMA TypeStep ==
  ASSUME TypeOK, CountInv, [Next]_vars
  PROVE  TypeOK'
<1>0. ColdOK /\ FilledOK
  BY DEF TypeOK, ColdOK, FilledOK
<1> USE DEF TypeOK
<1>1. ASSUME NEW step \in {"read", "compare"}, Borrow(step) PROVE TypeOK'
  <2>1. Take /\ pc' = step /\ op' = "write" /\ error' = "none" /\ UNCHANGED <<filled, moving, entry>>
    BY <1>1, TakeEmpties DEF Borrow, WithBuffer
  <2> QED BY <1>0, <2>1, TakeType DEF ColdOK
<1>2. CASE GiveBack
  <2>1. cold_count = 0 /\ 1 \in 0 .. MAX_COLD_COUNT /\ 1 \in 1 .. MAX_COLD_COUNT /\ 0 + 1 = 1
    BY <1>2, CacheConstants DEF GiveBack, CountInv
  <2>2. \/ UNCHANGED <<cold, cold_count>>
        \/ cold_count' = 1 /\ cold' = cold \cup {1}
    BY <1>2, <2>1 DEF GiveBack, Return
  <2>3. ColdOK'
    BY <1>0, <2>1, <2>2, Zenon DEF ColdOK
  <2> QED BY <1>2, <2>3 DEF GiveBack, ColdOK
<1>3. ASSUME NEW call \in {"write", "flush"}, Start(call) PROVE TypeOK'
  BY <1>3 DEF Start
<1>4. CASE PadValues
  <2>1. Take /\ pc' = "panicked" /\ error' = "length" /\ UNCHANGED <<filled, op, moving, entry>>
    BY <1>4, TakeEmpties DEF PadValues, WithBuffer
  <2> QED BY <1>0, <2>1, TakeType DEF ColdOK
<1>5. CASE Finish
  <2>1. CASE op = "write"
    <3>1. filled' = Uncached /\ cold' = 1 .. Kept /\ cold_count' = 0
      BY <1>5, <2>1 DEF Finish, DropAllPages
    <3>2. cold' \subseteq 1 .. MAX_COLD_COUNT /\ cold_count' \in 0 .. MAX_COLD_COUNT
      BY <3>1, KeptType, CacheConstants
    <3>3. FilledOK'
      BY <3>1 DEF FilledOK, Uncached
    <3> QED BY <1>5, <3>2, <3>3 DEF Finish, Ended, FilledOK
  <2>2. CASE op # "write"
    BY <1>5, <2>2 DEF Finish, Ended
  <2> QED BY <2>1, <2>2
<1>6. CASE FlashFails
  BY <1>6 DEF FlashFails, Ended
<1>7. ASSUME NEW p \in Pages, LoadPage(p) PROVE TypeOK'
  <2>1. /\ filled' = With(p, PAGE_SIZE) /\ moving' = moving \cup {p}
        /\ UNCHANGED <<pc, op, entry, error>>
        /\ Take \/ UNCHANGED <<cold, cold_count>>
    BY <1>7, TakeEmpties DEF LoadPage, WithBuffer
  <2>2. FilledOK'
    BY <1>0, <2>1, WithType, CacheConstants
  <2>3. ColdOK'
    BY <1>0, <2>1, TakeType DEF ColdOK
  <2> QED BY <2>1, <2>2, <2>3 DEF FilledOK, ColdOK
<1>8. ASSUME NEW p \in 1 .. TOTAL_PAGES, LoadFails(p) PROVE TypeOK'
  <2>1. ColdOK'
    BY <1>0, <1>8, TakeType DEF LoadFails
  <2> QED BY <1>8, <2>1 DEF LoadFails, Ended, ColdOK
<1>9. ASSUME NEW p \in Pages, NEW o \in 0 .. PAGE_SIZE - 1,
             NEW s \in 1 .. PAGE_SIZE, PickEntry(p, o, s)
      PROVE  TypeOK'
  <2> DEFINE extra == OverflowSize(o, s)
             Picked(owed) ==
               /\ pc' = "entry"
               /\ entry' = [page |-> p, off |-> o, size |-> s,
                            end |-> o + s - extra, extra |-> extra, owed |-> owed]
               /\ UNCHANGED <<op, moving, error>>
  <2>1. extra \in 0 .. PAGE_SIZE - 1 /\ o + s - extra \in Nat
    BY CacheConstants DEF OverflowSize
  <2>2. \E owed \in BOOLEAN : Picked(owed) /\ FilledOK' /\ ColdOK'
    <3>1. CASE extra = 0
      <4>1. Picked(FALSE) /\ UNCHANGED <<filled, cold, cold_count>>
        BY <1>9, <3>1 DEF PickEntry
      <4> QED BY <1>0, <4>1 DEF FilledOK, ColdOK
    <3>2. CASE extra # 0
      <4>1. p + 1 \in Pages /\ Overflow(p + 1, extra, Picked(Owed(p + 1)))
        BY <1>9, <3>2 DEF PickEntry
      <4>2. extra \in 1 .. PAGE_SIZE - 1
        BY <2>1, <3>2
      <4> HIDE DEF extra, Picked
      <4>3. Picked(Owed(p + 1)) /\ FilledOK' /\ ColdOK'
        BY <4>1, <4>2, OverflowType
      <4>4. Owed(p + 1) \in BOOLEAN
        BY DEF Owed
      <4> QED BY <4>3, <4>4
    <3> QED BY <3>1, <3>2
  <2>3. PICK owed \in BOOLEAN : Picked(owed) /\ FilledOK' /\ ColdOK'
    BY <2>2
  <2>4. entry' \in [page : Pages \cup {0}, off : 0 .. PAGE_SIZE - 1,
                    size : 0 .. PAGE_SIZE, end : Nat, extra : 0 .. PAGE_SIZE,
                    owed : BOOLEAN]
    BY <2>1, <2>3, CacheConstants
  <2> QED BY <2>3, <2>4 DEF FilledOK, ColdOK
<1>10. ASSUME NEW p \in Pages, NEW n \in 1 .. PAGE_SIZE - 1, PickNested(p, n)
       PROVE  TypeOK'
  <2>1. FilledOK' /\ ColdOK' /\ UNCHANGED <<pc, op, moving, entry, error>>
    BY <1>10, OverflowType DEF PickNested
  <2> QED BY <2>1 DEF FilledOK, ColdOK
<1>11. CASE WriteEntry
  BY <1>11 DEF WriteEntry
<1>12. CASE EntryMissing
  BY <1>12 DEF EntryMissing, Ended
<1>13. CASE UNCHANGED vars
  BY <1>13 DEF vars
<1> QED
  BY <1>1, <1>2, <1>3, <1>4, <1>5, <1>6, <1>7, <1>8, <1>9, <1>10, <1>11,
     <1>12, <1>13 DEF Next

-------------------------------------------------------------------------------
THEOREM IInvariant == Spec => []IInv
<1>1. IInv /\ [Next]_vars => IInv'
  BY CountStep, RangesStep DEF IInv, RangesInv
<1> QED BY InitIInv, <1>1, PTL DEF Spec

(* get_or_alloc never unwraps a missing buffer (NeverUnwraps), although    *)
(* drop_all_pages resets the count and return_cold may replace a buffer:   *)
(* the calls never have two buffers to give back.                          *)
THEOREM CountSuffices == Spec => []NeverUnwraps
<1>1. IInv => NeverUnwraps
  BY DEF IInv, CountInv
<1> QED BY IInvariant, <1>1, PTL

(* write_entry_data misses data of no entry that lies within its page      *)
(* (MissesOnlyOverflow), whatever pages are loaded, and however partly,    *)
(* between get_tv_data and the write.                                      *)
THEOREM RangesStayReadable == Spec => []MissesOnlyOverflow
<1>1. IInv => MissesOnlyOverflow
  BY DEF IInv, ErrorInv
<1> QED BY IInvariant, <1>1, PTL

(* The loaded lengths, the kept buffers and the count stay in their ranges *)
(* (TypeOK): drop_all_pages never keeps more buffers than may be kept.     *)
THEOREM TypeCorrect == Spec => []TypeOK
<1>1. Init => TypeOK
  BY CacheConstants DEF Init, TypeOK, Uncached, NoEntry
<1>2. TypeOK /\ IInv /\ [Next]_vars => TypeOK'
  BY TypeStep DEF IInv
<1> QED BY <1>1, <1>2, IInvariant, PTL DEF Spec
===============================================================================
