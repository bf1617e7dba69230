------------------------------- MODULE PageCache -------------------------------
(***************************************************************************)
(* The page cache (src/cache.rs) and the calls that use it: reads and      *)
(* writes borrow a page buffer as scratch memory (src/nvs/read.rs,         *)
(* src/nvs/write.rs), and a move of a page loads it and hands out ranges   *)
(* of it to be written elsewhere (load_page and get_overflow_data of       *)
(* src/nvs/common.rs, get_tv_data and write_entry_data of                  *)
(* src/nvs/data_paging.rs).                                                *)
(*                                                                         *)
(*   idle -> read -> idle                                                  *)
(*   idle -> compare -> move -> (entry -> move)* -> idle                   *)
(*                                                                         *)
(* Every buffer that is kept has PAGE_SIZE bytes: shorter ones belong to   *)
(* the entry they were read for.  WRITE_SIZE and READ_SIZE are 1.          *)
(***************************************************************************)
EXTENDS Naturals, FiniteSets

CONSTANTS
  TOTAL_PAGES,
  PAGE_SIZE,
  MAX_COLD_COUNT

ASSUME CacheConstants ==
  /\ TOTAL_PAGES \in Nat \ {0}
  /\ PAGE_SIZE \in Nat \ {0}
  /\ MAX_COLD_COUNT \in Nat \ {0}

VARIABLES
  filled,       \* the cached pages, and how many bytes of each are loaded
  cold,         \* hash_map keys -1, -2, ... of buffers kept for reuse
  cold_count,
  pc,
  op,           \* the call: "write" or "flush"
  moving,       \* pages loaded by this call
  entry,        \* the entry being moved and the ranges to write for it
  error         \* how the last call failed

vars == <<filled, cold, cold_count, pc, op, moving, entry, error>>

Pages == 1 .. TOTAL_PAGES - 1

NoEntry == [page |-> 0, off |-> 0, size |-> 0, end |-> 0, extra |-> 0, owed |-> FALSE]

TypeOK ==
  /\ DOMAIN filled \subseteq Pages
  /\ \A p \in DOMAIN filled : filled[p] \in 1 .. PAGE_SIZE
  /\ cold \subseteq 1 .. MAX_COLD_COUNT
  /\ cold_count \in 0 .. MAX_COLD_COUNT
  /\ pc \in {"idle", "read", "compare", "move", "entry", "panicked"}
  /\ op \in {"write", "flush"}
  /\ moving \subseteq Pages
  /\ entry \in [page : Pages \cup {0}, off : 0 .. PAGE_SIZE - 1,
                size : 0 .. PAGE_SIZE, end : Nat, extra : 0 .. PAGE_SIZE,
                owed : BOOLEAN]
  /\ error \in {"none", "flash", "missing", "unwrap", "length"}

-------------------------------------------------------------------------------
(* The cache.                                                              *)

Uncached == [p \in {} |-> 0]

With(page, n) ==
  [p \in DOMAIN filled \cup {page} |-> IF p = page THEN n ELSE filled[p]]

(* get_data of PageData::Cache(page, .. end) is None.                      *)
Unreadable(page, end) ==
  page \notin DOMAIN filled \/ filled[page] < end \/ PAGE_SIZE < end

(* get_or_alloc finds no buffer behind its count.                          *)
TakePanics == cold_count # 0 /\ cold = {}

(* Mutant: the count is kept.                                              *)
Take_CountKept ==
  IF cold_count = 0
    THEN UNCHANGED <<cold, cold_count>>
    ELSE /\ \E k \in cold : cold' = cold \ {k}
         /\ cold_count' = cold_count

(* get_or_alloc: new memory if the count is 0, else any cold buffer.       *)
Take ==
  IF cold_count = 0
    THEN UNCHANGED <<cold, cold_count>>
    ELSE /\ \E k \in cold : cold' = cold \ {k}
         /\ cold_count' = cold_count - 1

(* return_cold.                                                            *)
Return ==
  IF cold_count >= MAX_COLD_COUNT
    THEN UNCHANGED <<cold, cold_count>>
    ELSE /\ cold_count' = cold_count + 1
         /\ cold' = cold \cup {cold_count + 1}

Buffers == Cardinality(DOMAIN filled) + Cardinality(cold)

(* Mutant: all buffers are kept.                                           *)
Kept_All == Buffers

(* drop_all_pages keeps some of the buffers, cached or cold.               *)
Kept == IF Buffers < MAX_COLD_COUNT THEN Buffers ELSE MAX_COLD_COUNT

DropAllPages ==
  /\ filled' = Uncached
  /\ cold' = 1 .. Kept
  /\ cold_count' = 0

-------------------------------------------------------------------------------
(* Calls.                                                                  *)

(* Nvs::new has an empty cache.  Nvs::init caches the buffer it read the   *)
(* records with and drops it again to have it counted as cold.             *)
Init ==
  /\ filled = Uncached
  /\ cold \in {{}, {1}} /\ cold_count = 0
  /\ pc = "idle" /\ op = "write"
  /\ moving = {} /\ entry = NoEntry
  /\ error = "none"

(* The steps A of a call that needs a buffer; without one it panics.       *)
WithBuffer(A) ==
  IF TakePanics
    THEN /\ pc' = "panicked" /\ error' = "unwrap"
         /\ UNCHANGED <<filled, cold, cold_count, op, moving, entry>>
    ELSE Take /\ A

(* read_key_values_inner of several values that need alignment, and the    *)
(* comparison of write_key_values_inner, take a scratch buffer.            *)
Borrow(step) ==
  /\ pc = "idle"
  /\ WithBuffer(/\ pc' = step /\ op' = "write" /\ error' = "none"
                /\ UNCHANGED <<filled, moving, entry>>)

(* It is given back when the values are read, or found equal, or before    *)
(* they are written.                                                       *)
GiveBack ==
  /\ \/ pc = "read" /\ pc' = "idle"
     \/ pc = "compare" /\ pc' \in {"idle", "move"}
  /\ Return
  /\ UNCHANGED <<filled, op, moving, entry, error>>

(* A forced write, or a flush, starts without.                             *)
Start(call) ==
  /\ pc = "idle"
  /\ pc' = "move" /\ op' = call /\ error' = "none"
  /\ UNCHANGED <<filled, cold, cold_count, moving, entry>>

Ended == moving' = {} /\ UNCHANGED <<op, entry>>

(* Several values that do not fill the write alignment are copied to a     *)
(* scratch buffer of PAGE_SIZE bytes with copy_from_slice, which requires  *)
(* both to have the same length.                                           *)
PadValues ==
  /\ pc = "move" /\ op = "write"
  /\ WithBuffer(/\ pc' = "panicked" /\ error' = "length"
                /\ UNCHANGED <<filled, op, moving, entry>>)

(* The data is written: the cache is dropped.  A flush leaves it.          *)
Finish ==
  /\ pc = "move"
  /\ pc' = "idle"
  /\ IF op = "write" THEN DropAllPages
                     ELSE UNCHANGED <<filled, cold, cold_count>>
  /\ Ended /\ UNCHANGED error

(* An access of the flash fails: the call returns, a buffer it has taken   *)
(* is freed and the cache stays as it is.                                  *)
FlashFails ==
  /\ pc \in {"read", "compare", "move", "entry"}
  /\ pc' = "idle" /\ error' = "flash"
  /\ Ended /\ UNCHANGED <<filled, cold, cold_count>>

-------------------------------------------------------------------------------
(* Moving a page.                                                          *)

(* load_page in move_data_page: nothing, the rest, or all of the page is   *)
(* read; prepare_data_page may move a page while an entry waits.           *)
LoadPage(page) ==
  LET Fill == /\ filled' = With(page, PAGE_SIZE)
              /\ moving' = moving \cup {page}
              /\ UNCHANGED <<pc, op, entry, error>>
  IN  /\ pc \in {"move", "entry"}
      /\ IF page \in DOMAIN filled
           THEN Fill /\ UNCHANGED <<cold, cold_count>>
           ELSE WithBuffer(Fill)

(* A buffer is taken for a page, or the start of one, and reading it fails *)
(* (always behind the last page); the buffer is freed.                     *)
LoadFails(page) ==
  /\ pc \in {"move", "entry"}
  /\ page \notin DOMAIN filled
  /\ ~TakePanics /\ Take
  /\ pc' = "idle" /\ error' = "flash"
  /\ Ended /\ UNCHANGED filled

(* get_overflow_size: the page offset of the next address, but only of an  *)
(* entry that stays on its page.                                           *)
OverflowSize(off, size) == IF off + size >= PAGE_SIZE THEN 0 ELSE off + size

(* Mutant: the loaded part is shortened to what is asked for.              *)
Loaded_Shortened(page, size) == With(page, size)

(* What get_overflow_data leaves of a page that is cached already.         *)
Loaded(page, size) ==
  IF filled[page] >= size THEN filled ELSE With(page, size)

(* get_overflow_data, then A.  A new buffer is only as long as the data it *)
(* is read for and is not cached; a cold one has the length of a page.     *)
Overflow(page, size, A) ==
  IF page \in DOMAIN filled
    THEN filled' = Loaded(page, size) /\ A /\ UNCHANGED <<cold, cold_count>>
    ELSE WithBuffer(
           A /\ filled' = IF cold_count = 0 THEN filled ELSE With(page, size))

Owed(page) == page \notin DOMAIN filled /\ cold_count = 0

(* get_tv_data of an entry of a page being moved: its range of that page,  *)
(* and the start of the next page for the overflow.                        *)
PickEntry(page, off, size) ==
  LET extra == OverflowSize(off, size)
      Picked(owed) ==
        /\ pc' = "entry"
        /\ entry' = [page |-> page, off |-> off, size |-> size,
                     end |-> off + size - extra, extra |-> extra, owed |-> owed]
        /\ UNCHANGED <<op, moving, error>>
  IN  /\ pc = "move" /\ page \in moving
      /\ IF extra = 0
           THEN Picked(FALSE) /\ UNCHANGED <<filled, cold, cold_count>>
           ELSE /\ page + 1 \in Pages
                /\ Overflow(page + 1, extra, Picked(Owed(page + 1)))

(* The same for an entry of a page moved while another entry waits.        *)
PickNested(page, extra) ==
  /\ pc = "entry"
  /\ page \in Pages /\ page - 1 \in moving
  /\ Overflow(page, extra, UNCHANGED <<pc, op, moving, entry, error>>)

(* write_entry_data asks the cache for the ranges again, after             *)
(* prepare_data_page.                                                      *)
Missing ==
  \/ entry.off < entry.end /\ Unreadable(entry.page, entry.end)
  \/ entry.extra > 0 /\ ~entry.owed /\ Unreadable(entry.page + 1, entry.extra)

WriteEntry ==
  /\ pc = "entry"
  /\ ~Missing
  /\ pc' = "move"
  /\ UNCHANGED <<filled, cold, cold_count, op, moving, entry, error>>

(* MissingCacheData.                                                       *)
EntryMissing ==
  /\ pc = "entry"
  /\ Missing
  /\ pc' = "idle" /\ error' = "missing"
  /\ Ended /\ UNCHANGED <<filled, cold, cold_count>>

-------------------------------------------------------------------------------
Next ==
  \/ Borrow("read") \/ Borrow("compare") \/ GiveBack
  \/ Start("write") \/ Start("flush")
  \/ PadValues \/ Finish \/ FlashFails
  \/ \E p \in Pages : LoadPage(p)
  \/ \E p \in 1 .. TOTAL_PAGES : LoadFails(p)
  \/ \E p \in Pages, o \in 0 .. PAGE_SIZE - 1, s \in 1 .. PAGE_SIZE :
       PickEntry(p, o, s)
  \/ \E p \in Pages, n \in 1 .. PAGE_SIZE - 1 : PickNested(p, n)
  \/ WriteEntry \/ EntryMissing

Spec == Init /\ [][Next]_vars
-------------------------------------------------------------------------------
(* Properties.                                                             *)

(* get_or_alloc never unwraps a buffer that is not there, although         *)
(* drop_all_pages keeps buffers it does not count and return_cold then     *)
(* counts one whose key replaces a kept one: the calls return at most one  *)
(* buffer before the next one is taken.                                    *)
NeverUnwraps == error # "unwrap"

(* A range handed out for an entry stays readable until it is written,     *)
(* whatever is loaded in between: the only entry of which write_entry_data *)
(* misses data is one that reaches beyond the end of its page.             *)
MissesOnlyOverflow ==
  error = "missing" => entry.off + entry.size > PAGE_SIZE

-------------------------------------------------------------------------------
(* What a comment says of the cache.  The code does otherwise: it is       *)
(* refuted by a run.                                                       *)

Copied ==
  {<<entry.page, i>> : i \in entry.off .. entry.end - 1}
    \cup {<<entry.page + 1, i>> : i \in 0 .. entry.extra - 1}

Own ==
  {IF i < PAGE_SIZE THEN <<entry.page, i>> ELSE <<entry.page + 1, i - PAGE_SIZE>> :
     i \in entry.off .. entry.off + entry.size - 1}

(* data_paging.rs in move_data_page: "gets data from the cached page -     *)
(* using either another page cache or reading from flash to get any        *)
(* overflow data as well".  A moved entry is a copy of its own bytes.      *)
MoveCopiesEntry == [][WriteEntry => Copied = Own]_vars
===============================================================================
