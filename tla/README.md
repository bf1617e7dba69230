# WLR in TLA+

WLR is a `no_std` Rust library for wear-levelled key-value storage on NOR
flash. This directory holds TLA+ models of it, the TLC configurations that check
them, and proofs checked by TLAPS. `PROJECT.json` lists the runs, the mutants
that each property is tested against, the source lines behind every definition,
the hazards of the code, the findings and the theorems.

All source paths below are relative to `src/src/`.

## The system

A partition of `TOTAL_PAGES` pages is split into `STATE_PAGES` state pages and a
ring of the others. In the ring the *map*, a window of at most
`MAPPING_MAX_RANGE` pages that hold records, advances page by page; a record
says where the data of a key is. Around the map a padding is kept free of data.
New data goes to a data cursor somewhere else in the ring. A page the map takes
over has its entries moved first; a page the map leaves has its records moved.

| Component | State | Operations | Talks to |
|---|---|---|---|
| `state.rs` journal | first map page (`value`, `tmp_value`), `synced`, slot address; words on the state pages | `init`, `new`, `set_tmp_value`, `shift_tmp_to_value`, `sync_value` | flash; `prepare_map` sets the temporary value, a write shifts it, `flush` syncs it; `write_record_inner` clears a record at address 0, on its pages |
| `nvs/page_address.rs` cursors | next data and record address, address of the last data page record, `update_address_record` | moved by the paging functions | journal, key map |
| `nvs/record_paging.rs` | none of its own | `prepare_map`, `move_map_page`, `write_record` | recursion through `move_data_page` |
| `nvs/data_paging.rs` | none of its own | `prepare_data_page`, `move_data_page`, `write_entry_data` | calls `prepare_map` after each moved entry |
| `nvs/common.rs` | none of its own | page arithmetic, `load_page`, `get_overflow_data` | cache, flash |
| `key_map.rs`, `key_map/iter.rs` | key table, page table, list | `add_value`, `update_record`, `initialise`, iterators, free-space queries | list |
| `linked_list.rs` | array of linked nodes, first, last, len | `insert_sorted`, `update_value`, walks | - |
| `cache.rs` | pages in memory, cold buffers and their count | `get_or_alloc`, `return_cold`, `cache_page`, `drop_all_pages` | read, write, moves |
| `nvs/write.rs`, `nvs/read.rs` | `write_queue` | write, flush, read, start and end of a queue | all of the above |
| `nvs/mod.rs` | owner of everything | `new`, `init`, `check_consts` | all of the above |
| `nvs/ignore.rs`, `write_queue.rs` | borrowed closures, pending writes | filters for moves | key map |

### What is hard in it

The library is sequential, so there are no threads. What a test hardly reaches:

- calls re-enter themselves: `prepare_map` moves entries, which prepares data
  pages, which moves entries, each time writing records and moving the very
  cursors and tables the outer call has read;
- iterators walk a list that each step of the loop updates;
- any access of the flash may fail or be the last one before a power loss, and
  the call returns with whatever it has changed so far;
- every address lives on a ring: the window, its padding, the record pages, the
  journal and the data cursor all wrap, at different moments;
- zero and all-ones words have a meaning of their own;
- u32 arithmetic underflows: a panic in a dev build, a huge number in a release.

The hazards with their lines are in `PROJECT.json`.

### What makes each component correct

- Cursors: records are written inside the window that a restart reads; nothing
  panics or loops; the recorded start moves forward with the records.
- Journal: the last complete word is found after any failure or power loss until
  the next is begun, and the next slot can always be programmed.
- Key map: a key leads to its own entry; indices in tables, links and iterators
  are in the list; the page table lists pages that hold data.
- Cache: a buffer that is counted is there; a range that was handed out stays
  readable until it is written; what is copied is the entry.
- Records: the newest record of a key is on the flash at all times (the code fails
  here: placing data may erase it, and nothing else should), no older one
  lies behind it, and a page the map has left holds none.
- Data: what an erased page held is in the cache until it is written elsewhere,
  whatever fails in between, and a copy in the cache is never an old one.
- Write queue: a drain that succeeds has stored everything it was given,
  whatever its writes move and erase for each other.

## The modules

| Module | Kind | Models |
|---|---|---|
| `MapPadding` | operators | `nvs/common.rs` page arithmetic, `next_data_page` |
| `MapWindow` | state machine | the cursors and the window in a write and a flush |
| `StateJournal` | state machine | `state.rs` on a flash with failures and power losses |
| `DurableValue` | abstract specification | what the journal promises |
| `LinkedList` | operators | `linked_list.rs` |
| `KeyMap` | state machine | `key_map.rs` and its iterators, driven by `Nvs` |
| `PageCache` | state machine | `cache.rs` and the calls that borrow and move buffers |
| `RecordLog` | state machine | the slots of the map pages: `prepare_map`, `move_map_page`, `write_record_inner`, and the scan of `Nvs::init` |
| `DataPlacement` | composition | `MapWindow` with the bytes each key's data is on |
| `DataPages` | state machine | the data on flash and in the cache over moves, failures and retries |
| `KeyStore` | abstract specification | what the store promises of the values of its keys |
| `WriteQueue` | composition | the write queue and its drain, on the calls of `DataPages` |
| `MCWriteQueue` | instance | values, the erased value and the symmetry for TLC |
| `MapWindowProofs`, `StateJournalProofs`, `KeyMapProofs`, `PageCacheProofs`, `RecordLogProofs`, `DataPagesProofs`, `WriteQueueProofs` | proofs | theorems of the state machines they are named for |
| `RecordDepthProofs` | proofs | how many pages a call of `RecordLog` opens and how deep it recurses |

`DataPlacement` extends `MapWindow`, `WriteQueue` extends `DataPages`, `KeyMap`
uses `LinkedList`, `MapWindow` uses `MapPadding`.

Every other state machine is its own instance for TLC: its CONSTANTS are numbers
and small sets, so the `.cfg` files give them values directly. The values of
`WriteQueue` are sequences, which `MCWriteQueue` defines.

### MapWindow

Variables `rec`, `data`, `update` are `PageAddresses`; `old` and `new` are
`State::value` and `State::tmp_value`. `pc` is where the call is:

| pc | code |
|---|---|
| `prepare` | `prepare_map` up to the decision to shift the window |
| `skip` | its `while page_in_map_padding` loop, one `next_data_page` per step |
| `ready` | the record page is erased; entries and records may have to move |
| `place` | `prepare_data_page`, one `prepare_page_inner` per step |
| `record` | `write_record_inner` and what the caller does behind it |

The recursion is a loop: after a relocated entry or record the code calls
`prepare_map` again, which is `RecordMoved`. The model does not know the contents
of pages. With `Relocation = TRUE` the number of entries to move (at most
`MaxMoves` in a call), their sizes and whether a page is worth rewriting are
choices; with `FALSE` every page is free. `prepare_page_inner` looks at the *record* page
(`data_paging.rs:59`), and so does the model.

`OverflowChecks` chooses the profile: a dev build panics on underflow, in a
release build the difference wraps. `size` is in bytes and `WRITE_SIZE` is 1.

Assumptions beyond `check_consts` (`RingFits`): the ring holds the padding of a map in the
middle of a move, and `STATE_PAGES <= MAPPING_MAX_RANGE`, because `Nvs::new`
records start 0 while the records begin behind the state pages. The constants of
the repository's test satisfy both.

`SkippingEnds` and its theorem need one page more (`PageToSpare`): where the padding of a
map in the middle of a move fills the ring exactly, the `while` loop of `prepare_map` goes round
for ever. With the ring of `RingFits` alone (10 pages, one record per page, the window shifted by
four pages since the last complete write) TLC finds `PrepareTerminates` violated.

### StateJournal

A word is the set of its one bits. Programming intersects, erasing sets all. A
failing operation changes nothing; a power loss may stop the programming of a
word with any of its bits still to be cleared (`TornWrite`); the erase of a page
is atomic. `promised` is a history variable: the word of the last complete `new`
or `sync_value`, empty from the start of the next one. It is the abstract
`stored` of `DurableValue`, and the refinement mapping is the three lines of
`Durable`. The value is opaque: any word may be set at any time.

`Nvs::new` and `State::new` start from 0, as `mod.rs:192` does. The journal is not alone on its
pages: while the recorded start is 0 and the map shifts for the first time, page 0
counts as a page the map has left (`is_in_old_map_page`), and the "old" record of a key that has
none, at address 0, is cleared there (`record_paging.rs:121`). `ClearNoRecord` is this write, as often as new
keys or flushes make it, and `TornClear` the same cut short. `RECORD_SLOTS` is the number of journal slots a
record covers: a record is 8 bytes and a slot 4, both rounded up to `WRITE_SIZE`, so 2 for a
`WRITE_SIZE` of 1, 2 or 4 (the repository's test has 4), and 1 from 8 on. With 1 the slot is the one that holds the
0, and nothing is lost; with 2 the next slot is zeroed, and `StateJournal_shared` shows `sync_value`
return `Ok` with 0 stored. The journal's promises, in the run and in the proofs, are therefore about
`RECORD_SLOTS = 1`; `NextSlotsErased` holds with either, but what it is for is lost.

`promised` is empty between `state.rs:66` and `state.rs:82`: the old word is zero and the new one not there yet.
Power lost in between loses the start of the map, and no property says otherwise.

`check_consts` accepts `STATE_PAGES = 1`. With one page the page that is
erased is the one that holds the zeroed slot, and both `NextSlotsErased` and
`NewValueWritten` fail when a power loss meets the wrap of the ring. The runs and
the theorems therefore have two pages or more.

### KeyMap and LinkedList

`LinkedList` holds the list operations as operators on a record `[data, first,
last, len]`; the walks are quantified over paths instead of recursive, so they can be
used in proofs. Each keeps what the code does: `insert_sorted_index` shadows
its parameter (`linked_list.rs:222`), `update_value` does nothing for one node.
`InsertPanics` is the access of `data[0xFFFF]`.

`KeyMap` has two phases, as `Nvs` has: `Load*` then `Initialise` (`Nvs::init`), or an
empty `Initialise` (`Nvs::new`); then writes, moves and queries. A move is split at every
iteration of `PageValueIter` (`MoveBegin`, `MoveNext`, `MoveEnd`), so `update_record` meets a
live iterator. `MoveNext` may leave the entry where it is: that covers an
ignored key and an overflow entry. An operation that does not return sets `fault`,
which ends the behaviour: a panic by index, unwrap, underflow, or an
endless loop (`"spins"`).

Inputs: an address is a page and offset, data fits the partition (a
write beyond it fails before the map is touched), and new data does not overlap the
entry the list holds for another key (`Apart`), which is what the data cursor is for.
Nested moves are not nested here: the index has no state that a move on an outer level would
change besides the cursor.

### PageCache

`filled` and `cold` are the positive and negative keys of `hash_map`. `pc` is `read` or
`compare` while a scratch buffer is borrowed, `move` inside a write or flush and
`entry` between `get_tv_data` and `write_entry_data`; while an entry waits, other pages may be
loaded and other entries picked, as the recursion does. `PadValues` is
`write.rs:143`: `copy_from_slice` of a page-long buffer and a shorter value panics,
so a multi-value write whose size does not fill `WRITE_SIZE` never returns. Buffers
allocated shorter than a page belong to their entry and are not kept.

### RecordLog

A slot of a map page is erased, zero, a record of a key, the record of the data
page that `flush` writes, or `Mixed`, programmed twice. `stack` is the recursion:
one frame per `prepare_map` in progress, with the page it has opened (`page`), the
entries `move_data_page` still has to move off it (`todo`), the page the map leaves (`back`) and
whether `move_map_page` has reached it (`records`).

| pc | code |
|---|---|
| `prepare` | `prepare_map`: keep the page (`KeepRecordPage`) or open the next (`OpenRecordPage`) |
| `erase` | `erase_page`, directly or in `move_data_page` |
| `loop` | the loops of `move_data_page` and `move_map_page`, or the caller behind `prepare_map` |
| `place` | `prepare_data_page`: the cursor stays (`PlaceData`), the page of the next record is erased as a new one (`PlaceDataOnNewPage`, `data_paging.rs:84`), erased and its entries moved (`RewriteRecordPage`, `data_paging.rs:105`), or looked at for ever (`PlaceSpins`) |
| `spins` | the loop of `key_map.rs:296` or of `data_paging.rs:101`; nothing leaves it |
| `record` | the record is programmed |
| `zero` | the old one is cleared, the cursor and the index follow; what is cleared at address 0 is on the state pages (`StateJournal`, `ClearNoRecord`) |

`FlashFails` and `ZeroFails` return from every frame at once, as `?` does. Two
history variables tell apart what failures leave: `damage`, the slots of records whose old one could not
be cleared, so that the cursor stayed on them, and `behind`, the records earlier calls
have stranded. `Init` leaves the pages full of `Mixed`: nothing is known of a
page before its erase.

`RecordsIntact`, that every key written has its record on the flash, is refuted without a failure:
`prepare_page_inner` looks at the page of the next record and erases it as a "brand new empty page" when no entry is on
it, with the records written so far (`RecordLog_intact`). What holds is that nothing else does so:
`OnlyPlacingLosesRecords` names the two erases of `data_paging.rs` and the record that is programmed over another behind
a failed clear, and excludes the moves, shifts and clears of `record_paging.rs`.

A frame of `RewriteRecordPage` is of a page with records: it has room for fewer than a page
that was opened, which is its `slot`. In the code the branch is reached with entries on the record page, which
earlier failed calls have left there; the model takes it as a choice, as it does the entries on an opened page.
A rewrite inside a move is left out: the pages opened by the call hold no entry any more when data is placed.

`RestartFindsRecords` compares the index with what the scan of `Nvs::init` finds
from the recorded start. It is refuted. `WindowHoldsRecords` shows by how little: the start a write settles on
has every record within `MAPPING_MAX_RANGE` pages, and the scan reads one fewer.

### DataPlacement

The cursors of `MapWindow` do not know keys. `DataPlacement` adds the key of the
call and the bytes each key's entry is on, and asks whether two keys share
bytes. They do (`data_paging.rs:121`).

### DataPages

An entry has a page (`at`) and what the flash reads there (`stored`: a value, or
`Gone` behind an erase). `cache` holds a page as it was loaded, for all keys.
`stack` is the recursion of `move_data_page`; `who`, `copy` and `dest` are the
entry being placed. A call is made with the set of keys it ignores: its own, or
those the queue's filter finds.

The two ways in which the code knowingly gives an entry up are history variables, and
`DataKept` speaks of the other keys:

- `torn`: the call ignores a key, erases the page of its entry, and fails before
  it writes the new one. The key's *old* value is gone (the cache may have it, nothing
  reads it).
- `lost`: the call fails behind the first record on the opened page, so the next
  call does not open that page again, and the entries not moved yet are never moved.
  Before that record the next call takes the move up from the cached page.

`KeyStore` is what this amounts to for a client, with the histories hidden: each key has a value, a
write takes effect in one step, a call that succeeds may damage only the keys it was told not to move
and one that fails any, and a damaged key promises nothing until it is written. In the
refinement (`Store`) the value of a key is what the flash reads, or the cached copy while
the entry is erased, so `ImplementsKeyStore` says that at no step another value than the last one
written could be recovered. `Safe` are the keys `kept`: those that are neither torn nor
lost, nor erased and ignored by the call in progress.

`PlaceSpins` is the endless loop of `key_map.rs:296` and of `Repeat` in
`prepare_data_page`, as in `RecordLog`; nothing leaves it.

### WriteQueue

`home` says where the table of pending writes is: `store` (`write_queue` is `Some`),
`client`, `draining`, or `gone` (`None` for ever: the client dropped it, or a write
of the drain failed). The drain takes keys in any order. Its writes run the
actions of `DataPages`; `EraseForces` and `FrameForces` are `ErasePage` and
`FrameDone` with what the filter does besides (`clear` sets `force`).

The filter of `drain_ignore` looks into the table being drained through a raw
pointer. What it finds is undefined behaviour; `DrainWrite` follows both outcomes a build
can produce: the keys still queued, or none (hashbrown's `drain` takes the table out of
the map, so in the current build the filter finds nothing).

A write that is not forced reads as many bytes as the new value has, without a check of
the size, and compares them (`Same`, `SameByChance`). So a value that is the front of the
stored one is not stored, and the longer value stays. `DrainedReadsBack`
claims no more than that. A write of an empty value does nothing and is left out.

The client and direct calls of the store may interleave while the queue is with the client.
They do not touch each other's state, so only the order with the call first is followed
(`DirectCall`).

### What the modules assume of each other

Each state machine takes its neighbours at their word. Where a finding refutes
the word, the results of the module are about the code with that one repaired:

| Module | Takes for granted | From | Status |
|---|---|---|---|
| `MapWindow` | what pages hold is any choice | - | weakest |
| `KeyMap` | new data does not overlap an entry of another key | cursors | refuted by `DataPlacement_apart` |
| `PageCache` | entries as the index gives them | key map | any entry may be picked |
| `RecordLog`, `DataPages` | the index leads a key to its latest record and entry | key map | refuted by `KeyMap_keys` for more than one key |
| `RecordLog` | which entries an opened or rewritten page holds, and where data is placed, is any choice | - | weakest |
| `StateJournal` | all that others write to the state pages is records cleared at address 0 | `write_record_inner` | modelled; harmless only if a record is no longer than a slot (`StateJournal_shared`) |
| `DataPages` | a record stays on the flash until its key has a new one | `RecordLog` | refuted by `RecordLog_intact`; `DataPages` follows the data, which that erase does not touch |
| `DataPages` | new data is on erased bytes, on a page ahead of the records | cursors | ahead: until the padding is entered, see `data_paging.rs:25` below; erased: refuted by `DataPlacement_apart` |
| `DataPages` | entries do not cross pages, the copy of an entry is the entry | cache | refuted by `PageCache_copies` |
| `RecordLog`, `DataPages` | the record pages have not wrapped | cursors | a dev build panics at the wrap (`PanicsOnlyAtWrap`) |

The findings are independent of these assumptions: each is found in the module
whose own code is wrong.

## The runs

| Run | Result | Distinct states | Shows |
|---|---|---|---|
| `MapWindow_checked` | pass | 489 000 | window, panics, start, padding loop and the loop of `prepare_data_page` with relocation, dev build |
| `StateJournal_durable` | pass | 6 400 | durability, free slots, refinement of `DurableValue`, records no longer than a slot |
| `KeyMap_index` | pass | 34 000 | the index under loads, writes and moves |
| `PageCache_buffers` | pass | 32 000 | counted buffers and readable ranges |
| `RecordLog_records` | pass | 742 000 | what loses records, over recursion, failures, erased and rewritten pages; the window a write settles on; the pages a call opens; its moves end |
| `WriteQueue_queue` | pass | 2 142 000 | no value lost over calls, failures, retries and queues; the drain; refinement of `KeyStore` |
| `StateJournal_shared` | violation | | `state.rs:81` "write new value", `record_paging.rs:146` "so that it wont try to clear the old record" |
| `KeyMap_keys` | violation | | `key_map.rs:112` "index by key" |
| `PageCache_copies` | violation | | `data_paging.rs:221` "gets data from the cached page" |
| `RecordLog_intact` | violation | | `data_paging.rs:81` "brand new empty page" |
| `RecordLog_restart` | violation | | `mod.rs:97` "find all records" |
| `DataPlacement_apart` | violation | | `write.rs:100` "if page contains contents" |

The violation runs state a comment of the code as a property and TLC finds the
behaviour in which the code does otherwise; "findings" in `PROJECT.json` quotes
the comment and explains the counterexample.

`CHECK_DEADLOCK FALSE` is set where a behaviour may end: at a panic (all of
`MapWindow`, `KeyMap`, `PageCache`, `DataPlacement`), at a bound (`MapWindow`,
`RecordLog`) or in the endless loop of data placement (`RecordLog`, `DataPages`). The journal never stops and is
checked for deadlock.

### Known disagreements without a run

The models contain these, or their bounds exclude them where it says so; they have no run of their own.

- `state.rs:50` says "write initial value"; `Nvs::new` gives 0, and `State::init` (`state.rs:34`) takes a zero
  word for an old slot. A start before the first sync finds the erased word behind it as the start of the map.
- `state.rs:66` zeroes the word in force before `state.rs:82` writes the next one: power lost in between leaves no word, or an old lap's.
- `record_paging.rs:17` says "loop around", and the difference two lines below its end
  underflows at that very moment: `PanicsOnlyAtWrap` names it as the one panic of `MapWindow`.
- In a release build that difference wraps instead, so from the second lap on *every* opened page shifts the window;
  `tmp_value` itself never wraps, and the recorded start runs ahead of the record pages until the padding between
  `get_first` and `get_last` covers the whole ring. Then the `while` loop of `record_paging.rs:38` never ends, with
  every page free. In a ring of 9 pages behind one state page, with padding 1 + 3, this is at start 15
  (first 13, last 9). The runs are about dev builds; of a release build behind the wrap only `NeverSpins` is claimed, by
  its theorem.
- `linked_list.rs:246` says "is the new first", `key_map.rs:195` "changing order if necessary" and `key_map.rs:114` "ordered by page";
  an entry in front of the first node is stored at index 0xFFFF, the initial value of the shadowed index, and `data[0xFFFF]`
  panics (`InsertPanics`). So the front of the list only ever moves to later addresses.
- `key_map.rs:201` says "remove page_table entries if necessary" and calls `page_table_old` for the first and the last page of the
  entry. Where both are the same page and the first call removes it, the second unwraps nothing (`key_map.rs:213`) and panics: the
  fault `"unwrap"` of `KeyMap`.
- `write.rs:99` says "skip over mapping region"; `next_data_page` (`data_paging.rs:25`) jumps when
  the page is *not* in the padding and stays when it is.
- `state.rs:61` says "no change" of a synced journal; `shift_tmp_to_value` (`state.rs:110`) changes
  the value without clearing `synced`, so a value shifted behind a flush is never written.
- `key_map.rs:195` says "actually update value"; `update_value` (`linked_list.rs:274`) stores
  nothing while the list has one node, and reports success.
- `mod.rs:71` says that a map without an empty slot is refused; the comparison is off by one and
  accepts as many keys as slots. `OpenedBounded` and `RecursionBounded` hold for one key fewer
  (`FreeSlots > 0`); with a full map even a flush opens page after page up to the end of the ring.

### Bounds

- `MapWindow`: a ring of 10 pages with padding 1 + 3 and a window of 2,
  4 bytes and 2 records per page. `MaxStart = 12` lets the start pass the end of the ring (page 11),
  so both wraps happen, the padding wraps on either side, and every case of the data
  cursor occurs with sizes 1, 3 and 4 (smaller, larger than what is left, and a whole
  page). `MaxLag = 4` are the shifts by failed calls and flushes between two writes;
  `MaxMoves = 1` is the relocations of one call; together with failed calls it gives the window several shifts
  before it is recorded.
- `StateJournal`: 2 pages of 3 slots, so a slot is first, middle or last of a page
  and the ring goes around; words of 2 bits, so a torn word is zero, erased, the
  value or neither.
- `KeyMap`: 3 keys on 3 data pages of 2 bytes, sizes 1 and 2, so entries cross pages,
  share pages and end at a page's end. The list never holds more than the
  shadowed index allows, which is why more keys add nothing (and the
  proofs cover them).
- `RecordLog`: 2 keys on a map of 2 pages of 2 slots, the most that leave a free
  slot besides the record of the data page, and 4 pages of records, so the window shifts three
  times. `MAX_OPENED = 2` pages and `MAX_MOVED = 1` moved entry in a call: a frame
  opened inside another, by a moved entry and by a moved record; a page is rewritten only where it leaves
  `MAX_OPENED` pages behind it.
- `DataPlacement`: a ring of 9 pages with data of 1 byte, 3 keys.
- `WriteQueue`: 2 keys and 3 record pages, so that the entries of a page being moved
  fill the page of records and open the next one, whose entries are moved too (frames
  nest); values one of which is the front of the other. A page may be full behind any record.
  The keys are symmetric: nothing orders them, and no liveness is checked.
- `PageCache`: 3 pages of 3 bytes and 2 kept buffers (5 in the code): fewer and more
  buffers than are kept both occur.

### Fairness

`MapWindow` has weak fairness on `Step`, the steps of a call in progress: the library is
sequential code and a call that has started is not descheduled for ever. Calls themselves
(`Write`, `Flush`) are not fair, failures are not fair. `PrepareTerminates` is checked under it. That a whole call of
`MapWindow` returns is not claimed: what pages hold is a choice there, which could repeat for ever, and in a release
build it is false behind the wrap (see above).

`RecordLog` has weak fairness on its `Step` for the same reason. There `MovesEnd` says that a call returns or
is caught in the loop of data placement (`PlaceSpins`), which the code really has; the bound on moved entries is
the only one it leans on, the records are those the pages hold. `DataPages` and `WriteQueue`
state safety only, because of that loop.

## What is proved

TLAPS proves the following for every value of the constants that the named
assumptions accept (not only the sizes above).

- `MapWindowProofs`. The invariant is type correctness, `LagInv` (shifts done
  plus shifts left to the call stay within `MaxLag`) and `RingInv` (an open record page is in
  the ring); `NeverSpins` follows in every build. With overflow checks, `WindowInv` says that
  the window follows the records until the wrap, and gives
  `RecordInWindow`, `PanicsOnlyAtWrap` and `StartAdvancesWithRecords`. `SkipsEnd` is the safety half
  of `PrepareTerminates`: the data cursor is in the ring or just behind it (`DataInv`), the page behind
  the padding is outside (`BehindThePadding`, which needs `PageToSpare`), and so each round of the
  loop that stays inside lowers `PaddingLeft`. The key lemma,
  `NextPageIsBlocked`, shows that the page behind the record page is always in the padding, so
  the underflow at `data_paging.rs:138` is unreachable in any geometry with `RingFits`; it rests on
  `MAP_POST_PADDING > MAPPING_MAX_RANGE`, which `check_consts` enforces.
- `StateJournalProofs` (two state pages or more). The invariant adds to the two
  safety properties what is known of the slots before and behind the address at
  each point of a call. It gives `Recoverable`, `NewValueWritten` and the
  refinement, that every step is a step of `DurableValue` or a stutter, under the hypothesis `RECORD_SLOTS = 1`:
  then what a clear at address 0 hits is the slot of the initial 0. `NextSlotsErased` needs no hypothesis on the
  length of a record. For a `WRITE_SIZE` below 8 nothing but `NextSlotsErased` and the types is proved: it is false.
- `KeyMapProofs`. The strengthening is `Ring`: because of the shadowed index, a list
  that is not empty is node 0 linked to itself, with at most zeroed nodes behind it. From it
  `FoundInRing` computes the search, `InsertInRing` and `UnlinkInRing` the list
  operations, and the four properties of `KeyMap_index` follow for any number of keys and
  pages in both builds. The invariant describes the code as it is; with the shadowing removed
  `Ring` would have to become a sorted cycle, and this is the module to start from.
- `RecordLogProofs`. `LogInv` orders the log: every indexed record lies before the cursor
  (`IndexInv`), so that opening a page erases none and programming a slot overwrites none, no two keys lead to one
  slot (`IndexApart`), and
  the slot just programmed holds the record it was programmed with or is damaged (`ZeroInv`).
  `PageInv` keeps the start of the window at or before the page of the cursor: a
  record that is cleared, being behind the window, is never on the page being written. From
  these `CursorErased`, `NewestIsLast` and `OnlyPlacingLosesRecords`: of every action but those that place data,
  `ReadableStep` shows that each record the index leads to stays. `BehindInv` says that a record the
  call itself has put behind the window is on the page some frame has still to
  empty, and gives `SuccessLeavesNoneBehind` at the end of the call. `WidthInv` is the other end of the
  window: a page that is open is less than the length of the map ahead of its start, so the cursor is at most at the first
  page beyond. The two ends, and `IndexInv` for the records between, give `WindowHoldsRecords`. Any number of keys, slots and pages,
  any length of the map and any depth of recursion. That records *are* on the flash (`RecordsIntact`) is not a theorem: it is refuted.
- `RecordDepthProofs`. How often `prepare_map` can open a page in one call. The bottom frame
  has opened the first page of the call; from there to the cursor every slot holds a record
  that the call has moved, with its entry (at most `moved` of these) or alone. A record is moved
  alone only off the page the map leaves, hence over at least the length of the map: its key rises a
  *level* of that many pages. `CountInv` says that the slots written, the entries waiting in the frames and the record being
  written are at most `moved` plus the levels risen, counted as a set of pairs of a key and a level
  (`Levels`). A cursor `a` levels up has filled `a` maps of slots while no key can have risen
  more than `a` levels, so `a * FreeSlots <= moved` (`LevelInv`). This gives `OpenedBounded`, and
  with a page opened for each frame (`DepthInv`) `RecursionBounded`. Where the bottom frame is of a rewritten page, its slots already
  written count as moved entries (`Given`). The bound is the map's
  length times `1 + (moved + slot) \div FreeSlots`; the simpler length plus `moved` is false, as three pages of one slot
  with two keys and one moved entry show.
- `DataPagesProofs`. The invariant `IInv` says of a key no failed call has damaged
  that its entry reads the last value or nothing (`StoredInv`), that a cached copy
  of it is the last value (`CacheInv`), and that where it reads nothing it is in the
  `todo` of a frame or on the page the next call opens, with that page in the
  cache (`PendingInv`). `StackInv` orders the frames: each is of a page opened behind the one below, so the
  page being opened is never one whose move is in progress. From these `Kept`
  (`DataKept`) and `Repairs` (`SuccessRepairs`), for any keys, values, number of
  pages and depth of recursion. `Implementation` is the refinement of `KeyStore`:
  `PromisedIsRecoverable` shows that the invariant makes what flash and cache hold of a `Safe` key its last
  value, and then each action is shown to be a write taking effect, a permitted damage
  (`DamageLosesOnly`), or unseen.
- `WriteQueueProofs`. `QueueImplementsPages` is the refinement: every step of the
  queue is a step of `DataPages` or leaves its variables alone, so the theorems
  of `DataPages` carry over (`QueueKept`, `QueueRepairs`, `QueueImplementsStore`). For the drain, `Has(k, c)` says
  that value `c` of `k` is on the flash or in the cached page of the frame that has to move it.
  `WaitingInv`: a queued key is forced or has some value; `DrainedInv`: a key that
  has left the queue is the one of the call in progress or has a value that agrees with
  the one given. `HasStep` shows that no step of a call takes that away
  but an erase for an ignored key, which the filter answers with `force`. `ClearedForced` and `DrainReadsBack` follow, for
  either thing the filter may find.
- `PageCacheProofs`. The count of cold buffers is 0 or 1 and 0 while a buffer is
  borrowed, and loaded pages stay loaded for the call that loaded them; from
  these `NeverUnwraps` and `MissesOnlyOverflow` for any number of kept buffers.

Only model-checked: the liveness properties `PrepareTerminates` and
`MovesEnd` (liveness under fairness is beyond TLAPS here), and every violation. Of a release build behind the wrap of the record
pages nothing but `NeverSpins` is shown. `SkipsEnd` and `PagesEnd` are what a proof of the
two would rest on: the loop comes nearer to its end, and a call opens a bounded number of pages.

## What is not modelled, and the plan

- Operation after a restart. `RecordLog` states what the scan of `Nvs::init` finds; since it does not find the
  newest records, the cursors and the index it derives are wrong in most
  states, and a model of what follows would describe little but that.
- Power loss inside a write of the store, other than in the journal. Between two steps it is covered in so
  far as the properties of `RecordLog` speak of the flash alone (`OnlyPlacingLosesRecords`); what the cache holds
  is lost with the power, so `DataKept` is about failed calls only.
- The bytes of records and values, alignment, and entries that cross pages in `DataPages`.
- The wrap of the record pages in `RecordLog` and `DataPages`, where a dev build has panicked.
- Errors are type definitions only. The test emulator overwrites words instead of clearing
  bits and is not the flash the models assume.

What could come next:

1. Between two pages opened, a measure of the frames of `RecordLog` that each step lowers; with
   `OpenedBounded` it bounds the steps of a call up to the loop of data placement.
2. With the scan of `Nvs::init` repaired, a restart as an action of `RecordLog`, and of `KeyStore`:
   today its values are those the running store can reach.
3. With the shadowed index of `linked_list.rs:222` repaired, `KeyMap` as an implementation of the
   index that `RecordLog` and `DataPages` assume.

## Running

    tlc -workers 2 -config MapWindow_checked.cfg MapWindow
    tlapm KeyMapProofs.tla

A run is `<Module>_<question>.cfg` on `<Module>.tla`; `WriteQueue_queue.cfg` is on
`MCWriteQueue.tla`.
