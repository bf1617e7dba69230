------------------------------- MODULE RecordLog -------------------------------
(***************************************************************************)
(* The records on the map pages: what prepare_map, move_map_page and       *)
(* write_record_inner (src/nvs/record_paging.rs) leave in the slots of the *)
(* flash, and what the next start of the store reads back.                 *)
(*                                                                         *)
(* prepare_map and move_map_page call each other: a moved entry or record  *)
(* prepares the slot behind it, which may open the next page and shift the *)
(* window again.  The calls in progress are a stack of frames, one for     *)
(* each open page, with the entries still to be moved off the opened page  *)
(* and the page the map leaves.                                            *)
(*                                                                         *)
(*   idle -> prepare -> erase -> loop -> place -> record -> zero -> idle   *)
(*             ^                 ^ |     | |        ^         |            *)
(*             |                 | +-----|-|--------+         |            *)
(*             |                 |       | |  record moved    |            *)
(*             |                 +-------+ +-> spins          |            *)
(*             |                  rewrite                     |            *)
(*             +---------- entry or record moved -------------+            *)
(*                                                                         *)
(* Two neighbours are taken at their word: the index (key_map.rs) leads a  *)
(* key to its latest record, and which entries an opened page holds is a   *)
(* choice, as is where the data cursor is when data is placed.  Only the   *)
(* map pages are followed here, up to the end of the ring, where MapWindow *)
(* shows prepare_map to panic; StateJournal has the record that a write    *)
(* clears at address 0.                                                    *)
(***************************************************************************)
EXTENDS Naturals, FiniteSets, Sequences

CONSTANTS
  Keys,
  KeyZero,            \* the key whose key value is 0
  MAPPING_MAX_RANGE,  \* pages of the map
  STATE_PAGES,
  SLOTS,              \* records of a page
  LAST_PAGE,          \* bound: the record pages end here
  MAX_OPENED,         \* bound: pages a call may open
  MAX_MOVED           \* bound: entries a call may have to move

ASSUME LogConstants ==
  /\ KeyZero \in Keys /\ IsFiniteSet(Keys)
  /\ MAPPING_MAX_RANGE \in Nat \ {0}
  /\ STATE_PAGES \in 1 .. MAPPING_MAX_RANGE
  /\ SLOTS \in Nat \ {0}
  /\ LAST_PAGE \in Nat /\ LAST_PAGE >= STATE_PAGES
  /\ MAX_OPENED \in Nat \ {0} /\ MAX_MOVED \in Nat

(* No key is one of the other contents of a slot.                          *)
Erased == "erased"
Zero == "zero"
DataPage == "data page"   \* the record of the page data is written to
Mixed == "mixed"          \* programmed twice: the bits both have set

ASSUME KeysApart == Keys \cap {Erased, Zero, DataPage, Mixed} = {}

MapPages == STATE_PAGES .. LAST_PAGE
Slots == 0 .. SLOTS - 1

(* Address 0, of a key without a record: where the journal begins.         *)
NoRecord == [page |-> 0, slot |-> 0]

Addresses == [page : MapPages, slot : Slots]

VARIABLES
  flash,      \* the slots of the map pages
  index,      \* record_address of each key, or NoRecord
  rec,        \* page_address.record
  update,     \* page_address.update_address_record
  old, new,   \* state.value, state.tmp_value
  pc,
  op,         \* the key being written, or DataPage in a flush
  ignored,    \* keys whose entries and records the call does not move
  stack,      \* prepare_map and move_map_page in progress
  who,        \* whose record is being written
  moved,      \* entries the call has been given to move
  behind,     \* history: keys with a record before the map when the call began
  damage      \* history: the slot of a record whose old one was not cleared,
              \* behind which the cursor was not moved

call == <<op, ignored, stack, who, moved, behind>>
vars == <<flash, index, rec, update, old, new, pc, call, damage>>

Frames ==
  [page : MapPages, todo : SUBSET Keys, back : 0 .. LAST_PAGE, records : BOOLEAN,
   slot : Slots]  \* slots of the page that held records when it was erased

TypeOK ==
  /\ flash \in [MapPages -> [Slots -> Keys \cup {Erased, Zero, DataPage, Mixed}]]
  /\ index \in [Keys -> Addresses \cup {NoRecord}]
  /\ rec \in [page : MapPages \cup {LAST_PAGE + 1}, slot : Slots]
  /\ update \in BOOLEAN
  /\ old \in 0 .. LAST_PAGE /\ new \in 0 .. LAST_PAGE
  /\ pc \in {"idle", "prepare", "erase", "loop", "place", "record", "zero",
            "spins"}
  /\ op \in Keys \cup {DataPage} /\ who \in Keys \cup {DataPage}
  /\ ignored \subseteq Keys /\ moved \in 0 .. MAX_MOVED
  /\ stack \in Seq(Frames)
  /\ behind \subseteq Keys /\ damage \subseteq Addresses

-------------------------------------------------------------------------------
(* Slots.                                                                  *)

At(a) == flash[a.page][a.slot]

Written(a, content) == [flash EXCEPT ![a.page][a.slot] = content]

(* Programming can only clear bits.                                        *)
Programmed(a, content) ==
  IF At(a) = Erased THEN Written(a, content)
  ELSE IF At(a) = Zero THEN flash
  ELSE Written(a, Mixed)

ErasedPage(page) == [flash EXCEPT ![page] = [s \in Slots |-> Erased]]

SlotsOf(page) == [page : {page}, slot : Slots]

(* Mutant: the carry into the page comes one slot late.                    *)
NextSlot_LateCarry(a) ==
  IF a.slot = SLOTS THEN [page |-> a.page + 1, slot |-> 0]
                    ELSE [a EXCEPT !.slot = a.slot + 1]

(* *nra += RECORD_OFFSET.                                                  *)
NextSlot(a) ==
  IF a.slot + 1 = SLOTS THEN [page |-> a.page + 1, slot |-> 0]
                        ELSE [a EXCEPT !.slot = a.slot + 1]

(* is_in_old_map_page.                                                     *)
is_in_old_map_page(page) == new # old /\ page \in old .. new - 1

(* The record that the new one of who replaces.                            *)
OldAddress == IF who = DataPage THEN NoRecord ELSE index[who]

(* The page of the cursor has been erased for records.                     *)
PageOpen == rec.slot # 0 \/ pc \in {"loop", "place", "record", "zero"}

Stored(k) == index[k] # NoRecord

(* The record of k is on the flash.                                        *)
Readable(k) == Stored(k) /\ At(index[k]) = k

(* The innermost call of prepare_map.                                      *)
Top == stack[Len(stack)]

(* Keys whose record lies on a page the map has left or is leaving.        *)
Behind == {k \in Keys : Stored(k) /\ index[k].page < new}

-------------------------------------------------------------------------------
(* Calls.                                                                  *)

(* Nvs::new.  No page has been erased by the store yet: they hold data, or *)
(* what the partition was used for before.                                 *)
Init ==
  /\ flash = [p \in MapPages |-> [s \in Slots |-> Mixed]]
  /\ index = [k \in Keys |-> NoRecord]
  /\ rec = [page |-> STATE_PAGES, slot |-> 0]
  /\ update = TRUE
  /\ old = 0 /\ new = 0
  /\ pc = "idle" /\ op = DataPage /\ ignored = {}
  /\ stack = <<>> /\ who = DataPage /\ moved = 0 /\ behind = {}
  /\ damage = {}

(* Between calls nothing of the last one is kept.                          *)
NoCall ==
  /\ op' = DataPage /\ ignored' = {}
  /\ stack' = <<>> /\ who' = DataPage /\ moved' = 0 /\ behind' = {}

(* Bound: pages are only opened from the start of a page.                  *)
CallFits ==
  rec.page + (IF rec.slot = 0 THEN MAX_OPENED - 1 ELSE 0) <= LAST_PAGE

Begin(o, i) ==
  /\ pc = "idle"
  /\ CallFits
  /\ pc' = "prepare" /\ op' = o /\ ignored' = i
  /\ behind' = Behind
  /\ UNCHANGED <<flash, index, rec, update, old, new, stack, who, moved, damage>>

(* A write ignores its own key; one that end_write_queue makes ignores any *)
(* of the keys still queued.                                               *)
Write(k) == \E i \in {{k}} \cup SUBSET (Keys \ {k}) : Begin(k, i)

FlushRecord == update /\ Begin(DataPage, {})

-------------------------------------------------------------------------------
(* prepare_map.                                                            *)

KeepRecordPage ==
  /\ pc = "prepare"
  /\ rec.slot # 0
  /\ pc' = "loop"
  /\ UNCHANGED <<flash, index, rec, update, old, new, call, damage>>

(* Mutant: the window is one page shorter than the map.                    *)
MoveRecords_Early == rec.page - new >= MAPPING_MAX_RANGE - 1

(* Mutant: the window is one page longer than the map.                     *)
MoveRecords_Late == rec.page - new > MAPPING_MAX_RANGE

MoveRecords == rec.page - new >= MAPPING_MAX_RANGE

(* An entry is on one page, so at most one frame has it to move.           *)
Movable ==
  {k \in Keys \ ignored : Stored(k) /\ \A i \in DOMAIN stack : k \notin stack[i].todo}

(* set_tmp_value returns early for the value that is recorded, which is    *)
(* never the next one.  todo are the entries on the page to be moved.      *)
OpenRecordPage ==
  /\ pc = "prepare"
  /\ rec.slot = 0 /\ rec.page \in MapPages
  /\ new' = IF MoveRecords THEN new + 1 ELSE new
  /\ \E todo \in SUBSET Movable :
       /\ moved' = moved + Cardinality(todo) /\ moved' <= MAX_MOVED
       /\ stack' = Append(stack, [page |-> rec.page, todo |-> todo, records |-> FALSE,
                                  back |-> IF MoveRecords THEN new ELSE 0, slot |-> 0])
  /\ pc' = "erase"
  /\ UNCHANGED <<flash, index, rec, update, old, op, ignored, who, behind, damage>>

(* Mutant: a page whose entries are to be moved is not erased.             *)
Opened_FreeOnly == IF Top.todo = {} THEN ErasedPage(rec.page) ELSE flash

Opened == ErasedPage(rec.page)

(* erase_page, in move_data_page or directly.                              *)
ErasePage ==
  /\ pc = "erase"
  /\ flash' = Opened
  /\ damage' = damage \ SlotsOf(rec.page)
  /\ pc' = "loop"
  /\ UNCHANGED <<index, rec, update, old, new, call>>

-------------------------------------------------------------------------------
(* The frame on top of the stack.                                          *)

Rest == SubSeq(stack, 1, Len(stack) - 1)

InFrame == pc = "loop" /\ stack # <<>>

(* move_data_page: the next entry of the opened page.                      *)
MoveEntry(k) ==
  /\ InFrame /\ k \in Top.todo
  /\ stack' = [stack EXCEPT ![Len(stack)].todo = @ \ {k}]
  /\ who' = k /\ pc' = "place"
  /\ UNCHANGED <<flash, index, rec, update, old, new, op, ignored,
                 moved, behind, damage>>

(* The page a map left behind is looked at when the entries are moved.     *)
(* address_record is where Nvs::new has set it, the first map page.        *)
MoveMapPage ==
  /\ InFrame /\ Top.todo = {} /\ Top.back > 0 /\ ~Top.records
  /\ stack' = [stack EXCEPT ![Len(stack)].records = TRUE]
  /\ update' = (update \/ Top.back = STATE_PAGES)
  /\ UNCHANGED <<flash, index, rec, old, new, pc, op, ignored, who,
                 moved, behind, damage>>

(* Mutant: the records of every older page are moved again.                *)
LeftOn_AnyAfter(page) == {k \in Keys \ ignored : index[k].page >= page}

(* Mutant: the record in the first slot of the page is forgotten.          *)
LeftOn_AfterFirst(page) ==
  {k \in Keys \ ignored : index[k].page = page /\ index[k].slot > 0}

LeftOn(page) == {k \in Keys \ ignored : index[k].page = page}

(* move_map_page: the next record of the page.  Once moved it is not on it *)
(* any more.                                                               *)
MoveRecord(k) ==
  /\ InFrame /\ Top.records /\ k \in LeftOn(Top.back)
  /\ who' = k /\ pc' = "record"
  /\ UNCHANGED <<flash, index, rec, update, old, new, op, ignored,
                 stack, moved, behind, damage>>

PrepareReturns ==
  /\ InFrame /\ Top.todo = {}
  /\ Top.back > 0 => Top.records /\ LeftOn(Top.back) = {}
  /\ stack' = Rest
  /\ UNCHANGED <<flash, index, rec, update, old, new, pc, op, ignored,
                 who, moved, behind, damage>>

(* The outermost prepare_map has returned: the call's own data.            *)
PlaceClient ==
  /\ pc = "loop" /\ stack = <<>>
  /\ who' = op /\ pc' = "place"
  /\ UNCHANGED <<flash, index, rec, update, old, new, op, ignored,
                 stack, moved, behind, damage>>

-------------------------------------------------------------------------------
(* prepare_data_page and the data write.                                   *)

(* The data cursor stays, or moves to another page.                        *)
PlaceData ==
  /\ pc = "place"
  /\ pc' = "record"
  /\ update' \in {update, TRUE}
  /\ UNCHANGED <<flash, index, rec, old, new, call, damage>>

(* The data cursor is at the start of a page.  What prepare_page_inner then *)
(* looks at is the page of the next record, with the records on it.        *)
PlaceOnNewPage == pc = "place" /\ who # DataPage /\ rec.page \in MapPages

(* Without an entry there it is taken for a new page, and erased.          *)
PlaceDataOnNewPage ==
  /\ PlaceOnNewPage
  /\ flash' = ErasedPage(rec.page)
  /\ damage' = damage \ SlotsOf(rec.page)
  /\ pc' = "record"
  /\ update' \in {update, TRUE}
  /\ UNCHANGED <<index, rec, old, new, call>>

(* Entries that an earlier call has left there, and this one does not      *)
(* ignore, are moved: the page is erased first, and each of them may open  *)
(* another.  Then there is a page to be found again.  A page opened by     *)
(* this call holds none of them: the cursor is behind a record.            *)
(* Bound: the pages it may open are record pages.                          *)
RewriteRecordPage ==
  /\ PlaceOnNewPage /\ stack = <<>> /\ rec.slot # 0
  /\ rec.page + MAX_OPENED <= LAST_PAGE
  /\ \E todo \in SUBSET Movable \ {{}} :
       /\ moved' = moved + Cardinality(todo) /\ moved' <= MAX_MOVED
       /\ stack' = <<[page |-> rec.page, todo |-> todo, records |-> FALSE,
                      back |-> 0, slot |-> rec.slot]>>
  /\ flash' = ErasedPage(rec.page)
  /\ damage' = damage \ SlotsOf(rec.page)
  /\ update' = TRUE
  /\ pc' = "loop"
  /\ UNCHANGED <<index, rec, old, new, op, ignored, who, behind>>

(* With an ignored entry on the page get_available_page_space does not     *)
(* return (key_map.rs:296); and where there is too little space,           *)
(* next_data_page changes the data cursor and the same page is looked at   *)
(* again (data_paging.rs:101).                                             *)
PlaceSpins ==
  /\ PlaceOnNewPage /\ (\E k \in Keys : Stored(k))
  /\ update' = TRUE
  /\ pc' = "spins"
  /\ UNCHANGED <<flash, index, rec, old, new, call, damage>>

-------------------------------------------------------------------------------
(* write_record_inner, and what its caller does with the address.          *)

ProgramRecord ==
  /\ pc = "record" /\ rec.page \in MapPages
  /\ flash' = Programmed(rec, who)
  /\ damage' = IF At(rec) = Erased THEN damage \ {rec} ELSE damage
  /\ pc' = "zero"
  /\ UNCHANGED <<index, rec, update, old, new, call>>

(* The old record is cleared on the pages the map leaves only.  Page 0 is  *)
(* one of them in the first shift, for a key without a record too: what is *)
(* cleared then is on no map page, but in the journal (StateJournal,       *)
(* ClearNoRecord).                                                         *)
ZeroOld ==
  IF is_in_old_map_page(OldAddress.page) /\ OldAddress.page \in MapPages
    THEN Written(OldAddress, Zero)
    ELSE flash

(* Mutant: the index forgets to follow a moved record.                     *)
Indexed_ClientOnly ==
  IF who = DataPage \/ stack # <<>> THEN index ELSE [index EXCEPT ![who] = rec]

(* set_record, update_record or add_value_page.                            *)
Indexed == IF who = DataPage THEN index ELSE [index EXCEPT ![who] = rec]

RecordDone ==
  /\ pc = "zero"
  /\ flash' = ZeroOld
  /\ rec' = NextSlot(rec)
  /\ index' = Indexed

RecordMoved ==
  /\ RecordDone
  /\ stack # <<>>
  /\ pc' = "prepare"
  /\ UNCHANGED <<update, old, new, call, damage>>

(* The end of a write: shift_tmp_to_value.                                 *)
RecordWritten ==
  /\ RecordDone
  /\ stack = <<>> /\ who # DataPage
  /\ old' = new
  /\ pc' = "idle"
  /\ NoCall /\ UNCHANGED <<update, new, damage>>

RecordFlushed ==
  /\ RecordDone
  /\ stack = <<>> /\ who = DataPage
  /\ update' = FALSE
  /\ pc' = "idle"
  /\ NoCall /\ UNCHANGED <<old, new, damage>>

-------------------------------------------------------------------------------
(* An access of the flash fails and the call returns from every frame.     *)

Abandon ==
  /\ pc' = "idle"
  /\ NoCall
  /\ UNCHANGED <<flash, index, rec, update, old, new>>

FlashFails ==
  /\ pc \in {"erase", "place", "record"}
  /\ Abandon
  /\ UNCHANGED damage

(* The record is programmed and clearing the old one fails: the cursor     *)
(* stays on the record.                                                    *)
ZeroFails ==
  /\ pc = "zero"
  /\ is_in_old_map_page(OldAddress.page)
  /\ Abandon
  /\ damage' = damage \cup {rec}

-------------------------------------------------------------------------------
Frame == MoveMapPage \/ PrepareReturns \/ (\E k \in Keys : MoveEntry(k) \/ MoveRecord(k))

Step ==
  \/ KeepRecordPage \/ OpenRecordPage \/ ErasePage
  \/ Frame \/ PlaceClient
  \/ PlaceData \/ PlaceDataOnNewPage \/ RewriteRecordPage \/ PlaceSpins
  \/ ProgramRecord \/ RecordMoved \/ RecordWritten \/ RecordFlushed

Next ==
  \/ \E k \in Keys : Write(k)
  \/ FlushRecord
  \/ Step
  \/ FlashFails \/ ZeroFails

(* Sequential code: a call that has started keeps running.                 *)
Spec == Init /\ [][Next]_vars /\ WF_vars(Step)
-------------------------------------------------------------------------------
(* Safety.                                                                 *)

(* A record is programmed on an erased slot and the slots behind it on the *)
(* page are erased, however recursive calls, failures and erased pages     *)
(* interleave.  The exception is a slot whose record was written when      *)
(* clearing the old one failed (record_paging.rs:121): the cursor stays,   *)
(* and the next record is programmed over the first.                       *)
CursorErased ==
  PageOpen =>
    /\ \A s \in Slots : s > rec.slot => flash[rec.page][s] = Erased
    /\ pc # "zero" => At(rec) = Erased \/ rec \in damage

(* A record on the flash stays there until its key has a new one on the    *)
(* flash, so also when power is lost in between: neither the moves nor the *)
(* shifts of the map erase or clear the only one.  It is lost in two ways. *)
(* Placing data erases the page the records are written to                 *)
(* (data_paging.rs:84 and 105), which needs no failure: RecordsIntact.     *)
(* And the new one may be programmed over another when clearing an old     *)
(* record has failed (record_paging.rs:121).                               *)
OnlyPlacingLosesRecords ==
  [][\A k \in Keys : Readable(k) /\ ~Readable(k)' =>
       \/ PlaceDataOnNewPage \/ RewriteRecordPage
       \/ who = k /\ pc = "zero" /\ rec \in damage]_vars

(* data_paging.rs, before prepare_page_inner erases a page: "brand new     *)
(* empty page".  A key that has been written has its record on the flash.  *)
(* Refuted by a run: the page is that of the next record (data_paging.rs:  *)
(* 59), without entries but with the records written so far.               *)
RecordsIntact == \A k \in Keys : Stored(k) => Readable(k)

(* What is left of older records of a key lies before its newest one: a    *)
(* restart could take the last one it finds.                               *)
NewestIsLast ==
  \A k \in Keys, a \in Addresses :
    At(a) = k => \/ a.page < index[k].page
                 \/ a.page = index[k].page /\ a.slot <= index[k].slot
                 \/ a = rec /\ (pc = "zero" \/ a \in damage)

(* A call that succeeds leaves no record on the pages the map has left: it *)
(* misses only those that an earlier failed call has left there, and those *)
(* of queued keys, which are about to be written.                          *)
SuccessLeavesNoneBehind ==
  [][RecordWritten \/ RecordFlushed => Behind' \subseteq behind \cup ignored]_vars

(* The start a write settles on (write.rs:181) has every record within the *)
(* length of the map from it, however often the call has shifted it: a     *)
(* scan of that many pages finds all but those an earlier failed call has  *)
(* left behind and those of keys still queued.  The scan of init           *)
(* (mod.rs:98) is a page shorter: RestartFindsRecords.                     *)
WindowHoldsRecords ==
  [][RecordWritten =>
       \A k \in Keys : Stored(k)' /\ (k = op \/ k \notin behind \cup ignored) =>
         index'[k].page \in old' .. old' + MAPPING_MAX_RANGE - 1]_vars

(* Slots of the map that are free when every key has its record in it.     *)
FreeSlots == MAPPING_MAX_RANGE * SLOTS - Cardinality(Keys)

(* A call opens, and so erases, no more pages for records than the map is  *)
(* long, and as many again each time it moves as many entries as the map   *)
(* has free slots: the records that make room do not use it up.            *)
(* The slots before the record cursor count as moved when its page is      *)
(* rewritten.                                                              *)
(* check_consts (mod.rs:72) is off by one and accepts a map without a free *)
(* slot, on which a flush opens one page after another.                    *)
Laps == 1 + (moved + stack[1].slot) \div FreeSlots

OpenedBounded ==
  FreeSlots > 0 /\ stack # <<>> =>
    rec.page < stack[1].page + MAPPING_MAX_RANGE * Laps

(* Nor does the recursion go deeper: prepare_map and move_map_page do not  *)
(* exhaust the stack of the program.                                       *)
RecursionBounded ==
  FreeSlots > 0 /\ stack # <<>> => Len(stack) <= MAPPING_MAX_RANGE * Laps

-------------------------------------------------------------------------------
(* Liveness.                                                               *)

(* Every call comes to an end of its moves: it returns, or the loop of     *)
(* prepare_data_page has caught it (PlaceSpins), in which a call may stay  *)
(* for ever.  With the free slot of RecursionBounded, moving the records   *)
(* of a page does not chase its own tail around the map, and moving the    *)
(* entries of the record page does not start over.                         *)
Moving == pc \notin {"idle", "spins"}

MovesEnd == Moving ~> ~Moving

-------------------------------------------------------------------------------
(* The next start, Nvs::init, from the recorded start of the map.          *)

Scanned == [page : old .. old + MAPPING_MAX_RANGE - 2, slot : Slots]

(* The data page record reads 0x0000FFFF, which is not what init looks     *)
(* for: it is taken for a record of key 0.                                 *)
Found(k) ==
  {a \in Scanned : At(a) = k \/ (At(a) = DataPage /\ k = KeyZero)}

(* mod.rs in init: "find all records".  Where a flush has nothing to write *)
(* but the start of the map, the start after it finds each record that is  *)
(* there, once.                                                            *)
(* Refuted by a run: the code finds none of those on the newest page, and  *)
(* older ones of the same key.                                             *)
RestartFindsRecords ==
  pc = "idle" /\ ~update /\ old \in MapPages /\ damage = {} =>
    \A k \in Keys : Readable(k) => Found(k) = {index[k]}
===============================================================================
