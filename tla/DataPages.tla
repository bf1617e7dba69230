------------------------------- MODULE DataPages -------------------------------
(***************************************************************************)
(* The data of the keys while pages are moved: what prepare_map and        *)
(* move_data_page (src/nvs/record_paging.rs, data_paging.rs) keep on the   *)
(* flash and what is in the page cache only, over calls that fail half     *)
(* way and are followed by others.                                         *)
(*                                                                         *)
(* A page of records is opened by loading the data page that lies there    *)
(* into the cache, erasing it, and writing its entries elsewhere, each     *)
(* followed by a record; a record may fill the page and open the next one. *)
(*                                                                         *)
(*   idle -> prepare -> load -> erase -> loop -> place -> record -> idle   *)
(*              ^                                           |              *)
(*              +---------------- entry moved --------------+              *)
(*                                                                         *)
(* The neighbours are taken at their word: the index leads a key to its    *)
(* latest entry, new data goes to erased bytes of a page ahead of the      *)
(* records (the cursors are the subject of MapWindow), and entries do not  *)
(* cross pages (PageCache follows those that do).  Records are counted in  *)
(* RecordLog; here a page may be full after any of them.                   *)
(***************************************************************************)
EXTENDS Naturals, FiniteSets, Sequences

CONSTANTS
  Keys,
  Values,      \* what a key can be set to
  Gone,        \* what the flash reads where an entry has been erased
  NotCached,
  NoKey,       \* the key of a flush
  FIRST_PAGE,  \* the first map page
  LAST_PAGE    \* bound: the last page opened for records

ASSUME PageConstants ==
  /\ FIRST_PAGE \in Nat \ {0} /\ LAST_PAGE \in Nat /\ FIRST_PAGE <= LAST_PAGE
  /\ Gone \notin Values /\ NoKey \notin Keys
  /\ NotCached \notin [Keys -> Values \cup {Gone}]

RecordPages == FIRST_PAGE .. LAST_PAGE

(* Page 0: a key without an entry.  Behind LAST_PAGE: the rest of the ring.*)
NoPage == 0
DataPages == RecordPages \cup {LAST_PAGE + 1}

Contents == Values \cup {Gone}

VARIABLES
  at,        \* the page of each key's entry
  stored,    \* what the flash holds there
  cache,     \* the page cache: the entries as they were loaded
  page,      \* page_address.record
  fresh,     \* ... is at the start of the page
  pc,
  op, value, \* the key and value of the call
  ignored,   \* keys whose entries the call does not move
  stack,     \* move_data_page in progress
  who, copy, dest,  \* the entry being placed, its data and its new page
  last,      \* history: the value of the last write of each key
  torn,      \* history: keys whose entry was erased, not moved, and not replaced
  lost       \* history: keys that a failed call was moving, past its page

place == <<who, copy, dest>>
call == <<op, value, ignored, stack, place>>
history == <<last, torn, lost>>
vars == <<at, stored, cache, page, fresh, pc, call, history>>

Frames == [page : RecordPages, todo : SUBSET Keys]

TypeOK ==
  /\ at \in [Keys -> DataPages \cup {NoPage}]
  /\ stored \in [Keys -> Contents]
  /\ cache \in [RecordPages -> [Keys -> Contents] \cup {NotCached}]
  /\ page \in RecordPages /\ fresh \in BOOLEAN
  /\ pc \in {"idle", "prepare", "load", "erase", "loop", "place", "record", "spins"}
  /\ op \in Keys \cup {NoKey} /\ value \in Contents
  /\ ignored \subseteq Keys
  /\ stack \in Seq(Frames)
  /\ who \in Keys \cup {NoKey} /\ copy \in Contents
  /\ dest \in DataPages \cup {NoPage}
  /\ last \in [Keys -> Contents]
  /\ torn \subseteq Keys /\ lost \subseteq Keys

-------------------------------------------------------------------------------
(* Pages.                                                                  *)

Top == stack[Len(stack)]

Rest == SubSeq(stack, 1, Len(stack) - 1)

On(p) == {k \in Keys : at[k] = p}

is_page_free(p) == On(p) = {}

(* read of a page.                                                         *)
Snapshot(p) == [k \in Keys |-> IF at[k] = p THEN stored[k] ELSE Gone]

NothingCached == [p \in RecordPages |-> NotCached]

(* Mutant: the data cursor goes one page beyond the last.                  *)
Ahead_Beyond == page + 1 .. LAST_PAGE + 2

(* Pages the data cursor can be on: the padding keeps it ahead.            *)
Ahead == page + 1 .. LAST_PAGE + 1

-------------------------------------------------------------------------------
(* Calls.                                                                  *)

Init ==
  /\ at = [k \in Keys |-> NoPage] /\ stored = [k \in Keys |-> Gone]
  /\ cache = NothingCached
  /\ page = FIRST_PAGE /\ fresh = TRUE
  /\ pc = "idle" /\ op = NoKey /\ value = Gone /\ ignored = {}
  /\ stack = <<>> /\ who = NoKey /\ copy = Gone /\ dest = NoPage
  /\ last = [k \in Keys |-> Gone]
  /\ torn = {} /\ lost = {}

NothingPlaced == who' = NoKey /\ copy' = Gone /\ dest' = NoPage

NoCall ==
  /\ pc' = "idle" /\ op' = NoKey /\ value' = Gone /\ ignored' = {}
  /\ stack' = <<>> /\ NothingPlaced

Begin(k, v, i) ==
  /\ pc = "idle"
  /\ pc' = "prepare" /\ op' = k /\ value' = v /\ ignored' = i
  /\ UNCHANGED <<at, stored, cache, page, fresh, stack, place, history>>

(* A write ignores its own key; one that end_write_queue makes ignores any *)
(* of the keys still queued.                                               *)
Write(k, v) == \E i \in {{k}} \cup SUBSET (Keys \ {k}) : Begin(k, v, i)

(* A flush that finds the data page record out of date; the others change  *)
(* nothing here.                                                           *)
Flush == Begin(NoKey, Gone, {})

-------------------------------------------------------------------------------
(* prepare_map.                                                            *)

KeepRecordPage ==
  /\ pc = "prepare" /\ ~fresh
  /\ pc' = "loop"
  /\ UNCHANGED <<at, stored, cache, page, fresh, call, history>>

(* IgnorePage: while an entry is placed, those on its page are ignored.    *)
(* prepare_map and the outermost call see the keys of the call only.       *)
Push(p) == stack' = Append(stack, [page |-> p, todo |-> On(p) \ ignored])

(* move_data_page, or only the erase of a page that is free.               *)
OpenRecordPage ==
  /\ pc = "prepare" /\ fresh
  /\ Push(page)
  /\ pc' = IF is_page_free(page) THEN "erase" ELSE "load"
  /\ UNCHANGED <<at, stored, cache, page, fresh, op, value, ignored, place, history>>

(* Mutant: a copy kept by an earlier call is read over.                    *)
Loaded_Again(p) == Snapshot(p)

(* load_page: a page in the cache is not read again.                       *)
Loaded(p) == IF cache[p] = NotCached THEN Snapshot(p) ELSE cache[p]

LoadPage ==
  /\ pc = "load"
  /\ cache' = [cache EXCEPT ![Top.page] = Loaded(Top.page)]
  /\ pc' = "erase"
  /\ UNCHANGED <<at, stored, page, fresh, call, history>>

ErasedOn(p) == [k \in Keys |-> IF at[k] = p THEN Gone ELSE stored[k]]

ErasePage ==
  /\ pc = "erase"
  /\ stored' = ErasedOn(Top.page)
  /\ pc' = "loop"
  /\ UNCHANGED <<at, cache, page, fresh, call, history>>

-------------------------------------------------------------------------------
(* The frame on top of the stack.                                          *)

InFrame == pc = "loop" /\ stack # <<>>

(* get_tv_data: the entry as the cached page has it.                       *)
MoveEntry(k) ==
  /\ InFrame /\ k \in Top.todo
  /\ who' = k /\ copy' = cache[Top.page][k] /\ dest' = NoPage
  /\ pc' = "place"
  /\ UNCHANGED <<at, stored, cache, page, fresh, op, value, ignored, stack, history>>

FrameDone ==
  /\ InFrame /\ Top.todo = {}
  /\ stack' = Rest
  /\ UNCHANGED <<at, stored, cache, page, fresh, pc, op, value, ignored, place, history>>

PlaceClient ==
  /\ pc = "loop" /\ stack = <<>>
  /\ who' = op /\ copy' = value /\ dest' = NoPage
  /\ pc' = IF op = NoKey THEN "record" ELSE "place"
  /\ UNCHANGED <<at, stored, cache, page, fresh, op, value, ignored, stack, history>>

-------------------------------------------------------------------------------
(* write_entry_data.                                                       *)

(* The outermost data is on the flash: drop_all_pages, before its record.  *)
PlaceData ==
  /\ pc = "place"
  /\ dest' \in Ahead
  /\ cache' = IF stack = <<>> THEN NothingCached ELSE cache
  /\ pc' = "record"
  /\ UNCHANGED <<at, stored, page, fresh, op, value, ignored, stack, who, copy, history>>

(* The data cursor is at the start of a page, and prepare_page_inner looks *)
(* at the page of the records, where entries are: it walks around an       *)
(* ignored one for ever (key_map.rs:296), or asks for the next page        *)
(* without end when the space is too small.                                *)
PlaceSpins ==
  /\ pc = "place" /\ ~is_page_free(page)
  /\ pc' = "spins"
  /\ UNCHANGED <<at, stored, cache, page, fresh, call, history>>

(* Without an ignored one it rewrites that page: entries that a failed     *)
(* call has left there.                                                    *)
RewriteRecordPage ==
  /\ pc = "place" /\ stack = <<>>
  /\ ~is_page_free(page) /\ On(page) \cap ignored = {}
  /\ Push(page)
  /\ pc' = "load"
  /\ UNCHANGED <<at, stored, cache, page, fresh, op, value, ignored, place, history>>

-------------------------------------------------------------------------------
(* The record, and the index that follows it.                              *)

(* The page is full, or has room for more.                                 *)
NextRecord ==
  \/ page' = page /\ fresh' = FALSE
  \/ page < LAST_PAGE /\ page' = page + 1 /\ fresh' = TRUE

(* The entry is now the copy on its new page.                              *)
Entry ==
  /\ at' = [at EXCEPT ![who] = dest]
  /\ stored' = [stored EXCEPT ![who] = copy]

(* A call leaves the entries it ignores to a write of their own.           *)
GivenUp == torn \cup {k \in ignored : stored[k] = Gone}

RecordMoved ==
  /\ pc = "record" /\ stack # <<>>
  /\ NextRecord
  /\ Entry
  /\ stack' = [stack EXCEPT ![Len(stack)] = [page |-> Top.page, todo |-> Top.todo \ {who}]]
  /\ pc' = "prepare"
  /\ NothingPlaced
  /\ UNCHANGED <<cache, op, value, ignored, history>>

RecordWritten ==
  /\ pc = "record" /\ stack = <<>> /\ op # NoKey
  /\ NextRecord
  /\ Entry
  /\ last' = [last EXCEPT ![op] = value]
  /\ torn' = GivenUp \ {op} /\ lost' = lost \ {op}
  /\ NoCall
  /\ UNCHANGED cache

RecordFlushed ==
  /\ pc = "record" /\ stack = <<>> /\ op = NoKey
  /\ NextRecord
  /\ NoCall
  /\ UNCHANGED <<at, stored, cache, history>>

-------------------------------------------------------------------------------
(* An access of the flash fails: the call returns, whatever it has done.   *)

(* The next call opens the page again only if no record is on it.          *)
Abandoned ==
  {k \in Keys : \E i \in DOMAIN stack :
     k \in stack[i].todo /\ ~(fresh /\ stack[i].page = page)}

FlashFails ==
  /\ pc \in {"load", "erase", "place", "record"}
  /\ torn' = GivenUp
  /\ lost' = lost \cup Abandoned
  /\ NoCall
  /\ UNCHANGED <<at, stored, cache, page, fresh, last>>

-------------------------------------------------------------------------------
Next ==
  \/ \E k \in Keys, v \in Values : Write(k, v)
  \/ Flush
  \/ KeepRecordPage \/ OpenRecordPage \/ LoadPage \/ ErasePage
  \/ (\E k \in Keys : MoveEntry(k)) \/ FrameDone \/ PlaceClient
  \/ PlaceData \/ PlaceSpins \/ RewriteRecordPage
  \/ RecordMoved \/ RecordWritten \/ RecordFlushed
  \/ FlashFails

Spec == Init /\ [][Next]_vars
-------------------------------------------------------------------------------
(* Safety.                                                                 *)

Spared == torn \cup lost

(* A page whose move is in progress, or was interrupted before the first   *)
(* record: the next call takes it up again.                                *)
Resumed(p) ==
  \/ fresh /\ p = page
  \/ \E i \in DOMAIN stack : stack[i].page = p

(* The last value of a key that no failed call has damaged is on the       *)
(* flash, or in the cache while the move of its page can still be taken    *)
(* up.  What power loss or failure takes away is never more than that      *)
(* (data_paging.rs:185); a copy kept by a failed call is never an old one  *)
(* (write.rs:152).  The keys a call ignores are its own to replace.        *)
DataKept ==
  \A k \in Keys \ Spared :
    \/ stored[k] = last[k]
    \/ k \in ignored /\ stored[k] = Gone
    \/ /\ at[k] \in RecordPages /\ Resumed(at[k])
       /\ cache[at[k]] # NotCached /\ cache[at[k]][k] = last[k]

(* A call that succeeds has repaired what the calls before it left in the  *)
(* cache: nothing is then at risk any more.                                *)
SuccessRepairs ==
  [][RecordWritten \/ RecordFlushed =>
       \A k \in Keys \ (Spared' \cup ignored) : stored'[k] = last'[k]]_vars
-------------------------------------------------------------------------------
(* Refinement: a key has the value that the flash holds, or the cache while *)
(* the entry is erased, unless a call has damaged it, or has erased it and *)
(* will not move it.                                                       *)

Safe == Keys \ (Spared \cup {k \in ignored : stored[k] = Gone})

Recoverable(k) ==
  IF stored[k] = Gone /\ at[k] \in RecordPages /\ cache[at[k]] # NotCached
    THEN cache[at[k]][k]
    ELSE stored[k]

Store == INSTANCE KeyStore WITH
  value  <- [k \in Keys |-> IF k \in Safe THEN Recoverable(k) ELSE Gone],
  kept   <- Safe,
  busy   <- pc # "idle",
  key    <- op,
  new    <- value,
  spared <- ignored

(* The pages are a store of values: at no step of a call, nor between the  *)
(* calls, is another value recoverable than the last one written, and a    *)
(* call that succeeds damages no key but those it ignores, however many    *)
(* pages it opens and whatever failed calls have left (write.rs:119-166,   *)
(* data_paging.rs:177-262).                                                *)
ImplementsKeyStore == Store!Spec
===============================================================================
