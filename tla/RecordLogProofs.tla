---------------------------- MODULE RecordLogProofs ----------------------------
(***************************************************************************)
(* Theorems of RecordLog, for any number of keys, pages, slots and levels  *)
(* of recursion.                                                           *)
(***************************************************************************)
EXTENDS RecordLog, FiniteSetTheorems, SequenceTheorems, TLAPS

Precedes(a, b) == a.page < b.page \/ (a.page = b.page /\ a.slot < b.slot)

(* The window begins no later than the page of the cursor, which is one of *)
(* the pages for records whenever it is open.                              *)
PageInv ==
  /\ new <= rec.page
  /\ pc \in {"erase", "loop", "place", "record", "zero"} => rec.page \in MapPages
  /\ rec.slot # 0 => rec.page \in MapPages
  /\ pc = "erase" => rec.slot = 0

(* Every record lies before the cursor.                                    *)
IndexInv == \A k \in Keys : Stored(k) => Precedes(index[k], rec)

(* A record that has just been programmed over another is no key's.        *)
ZeroInv == pc = "zero" => At(rec) = who \/ (rec \in damage /\ At(rec) \notin Keys)

(* Two keys do not share a record.                                         *)
IndexApart ==
  \A j, k \in Keys : Stored(j) /\ Stored(k) /\ index[j] = index[k] => j = k

(* The records that a call has put behind the start of the map are on a    *)
(* page that some frame has still to empty.                                *)
BehindInv ==
  pc # "idle" =>
    \A k \in Behind \ (behind \cup ignored) :
      \E i \in DOMAIN stack : stack[i].back = index[k].page

LogInv == CursorErased /\ IndexInv /\ ZeroInv /\ IndexApart /\ NewestIsLast

IInv == TypeOK /\ PageInv /\ LogInv /\ BehindInv

Contents == Keys \cup {Erased, Zero, DataPage, Mixed}

-------------------------------------------------------------------------------
(* Slots.                                                                  *)

LEMMA PagesAreNumbers ==
  /\ MapPages \subseteq Nat /\ Slots \subseteq Nat /\ 0 \in Slots
  /\ \A p \in MapPages : p > 0 /\ p <= LAST_PAGE
BY LogConstants DEF MapPages, Slots

LEMMA WrittenType ==
  ASSUME TypeOK, NEW a \in Addresses, NEW c \in Contents
  PROVE  /\ Written(a, c) \in [MapPages -> [Slots -> Contents]]
         /\ \A b \in Addresses :
              Written(a, c)[b.page][b.slot] = IF b = a THEN c ELSE At(b)
<1> USE DEF Addresses, Written, At, TypeOK, Contents
<1>1. Written(a, c) \in [MapPages -> [Slots -> Contents]]
  OBVIOUS
<1>2. ASSUME NEW b \in Addresses
      PROVE  Written(a, c)[b.page][b.slot] = IF b = a THEN c ELSE At(b)
  <2>1. a.page \in MapPages /\ a.slot \in Slots /\ b.page \in MapPages /\ b.slot \in Slots
    OBVIOUS
  <2>2. b = a <=> b.page = a.page /\ b.slot = a.slot
    OBVIOUS
  <2> QED BY <2>1, <2>2
<1> QED BY <1>1, <1>2

LEMMA ErasedType ==
  ASSUME TypeOK, NEW page \in MapPages
  PROVE  /\ ErasedPage(page) \in [MapPages -> [Slots -> Contents]]
         /\ \A b \in Addresses :
              ErasedPage(page)[b.page][b.slot] = IF b.page = page THEN Erased ELSE At(b)
BY DEF Addresses, ErasedPage, At, TypeOK, Contents

LEMMA ProgrammedType ==
  ASSUME TypeOK, NEW a \in Addresses, NEW c \in Contents
  PROVE  /\ Programmed(a, c) \in [MapPages -> [Slots -> Contents]]
         /\ \A b \in Addresses : b # a => Programmed(a, c)[b.page][b.slot] = At(b)
         /\ At(a) = Erased => Programmed(a, c)[a.page][a.slot] = c
         /\ At(a) # Erased => Programmed(a, c)[a.page][a.slot] \in {Zero, Mixed}
<1>1. CASE At(a) = Erased
  BY <1>1, WrittenType DEF Programmed
<1>2. CASE At(a) = Zero
  <2>1. Erased # Zero
    BY DEF Erased, Zero
  <2>2. Programmed(a, c) = flash
    BY <1>2, <2>1 DEF Programmed
  <2> QED BY <1>2, <2>1, <2>2 DEF TypeOK, Contents, At
<1>3. CASE At(a) # Erased /\ At(a) # Zero
  <2>1. Mixed \in Contents
    BY DEF Contents
  <2> QED BY <1>3, <2>1, WrittenType DEF Programmed
<1> QED BY <1>1, <1>2, <1>3

(* No key is the content of a slot without a record.                       *)
LEMMA ContentsApart ==
  /\ Erased \notin Keys /\ Zero \notin Keys /\ DataPage \notin Keys /\ Mixed \notin Keys
BY KeysApart

LEMMA NextSlotFollows ==
  ASSUME NEW a \in Addresses
  PROVE  /\ NextSlot(a) \in [page : MapPages \cup {LAST_PAGE + 1}, slot : Slots]
         /\ NextSlot(a).page >= a.page
         /\ Precedes(a, NextSlot(a))
         /\ NextSlot(a).slot # 0 =>
              NextSlot(a).page = a.page /\ NextSlot(a).slot = a.slot + 1
<1>1. a.page \in MapPages /\ a.slot \in Slots
  BY DEF Addresses
<1>2. CASE a.slot + 1 = SLOTS
  <2>1. NextSlot(a) = [page |-> a.page + 1, slot |-> 0]
    BY <1>2 DEF NextSlot
  <2> QED BY <1>1, <2>1, LogConstants DEF MapPages, Slots, Precedes
<1>3. CASE a.slot + 1 # SLOTS
  <2>1. a.slot + 1 \in Slots
    BY <1>1, <1>3, LogConstants DEF Slots
  <2>2. NextSlot(a) = [a EXCEPT !.slot = a.slot + 1]
    BY <1>3 DEF NextSlot
  <2>3. NextSlot(a).page = a.page /\ NextSlot(a).slot = a.slot + 1
    BY <2>2, <2>1 DEF Addresses
  <2>4. NextSlot(a) \in Addresses
    BY <1>1, <2>1, <2>2 DEF Addresses
  <2>5. NextSlot(a) \in [page : MapPages \cup {LAST_PAGE + 1}, slot : Slots]
    BY <2>4 DEF Addresses
  <2>6. a.page \in Nat /\ a.slot \in Nat
    BY <1>1, PagesAreNumbers
  <2>7. NextSlot(a).page >= a.page /\ Precedes(a, NextSlot(a))
    BY <2>3, <2>6 DEF Precedes
  <2> QED BY <2>3, <2>5, <2>7
<1> QED BY <1>2, <1>3

LEMMA Order ==
  ASSUME NEW a \in [page : Nat, slot : Nat], NEW b \in [page : Nat, slot : Nat],
         NEW c \in [page : Nat, slot : Nat]
  PROVE  /\ Precedes(a, b) => a # b /\ ~Precedes(b, a)
         /\ Precedes(a, b) /\ Precedes(b, c) => Precedes(a, c)
BY DEF Precedes

LEMMA BeforePrecedes ==
  ASSUME NEW a \in [page : Nat, slot : Nat], NEW b \in [page : Nat, slot : Nat],
         NEW c \in [page : Nat, slot : Nat], Precedes(b, c),
         a.page < b.page \/ (a.page = b.page /\ a.slot <= b.slot)
  PROVE  a.page < c.page \/ (a.page = c.page /\ a.slot <= c.slot)
BY DEF Precedes

LEMMA AddressesOrdered ==
  ASSUME TypeOK
  PROVE  /\ Addresses \subseteq [page : Nat, slot : Nat]
         /\ NoRecord \in [page : Nat, slot : Nat]
         /\ rec \in [page : Nat, slot : Nat]
         /\ rec.page \in MapPages => rec \in Addresses
         /\ \A k \in Keys : Stored(k) => index[k] \in Addresses
         /\ new \in Nat /\ old \in Nat
<1>1. Addresses \subseteq [page : Nat, slot : Nat] /\ NoRecord \in [page : Nat, slot : Nat]
  BY PagesAreNumbers DEF Addresses, NoRecord
<1>2. LAST_PAGE + 1 \in Nat
  BY LogConstants
<1>3. rec \in [page : MapPages \cup {LAST_PAGE + 1}, slot : Slots]
  BY DEF TypeOK
<1>4. rec \in [page : Nat, slot : Nat]
  BY <1>2, <1>3, PagesAreNumbers
<1>5. rec.page \in MapPages => rec \in Addresses
  BY <1>3 DEF Addresses
<1>6. \A k \in Keys : Stored(k) => index[k] \in Addresses
  BY DEF TypeOK, Stored
<1>7. new \in Nat /\ old \in Nat
  BY LogConstants DEF TypeOK
<1> QED BY <1>1, <1>4, <1>5, <1>6, <1>7

-------------------------------------------------------------------------------
(* Types.                                                                  *)

LEMMA InitIInv == Init => IInv
<1> SUFFICES ASSUME Init PROVE IInv
  OBVIOUS
<1>1. STATE_PAGES \in MapPages /\ 0 \in 0 .. LAST_PAGE
  BY LogConstants DEF MapPages
<1>2. TypeOK
  BY <1>1, PagesAreNumbers, LogConstants DEF Init, TypeOK
<1>3. PageInv
  BY <1>1, PagesAreNumbers DEF Init, PageInv
<1>4. CursorErased /\ IndexInv /\ ZeroInv /\ IndexApart
  BY DEF Init, CursorErased, PageOpen, IndexInv, Stored, ZeroInv, IndexApart
<1>5. NewestIsLast
  BY ContentsApart DEF Init, NewestIsLast, Addresses, At
<1>6. BehindInv
  BY DEF Init, BehindInv
<1> QED BY <1>2, <1>3, <1>4, <1>5, <1>6 DEF IInv, LogInv

(* The steps of a call that only move its control.                         *)
Quiet ==
  \/ \E k \in Keys : Write(k) \/ MoveEntry(k) \/ MoveRecord(k)
  \/ FlushRecord \/ KeepRecordPage \/ OpenRecordPage
  \/ MoveMapPage \/ PrepareReturns \/ PlaceClient \/ PlaceData \/ PlaceSpins
  \/ FlashFails

LEMMA QuietEffect ==
  ASSUME Quiet
  PROVE  /\ UNCHANGED <<flash, index, rec, damage>>
         /\ pc # "zero" /\ pc' # "zero"
         /\ PageOpen' => PageOpen
<1>1. ASSUME NEW k \in Keys, Write(k) \/ MoveEntry(k) \/ MoveRecord(k)
      PROVE  /\ UNCHANGED <<flash, index, rec, damage>>
             /\ pc # "zero" /\ pc' # "zero" /\ (PageOpen' => PageOpen)
  BY <1>1 DEF Write, Begin, MoveEntry, MoveRecord, InFrame, PageOpen
<1>2. CASE FlushRecord \/ KeepRecordPage \/ OpenRecordPage
  BY <1>2 DEF FlushRecord, Begin, KeepRecordPage, OpenRecordPage, PageOpen
<1>3. CASE MoveMapPage \/ PrepareReturns \/ PlaceClient
  BY <1>3 DEF MoveMapPage, PrepareReturns, PlaceClient, InFrame, PageOpen
<1>4. CASE PlaceData \/ PlaceSpins \/ FlashFails
  BY <1>4 DEF PlaceData, PlaceSpins, PlaceOnNewPage, FlashFails, Abandon, NoCall, PageOpen
<1> QED BY <1>1, <1>2, <1>3, <1>4 DEF Quiet

LEMMA StepCases ==
  ASSUME [Next]_vars
  PROVE  \/ Quiet \/ UNCHANGED vars
         \/ ErasePage \/ PlaceDataOnNewPage \/ RewriteRecordPage
         \/ ProgramRecord \/ ZeroFails
         \/ RecordMoved \/ RecordWritten \/ RecordFlushed
BY Zenon DEF Next, Step, Frame, Quiet

-------------------------------------------------------------------------------
(* The records.                                                            *)

LEMMA QuietKeeps ==
  ASSUME LogInv, Quiet \/ UNCHANGED vars
  PROVE  LogInv'
<1>1. /\ UNCHANGED <<flash, index, rec, damage>>
      /\ pc' = "zero" => pc = "zero" /\ who' = who
      /\ pc = "zero" => pc' = "zero"
      /\ PageOpen' => PageOpen
  BY QuietEffect DEF vars, call, PageOpen
<1>2. CursorErased'
  BY <1>1 DEF LogInv, CursorErased, At
<1>3. IndexInv' /\ IndexApart'
  BY <1>1 DEF LogInv, IndexInv, IndexApart, Stored
<1>4. ZeroInv'
  BY <1>1 DEF LogInv, ZeroInv, At
<1>5. NewestIsLast'
  BY <1>1 DEF LogInv, NewestIsLast, At
<1> QED BY <1>2, <1>3, <1>4, <1>5 DEF LogInv

(* A page is opened before there is a record on it.                        *)
LEMMA EraseKeeps ==
  ASSUME TypeOK, PageInv, LogInv, ErasePage
  PROVE  LogInv'
<1>1. /\ rec.page \in MapPages /\ rec.slot = 0
      /\ flash' = ErasedPage(rec.page)
      /\ damage' = damage \ SlotsOf(rec.page)
      /\ pc' = "loop" /\ UNCHANGED <<index, rec>>
  BY DEF ErasePage, Opened, PageInv
<1>2. \A b \in Addresses : At(b)' = IF b.page = rec.page THEN Erased ELSE At(b)
  BY <1>1, ErasedType DEF At
<1>3. \A s \in Slots : flash'[rec.page][s] = Erased
  BY <1>1 DEF ErasedPage, TypeOK
<1>4. At(rec)' = Erased
  BY <1>1, <1>2, AddressesOrdered
<1>5. CursorErased'
  BY <1>1, <1>3, <1>4 DEF CursorErased
<1>6. IndexInv' /\ ZeroInv'
  BY <1>1 DEF LogInv, IndexInv, Stored, ZeroInv
<1>8. IndexApart'
  BY <1>1 DEF LogInv, IndexApart, Stored
<1>9. NewestIsLast'
  <2> SUFFICES ASSUME NEW k \in Keys, NEW a \in Addresses, At(a)' = k
               PROVE  \/ a.page < index[k].page
                      \/ a.page = index[k].page /\ a.slot <= index[k].slot
    BY <1>1 DEF NewestIsLast
  <2>1. a.page # rec.page /\ At(a) = k
    BY <1>2, ContentsApart
  <2>2. a # rec
    BY <2>1
  <2> QED BY <2>1, <2>2 DEF LogInv, NewestIsLast
<1> QED BY <1>5, <1>6, <1>8, <1>9 DEF LogInv

(* A page may be erased under the cursor: whatever was on it is gone.      *)
LEMMA WrongEraseKeeps ==
  ASSUME TypeOK, PageInv, LogInv, PlaceDataOnNewPage \/ RewriteRecordPage
  PROVE  LogInv'
<1>1. /\ rec.page \in MapPages
      /\ flash' = ErasedPage(rec.page)
      /\ pc' \in {"record", "loop"} /\ UNCHANGED <<index, rec>>
  BY DEF PlaceDataOnNewPage, RewriteRecordPage, PlaceOnNewPage
<1>2. \A b \in Addresses : At(b)' = IF b.page = rec.page THEN Erased ELSE At(b)
  BY <1>1, ErasedType DEF At
<1>3. \A s \in Slots : flash'[rec.page][s] = Erased
  BY <1>1 DEF ErasedPage, TypeOK
<1>4. At(rec)' = Erased
  BY <1>1, <1>2, AddressesOrdered
<1>5. CursorErased'
  BY <1>1, <1>3, <1>4 DEF CursorErased
<1>6. IndexInv' /\ ZeroInv'
  BY <1>1 DEF LogInv, IndexInv, Stored, ZeroInv
<1>7. IndexApart'
  BY <1>1 DEF LogInv, IndexApart, Stored
<1>8. NewestIsLast'
  <2> SUFFICES ASSUME NEW k \in Keys, NEW a \in Addresses, At(a)' = k
               PROVE  \/ a.page < index[k].page
                      \/ a.page = index[k].page /\ a.slot <= index[k].slot
    BY <1>1 DEF NewestIsLast
  <2>1. a.page # rec.page /\ At(a) = k
    BY <1>2, ContentsApart
  <2>2. a # rec
    BY <2>1
  <2> QED BY <2>1, <2>2 DEF LogInv, NewestIsLast
<1> QED BY <1>5, <1>6, <1>7, <1>8 DEF LogInv

LEMMA ProgramKeeps ==
  ASSUME TypeOK, PageInv, LogInv, ProgramRecord
  PROVE  LogInv'
<1>1. /\ pc = "record" /\ pc' = "zero" /\ rec \in Addresses
      /\ flash' = Programmed(rec, who)
      /\ damage' = IF At(rec) = Erased THEN damage \ {rec} ELSE damage
      /\ UNCHANGED <<index, rec, who>>
  BY AddressesOrdered DEF ProgramRecord, call
<1>2. who \in Contents
  BY DEF TypeOK, Contents
<1>3. /\ \A b \in Addresses : b # rec => flash'[b.page][b.slot] = At(b)
      /\ At(rec) = Erased => At(rec)' = who
      /\ At(rec) # Erased => At(rec)' \in {Zero, Mixed}
  BY <1>1, <1>2, ProgrammedType DEF At
<1>4. CursorErased'
  <2> SUFFICES ASSUME NEW s \in Slots, s > rec.slot
               PROVE  flash'[rec.page][s] = Erased
    BY <1>1 DEF CursorErased
  <2> DEFINE b == [page |-> rec.page, slot |-> s]
  <2>1. b \in Addresses /\ b # rec
    BY <1>1, PagesAreNumbers DEF Addresses
  <2>2. flash[rec.page][s] = Erased
    BY <1>1 DEF LogInv, CursorErased, PageOpen
  <2>3. b.page = rec.page /\ b.slot = s
    OBVIOUS
  <2> HIDE DEF b
  <2>4. flash'[b.page][b.slot] = At(b)
    BY <1>3, <2>1
  <2> QED BY <2>2, <2>3, <2>4 DEF At
<1>5. IndexInv'
  BY <1>1 DEF LogInv, IndexInv, Stored
<1>6. ZeroInv'
  <2>1. At(rec) # Erased => rec \in damage
    BY <1>1 DEF LogInv, CursorErased, PageOpen
  <2> QED BY <1>1, <1>3, <2>1, ContentsApart DEF ZeroInv
<1>8. IndexApart'
  BY <1>1 DEF LogInv, IndexApart, Stored
<1>9. NewestIsLast'
  <2> SUFFICES ASSUME NEW k \in Keys, NEW a \in Addresses, At(a)' = k, a # rec
               PROVE  \/ a.page < index[k].page
                      \/ a.page = index[k].page /\ a.slot <= index[k].slot
    BY <1>1 DEF NewestIsLast
  <2>1. At(a) = k
    BY <1>3 DEF At
  <2> QED BY <2>1 DEF LogInv, NewestIsLast
<1> QED BY <1>4, <1>5, <1>6, <1>8, <1>9 DEF LogInv

LEMMA ZeroFailsKeeps ==
  ASSUME TypeOK, PageInv, LogInv, ZeroFails
  PROVE  LogInv'
<1>1. /\ pc = "zero" /\ pc' = "idle" /\ UNCHANGED <<flash, index, rec>>
      /\ damage' = damage \cup {rec}
  BY DEF ZeroFails, Abandon
<1>2. CursorErased'
  BY <1>1 DEF LogInv, CursorErased, PageOpen
<1>3. IndexInv' /\ ZeroInv' /\ IndexApart'
  BY <1>1 DEF LogInv, IndexInv, ZeroInv, IndexApart, Stored, At
<1>4. NewestIsLast'
  BY <1>1 DEF LogInv, NewestIsLast, At
<1> QED BY <1>2, <1>3, <1>4 DEF LogInv

(* With the new record done only a slot of an older one of its key, before *)
(* the page of the cursor, has changed, and the index follows.             *)
LEMMA OldCleared ==
  ASSUME TypeOK, PageInv, RecordDone
  PROVE  /\ rec \in Addresses
         /\ \A b \in Addresses : flash'[b.page][b.slot] # flash[b.page][b.slot] =>
              /\ b.page < rec.page /\ flash'[b.page][b.slot] = Zero
              /\ who \in Keys /\ b = index[who] /\ Stored(who)
         /\ \A s \in Slots : flash'[rec.page][s] = flash[rec.page][s]
         /\ \A k \in Keys : index'[k] = IF k = who THEN rec ELSE index[k]
<1>1. /\ rec \in Addresses /\ flash' = ZeroOld /\ index' = Indexed
  BY AddressesOrdered DEF RecordDone, PageInv
<1>3. ASSUME NEW b \in Addresses, flash'[b.page][b.slot] # flash[b.page][b.slot]
      PROVE  /\ b.page < rec.page /\ flash'[b.page][b.slot] = Zero
             /\ who \in Keys /\ b = index[who] /\ Stored(who)
  <2>1. /\ is_in_old_map_page(OldAddress.page) /\ OldAddress.page \in MapPages
        /\ flash' = Written(OldAddress, Zero)
    BY <1>1, <1>3 DEF ZeroOld
  <2>2. OldAddress # NoRecord
    BY <2>1, PagesAreNumbers DEF NoRecord
  <2>3. who \in Keys /\ OldAddress = index[who] /\ OldAddress \in Addresses /\ Stored(who)
    BY <2>2 DEF OldAddress, TypeOK, Stored
  <2>4. Zero \in Contents
    BY DEF Contents
  <2>5. b = OldAddress /\ flash'[b.page][b.slot] = Zero
    BY <1>3, <2>1, <2>3, <2>4, WrittenType DEF At
  <2>6. new \in Nat /\ old \in Nat /\ rec.page \in Nat /\ new <= rec.page
    BY AddressesOrdered DEF PageInv
  <2>7. OldAddress.page < rec.page
    BY <2>1, <2>6 DEF is_in_old_map_page
  <2> QED BY <2>3, <2>5, <2>7
<1>4. rec.page \in Nat /\ rec.page \in MapPages
  BY <1>1, AddressesOrdered DEF Addresses
<1>5. \A s \in Slots : flash'[rec.page][s] = flash[rec.page][s]
  <2> TAKE s \in Slots
  <2> DEFINE b == [page |-> rec.page, slot |-> s]
  <2>1. b \in Addresses /\ b.page = rec.page /\ b.slot = s
    BY <1>4 DEF Addresses
  <2> HIDE DEF b
  <2> QED BY <1>3, <1>4, <2>1
<1>6. \A k \in Keys : index'[k] = IF k = who THEN rec ELSE index[k]
  BY <1>1, ContentsApart DEF Indexed, TypeOK
<1> QED BY <1>1, <1>3, <1>5, <1>6

(* The record becomes that of its key, and the cursor goes on.             *)
LEMMA RecordKeeps ==
  ASSUME TypeOK, PageInv, LogInv, RecordDone, pc' \in {"idle", "prepare"}, damage' = damage
  PROVE  LogInv'
<1>1. /\ pc = "zero" /\ rec \in Addresses /\ flash' = ZeroOld
      /\ rec' = NextSlot(rec) /\ index' = Indexed
  BY AddressesOrdered DEF RecordDone, PageInv
<1>2. /\ NextSlot(rec).page >= rec.page /\ Precedes(rec, NextSlot(rec))
      /\ rec' \in [page : Nat, slot : Nat]
      /\ rec'.slot # 0 => rec'.page = rec.page /\ rec'.slot = rec.slot + 1 /\ rec'.slot \in Slots
  <2>1. NextSlot(rec) \in [page : MapPages \cup {LAST_PAGE + 1}, slot : Slots]
    BY <1>1, NextSlotFollows
  <2>2. NextSlot(rec) \in [page : Nat, slot : Nat]
    <3>1. LAST_PAGE + 1 \in Nat
      BY LogConstants
    <3>2. MapPages \cup {LAST_PAGE + 1} \subseteq Nat /\ Slots \subseteq Nat
      BY <3>1, PagesAreNumbers
    <3> QED BY <2>1, <3>2
  <2>3. NextSlot(rec).page >= rec.page /\ Precedes(rec, NextSlot(rec))
    BY <1>1, NextSlotFollows
  <2>4. NextSlot(rec).slot # 0 =>
          NextSlot(rec).page = rec.page /\ NextSlot(rec).slot = rec.slot + 1
    BY <1>1, NextSlotFollows
  <2>5. NextSlot(rec).slot \in Slots
    BY <2>1
  <2> QED BY <1>1, <2>2, <2>3, <2>4, <2>5
<1>3. ASSUME NEW b \in Addresses, flash'[b.page][b.slot] # flash[b.page][b.slot]
      PROVE  /\ b.page < rec.page /\ flash'[b.page][b.slot] = Zero
             /\ who \in Keys /\ b = index[who] /\ Stored(who)
  BY <1>3, OldCleared
<1>4. \A s \in Slots : flash'[rec.page][s] = flash[rec.page][s]
  BY OldCleared
<1>5. \A k \in Keys : index'[k] = IF k = who THEN rec ELSE index[k]
  BY OldCleared
<1>6. CursorErased'
  <2> SUFFICES ASSUME PageOpen' PROVE CursorErased'
    BY DEF CursorErased
  <2>1. rec'.slot # 0
    BY DEF PageOpen
  <2>2. rec'.page = rec.page /\ rec'.slot = rec.slot + 1 /\ rec'.slot \in Slots
        /\ rec.slot \in Nat
    BY <1>2, <2>1, AddressesOrdered
  <2>3. \A s \in Slots : s > rec.slot => flash'[rec.page][s] = Erased
    BY <1>1, <1>4 DEF LogInv, CursorErased, PageOpen
  <2>4. \A s \in Slots : s > rec'.slot => flash'[rec'.page][s] = Erased
    <3> SUFFICES ASSUME NEW s \in Slots, s > rec'.slot PROVE flash'[rec'.page][s] = Erased
      OBVIOUS
    <3>1. s \in Nat /\ s > rec.slot
      BY <2>2, PagesAreNumbers
    <3> QED BY <2>2, <2>3, <3>1
  <2>5. At(rec)' = Erased
    <3>1. At(rec)' = flash'[rec'.page][rec'.slot]
      BY DEF At
    <3>2. rec'.slot > rec.slot
      BY <2>2
    <3> QED BY <2>2, <2>3, <3>1, <3>2
  <2> QED BY <2>4, <2>5 DEF CursorErased
<1>7. ZeroInv'
  BY DEF ZeroInv
<1>9. IndexInv'
  <2> SUFFICES ASSUME NEW k \in Keys, Stored(k)' PROVE Precedes(index'[k], rec')
    BY DEF IndexInv, Precedes
  <2>1. CASE k = who
    BY <1>1, <1>2, <1>5, <2>1
  <2>2. CASE k # who
    <3>1. Stored(k) /\ index'[k] = index[k]
      BY <1>5, <2>2 DEF Stored
    <3>2. Precedes(index[k], rec) /\ index[k] \in [page : Nat, slot : Nat]
          /\ rec \in [page : Nat, slot : Nat]
      BY <3>1, AddressesOrdered DEF LogInv, IndexInv
    <3> QED BY <1>1, <1>2, <3>1, <3>2, Order
  <2> QED BY <2>1, <2>2
<1>10. IndexApart'
  <2> SUFFICES ASSUME NEW j \in Keys, NEW k \in Keys, Stored(j)', Stored(k)',
                      index'[j] = index'[k], k # who
               PROVE  j = k
    BY DEF IndexApart
  <2>1. Stored(k) /\ index'[k] = index[k]
    BY <1>5 DEF Stored
  <2>2. index[k] # rec
    BY <1>1, <2>1, AddressesOrdered, Order DEF LogInv, IndexInv
  <2>3. j # who
    BY <1>5, <2>1, <2>2
  <2>4. Stored(j) /\ index'[j] = index[j]
    BY <1>5, <2>3 DEF Stored
  <2> QED BY <2>1, <2>4 DEF LogInv, IndexApart
<1>11. NewestIsLast'
  <2> SUFFICES ASSUME NEW k \in Keys, NEW a \in Addresses, flash'[a.page][a.slot] = k
               PROVE  \/ a.page < index'[k].page
                      \/ a.page = index'[k].page /\ a.slot <= index'[k].slot
                      \/ a = rec' /\ a \in damage
    BY DEF NewestIsLast, At
  <2>1. At(a) = k
    BY <1>3, ContentsApart DEF At
  <2>2. CASE a = rec
    <3>1. k = who
      BY <1>1, <2>1, <2>2 DEF LogInv, ZeroInv
    <3> QED BY <1>5, <2>2, <3>1, AddressesOrdered
  <2>3. CASE a # rec
    <3>1. \/ a.page < index[k].page
          \/ a.page = index[k].page /\ a.slot <= index[k].slot
      BY <2>1, <2>3 DEF LogInv, NewestIsLast
    <3>2. CASE k # who
      BY <1>5, <3>1, <3>2
    <3>3. CASE k = who
      <4>0. a.page \in Nat /\ a.page > 0
        BY PagesAreNumbers DEF Addresses
      <4>1. Stored(k)
        BY <3>1, <4>0 DEF Stored, NoRecord
      <4>2. Precedes(index[k], rec) /\ index[k] \in [page : Nat, slot : Nat]
            /\ rec \in [page : Nat, slot : Nat] /\ a \in [page : Nat, slot : Nat]
        BY <4>1, AddressesOrdered DEF LogInv, IndexInv
      <4>3. a.page < rec.page \/ (a.page = rec.page /\ a.slot <= rec.slot)
        BY <3>1, <4>2, BeforePrecedes
      <4>4. index'[k] = rec
        BY <1>5, <3>3
      <4> QED BY <4>3, <4>4
    <3> QED BY <3>2, <3>3
  <2> QED BY <2>2, <2>3
<1> QED BY <1>6, <1>7, <1>9, <1>10, <1>11 DEF LogInv

LEMMA LogStep ==
  ASSUME TypeOK, PageInv, LogInv, [Next]_vars
  PROVE  LogInv'
<1>1. CASE RecordMoved \/ RecordWritten \/ RecordFlushed
  <2>1. RecordDone /\ pc' \in {"idle", "prepare"} /\ damage' = damage
    BY <1>1 DEF RecordMoved, RecordWritten, RecordFlushed, NoCall
  <2> QED BY <2>1, RecordKeeps
<1> QED BY <1>1, StepCases, QuietKeeps, EraseKeeps, WrongEraseKeeps, ProgramKeeps,
           ZeroFailsKeeps

(* The steps that can make a record unreadable.                            *)
LEMMA ReadableStep ==
  ASSUME TypeOK, PageInv, LogInv, [Next]_vars,
         NEW k \in Keys, Readable(k), ~Readable(k)'
  PROVE  \/ PlaceDataOnNewPage \/ RewriteRecordPage
         \/ who = k /\ pc = "zero" /\ rec \in damage
<1>1. Stored(k) /\ index[k] \in Addresses /\ At(index[k]) = k
  BY AddressesOrdered DEF Readable
<1>2. index[k] # rec /\ Precedes(index[k], rec)
  BY <1>1, AddressesOrdered, Order DEF LogInv, IndexInv
<1>3. ASSUME index'[k] = index[k], At(index[k])' = At(index[k]) PROVE FALSE
  BY <1>1, <1>3 DEF Readable, Stored
<1>4. CASE Quiet \/ UNCHANGED vars \/ ZeroFails
  <2>1. UNCHANGED <<flash, index>>
    BY <1>4, QuietEffect DEF vars, ZeroFails, Abandon
  <2> QED BY <1>3, <2>1 DEF At
<1>5. CASE ErasePage
  <2>1. /\ rec.page \in MapPages /\ rec.slot = 0
        /\ flash' = ErasedPage(rec.page) /\ index' = index
    BY <1>5 DEF ErasePage, Opened, PageInv
  <2>2. index[k].page # rec.page
    BY <1>1, <1>2, <2>1, AddressesOrdered, PagesAreNumbers DEF Precedes, Addresses
  <2>3. flash'[index[k].page][index[k].slot] = At(index[k])
    BY <1>1, <2>1, <2>2, ErasedType
  <2> QED BY <1>3, <2>1, <2>3 DEF At
<1>6. CASE ProgramRecord
  <2>1. rec \in Addresses /\ who \in Contents /\ flash' = Programmed(rec, who)
        /\ index' = index
    BY <1>6, AddressesOrdered DEF ProgramRecord, TypeOK, Contents
  <2>2. flash'[index[k].page][index[k].slot] = At(index[k])
    BY <1>1, <1>2, <2>1, ProgrammedType
  <2> QED BY <1>3, <2>1, <2>2 DEF At
<1>7. CASE RecordMoved \/ RecordWritten \/ RecordFlushed
  <2>1. RecordDone /\ pc = "zero"
    BY <1>7 DEF RecordMoved, RecordWritten, RecordFlushed, RecordDone
  <2>2. CASE k # who
    <3>1. index'[k] = index[k]
      BY <2>1, <2>2, OldCleared
    <3>2. flash'[index[k].page][index[k].slot] = flash[index[k].page][index[k].slot]
      <4> SUFFICES ASSUME flash'[index[k].page][index[k].slot]
                            # flash[index[k].page][index[k].slot]
                   PROVE  FALSE
        OBVIOUS
      <4>1. who \in Keys /\ index[k] = index[who] /\ Stored(who)
        BY <1>1, <2>1, OldCleared
      <4> QED BY <1>1, <2>2, <4>1 DEF LogInv, IndexApart
    <3> QED BY <1>3, <3>1, <3>2 DEF At
  <2>3. CASE k = who /\ rec \notin damage
    <3>1. At(rec) = k /\ rec \in Addresses /\ index'[k] = rec
      BY <2>1, <2>3, OldCleared DEF LogInv, ZeroInv
    <3>2. flash'[rec.page][rec.slot] = k
      BY <2>1, <3>1, OldCleared DEF At, Addresses
    <3>3. rec # NoRecord
      BY <3>1, PagesAreNumbers DEF Addresses, NoRecord
    <3> QED BY <3>1, <3>2, <3>3 DEF Readable, Stored, At
  <2> QED BY <2>1, <2>2, <2>3
<1> QED BY <1>4, <1>5, <1>6, <1>7, StepCases

-------------------------------------------------------------------------------
(* The window and the frames.                                              *)

LEMMA PageStep ==
  ASSUME TypeOK, PageInv, [Next]_vars
  PROVE  PageInv'
<1>0. /\ rec \in [page : Nat, slot : Nat] /\ new \in Nat
      /\ MAPPING_MAX_RANGE \in Nat \ {0}
  BY AddressesOrdered, LogConstants
<1> USE DEF PageInv
<1>1. ASSUME NEW k \in Keys, Write(k) \/ MoveEntry(k) \/ MoveRecord(k) PROVE PageInv'
  BY <1>1 DEF Write, Begin, MoveEntry, MoveRecord, InFrame
<1>2. CASE FlushRecord \/ KeepRecordPage
  BY <1>2 DEF FlushRecord, Begin, KeepRecordPage
<1>3. CASE OpenRecordPage
  <2>1. rec' = rec /\ rec.slot = 0 /\ rec.page \in MapPages /\ pc' = "erase"
    BY <1>3 DEF OpenRecordPage
  <2>2. new' <= rec.page
    BY <1>0, <1>3 DEF OpenRecordPage, MoveRecords
  <2> QED BY <2>1, <2>2
<1>4. CASE MoveMapPage \/ PrepareReturns \/ PlaceClient
  BY <1>4 DEF MoveMapPage, PrepareReturns, PlaceClient, InFrame
<1>5. CASE ErasePage \/ PlaceData \/ ProgramRecord
  BY <1>5 DEF ErasePage, PlaceData, ProgramRecord
<1>6. CASE FlashFails \/ ZeroFails
  BY <1>6 DEF FlashFails, ZeroFails, Abandon
<1>7. CASE RecordMoved \/ RecordWritten \/ RecordFlushed
  <2>1. /\ pc = "zero" /\ rec' = NextSlot(rec) /\ new' = new
        /\ pc' \in {"prepare", "idle"}
    BY <1>7 DEF RecordMoved, RecordWritten, RecordFlushed, RecordDone, NoCall
  <2>2. rec \in Addresses /\ rec.page \in MapPages
    BY <2>1, AddressesOrdered
  <2>3. /\ rec'.page >= rec.page /\ rec'.page \in Nat
        /\ rec'.slot # 0 => rec'.page = rec.page
    <3>1. LAST_PAGE + 1 \in Nat
      BY LogConstants
    <3>2. NextSlot(rec).page \in MapPages \cup {LAST_PAGE + 1}
      BY <2>2, NextSlotFollows
    <3> QED BY <2>1, <2>2, <3>1, <3>2, NextSlotFollows, PagesAreNumbers
  <2>4. new' <= rec'.page
    BY <1>0, <2>1, <2>3
  <2> QED BY <2>1, <2>2, <2>3, <2>4
<1>8. CASE UNCHANGED vars
  BY <1>8 DEF vars
<1>9. CASE PlaceDataOnNewPage \/ RewriteRecordPage \/ PlaceSpins
  BY <1>9 DEF PlaceDataOnNewPage, RewriteRecordPage, PlaceSpins, PlaceOnNewPage
<1> QED BY <1>1, <1>2, <1>3, <1>4, <1>5, <1>6, <1>7, <1>8, <1>9 DEF Next, Step, Frame

LEMMA TopType ==
  ASSUME TypeOK, stack # <<>>
  PROVE  /\ Len(stack) \in Nat /\ Len(stack) >= 1 /\ DOMAIN stack = 1 .. Len(stack)
         /\ Len(stack) \in DOMAIN stack /\ Top \in Frames
<1>1. stack \in Seq(Frames)
  BY DEF TypeOK
<1>2. Len(stack) \in Nat /\ DOMAIN stack = 1 .. Len(stack)
  BY <1>1, LenProperties
<1>3. Len(stack) >= 1
  BY <1>1, <1>2, EmptySeq
<1> QED BY <1>1, <1>2, <1>3, ElementOfSeq DEF Top

LEMMA RestType ==
  ASSUME TypeOK, stack # <<>>
  PROVE  /\ Rest \in Seq(Frames)
         /\ DOMAIN Rest = 1 .. Len(stack) - 1
         /\ \A i \in 1 .. Len(stack) - 1 : Rest[i] = stack[i]
<1>1. /\ stack \in Seq(Frames) /\ Len(stack) \in Nat /\ Len(stack) >= 1
  BY TopType DEF TypeOK
<1>2. 1 \in 1 .. Len(stack) + 1 /\ Len(stack) - 1 \in 0 .. Len(stack)
  BY <1>1
<1>3. /\ Rest \in Seq(Frames)
      /\ Len(Rest) = IF 1 <= Len(stack) - 1 THEN Len(stack) - 1 - 1 + 1 ELSE 0
      /\ \A i \in 1 .. Len(stack) - 1 - 1 + 1 : Rest[i] = stack[1 + i - 1]
  BY <1>1, <1>2, SubSeqProperties DEF Rest
<1>4. Len(Rest) = Len(stack) - 1
  <2> DEFINE n == Len(stack)  m == Len(Rest)
  <2>1. n \in Nat /\ n >= 1 /\ m = IF 1 <= n - 1 THEN n - 1 - 1 + 1 ELSE 0
    BY <1>1, <1>3
  <2> HIDE DEF n, m
  <2>2. m = n - 1
    BY <2>1
  <2> QED BY <2>2 DEF n, m
<1>5. DOMAIN Rest = 1 .. Len(Rest)
  BY <1>3, LenProperties
<1>6. \A i \in 1 .. Len(stack) - 1 : Rest[i] = stack[i]
  <2> TAKE i \in 1 .. Len(stack) - 1
  <2>1. i \in 1 .. Len(stack) - 1 - 1 + 1 /\ 1 + i - 1 = i
    BY <1>1
  <2> QED BY <2>1, <1>3
<1> QED BY <1>3, <1>4, <1>5, <1>6

(* One frame is rewritten, and keeps the page it empties.                  *)
LEMMA FrameSet ==
  ASSUME TypeOK, stack # <<>>, NEW n \in DOMAIN stack, NEW f \in Frames,
         stack' = [stack EXCEPT ![n] = f]
  PROVE  stack' \in Seq(Frames) /\ DOMAIN stack' = DOMAIN stack
         /\ \A i \in DOMAIN stack : stack'[i] = IF i = n THEN f ELSE stack[i]
<1>1. stack \in Seq(Frames) /\ n \in 1 .. Len(stack)
  BY TopType DEF TypeOK
<1>2. stack' \in Seq(Frames) /\ Len(stack') = Len(stack)
  BY <1>1, ExceptSeq
<1>3. DOMAIN stack' = 1 .. Len(stack') /\ DOMAIN stack = 1 .. Len(stack)
  BY <1>1, <1>2, LenProperties
<1>4. \A i \in DOMAIN stack : stack'[i] = IF i = n THEN f ELSE stack[i]
  BY <1>1
<1> QED BY <1>2, <1>3, <1>4

(* The steps that only touch the top frame.                                *)
LEMMA TopSet ==
  ASSUME TypeOK, MoveMapPage \/ \E k \in Keys : MoveEntry(k)
  PROVE  /\ stack' \in Seq(Frames) /\ DOMAIN stack' = DOMAIN stack
         /\ \A i \in DOMAIN stack : stack'[i].back = stack[i].back
<1>1. stack # <<>>
  BY DEF MoveMapPage, MoveEntry, InFrame
<1>2. Len(stack) \in DOMAIN stack /\ Top \in Frames
  BY <1>1, TopType
<1>3. CASE MoveMapPage
  <2> DEFINE f == [Top EXCEPT !.records = TRUE]
  <2>1. f \in Frames /\ f.back = Top.back
    BY <1>2 DEF Frames
  <2>2. stack' = [stack EXCEPT ![Len(stack)] = f]
    BY <1>3 DEF MoveMapPage, Top
  <2> HIDE DEF f
  <2> QED BY <1>1, <1>2, <2>1, <2>2, FrameSet DEF Top
<1>4. ASSUME NEW k \in Keys, MoveEntry(k)
      PROVE  /\ stack' \in Seq(Frames) /\ DOMAIN stack' = DOMAIN stack
             /\ \A i \in DOMAIN stack : stack'[i].back = stack[i].back
  <2> DEFINE f == [Top EXCEPT !.todo = @ \ {k}]
  <2>1. f \in Frames /\ f.back = Top.back
    BY <1>2 DEF Frames
  <2>2. stack' = [stack EXCEPT ![Len(stack)] = f]
    BY <1>4 DEF MoveEntry, Top
  <2> HIDE DEF f
  <2> QED BY <1>1, <1>2, <2>1, <2>2, FrameSet DEF Top
<1> QED BY <1>3, <1>4

(* The frame of an opened page, on top of those in progress.               *)
LEMMA FramePushed ==
  ASSUME TypeOK, OpenRecordPage
  PROVE  /\ stack' \in Seq(Frames) /\ moved' \in 0 .. MAX_MOVED
         /\ \A i \in DOMAIN stack : i \in DOMAIN stack' /\ stack'[i] = stack[i]
         /\ MoveRecords => \E i \in DOMAIN stack' : stack'[i].back = new
<1>1. PICK todo \in SUBSET Movable :
        /\ moved' = moved + Cardinality(todo) /\ moved' <= MAX_MOVED
        /\ stack' = Append(stack, [page |-> rec.page, todo |-> todo, records |-> FALSE,
                                   back |-> IF MoveRecords THEN new ELSE 0, slot |-> 0])
  BY DEF OpenRecordPage
<1> DEFINE f == [page |-> rec.page, todo |-> todo, records |-> FALSE,
                 back |-> IF MoveRecords THEN new ELSE 0, slot |-> 0]
<1>2. todo \subseteq Keys
  BY DEF Movable
<1>3. moved' \in 0 .. MAX_MOVED
  <2>1. Cardinality(todo) \in Nat
    BY <1>2, FS_Subset, FS_CardinalityType, LogConstants
  <2> QED BY <1>1, <2>1, LogConstants DEF TypeOK
<1>4. f \in Frames /\ (MoveRecords => f.back = new)
  <2>1. rec.page \in MapPages
    BY DEF OpenRecordPage
  <2> QED BY <1>2, <2>1, LogConstants, PagesAreNumbers DEF Frames, TypeOK
<1> HIDE DEF f
<1>5. stack \in Seq(Frames) /\ stack' = Append(stack, f)
  BY <1>1 DEF TypeOK, f
<1>6. /\ stack' \in Seq(Frames) /\ Len(stack') = Len(stack) + 1
      /\ \A i \in 1 .. Len(stack) : stack'[i] = stack[i]
      /\ stack'[Len(stack) + 1] = f
  BY <1>4, <1>5, AppendProperties
<1>7. /\ Len(stack) \in Nat /\ DOMAIN stack = 1 .. Len(stack)
      /\ DOMAIN stack' = 1 .. Len(stack')
  BY <1>5, <1>6, LenProperties
<1>8. Len(stack) + 1 \in DOMAIN stack' /\ DOMAIN stack \subseteq DOMAIN stack'
  BY <1>6, <1>7
<1> QED BY <1>3, <1>4, <1>6, <1>7, <1>8

(* The frame of a page that is rewritten is the only one.                  *)
LEMMA FrameAlone ==
  ASSUME TypeOK, RewriteRecordPage
  PROVE  stack' \in Seq(Frames) /\ moved' \in 0 .. MAX_MOVED
<1>1. PICK todo \in SUBSET Movable :
        /\ moved' = moved + Cardinality(todo) /\ moved' <= MAX_MOVED
        /\ stack' = <<[page |-> rec.page, todo |-> todo, records |-> FALSE,
                       back |-> 0, slot |-> rec.slot]>>
  BY DEF RewriteRecordPage
<1>2. todo \subseteq Keys
  BY DEF Movable
<1>3. moved' \in 0 .. MAX_MOVED
  <2>1. Cardinality(todo) \in Nat
    BY <1>2, FS_Subset, FS_CardinalityType, LogConstants
  <2> QED BY <1>1, <2>1, LogConstants DEF TypeOK
<1>4. rec.page \in MapPages /\ rec.slot \in Slots /\ 0 \in 0 .. LAST_PAGE
  BY LogConstants DEF RewriteRecordPage, PlaceOnNewPage, TypeOK
<1> QED BY <1>1, <1>2, <1>3, <1>4 DEF Frames

(* The control state and the history of a call.                            *)
CallType ==
  /\ update \in BOOLEAN
  /\ old \in 0 .. LAST_PAGE /\ new \in 0 .. LAST_PAGE
  /\ pc \in {"idle", "prepare", "erase", "loop", "place", "record", "zero",
            "spins"}
  /\ op \in Keys \cup {DataPage} /\ who \in Keys \cup {DataPage}
  /\ ignored \subseteq Keys /\ moved \in 0 .. MAX_MOVED
  /\ stack \in Seq(Frames)
  /\ behind \subseteq Keys

LogType ==
  /\ flash \in [MapPages -> [Slots -> Contents]]
  /\ index \in [Keys -> Addresses \cup {NoRecord}]
  /\ rec \in [page : MapPages \cup {LAST_PAGE + 1}, slot : Slots]
  /\ damage \subseteq Addresses

LEMMA TypeParts == TypeOK <=> CallType /\ LogType
BY Zenon DEF TypeOK, CallType, LogType, Contents

LEMMA LogTypeStep ==
  ASSUME TypeOK, PageInv, [Next]_vars
  PROVE  LogType'
<1>1. LogType
  BY TypeParts
<1>2. CASE Quiet \/ UNCHANGED vars
  <2>1. UNCHANGED <<flash, index, rec, damage>>
    BY <1>2, QuietEffect DEF vars
  <2> QED BY <1>1, <2>1 DEF LogType
<1>3. CASE ErasePage
  <2>1. rec.page \in MapPages
    BY <1>3 DEF ErasePage, PageInv
  <2> QED BY <1>1, <1>3, <2>1, ErasedType DEF ErasePage, Opened, LogType
<1>4. CASE PlaceDataOnNewPage \/ RewriteRecordPage
  <2>1. /\ rec.page \in MapPages /\ flash' = ErasedPage(rec.page)
        /\ damage' = damage \ SlotsOf(rec.page) /\ UNCHANGED <<index, rec>>
    BY <1>4 DEF PlaceDataOnNewPage, RewriteRecordPage, PlaceOnNewPage
  <2> QED BY <1>1, <2>1, ErasedType DEF LogType
<1>5. CASE ProgramRecord
  <2>1. rec \in Addresses
    BY <1>5, AddressesOrdered DEF ProgramRecord
  <2>2. who \in Contents
    BY DEF TypeOK, Contents
  <2> QED BY <1>1, <1>5, <2>1, <2>2, ProgrammedType DEF ProgramRecord, LogType
<1>6. CASE ZeroFails
  <2>1. rec \in Addresses
    BY <1>6, AddressesOrdered DEF ZeroFails, PageInv
  <2> QED BY <1>1, <1>6, <2>1 DEF ZeroFails, Abandon, LogType
<1>7. CASE RecordMoved \/ RecordWritten \/ RecordFlushed
  <2>1. /\ pc = "zero" /\ flash' = ZeroOld /\ rec' = NextSlot(rec)
        /\ index' = Indexed /\ damage' = damage
    BY <1>7 DEF RecordMoved, RecordWritten, RecordFlushed, RecordDone, NoCall
  <2>2. rec \in Addresses
    BY <2>1, AddressesOrdered DEF PageInv
  <2>3. index' \in [Keys -> Addresses \cup {NoRecord}]
    BY <1>1, <2>1, <2>2 DEF Indexed, LogType
  <2>4. flash' \in [MapPages -> [Slots -> Contents]]
    <3>1. CASE is_in_old_map_page(OldAddress.page) /\ OldAddress.page \in MapPages
      <4>1. OldAddress # NoRecord
        BY <3>1, PagesAreNumbers DEF NoRecord
      <4>2. OldAddress \in Addresses
        BY <4>1 DEF OldAddress, TypeOK
      <4>3. Zero \in Contents
        BY DEF Contents
      <4> QED BY <2>1, <3>1, <4>2, <4>3, WrittenType DEF ZeroOld
    <3>2. CASE ~(is_in_old_map_page(OldAddress.page) /\ OldAddress.page \in MapPages)
      BY <1>1, <2>1, <3>2 DEF ZeroOld, LogType
    <3> QED BY <3>1, <3>2
  <2>5. rec' \in [page : MapPages \cup {LAST_PAGE + 1}, slot : Slots]
    BY <2>1, <2>2, NextSlotFollows
  <2> QED BY <1>1, <2>1, <2>3, <2>4, <2>5 DEF LogType
<1> QED BY <1>2, <1>3, <1>4, <1>5, <1>6, <1>7, StepCases

LEMMA CallTypeStep ==
  ASSUME TypeOK, PageInv, [Next]_vars
  PROVE  CallType'
<1>1. CallType
  BY TypeParts
<1>0. 0 \in 0 .. MAX_MOVED /\ Behind \subseteq Keys /\ <<>> \in Seq(Frames)
  BY LogConstants, EmptySeq DEF Behind
<1>2. ASSUME NEW k \in Keys, Write(k) \/ MoveEntry(k) \/ MoveRecord(k) PROVE CallType'
  <2>1. CASE Write(k)
    BY <1>0, <1>1, <2>1 DEF Write, Begin, CallType
  <2>2. CASE MoveEntry(k)
    <3>1. stack' \in Seq(Frames)
      BY <2>2, TopSet
    <3> QED BY <1>1, <2>2, <3>1 DEF MoveEntry, InFrame, CallType
  <2>3. CASE MoveRecord(k)
    BY <1>1, <2>3 DEF MoveRecord, InFrame, CallType
  <2> QED BY <1>2, <2>1, <2>2, <2>3
<1>3. CASE FlushRecord \/ KeepRecordPage
  BY <1>0, <1>1, <1>3 DEF FlushRecord, Begin, KeepRecordPage, call, CallType
<1>4. CASE OpenRecordPage
  <2>1. stack' \in Seq(Frames) /\ moved' \in 0 .. MAX_MOVED
    BY <1>4, FramePushed
  <2>2. new' \in 0 .. LAST_PAGE
    <3>1. rec.page \in Nat /\ rec.page <= LAST_PAGE
      BY <1>4, PagesAreNumbers DEF OpenRecordPage
    <3>2. new \in Nat /\ new <= LAST_PAGE /\ LAST_PAGE \in Nat
      BY <1>1, LogConstants DEF CallType
    <3>3. MoveRecords => new + 1 <= rec.page
      BY <3>1, <3>2, LogConstants DEF MoveRecords
    <3> QED BY <1>4, <3>1, <3>2, <3>3 DEF OpenRecordPage
  <2> QED BY <1>1, <1>4, <2>1, <2>2 DEF OpenRecordPage, CallType
<1>5. CASE MoveMapPage
  <2>1. stack' \in Seq(Frames)
    BY <1>5, TopSet
  <2>2. update' \in BOOLEAN
    BY <1>5 DEF MoveMapPage
  <2> QED BY <1>1, <1>5, <2>1, <2>2 DEF MoveMapPage, InFrame, CallType
<1>6. CASE PrepareReturns
  <2>1. stack' \in Seq(Frames)
    BY <1>6, RestType DEF PrepareReturns, InFrame
  <2> QED BY <1>1, <1>6, <2>1 DEF PrepareReturns, InFrame, CallType
<1>7. CASE ErasePage \/ PlaceClient \/ PlaceData \/ PlaceDataOnNewPage \/ ProgramRecord
  BY <1>1, <1>7
     DEF ErasePage, PlaceClient, PlaceData, PlaceDataOnNewPage, ProgramRecord, call, CallType
<1>8. CASE FlashFails \/ ZeroFails
  BY <1>0, <1>1, <1>8 DEF FlashFails, ZeroFails, Abandon, NoCall, CallType
<1>9. CASE RecordMoved \/ RecordWritten \/ RecordFlushed
  BY <1>0, <1>1, <1>9
     DEF RecordMoved, RecordWritten, RecordFlushed, NoCall, call, CallType
<1>10. CASE UNCHANGED vars
  BY <1>1, <1>10 DEF vars, call, CallType
<1>11. CASE RewriteRecordPage
  <2>1. stack' \in Seq(Frames) /\ moved' \in 0 .. MAX_MOVED
    BY <1>11, FrameAlone
  <2> QED BY <1>1, <1>11, <2>1 DEF RewriteRecordPage, CallType
<1>12. CASE PlaceSpins
  BY <1>1, <1>12 DEF PlaceSpins, call, CallType
<1> QED BY <1>2, <1>3, <1>4, <1>5, <1>6, <1>7, <1>8, <1>9, <1>10, <1>11, <1>12
        DEF Next, Step, Frame

LEMMA TypeStep ==
  ASSUME TypeOK, PageInv, [Next]_vars
  PROVE  TypeOK'
<1>1. CallType' /\ LogType'
  BY LogTypeStep, CallTypeStep
<1> QED BY <1>1, Zenon DEF TypeOK, CallType, LogType, Contents

-------------------------------------------------------------------------------
(* What is left behind the map.                                            *)

(* A record that is written lies in the map; no other one moves.           *)
LEMMA WrittenInMap ==
  ASSUME TypeOK, PageInv, RecordDone, new' = new, NEW k \in Behind'
  PROVE  k \in Behind /\ index'[k] = index[k]
<1>1. /\ Stored(k)' /\ index'[k].page < new /\ k \in Keys /\ index' = Indexed
  BY DEF Behind, RecordDone
<1>2. index'[k] = IF k = who THEN rec ELSE index[k]
  BY <1>1, ContentsApart DEF Indexed, TypeOK
<1>3. k # who
  BY <1>1, <1>2, AddressesOrdered DEF PageInv
<1> QED BY <1>1, <1>2, <1>3 DEF Behind, Stored

LEMMA BehindStep ==
  ASSUME TypeOK, PageInv, BehindInv, [Next]_vars
  PROVE  BehindInv'
<1> SUFFICES ASSUME pc' # "idle", NEW k \in Behind', k \notin behind', k \notin ignored'
             PROVE  \E i \in DOMAIN stack' : stack'[i].back = index'[k].page
  BY DEF BehindInv
<1>0. k \in Keys
  BY DEF Behind
<1>1. ASSUME UNCHANGED <<index, new, ignored, behind>>, pc # "idle"
      PROVE  \E i \in DOMAIN stack : stack[i].back = index'[k].page
  <2>1. k \in Behind /\ k \notin behind \cup ignored
    BY <1>1 DEF Behind, Stored
  <2> QED BY <1>1, <2>1 DEF BehindInv
<1>2. ASSUME NEW o, NEW i, Begin(o, i)
      PROVE  FALSE
  <2>1. k \in Behind /\ behind' = Behind
    BY <1>2 DEF Begin, Behind, Stored
  <2> QED BY <2>1
<1>3. CASE KeepRecordPage \/ ErasePage \/ PlaceClient \/ PlaceData \/ PlaceDataOnNewPage
           \/ PlaceSpins \/ ProgramRecord \/ \E j \in Keys : MoveRecord(j)
  <2>1. UNCHANGED <<index, new, ignored, behind, stack>> /\ pc # "idle"
    BY <1>3 DEF KeepRecordPage, ErasePage, PlaceClient, PlaceData, PlaceDataOnNewPage,
                PlaceOnNewPage, PlaceSpins, ProgramRecord, MoveRecord, InFrame, call
  <2> QED BY <1>1, <2>1
<1>4. CASE MoveMapPage \/ \E j \in Keys : MoveEntry(j)
  <2>1. UNCHANGED <<index, new, ignored, behind>> /\ pc # "idle"
    BY <1>4 DEF MoveMapPage, MoveEntry, InFrame
  <2> QED BY <1>1, <1>4, <2>1, TopSet
<1>5. CASE OpenRecordPage
  <2>1. /\ UNCHANGED <<index, ignored, behind>> /\ pc # "idle"
        /\ new' = IF MoveRecords THEN new + 1 ELSE new
    BY <1>5 DEF OpenRecordPage
  <2>2. CASE k \in Behind
    <3>1. \E i \in DOMAIN stack : stack[i].back = index[k].page
      BY <2>1, <2>2 DEF BehindInv
    <3> QED BY <1>5, <2>1, <3>1, FramePushed
  <2>3. CASE k \notin Behind
    <3>1. /\ Stored(k) /\ index[k].page < new' /\ ~(index[k].page < new)
          /\ index[k].page \in Nat /\ new \in Nat
      BY <1>0, <2>1, <2>3, AddressesOrdered DEF Behind, Stored
    <3>2. MoveRecords /\ index[k].page = new
      BY <2>1, <3>1
    <3> QED BY <1>5, <2>1, <3>2, FramePushed
  <2> QED BY <2>2, <2>3
<1>6. CASE PrepareReturns
  <2>1. UNCHANGED <<index, new, ignored, behind>> /\ pc # "idle" /\ stack # <<>>
        /\ stack' = Rest
    BY <1>6 DEF PrepareReturns, InFrame
  <2>2. PICK i \in DOMAIN stack : stack[i].back = index'[k].page
    BY <1>1, <2>1
  <2>3. index[k].page > 0 /\ index'[k] = index[k]
    <3>1. index[k] \in Addresses
      BY <1>0, <2>1, AddressesOrdered DEF Behind, Stored
    <3> QED BY <2>1, <3>1, PagesAreNumbers DEF Addresses
  <2>4. i # Len(stack)
    <3> SUFFICES ASSUME i = Len(stack) PROVE FALSE
      OBVIOUS
    <3>1. Top.back = index[k].page /\ Top.back > 0
      BY <2>2, <2>3 DEF Top
    <3>2. k \in LeftOn(Top.back)
      BY <1>0, <2>1, <3>1 DEF LeftOn
    <3> QED BY <1>6, <3>1, <3>2 DEF PrepareReturns
  <2>5. i \in 1 .. Len(stack) - 1
    <3> DEFINE n == Len(stack)
    <3>1. i \in 1 .. n /\ n \in Nat /\ i # n
      BY <2>1, <2>4, TopType
    <3> HIDE DEF n
    <3>2. i \in 1 .. n - 1
      BY <3>1
    <3> QED BY <3>2 DEF n
  <2> QED BY <2>1, <2>2, <2>5, RestType
<1>7. CASE FlashFails \/ ZeroFails \/ RecordWritten \/ RecordFlushed
  BY <1>7 DEF FlashFails, ZeroFails, Abandon, RecordWritten, RecordFlushed
<1>8. CASE RecordMoved
  <2>1. RecordDone /\ UNCHANGED <<new, ignored, behind, stack>> /\ pc # "idle"
    BY <1>8 DEF RecordMoved, RecordDone, call
  <2>2. k \in Behind /\ index'[k] = index[k]
    BY <2>1, WrittenInMap
  <2> QED BY <2>1, <2>2 DEF BehindInv
<1>9. CASE UNCHANGED vars
  <2>1. UNCHANGED <<index, new, ignored, behind, stack, pc>>
    BY <1>9 DEF vars, call
  <2> QED BY <1>1, <2>1
<1>10. CASE RewriteRecordPage
  <2>1. UNCHANGED <<index, new, ignored, behind>> /\ pc # "idle" /\ stack = <<>>
    BY <1>10 DEF RewriteRecordPage, PlaceOnNewPage
  <2> QED BY <1>1, <2>1
<1> QED BY <1>2, <1>3, <1>4, <1>5, <1>6, <1>7, <1>8, <1>9, <1>10
        DEF Next, Step, Frame, Write, FlushRecord

(* A call ends when all its frames have returned.                          *)
LEMMA EndLeavesNone ==
  ASSUME TypeOK, PageInv, BehindInv, RecordWritten \/ RecordFlushed
  PROVE  Behind' \subseteq behind \cup ignored
<1>1. RecordDone /\ new' = new /\ stack = <<>> /\ pc = "zero"
  BY DEF RecordWritten, RecordFlushed, RecordDone
<1> SUFFICES ASSUME NEW k \in Behind', k \notin behind \cup ignored PROVE FALSE
  OBVIOUS
<1>2. k \in Behind
  BY <1>1, WrittenInMap
<1>3. DOMAIN stack = {}
  BY <1>1
<1> QED BY <1>1, <1>2, <1>3 DEF BehindInv

-------------------------------------------------------------------------------
(* Theorems.                                                               *)

LEMMA Invariant == Spec => []IInv
<1>1. Init => IInv
  BY InitIInv
<1>2. IInv /\ [Next]_vars => IInv'
  BY TypeStep, PageStep, LogStep, BehindStep DEF IInv
<1> QED BY <1>1, <1>2, PTL DEF Spec

(* Records, cursor and window stay within the pages up to the end of the   *)
(* ring, and the calls in progress are well formed.                        *)
THEOREM TypeCorrect == Spec => []TypeOK
<1>1. IInv => TypeOK
  BY DEF IInv
<1> QED BY <1>1, Invariant, PTL

(* write_record_inner programs erased flash, except for a slot where       *)
(* clearing an old record has failed.                                      *)
THEOREM RecordsOnErasedSlots == Spec => []CursorErased
<1>1. IInv => CursorErased
  BY DEF IInv, LogInv
<1> QED BY <1>1, Invariant, PTL

(* No opened page, no shift of the map and no clearing of an old record    *)
(* takes from the flash a record the index points to: only data placement  *)
(* does, when it erases the page of the next record, and a record that is  *)
(* programmed over another.                                                *)
THEOREM IndexedRecordsStay == Spec => OnlyPlacingLosesRecords
<1> DEFINE Stays ==
      \A k \in Keys : Readable(k) /\ ~Readable(k)' =>
        \/ PlaceDataOnNewPage \/ RewriteRecordPage
        \/ who = k /\ pc = "zero" /\ rec \in damage
<1>1. IInv /\ [Next]_vars => [Stays]_vars
  BY ReadableStep DEF IInv
<1> QED BY <1>1, Invariant, PTL DEF Spec, OnlyPlacingLosesRecords

(* Older records of a key lie before its newest one.                       *)
THEOREM NewestRecordIsLast == Spec => []NewestIsLast
<1>1. IInv => NewestIsLast
  BY DEF IInv, LogInv
<1> QED BY <1>1, Invariant, PTL

(* A write or flush that succeeds has moved every record off the pages the *)
(* map left during the call, through any depth of recursion.               *)
THEOREM CallsLeaveNoneBehind == Spec => SuccessLeavesNoneBehind
<1>1. IInv /\ [Next]_vars =>
        [RecordWritten \/ RecordFlushed => Behind' \subseteq behind \cup ignored]_vars
  BY EndLeavesNone DEF IInv
<1> QED BY <1>1, Invariant, PTL DEF Spec, SuccessLeavesNoneBehind

-------------------------------------------------------------------------------
(* How far the cursor runs ahead of the window.                            *)

(* A page is opened within the length of the map, so the cursor leaves it  *)
(* at most at the first page beyond.                                       *)
WidthInv ==
  /\ rec.page <= new + MAPPING_MAX_RANGE
  /\ rec.slot # 0 \/ pc \in {"erase", "loop", "place", "record", "zero"} =>
       rec.page < new + MAPPING_MAX_RANGE

(* Outside of every frame the record is the call's own.                    *)
OwnInv == stack = <<>> /\ pc \in {"place", "record", "zero"} => who = op

WindowInv == WidthInv /\ OwnInv

LEMMA InitWindow == Init => WindowInv
BY LogConstants DEF Init, WindowInv, WidthInv, OwnInv

LEMMA WidthStep ==
  ASSUME TypeOK, PageInv, WidthInv, [Next]_vars
  PROVE  WidthInv'
<1>0. /\ rec \in [page : Nat, slot : Nat] /\ new \in Nat
      /\ MAPPING_MAX_RANGE \in Nat \ {0}
  BY AddressesOrdered, LogConstants
<1> USE DEF WidthInv
<1>1. ASSUME NEW k \in Keys, Write(k) \/ MoveEntry(k) \/ MoveRecord(k) PROVE WidthInv'
  BY <1>1 DEF Write, Begin, MoveEntry, MoveRecord, InFrame
<1>2. CASE FlushRecord \/ KeepRecordPage
  BY <1>2 DEF FlushRecord, Begin, KeepRecordPage
<1>3. CASE OpenRecordPage
  <2>1. rec' = rec /\ new' = IF MoveRecords THEN new + 1 ELSE new
    BY <1>3 DEF OpenRecordPage
  <2>2. rec.page < new' + MAPPING_MAX_RANGE /\ rec.page <= new' + MAPPING_MAX_RANGE
    BY <1>0, <2>1 DEF MoveRecords
  <2> QED BY <2>1, <2>2
<1>4. CASE MoveMapPage \/ PrepareReturns \/ PlaceClient
  BY <1>4 DEF MoveMapPage, PrepareReturns, PlaceClient, InFrame
<1>5. CASE ErasePage \/ PlaceData \/ ProgramRecord
  BY <1>5 DEF ErasePage, PlaceData, ProgramRecord
<1>6. CASE FlashFails \/ ZeroFails
  BY <1>6 DEF FlashFails, ZeroFails, Abandon
<1>7. CASE RecordMoved \/ RecordWritten \/ RecordFlushed
  <2>1. /\ pc = "zero" /\ rec' = NextSlot(rec) /\ new' = new
        /\ pc' \in {"prepare", "idle"}
    BY <1>7 DEF RecordMoved, RecordWritten, RecordFlushed, RecordDone, NoCall
  <2>2. rec.page < new + MAPPING_MAX_RANGE
    BY <2>1
  <2>3. CASE rec.slot + 1 = SLOTS
    <3>1. rec'.page = rec.page + 1 /\ rec'.slot = 0
      BY <2>1, <2>3 DEF NextSlot
    <3> QED BY <1>0, <2>1, <2>2, <3>1
  <2>4. CASE rec.slot + 1 # SLOTS
    <3>1. rec'.page = rec.page
      BY <1>0, <2>1, <2>4 DEF NextSlot
    <3> QED BY <1>0, <2>1, <2>2, <3>1
  <2> QED BY <2>3, <2>4
<1>8. CASE UNCHANGED vars
  BY <1>8 DEF vars
<1>9. CASE PlaceDataOnNewPage \/ RewriteRecordPage \/ PlaceSpins
  BY <1>9 DEF PlaceDataOnNewPage, RewriteRecordPage, PlaceSpins, PlaceOnNewPage
<1> QED BY <1>1, <1>2, <1>3, <1>4, <1>5, <1>6, <1>7, <1>8, <1>9 DEF Next, Step, Frame

LEMMA OwnStep ==
  ASSUME OwnInv, [Next]_vars
  PROVE  OwnInv'
<1> USE DEF OwnInv
<1>1. CASE (\E k \in Keys : Write(k)) \/ FlushRecord \/ KeepRecordPage \/ OpenRecordPage
           \/ ErasePage \/ MoveMapPage \/ PrepareReturns \/ RewriteRecordPage \/ PlaceSpins
  BY <1>1 DEF RewriteRecordPage, PlaceSpins, Write, FlushRecord, Begin, KeepRecordPage, OpenRecordPage, ErasePage,
              MoveMapPage, PrepareReturns, InFrame
<1>2. ASSUME NEW k \in Keys, MoveEntry(k) \/ MoveRecord(k) PROVE OwnInv'
  <2>1. CASE MoveRecord(k)
    BY <2>1 DEF MoveRecord, InFrame
  <2>2. CASE MoveEntry(k)
    <3>1. stack # <<>> /\ stack' = [stack EXCEPT ![Len(stack)].todo = @ \ {k}]
      BY <2>2 DEF MoveEntry, InFrame
    <3>2. stack' # <<>>
      BY <3>1
    <3> QED BY <3>2
  <2> QED BY <1>2, <2>1, <2>2
<1>3. CASE PlaceClient \/ PlaceData \/ PlaceDataOnNewPage \/ ProgramRecord
  BY <1>3 DEF PlaceClient, PlaceData, PlaceDataOnNewPage, PlaceOnNewPage, ProgramRecord,
              call
<1>4. CASE RecordMoved \/ RecordWritten \/ RecordFlushed \/ FlashFails \/ ZeroFails
  BY <1>4 DEF RecordMoved, RecordWritten, RecordFlushed, FlashFails, ZeroFails, Abandon
<1>5. CASE UNCHANGED vars
  BY <1>5 DEF vars, call
<1> QED BY <1>1, <1>2, <1>3, <1>4, <1>5 DEF Next, Step, Frame

(* Every record lies between the start of the window and the cursor.       *)
LEMMA WrittenInWindow ==
  ASSUME IInv, WindowInv, RecordWritten,
         NEW k \in Keys, Stored(k)', k = op \/ k \notin behind \cup ignored
  PROVE  index'[k].page \in old' .. old' + MAPPING_MAX_RANGE - 1
<1> USE DEF IInv
<1>1. /\ pc = "zero" /\ stack = <<>> /\ index' = Indexed
      /\ new' = new /\ old' = new /\ rec \in Addresses
  BY AddressesOrdered DEF RecordWritten, RecordDone, PageInv
<1>2. /\ rec.page \in Nat /\ new \in Nat /\ MAPPING_MAX_RANGE \in Nat
      /\ new <= rec.page /\ rec.page < new + MAPPING_MAX_RANGE
  BY <1>1, AddressesOrdered, LogConstants DEF PageInv, WindowInv, WidthInv
<1>3. who = op
  BY <1>1 DEF WindowInv, OwnInv
<1>4. index'[k] = IF k = who THEN rec ELSE index[k]
  BY <1>1, ContentsApart DEF Indexed, TypeOK
<1>5. CASE k = who
  BY <1>1, <1>2, <1>4, <1>5
<1>6. CASE k # who
  <2>1. index[k] \in Addresses /\ index'[k] = index[k] /\ Precedes(index[k], rec)
    BY <1>4, <1>6, AddressesOrdered DEF Stored, LogInv, IndexInv
  <2>2. index[k].page \in Nat /\ index[k].page <= rec.page
    BY <1>2, <2>1, AddressesOrdered DEF Precedes
  <2>3. k \notin Behind'
    BY <1>3, <1>6, EndLeavesNone
  <2>4. ~(index[k].page < new)
    <3>1. Behind' = {j \in Keys : Stored(j)' /\ index'[j].page < new'}
      BY DEF Behind
    <3> QED BY <1>1, <2>1, <2>3, <3>1
  <2> QED BY <1>1, <1>2, <2>1, <2>2, <2>4
<1> QED BY <1>5, <1>6

(* A write that succeeds settles on a start of the map within the length   *)
(* of which every record lies that the call had to keep: MAPPING_MAX_RANGE *)
(* pages are enough for the next start to read.                            *)
THEOREM RecordedWindow == Spec => WindowHoldsRecords
<1>1. Init => WindowInv
  BY InitWindow
<1>2. IInv /\ WindowInv /\ [Next]_vars => WindowInv'
  BY WidthStep, OwnStep DEF IInv, WindowInv
<1>3. IInv /\ WindowInv /\ [Next]_vars =>
        [RecordWritten =>
           \A k \in Keys : Stored(k)' /\ (k = op \/ k \notin behind \cup ignored) =>
             index'[k].page \in old' .. old' + MAPPING_MAX_RANGE - 1]_vars
  BY WrittenInWindow
<1> QED BY <1>1, <1>2, <1>3, Invariant, PTL DEF Spec, WindowHoldsRecords
===============================================================================
