----------------------------- MODULE StateJournal -----------------------------
(***************************************************************************)
(* The state journal (src/state.rs).  The first STATE_PAGES pages of the   *)
(* flash are a ring of slots.  The value in force, the first page of the   *)
(* map, is in the first slot that is not zero; sync_value zeroes that slot *)
(* and writes the next one.                                                *)
(*                                                                         *)
(* A word is the set of its one bits, so the erased word is Bits, zero is  *)
(* the empty set, and programming a word clears bits: it intersects.  An   *)
(* operation of the flash either fails and changes nothing, or is done; a  *)
(* power loss may cut the programming of a word, leaving some of the bits  *)
(* to be cleared set.  The value is opaque here: all that state.rs looks   *)
(* at is whether it is zero.                                               *)
(*                                                                         *)
(* The journal is not alone on its pages.  While the map shifts for the    *)
(* first time its recorded start is 0, page 0 counts as a page the map has *)
(* left, and write_record_inner clears the record at address 0 there, the  *)
(* "old" one of a key that has none (src/nvs/record_paging.rs): ClearNo-   *)
(* Record.  It covers RECORD_SLOTS slots of the journal.                   *)
(***************************************************************************)
EXTENDS Integers

CONSTANTS
  STATE_PAGES,
  Slots,        \* PAGE_SIZE \div OFFSET, the slots of a page
  Bits,         \* the bits of a word
  RECORD_SLOTS  \* slots a record covers, RECORD_OFFSET \div OFFSET: 2 up to a
                \* WRITE_SIZE of 4, else 1

ASSUME JournalConstants ==
  /\ STATE_PAGES \in Nat \ {0}
  /\ Slots \in Nat \ {0}
  /\ Bits # {}
  /\ RECORD_SLOTS \in 1 .. Slots

Pages == 0 .. STATE_PAGES - 1
Offsets == 0 .. Slots - 1
Addresses == Pages \X Offsets
Words == SUBSET Bits
Zero == {}
Erased == Bits

VARIABLES
  flash,             \* the words of the state pages
  address,           \* State::address
  value, tmp_value,  \* State::value, State::tmp_value
  synced,            \* State::synced
  pc,                \* "off", "formatting", "idle", or where sync_value is
  promised           \* history: the word the last complete new or
                     \* sync_value wrote, until the next one starts;
                     \* Zero when there is none: zero cannot be told
                     \* from an unused slot

vars == <<flash, address, value, tmp_value, synced, pc, promised>>

TypeOK ==
  /\ flash \in [Addresses -> Words]
  /\ address \in Addresses
  /\ value \in Words /\ tmp_value \in Words
  /\ synced \in BOOLEAN
  /\ pc \in {"off", "formatting", "idle", "zeroed", "erased"}
  /\ promised \in Words

-------------------------------------------------------------------------------
(* The flash.                                                              *)

Program(a, w) == [flash EXCEPT ![a] = @ \cap w]

ErasePage(p) == [a \in Addresses |-> IF a[1] = p THEN Erased ELSE flash[a]]

(* A power loss while a is programmed with w.                              *)
TornProgram(a, w) ==
  \E left \in SUBSET flash[a] :
    /\ flash[a] \cap w \subseteq left
    /\ flash' = [flash EXCEPT ![a] = left]

(* The slots of a record at address 0.                                     *)
Covered(a) == a[1] = 0 /\ a[2] < RECORD_SLOTS

(* The order in which State::init reads.                                   *)
Before(a, b) == a[1] < b[1] \/ (a[1] = b[1] /\ a[2] < b[2])

(* Mutant: the last word that is not zero, as the records are searched.    *)
IsFound_Last(a) ==
  /\ flash[a] # Zero
  /\ \A b \in Addresses : Before(a, b) => flash[b] = Zero

IsFound(a) ==
  /\ flash[a] # Zero
  /\ \A b \in Addresses : Before(b, a) => flash[b] = Zero

(* Mutant: the ring does not close.                                        *)
NextAddress_NoWrap(a) ==
  IF a[2] + 1 < Slots THEN <<a[1], a[2] + 1>> ELSE <<a[1] + 1, 0>>

NextAddress(a) ==
  IF a[2] + 1 < Slots THEN <<a[1], a[2] + 1>>
  ELSE IF a[1] + 1 < STATE_PAGES THEN <<a[1] + 1, 0>>
  ELSE <<0, 0>>

IsPageStart(a) == a[2] = 0

-------------------------------------------------------------------------------
(* A flash from the factory, without power.                                *)
Init ==
  /\ flash = [a \in Addresses |-> Erased]
  /\ address = <<0, 0>>
  /\ value = Zero /\ tmp_value = Zero
  /\ synced = TRUE
  /\ pc = "off"
  /\ promised = Zero

(* State::new erases the first state page (Nvs::new gives it 0),           *)
New ==
  /\ pc = "off"
  /\ flash' = ErasePage(0)
  /\ value' = Zero /\ tmp_value' = Zero
  /\ pc' = "formatting"
  /\ promised' = Zero
  /\ UNCHANGED <<address, synced>>

(* and writes the initial value to its first slot.                         *)
NewWrite ==
  /\ pc = "formatting"
  /\ flash' = Program(<<0, 0>>, value)
  /\ address' = <<0, 0>>
  /\ synced' = TRUE
  /\ pc' = "idle"
  /\ promised' = value
  /\ UNCHANGED <<value, tmp_value>>

NewFails ==
  /\ pc = "formatting"
  /\ pc' = "off"
  /\ UNCHANGED <<flash, address, value, tmp_value, synced, promised>>

(* State::init.  Without a word that is not zero it fails (MissingState)   *)
(* and the journal stays closed.                                           *)
Boot ==
  /\ pc = "off"
  /\ \E a \in Addresses :
       /\ IsFound(a)
       /\ address' = a
       /\ value' = flash[a] /\ tmp_value' = flash[a]
  /\ synced' = TRUE
  /\ pc' = "idle"
  /\ UNCHANGED <<flash, promised>>

(* prepare_map gives one more than the last temporary value.               *)
set_tmp_value(w) ==
  /\ pc = "idle"
  /\ w # value /\ w # Zero
  /\ synced' = FALSE
  /\ tmp_value' = w
  /\ UNCHANGED <<flash, address, value, pc, promised>>

shift_tmp_to_value ==
  /\ pc = "idle"
  /\ value' = tmp_value
  /\ UNCHANGED <<flash, address, tmp_value, synced, pc, promised>>

(* write_record_inner for a record that has no old one, at address 0,      *)
(* while page 0 is in old .. new - 1: the slots of the record are zeroed.  *)
ClearNoRecord ==
  /\ pc = "idle"
  /\ value = Zero /\ tmp_value # Zero
  /\ flash' = [a \in Addresses |-> IF Covered(a) THEN Zero ELSE flash[a]]
  /\ UNCHANGED <<address, value, tmp_value, synced, pc, promised>>

(* Mutant: the old slot keeps its word.                                    *)
SyncZero_Kept ==
  /\ pc = "idle" /\ ~synced
  /\ pc' = "zeroed"
  /\ promised' = Zero
  /\ UNCHANGED <<flash, address, value, tmp_value, synced>>

(* sync_value, unless synced: zero the old slot,                           *)
SyncZero ==
  /\ pc = "idle" /\ ~synced
  /\ flash' = Program(address, Zero)
  /\ pc' = "zeroed"
  /\ promised' = Zero
  /\ UNCHANGED <<address, value, tmp_value, synced>>

(* Mutant: the page the journal moves to is not erased.                    *)
SyncErase_Skipped ==
  /\ pc = "zeroed"
  /\ IsPageStart(NextAddress(address))
  /\ pc' = "erased"
  /\ UNCHANGED <<flash, address, value, tmp_value, synced, promised>>

(* erase the page the next slot is the first of,                           *)
SyncErase ==
  /\ pc = "zeroed"
  /\ IsPageStart(NextAddress(address))
  /\ flash' = ErasePage(NextAddress(address)[1])
  /\ pc' = "erased"
  /\ UNCHANGED <<address, value, tmp_value, synced, promised>>

(* The next slot may be programmed.                                        *)
SlotReady ==
  pc = "erased" \/ (pc = "zeroed" /\ ~IsPageStart(NextAddress(address)))

(* and write the value to it.                                              *)
SyncWrite ==
  /\ SlotReady
  /\ flash' = Program(NextAddress(address), value)
  /\ address' = NextAddress(address)
  /\ synced' = TRUE
  /\ pc' = "idle"
  /\ promised' = value
  /\ UNCHANGED <<value, tmp_value>>

(* An erase or a write fails: the error is returned, the address stays.    *)
SyncFails ==
  /\ pc \in {"zeroed", "erased"}
  /\ pc' = "idle"
  /\ UNCHANGED <<flash, address, value, tmp_value, synced, promised>>

(* A power loss between two operations,                                    *)
PowerLoss ==
  /\ pc # "off"
  /\ pc' = "off"
  /\ UNCHANGED <<flash, address, value, tmp_value, synced, promised>>

(* while slot i of a record at address 0 is cleared, one slot after the    *)
(* other,                                                                  *)
TornClear(i) ==
  /\ pc = "idle"
  /\ value = Zero /\ tmp_value # Zero
  /\ i < RECORD_SLOTS
  /\ \E left \in SUBSET flash[<<0, i>>] :
       flash' = [a \in Addresses |->
                   IF a = <<0, i>> THEN left
                   ELSE IF Covered(a) /\ a[2] < i THEN Zero
                   ELSE flash[a]]
  /\ pc' = "off"
  /\ UNCHANGED <<address, value, tmp_value, synced, promised>>

(* or while a word is programmed.                                          *)
TornWrite ==
  /\ \/ pc = "idle" /\ ~synced /\ TornProgram(address, Zero)
     \/ SlotReady /\ TornProgram(NextAddress(address), value)
     \/ pc = "formatting" /\ TornProgram(<<0, 0>>, value)
  /\ pc' = "off"
  /\ promised' = Zero
  /\ UNCHANGED <<address, value, tmp_value, synced>>

Next ==
  \/ New \/ NewWrite \/ NewFails \/ Boot
  \/ (\E w \in Words : set_tmp_value(w)) \/ shift_tmp_to_value
  \/ ClearNoRecord
  \/ SyncZero \/ SyncErase \/ SyncWrite \/ SyncFails
  \/ PowerLoss \/ TornWrite \/ (\E i \in Offsets : TornClear(i))

Spec == Init /\ [][Next]_vars

-------------------------------------------------------------------------------
(* Safety.                                                                 *)

(* The word of the last complete sync_value is the one that State::init    *)
(* finds, at any moment until the next of them starts, however often the   *)
(* ring went around and whatever calls, failures and power losses came     *)
(* before.  Between the zeroing of its old slot (state.rs:66) and its last *)
(* write sync_value has no word in force: power lost there loses the start *)
(* of the map, and nothing is promised.  It holds where a record is no     *)
(* longer than a slot (RECORD_SLOTS = 1); otherwise NewValueWritten fails, *)
(* and this with it.                                                       *)
Recoverable ==
  promised # Zero => \E a \in Addresses : IsFound(a) /\ flash[a] = promised

(* On every page all that follows the first word that is not zero is       *)
(* erased, also after a power loss has left part of a word, on the pages   *)
(* of an earlier journal, and whatever records are cleared at address 0:   *)
(* behind the word in force the next slot of its page can take any value.  *)
NextSlotsErased ==
  \A p \in Pages : \A i, j \in Offsets :
    i < j /\ flash[<<p, i>>] # Zero => flash[<<p, j>>] = Erased

(* state.rs, sync_value before its last write: "write new value".  A call  *)
(* that returns successfully has stored its value at its address, whatever *)
(* calls, failures and power losses came before: the slot was erased.  It  *)
(* is so where a record is no longer than a slot.  With RECORD_SLOTS = 2 a *)
(* run refutes it: the first shift of the map by the write of a new key    *)
(* has zeroed the slot.                                                    *)
NewValueWritten ==
  [][synced' /\ pc' = "idle" /\ pc \in {"zeroed", "erased"}
       => (flash[address])' = value]_vars

(* The journal implements a word that survives power losses, with records  *)
(* no longer than a slot.                                                  *)
Durable == INSTANCE DurableValue WITH
  stored <- promised, tmp <- tmp_value,
  up <- pc \in {"idle", "zeroed", "erased"}

ImplementsDurableValue == Durable!Spec

===============================================================================
