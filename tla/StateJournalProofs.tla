-------------------------- MODULE StateJournalProofs --------------------------
(***************************************************************************)
(* Theorems of StateJournal, for every word width, page size and number of *)
(* state pages above one.  What they say of the stored words needs one     *)
(* assumption more, which the code makes without checking it: a record is  *)
(* no longer than a slot of the journal (RECORD_SLOTS = 1, a WRITE_SIZE of *)
(* 8 or more).  With two slots to a record the run StateJournal_shared     *)
(* refutes them.                                                           *)
(***************************************************************************)
EXTENDS StateJournal, TLAPS

(* The slot sync_value writes next.                                        *)
Target == NextAddress(address)

(* Where the search for the value has nothing to find: before the slot on  *)
(* its page, and before the next slot on every page.                       *)
SlotsBehindZero ==
  /\ \A i \in Offsets : i < address[2] => flash[<<address[1], i>>] = Zero
  /\ \A b \in Addresses : Before(b, Target) /\ b # address => flash[b] = Zero

(* The next slots of the page the journal is on are free.                  *)
SlotsAheadErased ==
  ~IsPageStart(Target) =>
    \A j \in Offsets : Target[2] <= j => flash[<<Target[1], j>>] = Erased

(* What is known of the slots at each point of a call.                     *)
Cursor ==
  /\ pc \in {"idle", "zeroed", "erased"} =>
       SlotsBehindZero /\ (RECORD_SLOTS = 1 => SlotsAheadErased)
  /\ pc \in {"zeroed", "erased"} => flash[address] = Zero
  /\ pc = "erased" => /\ IsPageStart(Target)
                      /\ \A j \in Offsets : flash[<<Target[1], j>>] = Erased
  /\ pc = "formatting" => \A j \in Offsets : flash[<<0, j>>] = Erased
  /\ pc \in {"formatting", "zeroed", "erased"} => promised = Zero

(* Until the first shift behind State::new there is no word to lose.       *)
Unshifted ==
  pc # "off" => /\ tmp_value = Zero => value = Zero
                /\ value = Zero => promised = Zero

IInv ==
  /\ TypeOK /\ NextSlotsErased /\ Cursor /\ Unshifted
  /\ RECORD_SLOTS = 1 => Recoverable

USE DEF Pages, Offsets, Addresses, Words, Zero, Erased, IsPageStart

-------------------------------------------------------------------------------
(* The ring of slots.                                                      *)

LEMMA AddressParts ==
  ASSUME NEW a \in Addresses
  PROVE  a[1] \in Pages /\ a[2] \in Offsets /\ a = <<a[1], a[2]>>
  OBVIOUS

(* The next slot is the next of the page, the first of the next page, or   *)
(* the first of all, which is on another page.                             *)
LEMMA NextAddressCases ==
  ASSUME STATE_PAGES >= 2, NEW a \in Addresses
  PROVE  /\ NextAddress(a) \in Addresses
         /\ \/ NextAddress(a) = <<a[1], a[2] + 1>>
            \/ NextAddress(a) = <<a[1] + 1, 0>> /\ a[2] = Slots - 1
            \/ NextAddress(a) = <<0, 0>> /\ a[2] = Slots - 1 /\ a[1] > 0
<1>1. a[1] \in Pages /\ a[2] \in Offsets
  BY AddressParts
<1> QED BY <1>1, JournalConstants DEF NextAddress

(* What precedes the next slot precedes this one, or is this one.          *)
LEMMA BeforeNext ==
  ASSUME STATE_PAGES >= 2, NEW a \in Addresses, NEW b \in Addresses
  PROVE  /\ Before(b, NextAddress(a)) => b = a \/ Before(b, a)
         /\ Before(b, NextAddress(a)) => NextAddress(a) # <<0, 0>>
<1>1. /\ a[1] \in Pages /\ a[2] \in Offsets /\ a = <<a[1], a[2]>>
      /\ b[1] \in Pages /\ b[2] \in Offsets /\ b = <<b[1], b[2]>>
  BY AddressParts
<1>2. CASE NextAddress(a) = <<a[1], a[2] + 1>>
  BY <1>1, <1>2, JournalConstants DEF Before
<1>3. CASE NextAddress(a) = <<a[1] + 1, 0>> /\ a[2] = Slots - 1
  BY <1>1, <1>3, JournalConstants DEF Before
<1>4. CASE NextAddress(a) = <<0, 0>>
  BY <1>1, <1>4, JournalConstants DEF Before
<1> QED BY <1>2, <1>3, <1>4, NextAddressCases

LEMMA FoundOnce ==
  ASSUME NEW a \in Addresses, NEW b \in Addresses, IsFound(a), IsFound(b)
  PROVE  a = b
<1>1. /\ a[1] \in Pages /\ a[2] \in Offsets /\ a = <<a[1], a[2]>>
      /\ b[1] \in Pages /\ b[2] \in Offsets /\ b = <<b[1], b[2]>>
  BY AddressParts
<1>2. ~Before(a, b) /\ ~Before(b, a)
  BY DEF IsFound
<1> QED BY <1>1, <1>2, JournalConstants DEF Before

-------------------------------------------------------------------------------
LEMMA InitIInv == Init => IInv
<1> SUFFICES ASSUME Init PROVE IInv
  OBVIOUS
<1>1. TypeOK
  BY JournalConstants DEF Init, TypeOK
<1>2. NextSlotsErased
  <2> SUFFICES ASSUME NEW p \in Pages, NEW i \in Offsets, NEW j \in Offsets
               PROVE  flash[<<p, j>>] = Erased
    BY DEF NextSlotsErased
  <2> QED BY DEF Init
<1>3. Cursor /\ Unshifted /\ Recoverable
  BY DEF Init, Cursor, Unshifted, Recoverable
<1> QED BY <1>1, <1>2, <1>3 DEF IInv

LEMMA TypeStep ==
  ASSUME STATE_PAGES >= 2
  PROVE  TypeOK /\ [Next]_vars => TypeOK'
<1> SUFFICES ASSUME TypeOK, [Next]_vars PROVE TypeOK'
  OBVIOUS
<1> USE DEF TypeOK
<1>1. <<0, 0>> \in Addresses /\ NextAddress(address) \in Addresses
  BY JournalConstants, NextAddressCases
<1>2. \A p : ErasePage(p) \in [Addresses -> Words]
  BY DEF ErasePage
<1>3. \A a, w : Program(a, w) \in [Addresses -> Words]
  BY DEF Program
<1>4. \A a \in Addresses : \A w : TornProgram(a, w) => flash' \in [Addresses -> Words]
  BY DEF TornProgram
<1>5. CASE New \/ \E w \in Words : set_tmp_value(w)
  <2>1. CASE New
    BY <2>1, <1>2 DEF New
  <2>2. CASE \E w \in Words : set_tmp_value(w)
    BY <2>2 DEF set_tmp_value
  <2> QED BY <1>5, <2>1, <2>2
<1>6. CASE NewWrite \/ SyncZero \/ SyncErase \/ SyncWrite
  <2>1. flash' \in [Addresses -> Words] /\ address' \in Addresses
    BY <1>6, <1>1, <1>2, <1>3 DEF NewWrite, SyncZero, SyncErase, SyncWrite
  <2>2. value' \in Words /\ tmp_value' \in Words /\ promised' \in Words
    BY <1>6 DEF NewWrite, SyncZero, SyncErase, SyncWrite
  <2>3. synced' \in BOOLEAN
    BY <1>6, Zenon DEF NewWrite, SyncZero, SyncErase, SyncWrite
  <2>4. pc' \in {"idle", "zeroed", "erased"}
    BY <1>6 DEF NewWrite, SyncZero, SyncErase, SyncWrite
  <2> QED BY <2>1, <2>2, <2>3, <2>4
<1>7. CASE Boot
  BY <1>7 DEF Boot
<1>8. CASE NewFails \/ shift_tmp_to_value \/ SyncFails \/ PowerLoss
  BY <1>8 DEF NewFails, shift_tmp_to_value, SyncFails, PowerLoss
<1>9. CASE TornWrite
  BY <1>9, <1>1, <1>4 DEF TornWrite
<1>10. CASE ClearNoRecord
  BY <1>10 DEF ClearNoRecord
<1>11. CASE \E i \in Offsets : TornClear(i)
  <2>1. PICK i \in Offsets : TornClear(i)
    BY <1>11
  <2>2. PICK left \in SUBSET flash[<<0, i>>] :
          flash' = [a \in Addresses |-> IF a = <<0, i>> THEN left
                                       ELSE IF Covered(a) /\ a[2] < i THEN Zero
                                       ELSE flash[a]]
    BY <2>1 DEF TornClear
  <2>3. <<0, i>> \in Addresses
    BY JournalConstants
  <2>4. left \in Words /\ \A a \in Addresses : flash[a] \in Words
    BY <2>3
  <2>5. flash' \in [Addresses -> Words]
    BY <2>2, <2>4
  <2> QED BY <2>1, <2>5 DEF TornClear
<1>12. CASE UNCHANGED vars
  BY <1>12 DEF vars
<1> QED BY <1>5, <1>6, <1>7, <1>8, <1>9, <1>10, <1>11, <1>12 DEF Next

(* The slots, the words in memory and the point of the call keep their     *)
(* types: the address that State::init and sync_value work with is always  *)
(* one of a slot.                                                          *)
THEOREM TypeCorrect ==
  ASSUME STATE_PAGES >= 2
  PROVE  Spec => []TypeOK
<1>1. Init => TypeOK
  BY InitIInv DEF IInv
<1>2. TypeOK /\ [Next]_vars => TypeOK'
  BY TypeStep
<1> QED BY <1>1, <1>2, PTL DEF Spec

-------------------------------------------------------------------------------
(* The slots.                                                              *)

(* Steps that touch neither the flash nor the cursor.                      *)
LEMMA QuietStep ==
  ASSUME IInv, UNCHANGED <<flash, address, promised>>,
         pc' = pc \/ pc' = "off" \/ (pc \in {"zeroed", "erased"} /\ pc' = "idle")
  PROVE  NextSlotsErased' /\ Cursor' /\ (RECORD_SLOTS = 1 => Recoverable')
<1> USE DEF IInv
<1>1. NextSlotsErased'
  BY DEF NextSlotsErased
<1>2. RECORD_SLOTS = 1 => Recoverable'
  BY DEF Recoverable, IsFound
<1>3. Target' = Target
  BY DEF Target, NextAddress
<1>4. SlotsBehindZero' = SlotsBehindZero /\ SlotsAheadErased' = SlotsAheadErased
  BY <1>3 DEF SlotsBehindZero, SlotsAheadErased
<1>5. Cursor'
  BY <1>3, <1>4, Zenon DEF Cursor
<1> QED BY <1>1, <1>2, <1>5

(* Programming a slot that only zeros precede: it clears bits, so that a   *)
(* zero stays zero.                                                        *)
LEMMA ClearBits ==
  ASSUME TypeOK, NextSlotsErased, NEW a \in Addresses, NEW w, w # Zero => flash[a] # Zero,
         \A i \in Offsets : i < a[2] => flash[<<a[1], i>>] = Zero,
         flash' = [flash EXCEPT ![a] = w]
  PROVE  NextSlotsErased'
<1> SUFFICES ASSUME NEW p \in Pages, NEW i \in Offsets, NEW j \in Offsets,
                    i < j, flash'[<<p, i>>] # Zero
             PROVE  flash'[<<p, j>>] = Erased
  BY DEF NextSlotsErased
<1>0. a[1] \in Pages /\ a[2] \in Offsets /\ a = <<a[1], a[2]>>
  BY AddressParts
<1>1. flash[<<p, i>>] # Zero
  BY DEF TypeOK
<1>2. flash[<<p, j>>] = Erased
  BY <1>1 DEF NextSlotsErased
<1>3. <<p, j>> # a
  BY <1>0, <1>1
<1> QED BY <1>2, <1>3 DEF TypeOK

(* Erasing a page.                                                         *)
LEMMA ErasedPage ==
  ASSUME TypeOK, NEW p \in Pages, flash' = ErasePage(p)
  PROVE  /\ NextSlotsErased => NextSlotsErased'
         /\ \A j \in Offsets : flash'[<<p, j>>] = Erased
         /\ \A a \in Addresses : a[1] # p => flash'[a] = flash[a]
<1>1. \A a \in Addresses : flash'[a] = IF a[1] = p THEN Erased ELSE flash[a]
  BY DEF ErasePage
<1>2. \A q \in Pages, j \in Offsets :
        flash'[<<q, j>>] = IF q = p THEN Erased ELSE flash[<<q, j>>]
  BY <1>1
<1>3. NextSlotsErased => NextSlotsErased'
  BY <1>2 DEF NextSlotsErased
<1> QED BY <1>1, <1>2, <1>3

(* Only zeros precede the next slot on its page.                           *)
LEMMA TargetFirst ==
  ASSUME STATE_PAGES >= 2, IInv, pc \in {"zeroed", "erased"}
  PROVE  /\ Target \in Addresses
         /\ \A i \in Offsets : i < Target[2] => flash[<<Target[1], i>>] = Zero
         /\ \A b \in Addresses : Before(b, Target) => flash[b] = Zero
<1>0. address \in Addresses /\ flash[address] = Zero /\ SlotsBehindZero
  BY DEF IInv, TypeOK, Cursor
<1>1. address[1] \in Pages /\ address[2] \in Offsets /\ address = <<address[1], address[2]>>
  BY <1>0, AddressParts
<1>2. \A b \in Addresses : Before(b, Target) => flash[b] = Zero
  BY <1>0 DEF SlotsBehindZero
<1>3. Target \in Addresses
  BY <1>0, NextAddressCases DEF Target
<1>4. ASSUME NEW i \in Offsets, i < Target[2]
      PROVE  flash[<<Target[1], i>>] = Zero
  <2>1. Target[1] \in Pages /\ Target[2] \in Offsets
    BY <1>3, AddressParts
  <2>2. <<Target[1], i>> \in Addresses /\ Before(<<Target[1], i>>, Target)
    BY <1>4, <2>1 DEF Before
  <2> QED BY <1>2, <2>2
<1> QED BY <1>2, <1>3, <1>4

LEMMA NewStep ==
  ASSUME IInv, New
  PROVE  NextSlotsErased' /\ Cursor' /\ Recoverable'
<1>1. 0 \in Pages
  BY JournalConstants
<1>2. NextSlotsErased' /\ \A j \in Offsets : flash'[<<0, j>>] = Erased
  BY <1>1, ErasedPage DEF New, IInv
<1>3. Cursor'
  BY <1>2 DEF New, Cursor
<1>4. Recoverable'
  BY DEF New, Recoverable
<1> QED BY <1>2, <1>3, <1>4

LEMMA NewWriteStep ==
  ASSUME STATE_PAGES >= 2, IInv, NewWrite
  PROVE  NextSlotsErased' /\ Cursor' /\ Recoverable'
<1> DEFINE a == <<0, 0>>
<1>0. a \in Addresses /\ a[1] = 0 /\ a[2] = 0 /\ NextAddress(a) \in Addresses
  BY JournalConstants, NextAddressCases
<1>1. \A j \in Offsets : flash[<<0, j>>] = Erased
  BY DEF IInv, Cursor, NewWrite
<1>2. flash' = [flash EXCEPT ![a] = value] /\ address' = a
  BY <1>0, <1>1, JournalConstants DEF NewWrite, Program, IInv, TypeOK
<1>3. NextSlotsErased'
  <2>1. flash[a] # Zero
    BY <1>1, JournalConstants DEF IInv, TypeOK
  <2>2. \A i \in Offsets : ~(i < a[2])
    BY <1>0
  <2> QED BY <1>0, <1>2, <2>1, <2>2, ClearBits DEF IInv
<1>4. \A b \in Addresses : ~Before(b, a)
  BY <1>0, AddressParts DEF Before
<1>5. Target' = NextAddress(a)
  BY <1>2 DEF Target
<1>6. SlotsBehindZero'
  BY <1>0, <1>2, <1>4, <1>5, BeforeNext DEF SlotsBehindZero
<1>7. SlotsAheadErased'
  <2> SUFFICES ASSUME ~IsPageStart(NextAddress(a)), NEW j \in Offsets, NextAddress(a)[2] <= j
               PROVE  flash'[<<NextAddress(a)[1], j>>] = Erased
    BY <1>5 DEF SlotsAheadErased
  <2>1. NextAddress(a) = <<0, 1>>
    BY <1>0, NextAddressCases
  <2>2. <<0, j>> \in Addresses /\ <<0, j>> # a
    BY <2>1, JournalConstants
  <2> QED BY <1>1, <1>2, <2>1, <2>2 DEF IInv, TypeOK
<1>8. Cursor'
  BY <1>6, <1>7 DEF NewWrite, Cursor
<1>9. Recoverable'
  <2> SUFFICES ASSUME value # Zero
               PROVE  IsFound(a)' /\ flash'[a] = value
    BY <1>0 DEF Recoverable, NewWrite
  <2> QED BY <1>0, <1>2, <1>4 DEF IsFound, IInv, TypeOK
<1> QED BY <1>3, <1>8, <1>9

LEMMA BootStep ==
  ASSUME STATE_PAGES >= 2, IInv, Boot
  PROVE  NextSlotsErased' /\ Cursor' /\ (RECORD_SLOTS = 1 => Recoverable')
<1>1. PICK a \in Addresses : IsFound(a) /\ address' = a
  BY DEF Boot
<1>0. a[1] \in Pages /\ a[2] \in Offsets /\ a = <<a[1], a[2]>>
  BY AddressParts
<1>2. flash' = flash /\ promised' = promised /\ pc' = "idle"
  BY DEF Boot
<1>3. NextSlotsErased' /\ (RECORD_SLOTS = 1 => Recoverable')
  BY <1>2 DEF IInv, NextSlotsErased, Recoverable, IsFound
<1>4. Target' = NextAddress(a)
  BY <1>1 DEF Target
<1>5. SlotsBehindZero'
  <2>1. \A b \in Addresses : Before(b, a) => flash[b] = Zero
    BY <1>1 DEF IsFound
  <2>2. ASSUME NEW i \in Offsets, i < a[2] PROVE flash[<<a[1], i>>] = Zero
    BY <1>0, <2>1, <2>2 DEF Before
  <2>3. \A b \in Addresses : Before(b, NextAddress(a)) /\ b # a => flash[b] = Zero
    BY <2>1, BeforeNext
  <2> QED BY <1>1, <1>2, <1>4, <2>2, <2>3 DEF SlotsBehindZero
<1>6. SlotsAheadErased'
  <2> SUFFICES ASSUME ~IsPageStart(NextAddress(a)), NEW j \in Offsets, NextAddress(a)[2] <= j
               PROVE  flash[<<NextAddress(a)[1], j>>] = Erased
    BY <1>2, <1>4 DEF SlotsAheadErased
  <2>1. NextAddress(a) = <<a[1], a[2] + 1>>
    BY NextAddressCases
  <2>2. a[2] < j /\ flash[<<a[1], a[2]>>] # Zero
    BY <1>0, <1>1, <2>1 DEF IsFound
  <2> QED BY <1>0, <2>1, <2>2 DEF IInv, NextSlotsErased
<1>7. Cursor'
  BY <1>2, <1>5, <1>6 DEF Cursor
<1> QED BY <1>3, <1>7

LEMMA SyncZeroStep ==
  ASSUME STATE_PAGES >= 2, IInv, SyncZero
  PROVE  NextSlotsErased' /\ Cursor' /\ Recoverable'
<1>0. /\ address \in Addresses /\ SlotsBehindZero
      /\ RECORD_SLOTS = 1 => SlotsAheadErased
      /\ Target \in Addresses /\ Target' = Target
  BY NextAddressCases DEF IInv, TypeOK, Cursor, SyncZero, Target, NextAddress
<1>1. address[1] \in Pages /\ address[2] \in Offsets /\ address = <<address[1], address[2]>>
  BY <1>0, AddressParts
<1>2. flash' = [flash EXCEPT ![address] = Zero] /\ address' = address /\ pc' = "zeroed"
  BY DEF SyncZero, Program
<1>3. NextSlotsErased'
  BY <1>0, <1>2, ClearBits DEF IInv, SlotsBehindZero
<1>4. SlotsBehindZero'
  BY <1>0, <1>2 DEF SlotsBehindZero, IInv, TypeOK
<1>5. RECORD_SLOTS = 1 => SlotsAheadErased'
  <2> SUFFICES ASSUME RECORD_SLOTS = 1, ~IsPageStart(Target), NEW j \in Offsets,
                      Target[2] <= j
               PROVE  flash'[<<Target[1], j>>] = Erased
    BY <1>0 DEF SlotsAheadErased
  <2>1. Target = <<address[1], address[2] + 1>>
    BY <1>0, NextAddressCases DEF Target
  <2>2. <<Target[1], j>> \in Addresses /\ <<Target[1], j>> # address
    BY <1>1, <2>1
  <2>3. flash[<<Target[1], j>>] = Erased
    BY <1>0 DEF SlotsAheadErased
  <2> QED BY <1>2, <2>2, <2>3 DEF IInv, TypeOK
<1>6. flash'[address] = Zero
  BY <1>0, <1>2 DEF IInv, TypeOK
<1>7. Cursor'
  BY <1>2, <1>4, <1>5, <1>6 DEF Cursor, SyncZero
<1>8. Recoverable'
  BY DEF Recoverable, SyncZero
<1> QED BY <1>3, <1>7, <1>8

LEMMA SyncEraseStep ==
  ASSUME STATE_PAGES >= 2, IInv, SyncErase
  PROVE  NextSlotsErased' /\ Cursor' /\ Recoverable'
<1>0. /\ address \in Addresses /\ pc = "zeroed" /\ flash[address] = Zero
      /\ SlotsBehindZero /\ Target \in Addresses /\ Target' = Target
  BY NextAddressCases DEF IInv, TypeOK, Cursor, SyncErase, Target, NextAddress
<1>1. /\ address[1] \in Pages /\ address[2] \in Offsets
      /\ Target[1] \in Pages /\ Target[2] = 0 /\ Target = <<Target[1], 0>>
  BY <1>0, AddressParts DEF SyncErase, Target
<1>2. Target[1] # address[1]
  BY <1>0, <1>1, NextAddressCases DEF Target
<1>3. /\ NextSlotsErased'
      /\ \A j \in Offsets : flash'[<<Target[1], j>>] = Erased
      /\ \A a \in Addresses : a[1] # Target[1] => flash'[a] = flash[a]
  BY <1>1, ErasedPage DEF SyncErase, IInv, Target
<1>4. \A b \in Addresses : Before(b, Target) => b[1] # Target[1]
  <2> SUFFICES ASSUME NEW b \in Addresses, Before(b, Target) PROVE b[1] # Target[1]
    OBVIOUS
  <2>1. b[1] \in Pages /\ b[2] \in Offsets
    BY AddressParts
  <2> QED BY <1>1, <2>1 DEF Before
<1>5. SlotsBehindZero'
  <2>1. \A b \in Addresses : Before(b, Target) /\ b # address => flash'[b] = Zero
    BY <1>0, <1>3, <1>4 DEF SlotsBehindZero
  <2>2. \A i \in Offsets : i < address[2] => flash'[<<address[1], i>>] = Zero
    BY <1>0, <1>1, <1>2, <1>3 DEF SlotsBehindZero
  <2> QED BY <1>0, <2>1, <2>2 DEF SlotsBehindZero, SyncErase
<1>6. SlotsAheadErased'
  BY <1>0, <1>1 DEF SlotsAheadErased
<1>7. Cursor'
  BY <1>0, <1>1, <1>2, <1>3, <1>5, <1>6 DEF Cursor, SyncErase, IInv
<1>8. Recoverable'
  BY <1>0 DEF Recoverable, SyncErase, IInv, Cursor
<1> QED BY <1>3, <1>7, <1>8

(* The slot written next is free, and it is the first that is not zero.    *)
LEMMA SyncWriteStep ==
  ASSUME STATE_PAGES >= 2, IInv, SyncWrite
  PROVE  /\ NextSlotsErased' /\ Cursor'
         /\ RECORD_SLOTS = 1 => Recoverable' /\ flash'[address'] = value
<1>n. PICK na \in Addresses : na = NextAddress(address)
  <2>1. NextAddress(address) \in Addresses
    BY NextAddressCases DEF IInv, TypeOK
  <2> QED BY <2>1
<1>0. /\ address \in Addresses /\ pc \in {"zeroed", "erased"}
      /\ na \in Addresses /\ na = Target /\ NextAddress(na) \in Addresses
  BY <1>n, NextAddressCases DEF IInv, TypeOK, SyncWrite, SlotReady, Target
<1>1. na[1] \in Pages /\ na[2] \in Offsets /\ na = <<na[1], na[2]>>
  BY <1>0, AddressParts
<1>2. ASSUME RECORD_SLOTS = 1
      PROVE  \A j \in Offsets : na[2] <= j => flash[<<na[1], j>>] = Erased
  <2>1. CASE pc = "erased"
    BY <1>0, <2>1 DEF IInv, Cursor
  <2>2. CASE pc = "zeroed" /\ ~IsPageStart(Target)
    BY <1>0, <1>2, <2>2 DEF IInv, Cursor, SlotsAheadErased
  <2> QED BY <2>1, <2>2 DEF SyncWrite, SlotReady, Target
<1>3. RECORD_SLOTS = 1 => flash[na] = Erased
  BY <1>1, <1>2
<1> DEFINE w == flash[na] \cap value
<1>4. flash' = [flash EXCEPT ![na] = w] /\ address' = na /\ pc' = "idle"
  BY <1>n, <1>0 DEF SyncWrite, Program, IInv, TypeOK
<1>5. /\ \A i \in Offsets : i < na[2] => flash[<<na[1], i>>] = Zero
      /\ \A b \in Addresses : Before(b, na) => flash[b] = Zero
  BY <1>0, TargetFirst
<1>6. NextSlotsErased'
  <2>1. w # Zero => flash[na] # Zero
    OBVIOUS
  <2> HIDE DEF w
  <2> QED BY <1>0, <1>4, <1>5, <2>1, ClearBits DEF IInv
<1>7. Target' = NextAddress(na)
  BY <1>4 DEF Target
<1>8. \A b \in Addresses : Before(b, na) => b # na
  BY <1>1 DEF Before
<1>9. SlotsBehindZero'
  <2>1. \A i \in Offsets : i < na[2] => flash'[<<na[1], i>>] = Zero
    BY <1>1, <1>4, <1>5 DEF IInv, TypeOK
  <2>2. \A b \in Addresses : Before(b, NextAddress(na)) /\ b # na => flash'[b] = Zero
    BY <1>0, <1>4, <1>5, BeforeNext DEF IInv, TypeOK
  <2> QED BY <1>4, <1>7, <2>1, <2>2 DEF SlotsBehindZero
<1>10. RECORD_SLOTS = 1 => SlotsAheadErased'
  <2> SUFFICES ASSUME RECORD_SLOTS = 1, ~IsPageStart(NextAddress(na)),
                      NEW j \in Offsets, NextAddress(na)[2] <= j
               PROVE  flash'[<<NextAddress(na)[1], j>>] = Erased
    BY <1>7 DEF SlotsAheadErased
  <2>1. NextAddress(na) = <<na[1], na[2] + 1>>
    BY <1>0, NextAddressCases
  <2>2. na[2] < j /\ <<na[1], j>> \in Addresses /\ <<na[1], j>> # na
    BY <1>1, <2>1
  <2> QED BY <1>1, <1>2, <1>4, <2>1, <2>2 DEF IInv, TypeOK
<1>11. Cursor'
  BY <1>4, <1>9, <1>10 DEF Cursor
<1>12. RECORD_SLOTS = 1 => flash'[na] = value
  <2>1. RECORD_SLOTS = 1 => w = value
    BY <1>3 DEF IInv, TypeOK
  <2> QED BY <1>0, <1>4, <2>1 DEF IInv, TypeOK
<1>13. RECORD_SLOTS = 1 => Recoverable'
  <2> SUFFICES ASSUME RECORD_SLOTS = 1, value # Zero
               PROVE  IsFound(na)' /\ flash'[na] = value
    BY DEF Recoverable, SyncWrite
  <2> QED BY <1>0, <1>4, <1>5, <1>8, <1>12 DEF IsFound, IInv, TypeOK
<1> QED BY <1>4, <1>6, <1>11, <1>12, <1>13

(* What a power loss leaves of a word lies between the two words.          *)
LEMMA TornWriteStep ==
  ASSUME STATE_PAGES >= 2, IInv, TornWrite
  PROVE  NextSlotsErased' /\ Cursor' /\ Recoverable'
<1>1. Cursor' /\ Recoverable'
  BY DEF TornWrite, Cursor, Recoverable
<1> SUFFICES NextSlotsErased'
  BY <1>1
<1>2. TypeOK /\ NextSlotsErased
  BY DEF IInv
<1>3. CASE pc = "idle" /\ TornProgram(address, Zero)
  <2>1. PICK left \in SUBSET flash[address] : flash' = [flash EXCEPT ![address] = left]
    BY <1>3 DEF TornProgram
  <2>2. /\ address \in Addresses
        /\ \A i \in Offsets : i < address[2] => flash[<<address[1], i>>] = Zero
    BY <1>3 DEF IInv, TypeOK, Cursor, SlotsBehindZero
  <2>3. left # Zero => flash[address] # Zero
    BY <2>1
  <2> QED BY <1>2, <2>1, <2>2, <2>3, ClearBits
<1>4. CASE SlotReady /\ TornProgram(Target, value)
  <2>1. PICK left \in SUBSET flash[Target] : flash' = [flash EXCEPT ![Target] = left]
    BY <1>4 DEF TornProgram
  <2>2. /\ Target \in Addresses
        /\ \A i \in Offsets : i < Target[2] => flash[<<Target[1], i>>] = Zero
    BY <1>4, TargetFirst DEF SlotReady
  <2>3. left # Zero => flash[Target] # Zero
    BY <2>1
  <2> QED BY <1>2, <2>1, <2>2, <2>3, ClearBits
<1>5. CASE pc = "formatting" /\ TornProgram(<<0, 0>>, value)
  <2>1. PICK left \in SUBSET flash[<<0, 0>>] : flash' = [flash EXCEPT ![<<0, 0>>] = left]
    BY <1>5 DEF TornProgram
  <2>2. <<0, 0>> \in Addresses /\ \A i \in Offsets : ~(i < <<0, 0>>[2])
    BY JournalConstants
  <2>3. left # Zero => flash[<<0, 0>>] # Zero
    BY <2>1
  <2> QED BY <1>2, <2>1, <2>2, <2>3, ClearBits
<1> QED BY <1>3, <1>4, <1>5 DEF TornWrite, Target

(* A record cleared at address 0 adds zeros in front.                      *)
LEMMA ClearNoRecordStep ==
  ASSUME STATE_PAGES >= 2, IInv, ClearNoRecord
  PROVE  NextSlotsErased' /\ Cursor' /\ Recoverable'
<1>1. \A a \in Addresses : flash'[a] = IF Covered(a) THEN Zero ELSE flash[a]
  BY DEF ClearNoRecord
<1>2. \A p \in Pages, j \in Offsets :
        flash'[<<p, j>>] = IF p = 0 /\ j < RECORD_SLOTS THEN Zero ELSE flash[<<p, j>>]
  BY <1>1 DEF Covered
<1>3. NextSlotsErased'
  <2> SUFFICES ASSUME NEW p \in Pages, NEW i \in Offsets, NEW j \in Offsets,
                      i < j, flash'[<<p, i>>] # Zero
               PROVE  flash'[<<p, j>>] = Erased
    BY DEF NextSlotsErased
  <2>1. ~(p = 0 /\ i < RECORD_SLOTS) /\ flash[<<p, i>>] # Zero
    BY <1>2
  <2>2. ~(p = 0 /\ j < RECORD_SLOTS)
    BY <2>1, JournalConstants
  <2> QED BY <1>2, <2>1, <2>2 DEF IInv, NextSlotsErased
<1>4. pc = "idle" /\ pc' = pc /\ UNCHANGED <<address, promised>> /\ Target' = Target
  BY DEF ClearNoRecord, Target, NextAddress
<1>5. address \in Addresses /\ Target \in Addresses /\ SlotsBehindZero
  BY <1>4, NextAddressCases DEF IInv, TypeOK, Cursor, Target
<1>6. SlotsBehindZero'
  <2>1. address[1] \in Pages
    BY <1>5, AddressParts
  <2> QED BY <1>1, <1>2, <1>4, <1>5, <2>1 DEF SlotsBehindZero
<1>7. RECORD_SLOTS = 1 => SlotsAheadErased'
  <2> SUFFICES ASSUME RECORD_SLOTS = 1, ~IsPageStart(Target), NEW j \in Offsets,
                      Target[2] <= j
               PROVE  flash'[<<Target[1], j>>] = Erased
    BY <1>4 DEF SlotsAheadErased
  <2>1. Target[1] \in Pages /\ Target[2] \in Offsets
    BY <1>5, AddressParts
  <2>2. ~(j < 1)
    BY <2>1, JournalConstants
  <2>3. flash[<<Target[1], j>>] = Erased
    BY <1>4 DEF IInv, Cursor, SlotsAheadErased
  <2> QED BY <1>2, <2>1, <2>2, <2>3
<1>8. Cursor'
  BY <1>4, <1>6, <1>7 DEF Cursor
<1>9. Recoverable'
  BY <1>4 DEF ClearNoRecord, IInv, Unshifted, Recoverable
<1> QED BY <1>3, <1>8, <1>9

LEMMA TornClearStep ==
  ASSUME IInv, NEW n \in Offsets, TornClear(n)
  PROVE  NextSlotsErased' /\ Cursor' /\ Recoverable'
<1>1. PICK left \in SUBSET flash[<<0, n>>] :
        flash' = [a \in Addresses |-> IF a = <<0, n>> THEN left
                                     ELSE IF Covered(a) /\ a[2] < n THEN Zero
                                     ELSE flash[a]]
  BY DEF TornClear
<1>2. \A p \in Pages, j \in Offsets :
        flash'[<<p, j>>] = IF p = 0 /\ j = n THEN left
                           ELSE IF p = 0 /\ j < RECORD_SLOTS /\ j < n THEN Zero
                           ELSE flash[<<p, j>>]
  BY <1>1 DEF Covered
<1>3. NextSlotsErased'
  <2> SUFFICES ASSUME NEW p \in Pages, NEW i \in Offsets, NEW j \in Offsets,
                      i < j, flash'[<<p, i>>] # Zero
               PROVE  flash'[<<p, j>>] = Erased
    BY DEF NextSlotsErased
  <2>0. n < RECORD_SLOTS
    BY DEF TornClear
  <2>1. ~(p = 0 /\ i < n) /\ flash[<<p, i>>] # Zero
    <3>1. CASE p = 0 /\ i = n
      <4>1. left # Zero
        BY <1>2, <3>1
      <4> QED BY <3>1, <4>1
    <3>2. CASE ~(p = 0 /\ i = n)
      BY <1>2, <2>0, <3>2, JournalConstants
    <3> QED BY <3>1, <3>2
  <2>2. ~(p = 0 /\ j <= n)
    BY <2>1
  <2>3. flash'[<<p, j>>] = flash[<<p, j>>]
    BY <1>2, <2>2
  <2> QED BY <2>1, <2>3 DEF IInv, NextSlotsErased
<1>4. Cursor'
  BY DEF TornClear, Cursor
<1>5. Recoverable'
  BY DEF TornClear, IInv, Unshifted, Recoverable
<1> QED BY <1>3, <1>4, <1>5

LEMMA UnshiftedStep == Unshifted /\ [Next]_vars => Unshifted'
  BY DEF Unshifted, Next, vars, New, NewWrite, NewFails, Boot, set_tmp_value,
         shift_tmp_to_value, ClearNoRecord, SyncZero, SyncErase, SyncWrite, SyncFails,
         PowerLoss, TornWrite, TornClear, IsFound, SlotReady

LEMMA InvStep ==
  ASSUME STATE_PAGES >= 2
  PROVE  IInv /\ [Next]_vars => IInv'
<1> SUFFICES ASSUME IInv, [Next]_vars
             PROVE  NextSlotsErased' /\ Cursor' /\ (RECORD_SLOTS = 1 => Recoverable')
  BY TypeStep, UnshiftedStep DEF IInv
<1>1. CASE New
  BY <1>1, NewStep
<1>2. CASE \E w \in Words : set_tmp_value(w)
  BY <1>2, QuietStep DEF set_tmp_value
<1>3. CASE NewFails \/ shift_tmp_to_value \/ SyncFails \/ PowerLoss \/ UNCHANGED vars
  <2>1. CASE NewFails
    <3>1. UNCHANGED <<flash, address, promised>> /\ pc' = "off"
      BY <2>1 DEF NewFails
    <3> QED BY <3>1, QuietStep
  <2>2. CASE shift_tmp_to_value
    BY <2>2, QuietStep DEF shift_tmp_to_value
  <2>3. CASE SyncFails
    BY <2>3, QuietStep DEF SyncFails
  <2>4. CASE PowerLoss
    BY <2>4, QuietStep DEF PowerLoss
  <2>5. CASE UNCHANGED vars
    BY <2>5, QuietStep DEF vars
  <2> QED BY <1>3, <2>1, <2>2, <2>3, <2>4, <2>5
<1>4. CASE NewWrite \/ Boot \/ SyncZero \/ SyncErase \/ SyncWrite \/ TornWrite
  BY <1>4, NewWriteStep, BootStep, SyncZeroStep, SyncEraseStep, SyncWriteStep,
     TornWriteStep
<1>5. CASE ClearNoRecord \/ \E i \in Offsets : TornClear(i)
  BY <1>5, ClearNoRecordStep, TornClearStep
<1> QED BY <1>1, <1>2, <1>3, <1>4, <1>5 DEF Next

LEMMA Invariance ==
  ASSUME STATE_PAGES >= 2
  PROVE  Spec => []IInv
<1>1. IInv /\ [Next]_vars => IInv'
  BY InvStep
<1> QED BY <1>1, InitIInv, PTL DEF Spec

(* The word of the last complete sync_value is the one a reboot finds, up  *)
(* to the start of the next, whatever happened before, provided that the   *)
(* journal has two pages and that the record write_record_inner clears at  *)
(* address 0 (record_paging.rs:121) is no longer than a slot.              *)
THEOREM LastSyncRecoverable ==
  ASSUME STATE_PAGES >= 2, RECORD_SLOTS = 1
  PROVE  Spec => []Recoverable
<1>1. IInv => Recoverable
  BY DEF IInv
<1> QED BY <1>1, Invariance, PTL

(* Neither a power loss nor a record cleared at address 0, of whatever     *)
(* length, leaves a slot that is not erased behind a word.                 *)
THEOREM SlotsAheadFree ==
  ASSUME STATE_PAGES >= 2
  PROVE  Spec => []NextSlotsErased
<1>1. IInv => NextSlotsErased
  BY DEF IInv
<1> QED BY <1>1, Invariance, PTL

(* While sync_value is at work there is something to store, and a new      *)
(* journal has one value.                                                  *)
Memory ==
  /\ pc \in {"zeroed", "erased"} => ~synced
  /\ pc = "formatting" => tmp_value = value

LEMMA MemoryInvariance == Spec => []Memory
<1>1. Init => Memory
  BY DEF Init, Memory
<1>2. Memory /\ [Next]_vars => Memory'
  <2> SUFFICES ASSUME Memory, [Next]_vars
               PROVE  Memory'
    OBVIOUS
  <2>1. CASE New
    BY <2>1 DEF New, Memory
  <2>2. CASE Boot
    BY <2>2 DEF Boot, Memory
  <2>3. CASE NewWrite \/ SyncWrite
    BY <2>3 DEF NewWrite, SyncWrite, Memory
  <2>4. CASE NewFails \/ SyncFails \/ PowerLoss \/ TornWrite
    BY <2>4 DEF NewFails, SyncFails, PowerLoss, TornWrite, Memory
  <2>5. CASE \E w \in Words : set_tmp_value(w)
    BY <2>5 DEF set_tmp_value, Memory
  <2>6. CASE shift_tmp_to_value \/ ClearNoRecord
    BY <2>6 DEF shift_tmp_to_value, ClearNoRecord, Memory
  <2>7. CASE SyncZero
    BY <2>7 DEF SyncZero, Memory
  <2>8. CASE SyncErase
    BY <2>8 DEF SyncErase, Memory
  <2>9. CASE \E i \in Offsets : TornClear(i)
    BY <2>9 DEF TornClear, Memory
  <2>10. CASE UNCHANGED vars
    BY <2>10 DEF vars, Memory
  <2> QED
    BY <2>1, <2>2, <2>3, <2>4, <2>5, <2>6, <2>7, <2>8, <2>9, <2>10 DEF Next
<1> QED BY <1>1, <1>2, PTL DEF Spec

(* With two pages, and records no longer than a slot, a sync_value that    *)
(* reports success has stored the value (state.rs:82).                     *)
THEOREM SyncStores ==
  ASSUME STATE_PAGES >= 2, RECORD_SLOTS = 1
  PROVE  Spec => NewValueWritten
<1> DEFINE P == synced' /\ pc' = "idle" /\ pc \in {"zeroed", "erased"}
                  => (flash[address])' = value
<1>1. IInv /\ Memory /\ [Next]_vars => [P]_vars
  <2> SUFFICES ASSUME IInv, Next, synced', pc' = "idle", pc \in {"zeroed", "erased"},
                      Memory
               PROVE  flash'[address'] = value
    OBVIOUS
  <2>1. SyncWrite
    BY DEF Memory, Next, New, NewWrite, NewFails, Boot, set_tmp_value,
           shift_tmp_to_value, ClearNoRecord, SyncZero, SyncErase, SyncFails,
           PowerLoss, TornWrite, TornClear
  <2> QED BY <2>1, SyncWriteStep
<1> QED BY <1>1, Invariance, MemoryInvariance, PTL DEF Spec, NewValueWritten

-------------------------------------------------------------------------------
(* The journal implements a durable value.                                 *)

LEMMA DurableInit == Init => Durable!Init
  BY DEF Init, Durable!Init

LEMMA DurableStep ==
  ASSUME RECORD_SLOTS = 1, IInv, Memory, [Next]_vars
  PROVE  [Durable!Next]_(Durable!vars)
<1> USE DEF IInv, TypeOK
<1>1. CASE New
  <2>1. Durable!Forget
    BY <1>1 DEF New, Durable!Forget
  <2> QED BY <2>1 DEF Durable!Next
<1>2. CASE NewWrite
  <2>1. Durable!Format(value)
    BY <1>2 DEF NewWrite, Memory, Durable!Format
  <2> QED BY <2>1 DEF Durable!Next
<1>3. CASE Boot
  <2>1. PICK a \in Addresses : IsFound(a) /\ value' = flash[a]
    BY <1>3 DEF Boot
  <2>2. value' \in Words \ {Zero}
    BY <2>1 DEF IsFound
  <2>3. promised # Zero => value' = promised
    BY <2>1, FoundOnce DEF Recoverable
  <2>4. tmp_value' = value' /\ pc = "off" /\ pc' = "idle" /\ promised' = promised
    BY <1>3 DEF Boot
  <2>5. Durable!Open
    BY <2>2, <2>3, <2>4 DEF Durable!Open
  <2> QED BY <2>5 DEF Durable!Next
<1>4. CASE \E w \in Words : set_tmp_value(w)
  <2>1. PICK w \in Words : set_tmp_value(w)
    BY <1>4
  <2>2. Durable!SetTmp(w)
    BY <2>1 DEF set_tmp_value, Durable!SetTmp
  <2> QED BY <2>2 DEF Durable!Next
<1>5. CASE shift_tmp_to_value
  <2>1. Durable!Shift
    BY <1>5 DEF shift_tmp_to_value, Durable!Shift
  <2> QED BY <2>1 DEF Durable!Next
<1>6. CASE SyncZero
  <2>1. Durable!Forget
    BY <1>6 DEF SyncZero, Durable!Forget
  <2> QED BY <2>1 DEF Durable!Next
<1>7. CASE SyncWrite
  <2>1. Durable!Commit
    BY <1>7 DEF SyncWrite, SlotReady, Durable!Commit
  <2> QED BY <2>1 DEF Durable!Next
<1>8. CASE TornWrite
  <2>1. Durable!Forget
    BY <1>8 DEF TornWrite, Durable!Forget
  <2> QED BY <2>1 DEF Durable!Next
<1>9. CASE PowerLoss
  <2>1. Durable!PowerLoss \/ UNCHANGED Durable!vars
    BY <1>9 DEF PowerLoss, Durable!PowerLoss, Durable!vars
  <2> QED BY <2>1 DEF Durable!Next
<1>10. CASE NewFails \/ ClearNoRecord \/ SyncErase \/ SyncFails \/ UNCHANGED vars
  BY <1>10 DEF NewFails, ClearNoRecord, SyncErase, SyncFails, vars, Durable!vars
<1>11. CASE \E i \in Offsets : TornClear(i)
  <2>1. Durable!PowerLoss
    BY <1>11 DEF TornClear, Durable!PowerLoss
  <2> QED BY <2>1 DEF Durable!Next
<1> QED BY <1>1, <1>2, <1>3, <1>4, <1>5, <1>6, <1>7, <1>8, <1>9, <1>10, <1>11 DEF Next

(* Whatever calls, failures and power losses happen, the journal behaves   *)
(* as one word of stable storage: every step is a step of DurableValue or  *)
(* changes nothing of it.  As the two before, it needs records no longer   *)
(* than a slot.                                                            *)
THEOREM Implementation ==
  ASSUME STATE_PAGES >= 2, RECORD_SLOTS = 1
  PROVE  Spec => ImplementsDurableValue
<1>1. IInv /\ Memory /\ [Next]_vars => [Durable!Next]_(Durable!vars)
  BY DurableStep
<1> QED BY <1>1, DurableInit, Invariance, MemoryInvariance, PTL
        DEF Spec, ImplementsDurableValue, Durable!Spec
===============================================================================
