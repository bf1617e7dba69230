----------------------------- MODULE DataPlacement -----------------------------
(***************************************************************************)
(* Where the data of keys ends up: the cursors of MapWindow, driven by     *)
(* writes of keys, with the bytes each key holds on the flash.  A write    *)
(* puts its data at the data cursor (write_entry_data of                   *)
(* src/nvs/data_paging.rs) and the index leads the key there when the      *)
(* record is written (the end of write_key_values_force_inner,             *)
(* src/nvs/write.rs).  No page is relocated: Relocation is FALSE.          *)
(***************************************************************************)
EXTENDS MapWindow

CONSTANT Keys

VARIABLES
  key,     \* the key of the call
  addr,    \* where its data was written
  held     \* the bytes that hold the data of each key

Bytes(a, n) ==
  {IF a.off + i < PAGE_SIZE THEN <<a.page, a.off + i>>
                            ELSE <<a.page + 1, a.off + i - PAGE_SIZE>> :
     i \in 0 .. n - 1}

PlacementInit ==
  /\ Init
  /\ key \in Keys /\ addr = data
  /\ held = [k \in Keys |-> {}]

WriteKey(k) ==
  /\ \E s \in Sizes : Write(s)
  /\ key' = k
  /\ UNCHANGED <<addr, held>>

(* write_entry_data returns the cursor as prepare_data_page leaves it.     *)
WriteEntryData ==
  /\ Place
  /\ addr' = IF pc' = "record" THEN data ELSE addr
  /\ UNCHANGED <<key, held>>

AddRecord ==
  /\ RecordWritten
  /\ held' = [held EXCEPT ![key] = Bytes(addr, size)]
  /\ UNCHANGED <<key, addr>>

PlacementNext ==
  \/ \E k \in Keys : WriteKey(k)
  \/ WriteEntryData \/ AddRecord
  \/ /\ Flush \/ Prepare \/ Skip \/ PlaceClient \/ RecordFlushed \/ FlashFails
     /\ UNCHANGED <<key, addr, held>>

PlacementSpec == PlacementInit /\ [][PlacementNext]_<<vars, key, addr, held>>
-------------------------------------------------------------------------------
(* write.rs on finding a page for data: "if page contains contents: ...    *)
(* read data - entire page, ... clear page, write back old data".  The     *)
(* data of a key is never put on bytes that hold the data of another.      *)
(* Refuted by a run.                                                       *)
DataApart == \A j, k \in Keys : j # k => held[j] \cap held[k] = {}
===============================================================================
