------------------------------ MODULE WriteQueue ------------------------------
(***************************************************************************)
(* The write queue (src/write_queue.rs, the end of src/nvs/write.rs): the  *)
(* store hands its table of pending writes to a client, which fills it in  *)
(* any order and gives it back, and end_write_queue writes what is in it   *)
(* with the calls of DataPages.  A write of the queue does not move the    *)
(* entries of keys that are still queued; it erases them, and makes their  *)
(* own writes forced (drain_ignore).                                       *)
(*                                                                         *)
(* The filter looks the keys up in the table that is being drained,        *)
(* through a pointer that aliases it.  What it finds is undefined; a       *)
(* build finds the keys still queued, or nothing (the drain has taken the  *)
(* table out), and both are followed.                                      *)
(*                                                                         *)
(* A value is a sequence of words, so a value may be the front of another. *)
(* Empty values are left out: a write of one does nothing.                 *)
(***************************************************************************)
EXTENDS DataPages, SequencesExt

CONSTANT NotQueued

ASSUME QueueConstants ==
  /\ Values \cup {Gone} \subseteq Seq(Nat) /\ Gone = <<>>
  /\ NotQueued \notin [value : Values, force : BOOLEAN]

VARIABLES
  home,    \* where write_queue is: store, client, draining, or gone (None)
  queue,   \* its pending writes
  given,   \* history: the writes it was given back with
  whole    \* history: keys that read back when it was given back

queueVars == <<home, queue, given, whole>>

Pending == [value : Values, force : BOOLEAN]

QueueTypeOK ==
  /\ TypeOK
  /\ home \in {"store", "client", "draining", "gone"}
  /\ queue \in [Keys -> Pending \cup {NotQueued}]
  /\ given \in [Keys -> Pending \cup {NotQueued}]
  /\ whole \subseteq Keys

Queued == {k \in Keys : queue[k] # NotQueued}

Nothing == [k \in Keys |-> NotQueued]

QueueInit ==
  /\ Init
  /\ home = "store"
  /\ queue = Nothing /\ given = Nothing /\ whole = {}

-------------------------------------------------------------------------------
(* The client.                                                             *)

(* Fails with AlreadyStartedWriteQueue in every other place.               *)
start_write_queue ==
  /\ home = "store" /\ pc = "idle"
  /\ home' = "client"
  /\ UNCHANGED <<vars, queue, given, whole>>

(* write_key_value, write_key_values: the last one for a key counts.       *)
Insert(k, v, f) ==
  /\ home = "client" /\ pc = "idle"
  /\ queue' = [queue EXCEPT ![k] = [value |-> v, force |-> f]]
  /\ UNCHANGED <<vars, home, given, whole>>

(* The client lets it go out of scope: the store never has one again.      *)
DropQueue ==
  /\ home = "client" /\ pc = "idle"
  /\ home' = "gone" /\ queue' = Nothing
  /\ UNCHANGED <<vars, given, whole>>

(* The store can be written and flushed while the client has the queue.    *)
(* Such a call and the steps of the client do not see each other: of their *)
(* orders it is enough to follow the one with the call before the start.   *)
DirectCall ==
  /\ home \in {"store", "gone"}
  /\ Flush \/ \E k \in Keys, v \in Values : Begin(k, v, {k})
  /\ UNCHANGED queueVars

-------------------------------------------------------------------------------
(* end_write_queue.                                                        *)

end_write_queue ==
  /\ home = "client" /\ pc = "idle"
  /\ home' = "draining"
  /\ given' = queue
  /\ whole' = {k \in Keys : stored[k] # Gone}
  /\ UNCHANGED <<vars, queue>>

(* Mutant: every key the queue was given is found, written or not.         *)
Found_Given(k) == {j \in Keys : given[j] # NotQueued}

(* What the filter of the write of k finds, when it finds anything.        *)
Found(k) == Queued \ {k}

Taken(k) == [queue EXCEPT ![k] = NotQueued]

Draining(k) == home = "draining" /\ pc = "idle" /\ k \in Queued

(* write_key_values_inner reads as much as the new value is long, without  *)
(* the check of the size, and compares that.                               *)
Same(v, w) == IsPrefix(v, w)

(* A longer value may agree with what happens to lie behind the stored one.*)
SameByChance(v, w) == w # Gone /\ IsPrefix(w, v)

(* Not forced, and as it is: nothing is written.                           *)
DrainUnchanged(k) ==
  /\ Draining(k) /\ ~queue[k].force /\ at[k] # NoPage
  /\ Same(queue[k].value, stored[k]) \/ SameByChance(queue[k].value, stored[k])
  /\ queue' = Taken(k)
  /\ UNCHANGED <<vars, home, given, whole>>

DrainWrite(k) ==
  /\ Draining(k)
  /\ ~queue[k].force => at[k] # NoPage /\ ~Same(queue[k].value, stored[k])
  /\ \E i \in {{}, Found(k)} : Begin(k, queue[k].value, i)
  /\ queue' = Taken(k)
  /\ UNCHANGED <<home, given, whole>>

(* The first error ends it: the rest of the queue is dropped, and with it  *)
(* the table that write_queue should get back.                             *)
Abort ==
  /\ home' = "gone" /\ queue' = Nothing
  /\ given' = Nothing /\ whole' = {}

(* DataTooBig; and of a write that is not forced, MissingKey or a read     *)
(* that fails.                                                             *)
DrainRefused(k) == Draining(k) /\ Abort /\ UNCHANGED vars

DrainEnds ==
  /\ home = "draining" /\ pc = "idle" /\ Queued = {}
  /\ home' = "store"
  /\ given' = Nothing /\ whole' = {}
  /\ UNCHANGED <<vars, queue>>

-------------------------------------------------------------------------------
(* What the calls in progress do to the queue.                             *)

(* Mutant: the filter only answers.                                        *)
Forced_Never(S) == queue

Forced(S) ==
  [k \in Keys |-> IF k \in S \cap Queued THEN [queue[k] EXCEPT !.force = TRUE] ELSE queue[k]]

(* move_data_page asks for every entry on the page it has erased.          *)
EraseForces ==
  /\ ErasePage
  /\ queue' = Forced(ignored \cap On(Top.page))
  /\ UNCHANGED <<home, given, whole>>

(* move_map_page asks for every record on the page the map leaves.         *)
FrameForces ==
  /\ FrameDone
  /\ \E S \in SUBSET (ignored \cap Queued) : queue' = Forced(S)
  /\ UNCHANGED <<home, given, whole>>

CallFails ==
  /\ FlashFails
  /\ IF home = "draining" THEN Abort ELSE UNCHANGED queueVars

OtherStep ==
  /\ \/ KeepRecordPage \/ OpenRecordPage \/ LoadPage
     \/ (\E k \in Keys : MoveEntry(k)) \/ PlaceClient
     \/ PlaceData \/ PlaceSpins \/ RewriteRecordPage
     \/ RecordMoved \/ RecordWritten \/ RecordFlushed
  /\ UNCHANGED queueVars

-------------------------------------------------------------------------------
QueueNext ==
  \/ start_write_queue \/ DropQueue \/ end_write_queue
  \/ \E k \in Keys, v \in Values, f \in BOOLEAN : Insert(k, v, f)
  \/ DirectCall
  \/ \E k \in Keys : DrainUnchanged(k) \/ DrainWrite(k) \/ DrainRefused(k)
  \/ DrainEnds
  \/ EraseForces \/ FrameForces \/ OtherStep
  \/ CallFails

allVars == <<vars, queueVars>>

QueueSpec == QueueInit /\ [][QueueNext]_allVars
-------------------------------------------------------------------------------
(* Safety.                                                                 *)

(* A pending write is never compared with data that the drain has erased   *)
(* for it: the entry of a queued key is moved, or its write is forced.     *)
ClearedIsForced ==
  home = "draining" /\ pc = "idle" =>
    \A k \in Queued \cap whole : stored[k] = Gone => queue[k].force

Agree(v, w) == w # Gone /\ (IsPrefix(v, w) \/ IsPrefix(w, v))

(* When end_write_queue succeeds, the flash holds every value it was       *)
(* given, as far as the comparison looks: of two values one of which is    *)
(* the front of the other, the stored one stays.  Neither the order nor    *)
(* the moves that one write makes for the others change that.              *)
DrainedReadsBack ==
  [][DrainEnds =>
       \A k \in Keys : given[k] # NotQueued => Agree(given[k].value, stored[k])]_allVars

===============================================================================
