---------------------------- MODULE WriteQueueProofs ----------------------------
(***************************************************************************)
(* Theorems of WriteQueue, for any keys, values and number of record       *)
(* pages.  The queue makes no step of the pages that DataPages does not    *)
(* have, so what is proved there holds here.  While the queue is drained,  *)
(* each of its keys holds a value, on the flash or in the cache: what it   *)
(* was to be set to when it has left the queue, and what it had before     *)
(* while it is still in it, unless its write is forced.                    *)
(***************************************************************************)
EXTENDS WriteQueue, DataPagesProofs

(* The entry of k is c, wherever it is.                                    *)
Has(k, c) ==
  \/ stored[k] = c
  \/ /\ stored[k] = Gone /\ ToBeMoved(k)
     /\ cache[at[k]] # NotCached /\ cache[at[k]][k] = c

(* A cached copy of an entry that is still on the flash is that entry.     *)
CopyInv ==
  \A p \in RecordPages : cache[p] # NotCached =>
    \A k \in On(p) : stored[k] # Gone => cache[p][k] = stored[k]

MovingInv ==
  pc \in {"place", "record"} /\ stack # <<>> => copy = cache[Top.page][who]

(* The call in progress is of a key that has left the queue.               *)
CallInv ==
  /\ ignored \subseteq Queued
  /\ pc # "idle" =>
       op \in Keys \ Queued /\ given[op] # NotQueued /\ value = given[op].value
  /\ \A k \in Queued : given[k] # NotQueued /\ queue[k].value = given[k].value

WaitingInv ==
  \A k \in Queued \cap whole : queue[k].force \/ \E c \in Values : Has(k, c)

DrainedInv ==
  \A k \in Keys \ Queued : given[k] # NotQueued =>
    \/ pc # "idle" /\ op = k
    \/ \E c \in Values : Has(k, c) /\ Agree(given[k].value, c)

QInv ==
  /\ QueueTypeOK /\ IInv /\ CopyInv /\ MovingInv
  /\ home = "draining" => CallInv /\ WaitingInv /\ DrainedInv

-------------------------------------------------------------------------------
(* Refinement of DataPages.                                                *)

LEMMA QueueStep ==
  ASSUME QueueTypeOK, [QueueNext]_allVars
  PROVE  [Next]_vars
<1>1. ASSUME NEW k \in Keys, NEW v \in Values, NEW f \in BOOLEAN, Insert(k, v, f)
      PROVE  UNCHANGED vars
  BY <1>1 DEF Insert
<1>2. ASSUME DirectCall PROVE Next
  <2>1. ASSUME NEW k \in Keys, NEW v \in Values, Begin(k, v, {k})
        PROVE  Write(k, v)
    BY <2>1 DEF Write
  <2> QED
    BY <1>2, <2>1 DEF DirectCall, Next
<1>3. ASSUME NEW k \in Keys, DrainWrite(k) PROVE Next
  <2>1. k \in Queued /\ \E i \in {{}, Found(k)} : Begin(k, queue[k].value, i)
    BY <1>3 DEF DrainWrite, Draining
  <2>2. queue[k].value \in Values
    BY <2>1 DEF QueueTypeOK, Queued, Pending
  <2>3. {} \in SUBSET (Keys \ {k}) /\ Found(k) \in SUBSET (Keys \ {k})
    BY DEF Found, Queued
  <2>4. Write(k, queue[k].value)
    BY <2>1, <2>3 DEF Write
  <2> QED
    BY <2>2, <2>4 DEF Next
<1>4. ASSUME NEW k \in Keys, DrainUnchanged(k) \/ DrainRefused(k) PROVE UNCHANGED vars
  BY <1>4 DEF DrainUnchanged, DrainRefused
<1>5. CASE EraseForces \/ FrameForces \/ CallFails
  BY <1>5 DEF EraseForces, FrameForces, CallFails, Next
<1>6. CASE OtherStep
  BY <1>6 DEF OtherStep, Next
<1>7. CASE start_write_queue \/ DropQueue \/ end_write_queue \/ DrainEnds
  BY <1>7 DEF start_write_queue, DropQueue, end_write_queue, DrainEnds
<1>8. CASE UNCHANGED allVars
  BY <1>8 DEF allVars
<1> QED
  BY <1>1, <1>2, <1>3, <1>4, <1>5, <1>6, <1>7, <1>8 DEF QueueNext

-------------------------------------------------------------------------------
(* Types.                                                                  *)

LEMMA ForcedType ==
  ASSUME QueueTypeOK, NEW S
  PROVE  /\ Forced(S) \in [Keys -> Pending \cup {NotQueued}]
         /\ \A k \in Keys \ Queued : Forced(S)[k] = NotQueued
         /\ \A k \in Queued : /\ Forced(S)[k] \in Pending
                              /\ Forced(S)[k].value = queue[k].value
                              /\ queue[k].force => Forced(S)[k].force
                              /\ k \in S => Forced(S)[k].force
<1>1. \A k \in Queued : queue[k] \in Pending
  BY DEF QueueTypeOK, Queued
<1>2. ASSUME NEW k \in Queued
      PROVE  /\ Forced(S)[k] \in Pending
             /\ Forced(S)[k].value = queue[k].value
             /\ queue[k].force => Forced(S)[k].force
             /\ k \in S => Forced(S)[k].force
  <2>1. k \in Keys /\ queue[k] \in Pending
    BY <1>1 DEF Queued
  <2>2. CASE k \in S
    <3>1. Forced(S)[k] = [queue[k] EXCEPT !.force = TRUE]
      BY <2>1, <2>2 DEF Forced
    <3> QED
      BY <2>1, <3>1 DEF Pending
  <2>3. CASE k \notin S
    <3>1. Forced(S)[k] = queue[k]
      BY <2>1, <2>3 DEF Forced
    <3> QED
      BY <2>1, <2>3, <3>1
  <2> QED
    BY <2>2, <2>3
<1>3. \A k \in Keys \ Queued : Forced(S)[k] = NotQueued
  BY DEF Forced, Queued
<1>4. Forced(S) = [k \in Keys |-> Forced(S)[k]]
  BY DEF Forced
<1>5. \A k \in Keys : Forced(S)[k] \in Pending \cup {NotQueued}
  BY <1>2, <1>3
<1> HIDE DEF Forced
<1> QED
  BY <1>2, <1>3, <1>4, <1>5

(* Forcing writes does not change which are queued.                        *)
LEMMA ForcedQueued ==
  ASSUME QueueTypeOK, NEW S, queue' = Forced(S)
  PROVE  Queued' = Queued
BY ForcedType, QueueConstants DEF Queued, Pending

LEMMA QueueInitInv == QueueInit => QInv
<1> SUFFICES ASSUME QueueInit PROVE QInv
  OBVIOUS
<1>1. TypeOK /\ IInv
  BY InitTypeOK, InitIInv DEF QueueInit
<1>2. QueueTypeOK
  BY <1>1 DEF QueueInit, QueueTypeOK, Nothing
<1>3. CopyInv /\ MovingInv
  BY DEF QueueInit, Init, CopyInv, MovingInv, NothingCached
<1> QED
  BY <1>1, <1>2, <1>3 DEF QueueInit, QInv

LEMMA QueueTypeStep ==
  ASSUME QueueTypeOK, TypeOK', [QueueNext]_allVars
  PROVE  QueueTypeOK'
<1>1. ASSUME NEW k \in Keys, NEW v \in Values, NEW f \in BOOLEAN, Insert(k, v, f)
      PROVE  QueueTypeOK'
  <2>1. [value |-> v, force |-> f] \in Pending
    BY DEF Pending
  <2> QED
    BY <1>1, <2>1 DEF Insert, QueueTypeOK
<1>2. CASE start_write_queue \/ end_write_queue \/ DrainEnds \/ DropQueue
  BY <1>2 DEF start_write_queue, end_write_queue, DrainEnds, DropQueue, QueueTypeOK, Nothing
<1>3. CASE DirectCall \/ OtherStep
  BY <1>3 DEF DirectCall, OtherStep, queueVars, QueueTypeOK
<1>4. ASSUME NEW k \in Keys, DrainUnchanged(k) \/ DrainWrite(k)
      PROVE  QueueTypeOK'
  BY <1>4 DEF DrainUnchanged, DrainWrite, Taken, QueueTypeOK
<1>5. ASSUME Abort PROVE QueueTypeOK'
  BY <1>5 DEF Abort, Nothing, QueueTypeOK
<1>6. CASE EraseForces \/ FrameForces
  <2>1. PICK S : queue' = Forced(S)
    BY <1>6 DEF EraseForces, FrameForces
  <2>2. queue' \in [Keys -> Pending \cup {NotQueued}]
    BY <2>1, ForcedType
  <2> QED
    BY <1>6, <2>2 DEF EraseForces, FrameForces, QueueTypeOK
<1>7. CASE CallFails
  BY <1>5, <1>7 DEF CallFails, queueVars, QueueTypeOK
<1>8. CASE UNCHANGED allVars
  BY <1>8 DEF allVars, queueVars, QueueTypeOK
<1> QED
  BY <1>1, <1>2, <1>3, <1>4, <1>5, <1>6, <1>7, <1>8 DEF QueueNext, DrainRefused

-------------------------------------------------------------------------------
(* Copies, and the entry of one key, over the steps of DataPages.          *)

LEMMA CopyStep ==
  ASSUME TypeOK, IInv, CopyInv, MovingInv, [Next]_vars
  PROVE  CopyInv' /\ MovingInv'
<1>1. ASSUME UNCHANGED <<at, stored, cache>> PROVE CopyInv'
  BY <1>1 DEF CopyInv, On
<1>2. ASSUME pc' \notin {"place", "record"} PROVE MovingInv'
  BY <1>2 DEF MovingInv
<1>3. ASSUME NEW k \in Keys \cup {NoKey}, NEW v, NEW i, Begin(k, v, i)
      PROVE  CopyInv' /\ MovingInv'
  BY <1>1, <1>2, <1>3 DEF Begin
<1>4. CASE KeepRecordPage \/ OpenRecordPage \/ PlaceSpins \/ RewriteRecordPage
  BY <1>1, <1>2, <1>4 DEF KeepRecordPage, OpenRecordPage, PlaceSpins, RewriteRecordPage
<1>5. CASE LoadPage
  <2> DEFINE p == Top.page
  <2>1. /\ p \in RecordPages /\ cache' = [cache EXCEPT ![p] = Loaded(p)]
        /\ UNCHANGED <<at, stored>> /\ pc' = "erase"
    BY <1>5, NonEmptyStack DEF LoadPage, IInv, PcInv
  <2>2. ASSUME NEW k \in On(p), stored[k] # Gone PROVE Loaded(p)[k] = stored[k]
    BY <2>1, <2>2 DEF Loaded, Snapshot, CopyInv, On
  <2> HIDE DEF p
  <2>3. \A q \in RecordPages : cache'[q] = IF q = p THEN Loaded(p) ELSE cache[q]
    BY <2>1 DEF TypeOK
  <2>4. CopyInv'
    BY <2>1, <2>2, <2>3 DEF CopyInv, On
  <2> QED
    BY <1>2, <2>1, <2>4
<1>6. CASE ErasePage
  <2>1. /\ UNCHANGED <<at, cache>> /\ pc' = "loop"
        /\ \A k \in Keys : stored'[k] # Gone => stored'[k] = stored[k]
    BY <1>6 DEF ErasePage, ErasedOn
  <2> QED
    BY <1>2, <2>1 DEF CopyInv, On
<1>7. ASSUME NEW k \in Keys, MoveEntry(k) PROVE CopyInv' /\ MovingInv'
  <2>1. /\ stack # <<>> /\ stack' = stack /\ who' = k /\ copy' = cache[Top.page][k]
        /\ UNCHANGED <<at, stored, cache>>
    BY <1>7 DEF MoveEntry, InFrame
  <2> QED
    BY <1>1, <2>1 DEF MovingInv, Top
<1>8. CASE FrameDone
  BY <1>1, <1>2, <1>8 DEF FrameDone, InFrame
<1>9. CASE PlaceClient
  BY <1>1, <1>9 DEF PlaceClient, MovingInv
<1>10. CASE PlaceData
  <2>1. /\ cache' = IF stack = <<>> THEN NothingCached ELSE cache
        /\ pc = "place" /\ UNCHANGED <<at, stored, stack, who, copy>>
    BY <1>10 DEF PlaceData
  <2> QED
    BY <2>1 DEF CopyInv, MovingInv, NothingCached, On, Top
<1>11. CASE RecordMoved \/ RecordWritten
  <2>1. /\ pc = "record" /\ Entry /\ cache' = cache /\ pc' \in {"idle", "prepare"}
        /\ who \in Keys
    <3>1. CASE RecordMoved
      BY <3>1, NonEmptyStack DEF RecordMoved, IInv, PcInv
    <3>2. CASE RecordWritten
      BY <3>2 DEF RecordWritten, NoCall, IInv, PcInv, TypeOK
    <3> QED
      BY <1>11, <3>1, <3>2
  <2>2. \A p \in RecordPages : cache[p] # NotCached => p # dest
    BY <2>1, AheadOfCache, PageConstants
  <2>3. \A k \in Keys : /\ at'[k] = IF k = who THEN dest ELSE at[k]
                        /\ stored'[k] = IF k = who THEN copy ELSE stored[k]
    BY <2>1 DEF Entry, TypeOK
  <2>4. CopyInv'
    BY <2>1, <2>2, <2>3 DEF CopyInv, On
  <2> QED
    BY <1>2, <2>1, <2>4
<1>12. CASE RecordFlushed \/ FlashFails
  BY <1>1, <1>2, <1>12 DEF RecordFlushed, FlashFails, NoCall
<1>13. CASE UNCHANGED vars
  BY <1>1, <1>13 DEF vars, call, place, MovingInv, Top
<1> QED
  <2>1. ASSUME NEW k \in Keys, NEW v \in Values, Write(k, v) PROVE CopyInv' /\ MovingInv'
    BY <2>1, <1>3 DEF Write
  <2>2. CASE Flush
    BY <2>2, <1>3 DEF Flush
  <2> QED
    BY <1>4, <1>5, <1>6, <1>7, <1>8, <1>9, <1>10, <1>11, <1>12, <1>13, <2>1, <2>2 DEF Next

(* Frames that are opened, and those whose entries have all been moved,    *)
(* leave what is to be moved as it is.                                     *)
LEMMA ToBeMovedStep ==
  ASSUME TypeOK, NEW k \in Keys, ToBeMoved(k),
         Push(page) \/ (stack # <<>> /\ Top.todo = {} /\ stack' = Rest)
  PROVE  ToBeMoved(k)'
<1>1. PICK i \in DOMAIN stack : k \in stack[i].todo
  BY DEF ToBeMoved
<1>2. CASE Push(page)
  <2>1. page \in RecordPages
    BY DEF TypeOK
  <2>2. /\ DOMAIN stack' = 1 .. Len(stack) + 1 /\ DOMAIN stack = 1 .. Len(stack)
        /\ Len(stack) \in Nat /\ stack'[i] = stack[i]
    BY <1>2, <2>1, PushedStack
  <2>3. i \in DOMAIN stack'
    BY <2>2
  <2> QED
    BY <1>1, <2>2, <2>3 DEF ToBeMoved
<1>3. CASE stack # <<>> /\ Top.todo = {} /\ stack' = Rest
  <2>1. i # Len(stack) /\ DOMAIN stack = 1 .. Len(stack) /\ Len(stack) \in Nat
    BY <1>1, <1>3, NonEmptyStack DEF Top
  <2>2. i \in DOMAIN stack' /\ stack'[i] = stack[i]
    BY <1>3, <2>1, RestOfStack
  <2> QED
    BY <1>1, <2>2 DEF ToBeMoved
<1> QED
  BY <1>2, <1>3

(* The steps of a call in progress, but for its failure.                   *)
Working ==
  \/ KeepRecordPage \/ OpenRecordPage \/ LoadPage \/ ErasePage
  \/ (\E k \in Keys : MoveEntry(k)) \/ FrameDone \/ PlaceClient
  \/ PlaceData \/ PlaceSpins \/ RewriteRecordPage
  \/ RecordMoved \/ RecordWritten \/ RecordFlushed

(* An entry keeps its value unless it is erased for a key that is ignored, *)
(* or replaced by the call's own data.                                     *)
LEMMA HasStep ==
  ASSUME TypeOK, IInv, CopyInv, MovingInv, Working,
         NEW k \in Keys, NEW c \in Values, Has(k, c),
         ErasePage => k \notin ignored \cap On(Top.page),
         RecordWritten => k # op
  PROVE  Has(k, c)'
<1>1. c # Gone
  BY PageConstants
<1>2. ASSUME UNCHANGED <<at, stored, cache>>, ToBeMoved(k) => ToBeMoved(k)'
      PROVE  Has(k, c)'
  BY <1>2 DEF Has
<1>3. ASSUME UNCHANGED <<at, stored, cache, stack>> PROVE Has(k, c)'
  BY <1>3 DEF Has, ToBeMoved
<1>4. ASSUME stored[k] = c, stored'[k] = stored[k] PROVE Has(k, c)'
  BY <1>4 DEF Has
<1>5. CASE OpenRecordPage \/ RewriteRecordPage \/ FrameDone
  <2>1. /\ UNCHANGED <<at, stored, cache>>
        /\ Push(page) \/ (stack # <<>> /\ Top.todo = {} /\ stack' = Rest)
    BY <1>5 DEF OpenRecordPage, RewriteRecordPage, FrameDone, InFrame
  <2> QED
    BY <1>2, <2>1, ToBeMovedStep
<1>6. CASE LoadPage
  <2> DEFINE p == Top.page
  <2>1. /\ p \in RecordPages /\ cache' = [cache EXCEPT ![p] = Loaded(p)]
        /\ UNCHANGED <<at, stored, stack>>
    BY <1>6, NonEmptyStack DEF LoadPage, IInv, PcInv, call
  <2>2. CASE stored[k] = c
    BY <1>4, <2>1, <2>2
  <2>3. CASE stored[k] # c
    <3>1. ToBeMoved(k) /\ cache[at[k]] # NotCached /\ cache[at[k]][k] = c /\ stored[k] = Gone
      BY <2>3 DEF Has
    <3>2. at[k] \in RecordPages
      <4>1. PICK i \in DOMAIN stack : k \in stack[i].todo
        BY <3>1 DEF ToBeMoved
      <4> QED
        BY <4>1, FrameOfStack DEF IInv, StackInv, On
    <3>3. cache'[at[k]] = cache[at[k]]
      BY <2>1, <3>1, <3>2 DEF TypeOK, Loaded
    <3> QED
      BY <2>1, <3>1, <3>3 DEF Has, ToBeMoved
  <2> QED
    BY <2>2, <2>3
<1>7. CASE ErasePage
  <2> DEFINE p == Top.page
  <2>1. /\ stack # <<>> /\ Top.todo = On(p) \ ignored /\ (On(p) # {} => cache[p] # NotCached)
        /\ UNCHANGED <<at, cache, stack>> /\ p \in RecordPages
        /\ stored'[k] = IF at[k] = p THEN Gone ELSE stored[k]
        /\ Top = stack[Len(stack)] /\ Len(stack) \in DOMAIN stack
    BY <1>7, NonEmptyStack DEF ErasePage, ErasedOn, IInv, PcInv, call, Top
  <2>2. CASE at[k] = p /\ stored[k] = c
    <3>1. k \in On(p) /\ k \in Top.todo
      BY <1>7, <2>1, <2>2 DEF On
    <3>2. cache[p] # NotCached /\ cache[p][k] = c
      BY <1>1, <2>1, <2>2, <3>1 DEF CopyInv
    <3>3. ToBeMoved(k)'
      BY <2>1, <3>1 DEF ToBeMoved
    <3> QED
      BY <2>1, <2>2, <3>2, <3>3 DEF Has
  <2>3. CASE stored'[k] = stored[k]
    BY <2>1, <2>3 DEF Has, ToBeMoved
  <2> QED
    BY <2>1, <2>2, <2>3 DEF Has
<1>8. ASSUME NEW j \in Keys, MoveEntry(j) PROVE Has(k, c)'
  BY <1>3, <1>8 DEF MoveEntry
<1>9. CASE PlaceData
  <2>1. UNCHANGED <<at, stored, stack>> /\ (stack # <<>> => cache' = cache)
    BY <1>9 DEF PlaceData
  <2>2. stack = <<>> => ~ToBeMoved(k)
    BY DEF ToBeMoved
  <2> QED
    BY <2>1, <2>2 DEF Has, ToBeMoved
<1>10. CASE RecordMoved
  <2>1. /\ pc = "record" /\ stack # <<>> /\ Entry /\ cache' = cache
        /\ stack' = [stack EXCEPT ![Len(stack)] =
                       [page |-> Top.page, todo |-> Top.todo \ {who}]]
    BY <1>10 DEF RecordMoved
  <2>2. /\ who \in Top.todo /\ who \in On(Top.page) /\ who \in Keys
        /\ Top.page \in RecordPages
        /\ cache[Top.page] # NotCached /\ copy = cache[Top.page][who]
    BY <2>1, NonEmptyStack DEF IInv, PcInv, StackInv, MovingInv, Top
  <2>3. /\ at'[k] = IF k = who THEN dest ELSE at[k]
        /\ stored'[k] = IF k = who THEN copy ELSE stored[k]
    BY <2>1 DEF Entry, TypeOK
  <2>4. CASE k = who
    <3>1. at[k] = Top.page
      BY <2>2, <2>4 DEF On
    <3>2. copy = c
      BY <1>1, <2>2, <2>4, <3>1 DEF Has, CopyInv
    <3> QED
      BY <2>3, <2>4, <3>2 DEF Has
  <2>5. CASE k # who
    <3>1. ASSUME ToBeMoved(k) PROVE ToBeMoved(k)'
      <4>1. PICK i \in DOMAIN stack : k \in stack[i].todo
        BY <3>1 DEF ToBeMoved
      <4>2. i \in DOMAIN stack' /\ k \in stack'[i].todo
        BY <2>1, <2>5, <4>1, PoppedEntry
      <4> QED
        BY <4>2 DEF ToBeMoved
    <3> QED
      BY <2>1, <2>3, <2>5, <3>1 DEF Has
  <2> QED
    BY <2>4, <2>5
<1>11. CASE RecordWritten \/ RecordFlushed
  <2>1. stored'[k] = stored[k]
    BY <1>11 DEF RecordWritten, RecordFlushed, Entry, IInv, PcInv, TypeOK
  <2>2. stack = <<>>
    BY <1>11 DEF RecordWritten, RecordFlushed
  <2>3. ~ToBeMoved(k)
    BY <2>2 DEF ToBeMoved
  <2> QED
    BY <1>4, <2>1, <2>3 DEF Has
<1>12. CASE KeepRecordPage \/ PlaceSpins \/ PlaceClient
  BY <1>3, <1>12 DEF KeepRecordPage, PlaceSpins, PlaceClient, call
<1> QED
  BY <1>5, <1>6, <1>7, <1>8, <1>9, <1>10, <1>11, <1>12 DEF Working

-------------------------------------------------------------------------------
(* The drain.                                                              *)

DrainInv == CallInv /\ WaitingInv /\ DrainedInv

(* At the start every key of the queue still has what it had before.       *)
LEMMA DrainStarts ==
  ASSUME QueueTypeOK, IInv, end_write_queue
  PROVE  DrainInv'
<1>1. /\ pc = "idle" /\ pc' = pc /\ queue' = queue /\ given' = queue /\ ignored' = ignored
      /\ stored' = stored /\ whole' = {k \in Keys : stored[k] # Gone}
  BY DEF end_write_queue, vars, call
<1>2. ignored = {} /\ Queued' = Queued
  BY <1>1 DEF IInv, PcInv, Queued
<1>3. CallInv'
  BY <1>1, <1>2 DEF CallInv, Queued
<1>4. ASSUME NEW k \in whole' PROVE \E c \in Values : Has(k, c)'
  <2>1. stored[k] \in Values /\ stored'[k] = stored[k]
    BY <1>1, <1>4 DEF QueueTypeOK, TypeOK, Contents
  <2> QED
    BY <2>1 DEF Has
<1>5. WaitingInv'
  BY <1>4 DEF WaitingInv
<1>6. DrainedInv'
  BY <1>1 DEF DrainedInv, Queued
<1> QED
  BY <1>3, <1>5, <1>6 DEF DrainInv

LEMMA PrefixOfItself ==
  ASSUME NEW v \in Values
  PROVE  v # Gone /\ IsPrefix(v, v) /\ ~IsPrefix(v, Gone)
<1>1. v \in Seq(Nat) /\ v # <<>> /\ Gone = <<>>
  BY QueueConstants, PageConstants
<1>2. Len(v) \in Nat /\ Len(v) # 0
  BY <1>1, EmptySeq, LenProperties
<1>3. Len(Gone) = 0
  BY <1>1, EmptySeq
<1>4. Len(v) <= Len(v) /\ ~(Len(v) <= Len(Gone))
  BY <1>2, <1>3
<1> QED
  BY <1>1, <1>4 DEF IsPrefix

(* A key leaves the queue with a value that agrees, or with its write.     *)
LEMMA DrainTakes ==
  ASSUME QueueTypeOK, IInv, DrainInv, NEW k \in Keys,
         DrainUnchanged(k) \/ DrainWrite(k)
  PROVE  DrainInv'
<1>1. /\ pc = "idle" /\ k \in Queued /\ queue' = Taken(k) /\ given' = given /\ whole' = whole
      /\ UNCHANGED <<at, stored, cache, stack>>
  BY DEF DrainUnchanged, DrainWrite, Draining, Begin, vars, call
<1>2. /\ Queued \subseteq Keys /\ Queued' = Queued \ {k}
      /\ \A j \in Keys : j # k => queue'[j] = queue[j]
      /\ queue'[k] = NotQueued
  BY <1>1 DEF Queued, Taken, QueueTypeOK
<1>3. given[k] # NotQueued /\ queue[k].value = given[k].value /\ queue[k].value \in Values
  BY <1>1 DEF DrainInv, CallInv, QueueTypeOK, Queued, Pending
<1>4. \A j, c : Has(j, c)' <=> Has(j, c)
  BY <1>1 DEF Has, ToBeMoved
<1>5. WaitingInv'
  BY <1>1, <1>2, <1>4 DEF DrainInv, WaitingInv, Queued
<1>6. CASE DrainUnchanged(k)
  <2>1. pc' = pc /\ ignored' = ignored /\ ignored = {}
    BY <1>1, <1>6 DEF DrainUnchanged, vars, call, IInv, PcInv
  <2>2. CallInv'
    BY <1>1, <1>2, <2>1 DEF DrainInv, CallInv
  <2>3. stored[k] \in Values /\ Agree(queue[k].value, stored[k])
    <3>1. stored[k] \in Values \cup {Gone}
      BY DEF QueueTypeOK, TypeOK, Contents
    <3>2. IsPrefix(queue[k].value, stored[k])
          \/ (stored[k] # Gone /\ IsPrefix(stored[k], queue[k].value))
      BY <1>6 DEF DrainUnchanged, Same, SameByChance
    <3>3. stored[k] # Gone
      BY <1>3, <3>2, PrefixOfItself
    <3> QED
      BY <3>1, <3>2, <3>3 DEF Agree
  <2>4. Has(k, stored[k])
    BY DEF Has
  <2>5. DrainedInv'
    BY <1>1, <1>2, <1>3, <1>4, <2>3, <2>4 DEF DrainInv, DrainedInv
  <2> QED
    BY <1>5, <2>2, <2>5 DEF DrainInv
<1>7. CASE DrainWrite(k)
  <2>1. /\ pc' = "prepare" /\ op' = k /\ value' = queue[k].value
        /\ ignored' \in {{}, Found(k)}
    BY <1>7 DEF DrainWrite, Begin
  <2>2. ignored' \subseteq Queued'
    BY <1>2, <2>1 DEF Found
  <2>3. CallInv'
    BY <1>1, <1>2, <1>3, <2>1, <2>2 DEF DrainInv, CallInv
  <2>4. DrainedInv'
    BY <1>1, <1>2, <1>4, <2>1 DEF DrainInv, DrainedInv
  <2> QED
    BY <1>5, <2>3, <2>4 DEF DrainInv
<1> QED
  BY <1>6, <1>7

(* A call keeps its parameters until its record is written.                *)
LEMMA WorkingSteps ==
  ASSUME Working
  PROVE  /\ pc # "idle"
         /\ \/ UNCHANGED <<op, value, ignored>> /\ pc' # "idle"
            \/ NoCall /\ pc = "record" /\ (op # NoKey => RecordWritten)
<1>1. CASE KeepRecordPage \/ OpenRecordPage \/ LoadPage \/ ErasePage
  BY <1>1 DEF KeepRecordPage, OpenRecordPage, LoadPage, ErasePage, call
<1>2. CASE FrameDone \/ PlaceClient \/ PlaceData \/ PlaceSpins \/ RewriteRecordPage
  BY <1>2 DEF FrameDone, InFrame, PlaceClient, PlaceData, PlaceSpins, RewriteRecordPage, call
<1>3. ASSUME NEW k \in Keys, MoveEntry(k)
      PROVE  pc = "loop" /\ pc' = "place" /\ UNCHANGED <<op, value, ignored>>
  BY <1>3 DEF MoveEntry, InFrame
<1>4. CASE RecordMoved
  BY <1>4 DEF RecordMoved
<1>5. CASE RecordWritten
  BY <1>5 DEF RecordWritten
<1>6. CASE RecordFlushed
  BY <1>6 DEF RecordFlushed
<1> QED
  BY <1>1, <1>2, <1>3, <1>4, <1>5, <1>6 DEF Working

(* A step of the call in progress: queued keys keep their entries or get   *)
(* forced, the others keep them, and the key of the call gets its value.   *)
LEMMA DrainCall ==
  ASSUME QueueTypeOK, IInv, CopyInv, MovingInv, DrainInv,
         EraseForces \/ FrameForces \/ OtherStep
  PROVE  DrainInv'
<1>1. TypeOK /\ Working /\ given' = given /\ whole' = whole
  BY DEF QueueTypeOK, EraseForces, FrameForces, OtherStep, queueVars, Working
<1>2. /\ pc # "idle"
      /\ \/ UNCHANGED <<op, value, ignored>> /\ pc' # "idle"
         \/ NoCall /\ pc = "record" /\ (op # NoKey => RecordWritten)
  BY <1>1, WorkingSteps
<1>3. /\ op \in Keys \ Queued /\ given[op] # NotQueued /\ value = given[op].value
      /\ op # NoKey /\ ignored \subseteq Queued
  BY <1>2, PageConstants DEF DrainInv, CallInv
<1>4. /\ Queued \subseteq Keys /\ Queued' = Queued
      /\ \A k \in Queued : /\ queue'[k].value = queue[k].value
                           /\ queue[k].force => queue'[k].force
                           /\ ErasePage /\ k \in ignored \cap On(Top.page) => queue'[k].force
  <2>1. Queued \subseteq Keys
    BY DEF Queued
  <2>2. ASSUME NEW S, queue' = Forced(S), ErasePage => ignored \cap On(Top.page) \subseteq S
        PROVE  /\ Queued' = Queued
               /\ \A k \in Queued : /\ queue'[k].value = queue[k].value
                                    /\ queue[k].force => queue'[k].force
                                    /\ ErasePage /\ k \in ignored \cap On(Top.page)
                                         => queue'[k].force
    BY <2>2, ForcedType, ForcedQueued
  <2>3. CASE EraseForces
    BY <2>1, <2>2, <2>3 DEF EraseForces
  <2>4. CASE FrameForces
    BY <2>1, <2>2, <2>4 DEF FrameForces, FrameDone, InFrame, ErasePage
  <2>5. CASE OtherStep
    <3>1. queue' = queue
      BY <2>5 DEF OtherStep, queueVars
    <3>2. pc # "erase"
      BY <2>5 DEF OtherStep, KeepRecordPage, OpenRecordPage, LoadPage, MoveEntry, InFrame,
                  PlaceClient, PlaceData, PlaceSpins, RewriteRecordPage, RecordMoved,
                  RecordWritten, RecordFlushed
    <3> QED
      BY <2>1, <3>1, <3>2 DEF Queued, ErasePage
  <2> QED
    BY <2>3, <2>4, <2>5
<1>5. ASSUME NEW k \in Keys, NEW c \in Values, Has(k, c), k # op,
             ErasePage => k \notin ignored \cap On(Top.page)
      PROVE  Has(k, c)'
  BY <1>1, <1>5, HasStep
<1>6. CallInv'
  <2>1. ignored' \subseteq Queued'
    BY <1>2, <1>3, <1>4 DEF NoCall
  <2>2. pc' # "idle" => UNCHANGED <<op, value>>
    BY <1>2 DEF NoCall
  <2> QED
    BY <1>1, <1>3, <1>4, <2>1, <2>2 DEF DrainInv, CallInv
<1>7. WaitingInv'
  <2> SUFFICES ASSUME NEW k \in Queued \cap whole, ~queue'[k].force
               PROVE  \E c \in Values : Has(k, c)'
    BY <1>1, <1>4 DEF WaitingInv
  <2>1. PICK c \in Values : Has(k, c)
    BY <1>4 DEF DrainInv, WaitingInv
  <2>2. k # op /\ k \in Keys /\ (ErasePage => k \notin ignored \cap On(Top.page))
    BY <1>3, <1>4
  <2> QED
    BY <1>5, <2>1, <2>2
<1>8. DrainedInv'
  <2> SUFFICES ASSUME NEW k \in Keys \ Queued, given[k] # NotQueued
               PROVE  \/ pc' # "idle" /\ op' = k
                      \/ \E c \in Values : Has(k, c)' /\ Agree(given[k].value, c)
    BY <1>1, <1>4 DEF DrainedInv
  <2>1. CASE k # op
    <3>1. PICK c \in Values : Has(k, c) /\ Agree(given[k].value, c)
      BY <2>1 DEF DrainInv, DrainedInv
    <3>2. Has(k, c)'
      BY <1>3, <1>5, <2>1, <3>1
    <3> QED
      BY <3>1, <3>2
  <2>2. CASE k = op
    <3>1. CASE pc' # "idle" /\ op' = op
      BY <2>2, <3>1
    <3>2. CASE RecordWritten
      <4>1. stored'[k] = value
        BY <1>3, <2>2, <3>2 DEF RecordWritten, Entry, IInv, PcInv, QueueTypeOK, TypeOK
      <4>2. value \in Values /\ Agree(value, value)
        BY <1>3, PrefixOfItself DEF IInv, PcInv, Agree
      <4> QED
        BY <1>3, <2>2, <4>1, <4>2 DEF Has
    <3> QED
      BY <1>2, <1>3, <3>1, <3>2
  <2> QED
    BY <2>1, <2>2
<1> QED
  BY <1>6, <1>7, <1>8 DEF DrainInv

-------------------------------------------------------------------------------
LEMMA QInvStep ==
  ASSUME QInv, [QueueNext]_allVars
  PROVE  QInv'
<1>1. /\ QueueTypeOK /\ TypeOK /\ IInv /\ CopyInv /\ MovingInv /\ [Next]_vars
      /\ home = "draining" => DrainInv
  BY QueueStep DEF QInv, QueueTypeOK, DrainInv
<1>2. TypeOK' /\ IInv' /\ CopyInv' /\ MovingInv'
  BY <1>1, NextTypeOK, NextIInv, CopyStep
<1>3. QueueTypeOK'
  BY <1>1, <1>2, QueueTypeStep
<1>4. home' = "draining" => DrainInv'
  <2>1. CASE end_write_queue
    BY <1>1, <2>1, DrainStarts
  <2>2. ASSUME NEW k \in Keys, DrainUnchanged(k) \/ DrainWrite(k) PROVE DrainInv'
    BY <1>1, <2>2, DrainTakes DEF DrainUnchanged, DrainWrite, Draining
  <2>3. CASE EraseForces \/ FrameForces \/ OtherStep
    <3>1. home' = home
      BY <2>3 DEF EraseForces, FrameForces, OtherStep, queueVars
    <3> QED
      BY <1>1, <2>3, <3>1, DrainCall
  <2>4. CASE start_write_queue \/ DropQueue \/ DrainEnds \/ DirectCall \/ CallFails
    BY <2>4 DEF start_write_queue, DropQueue, DrainEnds, DirectCall, CallFails, Abort, queueVars
  <2>5. ASSUME NEW k \in Keys, DrainRefused(k) PROVE home' # "draining"
    BY <2>5 DEF DrainRefused, Abort
  <2>6. ASSUME NEW k \in Keys, NEW v \in Values, NEW f \in BOOLEAN, Insert(k, v, f)
        PROVE  home' # "draining"
    BY <2>6 DEF Insert
  <2>7. CASE UNCHANGED allVars
    <3>1. UNCHANGED <<at, stored, cache, page, fresh, pc, op, value, ignored, stack>>
          /\ UNCHANGED <<home, queue, given, whole>>
      BY <2>7 DEF allVars, vars, call, queueVars
    <3> QED
      BY <1>1, <3>1 DEF DrainInv, CallInv, WaitingInv, DrainedInv, Has, ToBeMoved, Queued
  <2> QED
    BY <2>1, <2>2, <2>3, <2>4, <2>5, <2>6, <2>7 DEF QueueNext
<1> QED
  BY <1>2, <1>3, <1>4 DEF QInv, DrainInv

THEOREM QueueInductive == QueueSpec => []QInv
<1>1. QueueInit => QInv
  BY QueueInitInv
<1>2. QInv /\ [QueueNext]_allVars => QInv'
  BY QInvStep
<1> QED
  BY <1>1, <1>2, PTL DEF QueueSpec

(* The queue and its drain do nothing to the pages that calls of their own *)
(* could not do: WriteQueue implements DataPages.                          *)
THEOREM QueueImplementsPages == QueueSpec => Spec
<1>1. QInv /\ [QueueNext]_allVars => [Next]_vars
  BY QueueStep DEF QInv
<1>2. QueueInit => Init
  BY DEF QueueInit
<1> QED
  BY <1>1, <1>2, QueueInductive, PTL DEF QueueSpec, Spec

(* Every variable of WriteQueue has its type: what is taken out of the     *)
(* table is a value and a flag, however the filter has aliased it.         *)
THEOREM QueueTypes == QueueSpec => []QueueTypeOK
BY QueueInductive, PTL DEF QInv

(* While a queue is drained no value is lost that calls alone would keep.  *)
THEOREM QueueKept == QueueSpec => []DataKept
BY QueueImplementsPages, Kept, PTL

(* Nor does a write of the drain leave one at risk.                        *)
THEOREM QueueRepairs == QueueSpec => SuccessRepairs
BY QueueImplementsPages, Repairs, PTL

(* end_write_queue, with any number of its writes, is a store of values    *)
(* too: each damages no key but those still queued.                        *)
THEOREM QueueImplementsStore == QueueSpec => ImplementsKeyStore
BY QueueImplementsPages, Implementation, PTL

(* drain_ignore (write.rs:240-258): where a write of the queue erases the  *)
(* entry of another key, that key's write is forced, whatever the order of *)
(* the drain and whether or not the aliased table shows the key.           *)
THEOREM ClearedForced == QueueSpec => []ClearedIsForced
<1>1. QInv => ClearedIsForced
  <2> SUFFICES ASSUME QInv, home = "draining", pc = "idle",
                      NEW k \in Queued \cap whole, stored[k] = Gone, ~queue[k].force
               PROVE  FALSE
    BY DEF ClearedIsForced
  <2>1. stack = <<>> /\ WaitingInv
    BY DEF QInv, IInv, PcInv
  <2>2. ~ToBeMoved(k)
    BY <2>1 DEF ToBeMoved
  <2> QED
    BY <2>1, <2>2, PageConstants DEF WaitingInv, Has
<1> QED
  BY <1>1, QueueInductive, PTL

(* end_write_queue: when it succeeds, the flash holds every value of the   *)
(* queue, as far as the comparison of write_key_values_inner looks, for    *)
(* any queue and any order of the drain.                                   *)
THEOREM DrainReadsBack == QueueSpec => DrainedReadsBack
<1>1. QInv /\ [QueueNext]_allVars =>
        [DrainEnds =>
           \A k \in Keys : given[k] # NotQueued => Agree(given[k].value, stored[k])]_allVars
  <2> SUFFICES ASSUME QInv, DrainEnds, NEW k \in Keys, given[k] # NotQueued
               PROVE  Agree(given[k].value, stored[k])
    OBVIOUS
  <2>1. home = "draining" /\ pc = "idle" /\ Queued = {} /\ stack = <<>> /\ DrainedInv
    BY DEF DrainEnds, QInv, IInv, PcInv
  <2>2. ~ToBeMoved(k)
    BY <2>1 DEF ToBeMoved
  <2>3. PICK c \in Values : Has(k, c) /\ Agree(given[k].value, c)
    BY <2>1 DEF DrainedInv
  <2> QED
    BY <2>2, <2>3 DEF Has
<1> QED
  BY <1>1, QueueInductive, PTL DEF QueueSpec, DrainedReadsBack
===============================================================================
