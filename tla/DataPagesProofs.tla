---------------------------- MODULE DataPagesProofs ----------------------------
(***************************************************************************)
(* Theorems of DataPages, for any keys, values and number of record pages. *)
(*                                                                         *)
(* A key is Sound unless a failed call has damaged it.  Its entry reads    *)
(* the last value or nothing; where it reads nothing, it is still to be    *)
(* moved by a frame of the stack, or its page is the one that the next     *)
(* call opens, and the page cache has the value.                           *)
(***************************************************************************)
EXTENDS DataPages, SequenceTheorems, TLAPS

Sound == Keys \ Spared

StoredInv == \A k \in Sound : stored[k] = last[k] \/ stored[k] = Gone

(* A cached page has been opened, and its copies are the last values.      *)
CacheInv ==
  \A p \in RecordPages :
    cache[p] # NotCached =>
      /\ p <= page
      /\ \A k \in Sound \cap On(p) :
           (k \in ignored => stored[k] # Gone) => cache[p][k] = last[k]

ToBeMoved(k) == \E i \in DOMAIN stack : k \in stack[i].todo

PendingInv ==
  \A k \in Sound \ ignored :
    stored[k] # last[k] =>
      /\ at[k] \in RecordPages /\ cache[at[k]] # NotCached
      /\ \/ ToBeMoved(k)
         \/ fresh /\ at[k] = page /\ pc \in {"idle", "prepare"}

(* The frames are of different pages, each opened behind the last.         *)
StackInv ==
  /\ \A i \in DOMAIN stack :
       /\ stack[i].page <= page
       /\ stack[i].todo \subseteq On(stack[i].page) \ ignored
       /\ pc = "prepare" /\ fresh => stack[i].page < page
       /\ \/ i = Len(stack) /\ pc \in {"load", "erase"}
          \/ stack[i].todo = {}
          \/ cache[stack[i].page] # NotCached
  /\ \A i, j \in DOMAIN stack : i < j => stack[i].page < stack[j].page

PcInv ==
  /\ pc = "idle" => stack = <<>> /\ ignored = {}
  /\ pc \in {"load", "erase"} => stack # <<>> /\ Top.todo = On(Top.page) \ ignored
  /\ pc = "erase" /\ On(Top.page) # {} => cache[Top.page] # NotCached
  /\ pc \in {"place", "record"} /\ stack # <<>> =>
       who \in Top.todo /\ (who \in Sound => copy = last[who])
  /\ pc \in {"place", "record"} /\ stack = <<>> => who = op /\ copy = value
  /\ pc = "place" => who # NoKey
  /\ pc = "record" /\ who # NoKey => dest \in Ahead
  /\ op # NoKey => value \in Values
  /\ op = NoKey => ignored = {}

IInv == StoredInv /\ CacheInv /\ PendingInv /\ StackInv /\ PcInv

-------------------------------------------------------------------------------
(* The stack as a sequence.                                                *)

LEMMA NonEmptyStack ==
  ASSUME TypeOK, stack # <<>>
  PROVE  /\ Len(stack) \in Nat /\ Len(stack) >= 1
         /\ DOMAIN stack = 1 .. Len(stack)
         /\ Len(stack) \in DOMAIN stack
         /\ Top \in Frames /\ Top.page \in RecordPages /\ Top.todo \subseteq Keys
<1>1. stack \in Seq(Frames)
  BY DEF TypeOK
<1>2. Len(stack) \in Nat /\ DOMAIN stack = 1 .. Len(stack)
  BY <1>1, LenProperties
<1>3. Len(stack) >= 1
  BY <1>1, <1>2, EmptySeq
<1>4. Top \in Frames
  BY <1>1, <1>2, <1>3, ElementOfSeq DEF Top
<1> QED
  BY <1>2, <1>3, <1>4 DEF Frames

LEMMA FrameOfStack ==
  ASSUME TypeOK, NEW i \in DOMAIN stack
  PROVE  stack[i] \in Frames /\ stack[i].page \in RecordPages /\ stack[i].page \in Nat
<1>1. stack \in Seq(Frames)
  BY DEF TypeOK
<1>2. DOMAIN stack = 1 .. Len(stack)
  BY <1>1, LenProperties
<1>3. stack[i] \in Frames
  BY <1>1, <1>2, ElementOfSeq
<1> QED
  BY <1>3, PageConstants DEF Frames, RecordPages

LEMMA RestOfStack ==
  ASSUME TypeOK, stack # <<>>
  PROVE  /\ Rest \in Seq(Frames)
         /\ Len(Rest) = Len(stack) - 1
         /\ DOMAIN Rest = 1 .. Len(stack) - 1
         /\ \A i \in DOMAIN Rest : Rest[i] = stack[i]
<1>1. /\ stack \in Seq(Frames) /\ Len(stack) \in Nat /\ Len(stack) >= 1
  BY NonEmptyStack DEF TypeOK
<1>2. 1 \in 1 .. Len(stack) + 1 /\ Len(stack) - 1 \in 0 .. Len(stack)
  BY <1>1
<1>3. /\ Rest \in Seq(Frames)
      /\ Len(Rest) = IF 1 <= Len(stack) - 1 THEN Len(stack) - 1 - 1 + 1 ELSE 0
      /\ \A i \in 1 .. Len(stack) - 1 - 1 + 1 : Rest[i] = stack[1 + i - 1]
  BY <1>1, <1>2, SubSeqProperties DEF Rest
<1>4. Len(Rest) = Len(stack) - 1
  <2> DEFINE n == Len(stack)  m == Len(Rest)
  <2>1. n \in Nat /\ n >= 1 /\ m = IF 1 <= n - 1 THEN n - 1 - 1 + 1 ELSE 0
    BY <1>1, <1>3
  <2> HIDE DEF n, m
  <2>2. m = n - 1
    BY <2>1
  <2> QED
    BY <2>2 DEF n, m
<1>5. DOMAIN Rest = 1 .. Len(Rest)
  BY <1>3, LenProperties
<1>6. \A i \in 1 .. Len(stack) - 1 : Rest[i] = stack[i]
  <2> TAKE i \in 1 .. Len(stack) - 1
  <2>1. i \in 1 .. Len(stack) - 1 - 1 + 1 /\ 1 + i - 1 = i
    BY <1>1
  <2> QED
    BY <2>1, <1>3
<1> QED
  BY <1>3, <1>4, <1>5, <1>6

LEMMA PushedStack ==
  ASSUME TypeOK, NEW p \in RecordPages, Push(p)
  PROVE  /\ stack' \in Seq(Frames) /\ stack' # <<>>
         /\ Len(stack) \in Nat /\ Len(stack') = Len(stack) + 1
         /\ DOMAIN stack' = 1 .. Len(stack) + 1
         /\ DOMAIN stack = 1 .. Len(stack)
         /\ \A i \in DOMAIN stack : stack'[i] = stack[i]
         /\ stack'[Len(stack) + 1] = [page |-> p, todo |-> On(p) \ ignored]
<1> DEFINE frame == [page |-> p, todo |-> On(p) \ ignored]
<1>1. frame \in Frames
  BY DEF Frames, On
<1>2. stack \in Seq(Frames) /\ stack' = Append(stack, frame)
  BY DEF TypeOK, Push
<1> HIDE DEF frame
<1>3. /\ stack' \in Seq(Frames) /\ stack' # <<>>
      /\ Len(stack') = Len(stack) + 1
      /\ \A i \in 1 .. Len(stack) : stack'[i] = stack[i]
      /\ stack'[Len(stack) + 1] = frame
  BY <1>1, <1>2, AppendProperties
<1>4. Len(stack) \in Nat /\ DOMAIN stack = 1 .. Len(stack)
      /\ DOMAIN stack' = 1 .. Len(stack')
  BY <1>2, <1>3, LenProperties
<1> QED
  BY <1>3, <1>4 DEF frame

(* RecordMoved takes its entry off the frame on top.                       *)
LEMMA PoppedEntry ==
  ASSUME TypeOK, stack # <<>>,
         stack' = [stack EXCEPT ![Len(stack)] =
                     [page |-> Top.page, todo |-> Top.todo \ {who}]]
  PROVE  /\ stack' \in Seq(Frames) /\ stack' # <<>>
         /\ Len(stack') = Len(stack) /\ DOMAIN stack' = DOMAIN stack
         /\ \A i \in DOMAIN stack :
              /\ stack'[i].page = stack[i].page
              /\ stack'[i].todo =
                   IF i = Len(stack) THEN stack[i].todo \ {who} ELSE stack[i].todo
<1> DEFINE frame == [page |-> Top.page, todo |-> Top.todo \ {who}]
<1>1. /\ Len(stack) \in DOMAIN stack /\ stack \in Seq(Frames) /\ Top \in Frames
      /\ DOMAIN stack = 1 .. Len(stack) /\ Len(stack) \in Nat
  BY NonEmptyStack DEF TypeOK
<1>2. /\ frame \in Frames
      /\ frame.page = Top.page /\ frame.todo = Top.todo \ {who}
  BY <1>1 DEF Frames
<1>3. stack' = [stack EXCEPT ![Len(stack)] = frame]
  OBVIOUS
<1> HIDE DEF frame
<1>4. stack' \in Seq(Frames) /\ Len(stack') = Len(stack)
  <2>1. Len(stack) \in 1 .. Len(stack)
    BY <1>1
  <2>2. /\ [stack EXCEPT ![Len(stack)] = frame] \in Seq(Frames)
        /\ Len([stack EXCEPT ![Len(stack)] = frame]) = Len(stack)
    BY <1>1, <1>2, <2>1, ExceptSeq
  <2> QED
    BY <1>3, <2>2
<1>5. \A i \in DOMAIN stack :
        stack'[i] = IF i = Len(stack) THEN frame ELSE stack[i]
  BY <1>1, <1>3
<1>6. DOMAIN stack' = DOMAIN stack
  BY <1>1, <1>3
<1>7. stack' # <<>>
  BY <1>1, <1>4, <1>6
<1> QED
  BY <1>1, <1>2, <1>4, <1>5, <1>6, <1>7 DEF Top

-------------------------------------------------------------------------------
(* Types.                                                                  *)

LEMMA InitTypeOK == Init => TypeOK
<1> SUFFICES ASSUME Init PROVE TypeOK
  OBVIOUS
<1>1. stack \in Seq(Frames)
  BY EmptySeq DEF Init
<1>2. page \in RecordPages /\ cache \in [RecordPages -> [Keys -> Contents] \cup {NotCached}]
  BY PageConstants DEF Init, RecordPages, NothingCached
<1>3. /\ at \in [Keys -> DataPages \cup {NoPage}] /\ dest \in DataPages \cup {NoPage}
      /\ stored \in [Keys -> Contents] /\ last \in [Keys -> Contents]
  BY DEF Init, NoPage, Contents
<1> QED
  BY <1>1, <1>2, <1>3 DEF Init, TypeOK, Contents

(* A page that is read, and an erased one, hold contents.                  *)
LEMMA ContentsOfPages ==
  ASSUME TypeOK, NEW p \in RecordPages
  PROVE  /\ Snapshot(p) \in [Keys -> Contents]
         /\ Loaded(p) \in [Keys -> Contents]
         /\ ErasedOn(p) \in [Keys -> Contents]
<1>1. Snapshot(p) \in [Keys -> Contents] /\ ErasedOn(p) \in [Keys -> Contents]
  BY DEF TypeOK, Snapshot, ErasedOn, Contents
<1> QED
  BY <1>1 DEF Loaded, TypeOK

LEMMA NextRecordType ==
  ASSUME TypeOK, NextRecord
  PROVE  page' \in RecordPages /\ fresh' \in BOOLEAN
<1>1. fresh' \in BOOLEAN
  BY DEF NextRecord
<1>2. page \in FIRST_PAGE .. LAST_PAGE
  BY DEF TypeOK, RecordPages
<1>3. page' = page \/ (page < LAST_PAGE /\ page' = page + 1)
  BY DEF NextRecord
<1>4. FIRST_PAGE \in Nat /\ LAST_PAGE \in Nat
  BY PageConstants
<1>5. page' \in FIRST_PAGE .. LAST_PAGE
  BY <1>2, <1>3, <1>4
<1> QED
  BY <1>1, <1>5 DEF RecordPages

LEMMA NoCallType ==
  ASSUME NoCall
  PROVE  /\ pc' \in {"idle"} /\ op' \in {NoKey} /\ value' \in Contents /\ ignored' = {}
         /\ stack' \in Seq(Frames)
         /\ who' \in {NoKey} /\ copy' \in Contents /\ dest' \in {NoPage}
<1>1. stack' \in Seq(Frames)
  BY EmptySeq DEF NoCall
<1> QED
  BY <1>1 DEF NoCall, NothingPlaced, Contents

(* The entry of a record: its key and page are those of the placement.     *)
LEMMA EntryType ==
  ASSUME TypeOK, Entry
  PROVE  at' \in [Keys -> DataPages \cup {NoPage}] /\ stored' \in [Keys -> Contents]
BY DEF TypeOK, Entry

LEMMA NextTypeOK ==
  ASSUME TypeOK, IInv, [Next]_vars
  PROVE  TypeOK'
<1>1. ASSUME NEW k \in Keys \cup {NoKey}, NEW v \in Contents, NEW i \in SUBSET Keys,
             Begin(k, v, i)
      PROVE  TypeOK'
  BY <1>1 DEF TypeOK, Begin, place, history
<1>2. CASE KeepRecordPage
  BY <1>2 DEF TypeOK, KeepRecordPage, call, place, history
<1>3. CASE OpenRecordPage
  <2>1. page \in RecordPages /\ Push(page)
    BY <1>3 DEF TypeOK, OpenRecordPage
  <2>2. stack' \in Seq(Frames)
    BY <2>1, PushedStack
  <2> QED
    BY <1>3, <2>2 DEF TypeOK, OpenRecordPage, place, history
<1>4. CASE LoadPage
  <2>1. Top.page \in RecordPages
    BY <1>4, NonEmptyStack DEF LoadPage, IInv, PcInv
  <2>2. Loaded(Top.page) \in [Keys -> Contents]
    BY <2>1, ContentsOfPages
  <2> HIDE DEF Loaded
  <2> QED
    BY <1>4, <2>1, <2>2 DEF TypeOK, LoadPage, call, place, history
<1>5. CASE ErasePage
  <2>1. Top.page \in RecordPages
    BY <1>5, NonEmptyStack DEF ErasePage, IInv, PcInv
  <2>2. ErasedOn(Top.page) \in [Keys -> Contents]
    BY <2>1, ContentsOfPages
  <2> QED
    BY <1>5, <2>1, <2>2 DEF TypeOK, ErasePage, call, place, history
<1>6. ASSUME NEW k \in Keys, MoveEntry(k) PROVE TypeOK'
  <2>1. stack # <<>> /\ k \in Top.todo /\ pc = "loop"
    BY <1>6 DEF MoveEntry, InFrame
  <2>2. Top.page \in RecordPages /\ cache[Top.page] # NotCached
    BY <2>1, NonEmptyStack DEF IInv, StackInv, Top
  <2>3. cache[Top.page][k] \in Contents
    BY <2>2 DEF TypeOK
  <2> QED
    BY <1>6, <2>3 DEF TypeOK, MoveEntry, history
<1>7. CASE FrameDone
  <2>1. Rest \in Seq(Frames)
    BY <1>7, RestOfStack DEF FrameDone, InFrame
  <2> QED
    BY <1>7, <2>1 DEF TypeOK, FrameDone, place, history
<1>8. CASE PlaceClient
  BY <1>8 DEF TypeOK, PlaceClient, history
<1>9. CASE PlaceData
  <2>1. Ahead \subseteq DataPages
    BY PageConstants DEF Ahead, DataPages, RecordPages, TypeOK
  <2>2. cache' \in [RecordPages -> [Keys -> Contents] \cup {NotCached}]
    BY <1>9 DEF PlaceData, TypeOK, NothingCached
  <2> QED
    BY <1>9, <2>1, <2>2 DEF TypeOK, PlaceData, history
<1>10. CASE PlaceSpins
  BY <1>10 DEF TypeOK, PlaceSpins, call, place, history
<1>11. CASE RewriteRecordPage
  <2>1. page \in RecordPages /\ Push(page)
    BY <1>11 DEF TypeOK, RewriteRecordPage
  <2>2. stack' \in Seq(Frames)
    BY <2>1, PushedStack
  <2> QED
    BY <1>11, <2>2 DEF TypeOK, RewriteRecordPage, place, history
<1>12. CASE RecordMoved
  <2>1. stack' \in Seq(Frames)
    BY <1>12, PoppedEntry DEF RecordMoved
  <2>2. page' \in RecordPages /\ fresh' \in BOOLEAN
    BY <1>12, NextRecordType DEF RecordMoved
  <2>3. at' \in [Keys -> DataPages \cup {NoPage}] /\ stored' \in [Keys -> Contents]
    BY <1>12, EntryType DEF RecordMoved
  <2> QED
    BY <1>12, <2>1, <2>2, <2>3
    DEF TypeOK, RecordMoved, NothingPlaced, history, Contents
<1>13. CASE RecordWritten
  <2>1. page' \in RecordPages /\ fresh' \in BOOLEAN
    BY <1>13, NextRecordType DEF RecordWritten
  <2>2. at' \in [Keys -> DataPages \cup {NoPage}] /\ stored' \in [Keys -> Contents]
    BY <1>13, EntryType DEF RecordWritten
  <2>3. last' \in [Keys -> Contents] /\ torn' \subseteq Keys /\ lost' \subseteq Keys
    BY <1>13 DEF TypeOK, RecordWritten, GivenUp
  <2>4. NoCall /\ cache' = cache
    BY <1>13 DEF RecordWritten
  <2> QED
    BY <2>1, <2>2, <2>3, <2>4, NoCallType DEF TypeOK
<1>14. CASE RecordFlushed
  <2>1. page' \in RecordPages /\ fresh' \in BOOLEAN
    BY <1>14, NextRecordType DEF RecordFlushed
  <2>2. NoCall
    BY <1>14 DEF RecordFlushed
  <2> QED
    BY <1>14, <2>1, <2>2, NoCallType DEF TypeOK, RecordFlushed, history
<1>15. CASE FlashFails
  <2>1. torn' \subseteq Keys /\ lost' \subseteq Keys
    BY <1>15 DEF TypeOK, FlashFails, GivenUp, Abandoned
  <2>2. NoCall
    BY <1>15 DEF FlashFails
  <2> QED
    BY <1>15, <2>1, <2>2, NoCallType DEF TypeOK, FlashFails
<1>16. CASE UNCHANGED vars
  BY <1>16 DEF TypeOK, vars, call, place, history
<1> QED
  <2>1. ASSUME NEW k \in Keys, NEW v \in Values, Write(k, v) PROVE TypeOK'
    BY <2>1, <1>1 DEF Write, Contents
  <2>2. CASE Flush
    BY <2>2, <1>1 DEF Flush, Contents
  <2> QED
    BY <1>2, <1>3, <1>4, <1>5, <1>6, <1>7, <1>8, <1>9, <1>10, <1>11, <1>12,
       <1>13, <1>14, <1>15, <1>16, <2>1, <2>2 DEF Next

-------------------------------------------------------------------------------
(* The inductive invariant.                                                *)

LEMMA InitIInv == Init => IInv
<1> SUFFICES ASSUME Init PROVE IInv
  OBVIOUS
<1>1. DOMAIN stack = {}
  BY DEF Init
<1>2. StoredInv /\ PendingInv
  BY DEF Init, StoredInv, PendingInv, Sound
<1>3. CacheInv
  BY DEF Init, CacheInv, NothingCached
<1>4. StackInv
  BY <1>1 DEF StackInv
<1>5. PcInv
  BY DEF Init, PcInv
<1> QED
  BY <1>2, <1>3, <1>4, <1>5 DEF IInv

(* A call begins with every copy in the cache the last value.              *)
LEMMA BeginIInv ==
  ASSUME TypeOK, IInv,
         NEW k \in Keys \cup {NoKey}, NEW v, NEW i \in SUBSET Keys,
         k # NoKey => v \in Values, k = NoKey => i = {}, Begin(k, v, i)
  PROVE  IInv'
<1>1. /\ pc = "idle" /\ pc' = "prepare" /\ stack = <<>> /\ stack' = <<>> /\ ignored = {}
      /\ op' = k /\ value' = v /\ ignored' = i
      /\ UNCHANGED <<at, stored, cache, page, fresh, last, torn, lost>>
  BY DEF Begin, place, history, IInv, PcInv
<1>2. StoredInv'
  BY <1>1 DEF IInv, StoredInv, Sound, Spared
<1>3. CacheInv'
  BY <1>1 DEF IInv, CacheInv, Sound, Spared, On
<1>4. PendingInv'
  <2> SUFFICES ASSUME NEW j \in Sound \ i, stored[j] # last[j]
               PROVE  /\ at[j] \in RecordPages /\ cache[at[j]] # NotCached
                      /\ fresh /\ at[j] = page
    BY <1>1 DEF PendingInv, Sound, Spared
  <2>1. ~ToBeMoved(j)
    BY <1>1 DEF ToBeMoved
  <2> QED
    BY <1>1, <2>1 DEF IInv, PendingInv
<1>5. StackInv'
  BY <1>1 DEF StackInv
<1>6. PcInv'
  BY <1>1 DEF PcInv
<1> QED
  BY <1>2, <1>3, <1>4, <1>5, <1>6 DEF IInv

(* A frame is pushed for the page of the records with what is on it.       *)
LEMMA PushIInv ==
  ASSUME TypeOK, IInv, Push(page), pc' \in {"load", "erase"},
         pc' = "erase" => is_page_free(page),
         \A i \in DOMAIN stack : stack[i].page < page,
         (pc = "prepare" /\ fresh) \/ pc = "place",
         pc = "prepare" \/ stack = <<>>,
         UNCHANGED <<at, stored, cache, page, fresh, op, value, ignored, place, history>>
  PROVE  IInv'
<1>1. page \in RecordPages /\ page \in Nat
  BY PageConstants DEF TypeOK, RecordPages
<1>2. /\ stack' # <<>>
      /\ Len(stack) \in Nat /\ Len(stack') = Len(stack) + 1
      /\ DOMAIN stack' = 1 .. Len(stack) + 1
      /\ DOMAIN stack = 1 .. Len(stack)
      /\ \A i \in DOMAIN stack : stack'[i] = stack[i]
      /\ stack'[Len(stack) + 1] = [page |-> page, todo |-> On(page) \ ignored]
  BY <1>1, PushedStack
<1>3. UNCHANGED <<at, stored, cache, page, fresh, op, value, ignored, last, torn, lost>>
  BY DEF history
<1>4. StoredInv'
  BY <1>3 DEF IInv, StoredInv, Sound, Spared
<1>5. CacheInv'
  BY <1>3 DEF IInv, CacheInv, Sound, Spared, On
<1>6. PendingInv'
  <2> SUFFICES ASSUME NEW j \in Sound \ ignored, stored[j] # last[j]
               PROVE  /\ at[j] \in RecordPages /\ cache[at[j]] # NotCached
                      /\ ToBeMoved(j)'
    BY <1>3 DEF PendingInv, Sound, Spared
  <2>1. /\ at[j] \in RecordPages /\ cache[at[j]] # NotCached
        /\ ToBeMoved(j) \/ at[j] = page
    BY DEF IInv, PendingInv
  <2>2. CASE ToBeMoved(j)
    <3>1. PICK i \in DOMAIN stack : j \in stack[i].todo
      BY <2>2 DEF ToBeMoved
    <3>2. i \in DOMAIN stack' /\ j \in stack'[i].todo
      BY <1>2, <3>1
    <3> QED
      BY <2>1, <3>2 DEF ToBeMoved
  <2>3. CASE at[j] = page
    <3>1. j \in stack'[Len(stack) + 1].todo /\ Len(stack) + 1 \in DOMAIN stack'
      BY <1>2, <2>3 DEF On, Sound
    <3> QED
      BY <2>1, <3>1 DEF ToBeMoved
  <2> QED
    BY <2>1, <2>2, <2>3
<1>7. StackInv'
  <2>1. \A i \in DOMAIN stack' :
          i \in DOMAIN stack \/ i = Len(stack) + 1
    BY <1>2
  <2>2. ASSUME NEW i \in DOMAIN stack
        PROVE  /\ stack'[i].page <= page
               /\ stack'[i].todo \subseteq On(stack'[i].page) \ ignored
               /\ stack'[i].todo = {} \/ cache[stack'[i].page] # NotCached
    <3>1. stack'[i] = stack[i]
      BY <1>2
    <3>2. pc \notin {"load", "erase"}
      OBVIOUS
    <3> QED
      BY <3>1, <3>2 DEF IInv, StackInv
  <2>3. \A i, j \in DOMAIN stack' : i < j => stack'[i].page < stack'[j].page
    <3> TAKE i, j \in DOMAIN stack'
    <3> HAVE i < j
    <3>1. i \in DOMAIN stack
      BY <1>2
    <3>2. CASE j \in DOMAIN stack
      BY <3>1, <3>2, <1>2 DEF IInv, StackInv
    <3>3. CASE j = Len(stack) + 1
      BY <3>1, <3>3, <1>2
    <3> QED
      BY <2>1, <3>2, <3>3
  <2>4. \A i \in DOMAIN stack' :
          /\ stack'[i].page <= page'
          /\ stack'[i].todo \subseteq On(stack'[i].page) \ ignored
          /\ \/ i = Len(stack') /\ pc' \in {"load", "erase"}
             \/ stack'[i].todo = {}
             \/ cache'[stack'[i].page] # NotCached
    <3> TAKE i \in DOMAIN stack'
    <3>1. CASE i \in DOMAIN stack
      BY <2>2, <3>1, <1>3 DEF On
    <3>2. CASE i = Len(stack) + 1
      BY <3>2, <1>1, <1>2, <1>3 DEF On
    <3> QED
      BY <2>1, <3>1, <3>2
  <2>5. pc' # "prepare"
    OBVIOUS
  <2> QED
    BY <1>3, <2>3, <2>4, <2>5 DEF StackInv, On
<1>8. PcInv'
  <2>1. Top' = [page |-> page, todo |-> On(page) \ ignored]
    BY <1>2 DEF Top
  <2> QED
    BY <1>2, <1>3, <2>1 DEF IInv, PcInv, is_page_free, On
<1> QED
  BY <1>4, <1>5, <1>6, <1>7, <1>8 DEF IInv

LEMMA LoadIInv ==
  ASSUME TypeOK, IInv, LoadPage
  PROVE  IInv'
<1> DEFINE p == Top.page
<1>1. /\ pc = "load" /\ pc' = "erase" /\ stack # <<>>
      /\ UNCHANGED <<at, stored, page, fresh, op, value, ignored, stack, who, copy, dest>>
      /\ UNCHANGED <<last, torn, lost>>
  BY DEF LoadPage, call, place, history, IInv, PcInv
<1>2. p \in RecordPages /\ p <= page /\ Loaded(p) \in [Keys -> Contents]
  BY <1>1, NonEmptyStack, ContentsOfPages DEF IInv, StackInv, Top
<1>3. Loaded(p) # NotCached
  BY <1>2, PageConstants DEF Contents
<1>4. cache' = [cache EXCEPT ![p] = Loaded(p)]
  BY DEF LoadPage
<1>5. ASSUME NEW k \in Sound \cap On(p), k \in ignored => stored[k] # Gone
      PROVE  Loaded(p)[k] = last[k]
  <2>1. CASE cache[p] # NotCached
    BY <1>2, <1>5, <2>1 DEF Loaded, IInv, CacheInv
  <2>2. CASE cache[p] = NotCached
    <3>1. k \in Keys /\ at[k] = p
      BY <1>5 DEF Sound, On
    <3>2. Loaded(p)[k] = stored[k]
      BY <2>2, <3>1 DEF Loaded, Snapshot
    <3>3. stored[k] = last[k]
      BY <1>5, <2>2, <3>1 DEF IInv, StoredInv, PendingInv
    <3> QED
      BY <3>2, <3>3
  <2> QED
    BY <2>1, <2>2
<1> HIDE DEF p
<1>6. \A q \in RecordPages : cache'[q] = IF q = p THEN Loaded(p) ELSE cache[q]
  BY <1>2, <1>4 DEF TypeOK
<1>7. \A q \in RecordPages : cache[q] # NotCached => cache'[q] # NotCached
  BY <1>3, <1>6
<1>8. StoredInv'
  BY <1>1 DEF IInv, StoredInv, Sound, Spared
<1>9. CacheInv'
  <2> SUFFICES ASSUME NEW q \in RecordPages, cache'[q] # NotCached
               PROVE  /\ q <= page
                      /\ \A k \in Sound \cap On(q) :
                           (k \in ignored => stored[k] # Gone) => cache'[q][k] = last[k]
    BY <1>1 DEF CacheInv, Sound, Spared, On
  <2>1. CASE q = p
    BY <1>2, <1>5, <1>6, <2>1
  <2>2. CASE q # p
    BY <1>6, <2>2 DEF IInv, CacheInv
  <2> QED
    BY <2>1, <2>2
<1>10. PendingInv'
  BY <1>1, <1>7 DEF IInv, PendingInv, ToBeMoved, Sound, Spared
<1>11. StackInv'
  <2>1. ASSUME NEW i \in DOMAIN stack
        PROVE  /\ stack[i].page <= page
               /\ stack[i].todo \subseteq On(stack[i].page) \ ignored
               /\ \/ i = Len(stack)
                  \/ stack[i].todo = {}
                  \/ cache'[stack[i].page] # NotCached
    <3>1. stack[i].page \in RecordPages
      BY FrameOfStack
    <3> QED
      BY <1>1, <1>7, <3>1 DEF IInv, StackInv
  <2>2. \A i, j \in DOMAIN stack : i < j => stack[i].page < stack[j].page
    BY DEF IInv, StackInv
  <2> QED
    BY <1>1, <2>1, <2>2 DEF StackInv, On
<1>12. PcInv'
  <2>1. Top' = Top
    BY <1>1 DEF Top
  <2>2. cache'[Top.page] # NotCached
    BY <1>2, <1>3, <1>6 DEF p
  <2> QED
    BY <1>1, <2>1, <2>2 DEF IInv, PcInv, On
<1> QED
  BY <1>8, <1>9, <1>10, <1>11, <1>12 DEF IInv

(* What is erased has been loaded, and is on the list of its frame.        *)
LEMMA EraseIInv ==
  ASSUME TypeOK, IInv, ErasePage
  PROVE  IInv'
<1> DEFINE p == Top.page
<1>1. /\ pc = "erase" /\ pc' = "loop" /\ stack # <<>>
      /\ Top.todo = On(p) \ ignored /\ (On(p) # {} => cache[p] # NotCached)
      /\ UNCHANGED <<at, cache, page, fresh, op, value, ignored, stack, who, copy, dest>>
      /\ UNCHANGED <<last, torn, lost>>
  BY DEF ErasePage, call, place, history, IInv, PcInv
<1>2. p \in RecordPages /\ Len(stack) \in DOMAIN stack /\ Top = stack[Len(stack)]
  BY <1>1, NonEmptyStack DEF Top
<1>3. \A k \in Keys : stored'[k] = IF at[k] = p THEN Gone ELSE stored[k]
  BY DEF ErasePage, ErasedOn
<1>4. StoredInv'
  BY <1>1, <1>3 DEF IInv, StoredInv, Sound, Spared
<1>5. CacheInv'
  BY <1>1, <1>3 DEF IInv, CacheInv, Sound, Spared, On
<1>6. PendingInv'
  <2> SUFFICES ASSUME NEW j \in Sound \ ignored, stored'[j] # last[j]
               PROVE  /\ at[j] \in RecordPages /\ cache[at[j]] # NotCached
                      /\ ToBeMoved(j)
    BY <1>1 DEF PendingInv, Sound, Spared, ToBeMoved
  <2>1. CASE at[j] = p
    <3>1. j \in On(p)
      BY <2>1 DEF On, Sound
    <3> QED
      BY <1>1, <1>2, <2>1, <3>1 DEF ToBeMoved
  <2>2. CASE at[j] # p
    BY <1>1, <1>3, <2>2 DEF IInv, PendingInv, Sound
  <2> QED
    BY <2>1, <2>2
<1>7. StackInv'
  <2>1. ASSUME NEW i \in DOMAIN stack
        PROVE  stack[i].todo = {} \/ cache[stack[i].page] # NotCached
    <3>1. CASE i = Len(stack)
      BY <1>1, <1>2, <3>1
    <3>2. CASE i # Len(stack)
      BY <2>1, <3>2 DEF IInv, StackInv
    <3> QED
      BY <3>1, <3>2
  <2> QED
    BY <1>1, <2>1 DEF IInv, StackInv, On
<1>8. PcInv'
  BY <1>1 DEF IInv, PcInv
<1> QED
  BY <1>4, <1>5, <1>6, <1>7, <1>8 DEF IInv

LEMMA MoveEntryIInv ==
  ASSUME TypeOK, IInv, NEW k \in Keys, MoveEntry(k)
  PROVE  IInv'
<1>1. /\ pc = "loop" /\ pc' = "place" /\ stack # <<>> /\ k \in Top.todo
      /\ who' = k /\ copy' = cache[Top.page][k]
      /\ UNCHANGED <<at, stored, cache, page, fresh, op, value, ignored, stack>>
      /\ UNCHANGED <<last, torn, lost>>
  BY DEF MoveEntry, InFrame, history
<1>2. /\ Top.page \in RecordPages /\ cache[Top.page] # NotCached
      /\ k \in On(Top.page) \ ignored
  BY <1>1, NonEmptyStack DEF IInv, StackInv, Top
<1>3. k \in Sound => cache[Top.page][k] = last[k]
  BY <1>2 DEF IInv, CacheInv
<1>4. StoredInv' /\ CacheInv'
  BY <1>1 DEF IInv, StoredInv, CacheInv, Sound, Spared, On
<1>5. PendingInv'
  BY <1>1 DEF IInv, PendingInv, Sound, Spared, ToBeMoved
<1>6. StackInv'
  BY <1>1 DEF IInv, StackInv, On
<1>7. PcInv'
  <2>1. Top' = Top /\ k # NoKey
    BY <1>1, PageConstants DEF Top
  <2> QED
    BY <1>1, <1>3, <2>1 DEF IInv, PcInv, Sound, Spared
<1> QED
  BY <1>4, <1>5, <1>6, <1>7 DEF IInv

LEMMA FrameDoneIInv ==
  ASSUME TypeOK, IInv, FrameDone
  PROVE  IInv'
<1>1. /\ pc = "loop" /\ pc' = "loop" /\ stack # <<>> /\ Top.todo = {} /\ stack' = Rest
      /\ UNCHANGED <<at, stored, cache, page, fresh, op, value, ignored, who, copy, dest>>
      /\ UNCHANGED <<last, torn, lost>>
  BY DEF FrameDone, InFrame, place, history
<1>2. /\ Len(stack) \in Nat /\ DOMAIN stack = 1 .. Len(stack)
      /\ DOMAIN stack' = 1 .. Len(stack) - 1
      /\ \A i \in DOMAIN stack' : stack'[i] = stack[i]
  BY <1>1, NonEmptyStack, RestOfStack
<1>3. \A i \in DOMAIN stack' : i \in DOMAIN stack
  BY <1>2
<1>4. StoredInv' /\ CacheInv'
  BY <1>1 DEF IInv, StoredInv, CacheInv, Sound, Spared, On
<1>5. PendingInv'
  <2> SUFFICES ASSUME NEW j \in Sound \ ignored, ToBeMoved(j)
               PROVE  ToBeMoved(j)'
    BY <1>1 DEF IInv, PendingInv, Sound, Spared
  <2>1. PICK i \in DOMAIN stack : j \in stack[i].todo
    BY DEF ToBeMoved
  <2>2. i # Len(stack)
    BY <1>1, <2>1 DEF Top
  <2>3. i \in DOMAIN stack'
    BY <1>2, <2>2
  <2> QED
    BY <1>2, <2>1, <2>3 DEF ToBeMoved
<1>6. StackInv'
  <2>1. \A i \in DOMAIN stack' :
          /\ stack'[i].page <= page
          /\ stack'[i].todo \subseteq On(stack'[i].page) \ ignored
          /\ stack'[i].todo = {} \/ cache[stack'[i].page] # NotCached
    BY <1>1, <1>2, <1>3 DEF IInv, StackInv
  <2>2. \A i, j \in DOMAIN stack' : i < j => stack'[i].page < stack'[j].page
    BY <1>2, <1>3 DEF IInv, StackInv
  <2> QED
    BY <1>1, <2>1, <2>2 DEF StackInv, On
<1>7. PcInv'
  BY <1>1 DEF IInv, PcInv
<1> QED
  BY <1>4, <1>5, <1>6, <1>7 DEF IInv

(* Without a frame nothing is still to be moved once the call is past      *)
(* prepare_map.                                                            *)
LEMMA NothingPending ==
  ASSUME IInv, stack = <<>>, pc \notin {"idle", "prepare"}
  PROVE  \A j \in Sound \ ignored : stored[j] = last[j]
BY DEF IInv, PendingInv, ToBeMoved

LEMMA PlaceClientIInv ==
  ASSUME TypeOK, IInv, PlaceClient
  PROVE  IInv'
<1>1. /\ pc = "loop" /\ stack = <<>> /\ stack' = <<>> /\ who' = op /\ copy' = value
      /\ pc' = IF op = NoKey THEN "record" ELSE "place"
      /\ UNCHANGED <<at, stored, cache, page, fresh, op, value, ignored>>
      /\ UNCHANGED <<last, torn, lost>>
  BY DEF PlaceClient, history
<1>2. StoredInv' /\ CacheInv'
  BY <1>1 DEF IInv, StoredInv, CacheInv, Sound, Spared, On
<1>3. PendingInv'
  BY <1>1, NothingPending DEF PendingInv, Sound, Spared
<1>4. StackInv'
  BY <1>1 DEF StackInv
<1>5. PcInv'
  BY <1>1 DEF IInv, PcInv
<1> QED
  BY <1>2, <1>3, <1>4, <1>5 DEF IInv

(* The cache is dropped only when no entry is in the cache alone.          *)
LEMMA PlaceDataIInv ==
  ASSUME TypeOK, IInv, PlaceData
  PROVE  IInv'
<1>1. /\ pc = "place" /\ pc' = "record" /\ dest' \in Ahead
      /\ cache' = IF stack = <<>> THEN NothingCached ELSE cache
      /\ UNCHANGED <<at, stored, page, fresh, op, value, ignored, stack, who, copy>>
      /\ UNCHANGED <<last, torn, lost>>
  BY DEF PlaceData, history
<1>2. StoredInv'
  BY <1>1 DEF IInv, StoredInv, Sound, Spared
<1>3. CacheInv'
  BY <1>1 DEF IInv, CacheInv, Sound, Spared, On, NothingCached
<1>4. PendingInv'
  <2>1. CASE stack = <<>>
    BY <1>1, <2>1, NothingPending DEF PendingInv, Sound, Spared
  <2>2. CASE stack # <<>>
    BY <1>1, <2>2 DEF IInv, PendingInv, Sound, Spared, ToBeMoved
  <2> QED
    BY <2>1, <2>2
<1>5. StackInv'
  <2>1. CASE stack = <<>>
    BY <1>1, <2>1 DEF StackInv
  <2>2. CASE stack # <<>>
    BY <1>1, <2>2 DEF IInv, StackInv, On
  <2> QED
    BY <2>1, <2>2
<1>6. PcInv'
  <2>1. Top' = Top /\ Ahead' = Ahead
    BY <1>1 DEF Top, Ahead
  <2> QED
    BY <1>1, <2>1 DEF IInv, PcInv, Sound, Spared
<1> QED
  BY <1>2, <1>3, <1>4, <1>5, <1>6 DEF IInv

(* The cursor of the records stays or goes on to the next page.            *)
LEMMA NextRecordPage ==
  ASSUME TypeOK, NextRecord
  PROVE  /\ page \in Nat /\ page' \in Nat /\ page <= page'
         /\ fresh' => page < page'
BY PageConstants DEF TypeOK, RecordPages, NextRecord

(* The entry placed lies ahead of every page in the cache.                 *)
LEMMA AheadOfCache ==
  ASSUME TypeOK, IInv, pc = "record", who # NoKey
  PROVE  /\ dest \in Ahead /\ dest > page
         /\ \A p \in RecordPages : cache[p] # NotCached => p # dest
<1>1. dest \in Ahead
  BY DEF IInv, PcInv
<1>2. dest > page /\ page \in Nat /\ dest \in Nat
  BY <1>1, PageConstants DEF Ahead, TypeOK, RecordPages
<1>3. \A p \in RecordPages : cache[p] # NotCached => p <= page
  BY DEF IInv, CacheInv
<1> QED
  BY <1>1, <1>2, <1>3, PageConstants DEF RecordPages

LEMMA RecordMovedIInv ==
  ASSUME TypeOK, IInv, RecordMoved
  PROVE  IInv'
<1>1. /\ pc = "record" /\ stack # <<>> /\ pc' = "prepare" /\ NextRecord /\ Entry
      /\ UNCHANGED <<cache, op, value, ignored>> /\ UNCHANGED <<last, torn, lost>>
  BY DEF RecordMoved, history
<1>2. /\ Len(stack) \in DOMAIN stack /\ Top = stack[Len(stack)] /\ Top.todo \subseteq Keys
      /\ Len(stack) \in Nat /\ DOMAIN stack = 1 .. Len(stack)
  BY <1>1, NonEmptyStack DEF Top
<1>3. /\ who \in Top.todo /\ who \in Keys /\ who # NoKey
      /\ (who \in Sound => copy = last[who])
      /\ who \in On(Top.page) \ ignored
  BY <1>1, <1>2, PageConstants DEF IInv, PcInv, StackInv
<1>4. /\ \A p \in RecordPages : cache[p] # NotCached => p # dest
  BY <1>1, <1>3, AheadOfCache
<1>5. /\ \A k \in Keys : at'[k] = IF k = who THEN dest ELSE at[k]
      /\ \A k \in Keys : stored'[k] = IF k = who THEN copy ELSE stored[k]
  BY <1>1 DEF Entry, TypeOK
<1>6. /\ DOMAIN stack' = DOMAIN stack /\ Len(stack') = Len(stack)
      /\ \A i \in DOMAIN stack :
           /\ stack'[i].page = stack[i].page
           /\ stack'[i].todo =
                IF i = Len(stack) THEN stack[i].todo \ {who} ELSE stack[i].todo
  BY <1>1, PoppedEntry DEF RecordMoved
<1>7. /\ page \in Nat /\ page' \in Nat /\ page <= page' /\ (fresh' => page < page')
  BY <1>1, NextRecordPage
<1>8. StoredInv'
  BY <1>1, <1>3, <1>5 DEF IInv, StoredInv, Sound, Spared
<1>9. CacheInv'
  <2> SUFFICES ASSUME NEW p \in RecordPages, cache[p] # NotCached
               PROVE  /\ p <= page'
                      /\ \A k \in Sound :
                           at'[k] = p /\ (k \in ignored => stored'[k] # Gone)
                             => cache[p][k] = last[k]
    BY <1>1 DEF CacheInv, Sound, Spared, On
  <2>1. p <= page'
    BY <1>7, PageConstants DEF IInv, CacheInv, RecordPages
  <2>2. ASSUME NEW k \in Sound, at'[k] = p, k \in ignored => stored'[k] # Gone
        PROVE  cache[p][k] = last[k]
    <3>1. k # who /\ k \in Keys
      BY <1>4, <1>5, <2>2 DEF Sound
    <3>2. at[k] = p /\ stored'[k] = stored[k]
      BY <1>5, <2>2, <3>1
    <3> QED
      BY <2>2, <3>1, <3>2 DEF IInv, CacheInv, On
  <2> QED
    BY <2>1, <2>2
<1>10. PendingInv'
  <2> SUFFICES ASSUME NEW j \in Sound \ ignored, stored'[j] # last[j]
               PROVE  /\ at'[j] \in RecordPages /\ cache[at'[j]] # NotCached
                      /\ ToBeMoved(j)'
    BY <1>1 DEF PendingInv, Sound, Spared
  <2>1. j # who /\ at'[j] = at[j] /\ stored'[j] = stored[j]
    BY <1>3, <1>5 DEF Sound
  <2>2. at[j] \in RecordPages /\ cache[at[j]] # NotCached /\ ToBeMoved(j)
    BY <1>1, <2>1 DEF IInv, PendingInv
  <2>3. PICK i \in DOMAIN stack : j \in stack[i].todo
    BY <2>2 DEF ToBeMoved
  <2>4. i \in DOMAIN stack' /\ j \in stack'[i].todo
    BY <1>6, <2>1, <2>3
  <2> QED
    BY <2>1, <2>2, <2>4 DEF ToBeMoved
<1>11. StackInv'
  <2>1. ASSUME NEW i \in DOMAIN stack
        PROVE  /\ stack[i].page <= page
               /\ stack[i].todo \subseteq On(stack[i].page) \ ignored
               /\ stack[i].todo = {} \/ cache[stack[i].page] # NotCached
               /\ stack[i].page \in Nat
    <3>1. stack[i].page \in RecordPages
      BY FrameOfStack
    <3> QED
      BY <1>1, <3>1, PageConstants DEF IInv, StackInv, RecordPages
  <2>2. ASSUME NEW i \in DOMAIN stack
        PROVE  stack'[i].todo \subseteq {k \in Keys : at'[k] = stack[i].page} \ ignored
    <3>1. CASE i = Len(stack)
      <4>1. stack'[i].todo = stack[i].todo \ {who}
        BY <1>6, <3>1
      <4>2. stack[i].todo \subseteq {k \in Keys : at[k] = stack[i].page} \ ignored
        BY <2>1 DEF On
      <4> QED
        BY <1>5, <4>1, <4>2
    <3>2. CASE i # Len(stack)
      <4>1. stack[i].page < Top.page
        BY <1>2, <3>2 DEF IInv, StackInv
      <4>2. at[who] = Top.page /\ Top.page # stack[i].page
        BY <1>2, <1>3, <2>1, <4>1 DEF On
      <4>3. who \notin stack[i].todo
        BY <2>1, <4>2 DEF On
      <4> QED
        BY <1>5, <1>6, <2>1, <3>2, <4>3 DEF On
    <3> QED
      BY <3>1, <3>2
  <2>3. ASSUME NEW i \in DOMAIN stack
        PROVE  /\ stack'[i].page <= page'
               /\ fresh' => stack'[i].page < page'
               /\ stack'[i].todo = {} \/ cache[stack'[i].page] # NotCached
    <3>1. stack'[i].page = stack[i].page /\ stack'[i].todo \subseteq stack[i].todo
      BY <1>6
    <3>2. stack[i].page <= page' /\ (page < page' => stack[i].page < page')
      BY <1>7, <2>1
    <3> QED
      BY <1>7, <2>1, <3>1, <3>2
  <2>4. \A i, j \in DOMAIN stack' : i < j => stack'[i].page < stack'[j].page
    BY <1>6 DEF IInv, StackInv
  <2> QED
    BY <1>1, <1>6, <2>2, <2>3, <2>4 DEF StackInv, On
<1>12. PcInv'
  BY <1>1 DEF IInv, PcInv
<1> QED
  BY <1>8, <1>9, <1>10, <1>11, <1>12 DEF IInv

(* At the end of a call no frame is open.                                  *)
LEMMA NoCallInv ==
  ASSUME NoCall
  PROVE  StackInv' /\ PcInv'
<1>1. stack' = <<>> /\ DOMAIN stack' = {} /\ ignored' = {} /\ pc' = "idle" /\ op' = NoKey
  BY DEF NoCall
<1>2. StackInv'
  BY <1>1 DEF StackInv
<1>3. PcInv'
  BY <1>1 DEF PcInv
<1> QED
  BY <1>2, <1>3

(* The record of the call's own data: of the keys it ignored, those whose  *)
(* entry it has erased are given up.                                       *)
LEMMA RecordWrittenIInv ==
  ASSUME TypeOK, IInv, RecordWritten
  PROVE  /\ IInv'
         /\ \A k \in Keys \ Spared' : stored'[k] = last'[k]
<1>1. /\ pc = "record" /\ stack = <<>> /\ op # NoKey /\ NextRecord /\ Entry /\ NoCall
      /\ cache' = cache /\ last' = [last EXCEPT ![op] = value]
      /\ torn' = GivenUp \ {op} /\ lost' = lost \ {op}
  BY DEF RecordWritten
<1>2. who = op /\ copy = value /\ op \in Keys /\ value \in Values
  BY <1>1 DEF IInv, PcInv, TypeOK
<1>3. /\ \A p \in RecordPages : cache[p] # NotCached => p # dest
  BY <1>1, <1>2, AheadOfCache
<1>4. /\ \A k \in Keys : at'[k] = IF k = op THEN dest ELSE at[k]
      /\ \A k \in Keys : stored'[k] = IF k = op THEN value ELSE stored[k]
      /\ \A k \in Keys : last'[k] = IF k = op THEN value ELSE last[k]
  BY <1>1, <1>2 DEF Entry, TypeOK
<1>5. ASSUME NEW k \in Keys \ Spared', k # op
      PROVE  k \in Sound /\ (k \in ignored => stored[k] # Gone)
  BY <1>1, <1>5 DEF Sound, Spared, GivenUp
<1>6. ASSUME NEW k \in Keys \ Spared' PROVE stored'[k] = last'[k]
  <2>1. CASE k = op
    BY <1>4, <2>1
  <2>2. CASE k # op
    <3>1. k \in Sound /\ (k \in ignored => stored[k] # Gone)
      BY <1>5, <2>2
    <3>2. stored[k] = last[k]
      BY <1>1, <3>1, NothingPending DEF IInv, StoredInv
    <3> QED
      BY <1>4, <2>2, <3>2
  <2> QED
    BY <2>1, <2>2
<1>7. StoredInv' /\ PendingInv'
  BY <1>6 DEF StoredInv, PendingInv, Sound
<1>8. CacheInv'
  <2> SUFFICES ASSUME NEW p \in RecordPages, cache[p] # NotCached
               PROVE  /\ p <= page'
                      /\ \A k \in Keys \ Spared' : at'[k] = p => cache[p][k] = last'[k]
    BY <1>1 DEF CacheInv, Sound, On
  <2>1. p <= page'
    BY <1>1, NextRecordPage, PageConstants DEF IInv, CacheInv, RecordPages
  <2>2. ASSUME NEW k \in Keys \ Spared', at'[k] = p PROVE cache[p][k] = last'[k]
    <3>1. k # op
      BY <1>3, <1>4, <2>2
    <3>2. k \in Sound /\ (k \in ignored => stored[k] # Gone)
      BY <1>5, <3>1
    <3>3. at[k] = p /\ last'[k] = last[k]
      BY <1>4, <2>2, <3>1
    <3> QED
      BY <3>2, <3>3 DEF IInv, CacheInv, On
  <2> QED
    BY <2>1, <2>2
<1> QED
  BY <1>1, <1>6, <1>7, <1>8, NoCallInv DEF IInv

LEMMA RecordFlushedIInv ==
  ASSUME TypeOK, IInv, RecordFlushed
  PROVE  /\ IInv'
         /\ \A k \in Keys \ Spared' : stored'[k] = last'[k]
<1>1. /\ pc = "record" /\ stack = <<>> /\ op = NoKey /\ NextRecord /\ NoCall
      /\ UNCHANGED <<at, stored, cache, last, torn, lost>>
  BY DEF RecordFlushed, history
<1>2. ignored = {} /\ ignored' = {}
  BY <1>1 DEF IInv, PcInv, NoCall
<1>3. \A k \in Sound : stored[k] = last[k]
  BY <1>1, <1>2, NothingPending
<1>4. StoredInv' /\ PendingInv'
  BY <1>1, <1>3 DEF StoredInv, PendingInv, Sound, Spared
<1>5. CacheInv'
  <2>1. ASSUME NEW p \in RecordPages, cache[p] # NotCached
        PROVE  p <= page'
    BY <1>1, <2>1, NextRecordPage, PageConstants DEF IInv, CacheInv, RecordPages
  <2> QED
    BY <1>1, <1>2, <2>1 DEF IInv, CacheInv, Sound, Spared, On
<1> QED
  BY <1>1, <1>3, <1>4, <1>5, NoCallInv DEF IInv, Sound, Spared

(* A call that fails: what it was moving is lost, unless the next call     *)
(* opens the page again.                                                   *)
LEMMA FlashFailsIInv ==
  ASSUME TypeOK, IInv, FlashFails
  PROVE  IInv'
<1>1. /\ pc \in {"load", "erase", "place", "record"} /\ NoCall
      /\ torn' = GivenUp /\ lost' = lost \cup Abandoned
      /\ UNCHANGED <<at, stored, cache, page, fresh, last>>
  BY DEF FlashFails
<1>2. ignored' = {} /\ pc' = "idle"
  BY <1>1 DEF NoCall
<1>3. ASSUME NEW k \in Keys \ Spared'
      PROVE  k \in Sound /\ (k \in ignored => stored[k] # Gone) /\ k \notin Abandoned
  BY <1>1 DEF Sound, Spared, GivenUp
<1>4. StoredInv'
  BY <1>1, <1>3 DEF IInv, StoredInv, Sound
<1>5. CacheInv'
  <2> SUFFICES ASSUME NEW p \in RecordPages, cache[p] # NotCached
               PROVE  /\ p <= page
                      /\ \A k \in Keys \ Spared' : at[k] = p => cache[p][k] = last[k]
    BY <1>1 DEF CacheInv, Sound, On
  <2> QED
    BY <1>3 DEF IInv, CacheInv, On
<1>6. PendingInv'
  <2> SUFFICES ASSUME NEW j \in Keys \ Spared', stored[j] # last[j]
               PROVE  /\ at[j] \in RecordPages /\ cache[at[j]] # NotCached
                      /\ fresh /\ at[j] = page
    BY <1>1, <1>2 DEF PendingInv, Sound
  <2>1. j \in Sound \ ignored /\ j \notin Abandoned
    BY <1>3 DEF IInv, StoredInv
  <2>2. at[j] \in RecordPages /\ cache[at[j]] # NotCached /\ ToBeMoved(j)
    BY <1>1, <2>1 DEF IInv, PendingInv
  <2>3. PICK i \in DOMAIN stack : j \in stack[i].todo
    BY <2>2 DEF ToBeMoved
  <2>4. fresh /\ stack[i].page = page
    BY <2>1, <2>3 DEF Abandoned, Sound
  <2>5. at[j] = stack[i].page
    BY <2>3 DEF IInv, StackInv, On
  <2> QED
    BY <2>2, <2>4, <2>5
<1> QED
  BY <1>1, <1>4, <1>5, <1>6, NoCallInv DEF IInv

(* Steps of the program counter alone.                                     *)
LEMMA QuietIInv ==
  ASSUME TypeOK, IInv,
         \/ KeepRecordPage \/ PlaceSpins
         \/ UNCHANGED vars
  PROVE  IInv'
<1>1. /\ UNCHANGED <<at, stored, cache, page, fresh, op, value, ignored, stack, who, copy, dest>>
      /\ UNCHANGED <<last, torn, lost>>
  BY DEF KeepRecordPage, PlaceSpins, vars, call, place, history
<1>2. \/ pc = "prepare" /\ ~fresh /\ pc' = "loop"
      \/ pc = "place" /\ pc' = "spins"
      \/ pc' = pc
  BY DEF KeepRecordPage, PlaceSpins, vars
<1>3. StoredInv' /\ CacheInv'
  BY <1>1 DEF IInv, StoredInv, CacheInv, Sound, Spared, On
<1>4. PendingInv'
  BY <1>1, <1>2 DEF IInv, PendingInv, ToBeMoved, Sound, Spared
<1>5. StackInv'
  BY <1>1, <1>2 DEF IInv, StackInv, On
<1>6. PcInv'
  <2>1. Top' = Top /\ Ahead' = Ahead
    BY <1>1 DEF Top, Ahead
  <2> QED
    BY <1>1, <1>2, <2>1 DEF IInv, PcInv, On, Sound, Spared
<1> QED
  BY <1>3, <1>4, <1>5, <1>6 DEF IInv

LEMMA NextIInv ==
  ASSUME TypeOK, IInv, [Next]_vars
  PROVE  IInv'
<1>1. ASSUME NEW k \in Keys, NEW v \in Values, Write(k, v) PROVE IInv'
  <2>1. PICK i \in {{k}} \cup SUBSET (Keys \ {k}) : Begin(k, v, i)
    BY <1>1 DEF Write
  <2>2. i \in SUBSET Keys /\ k # NoKey
    BY PageConstants
  <2> QED
    BY <2>1, <2>2, BeginIInv
<1>2. CASE Flush
  BY <1>2, BeginIInv DEF Flush
<1>3. CASE OpenRecordPage
  <2>1. /\ pc = "prepare" /\ fresh /\ Push(page)
        /\ pc' = IF is_page_free(page) THEN "erase" ELSE "load"
        /\ UNCHANGED <<at, stored, cache, page, fresh, op, value, ignored, place, history>>
    BY <1>3 DEF OpenRecordPage
  <2>2. \A i \in DOMAIN stack : stack[i].page < page
    BY <2>1 DEF IInv, StackInv
  <2> QED
    BY <2>1, <2>2, PushIInv
<1>4. CASE RewriteRecordPage
  <2>1. /\ pc = "place" /\ stack = <<>> /\ Push(page) /\ pc' = "load"
        /\ UNCHANGED <<at, stored, cache, page, fresh, op, value, ignored, place, history>>
    BY <1>4 DEF RewriteRecordPage
  <2> QED
    BY <2>1, PushIInv
<1> QED
  BY <1>1, <1>2, <1>3, <1>4, LoadIInv, EraseIInv, MoveEntryIInv, FrameDoneIInv,
     PlaceClientIInv, PlaceDataIInv, RecordMovedIInv, RecordWrittenIInv,
     RecordFlushedIInv, FlashFailsIInv, QuietIInv DEF Next

-------------------------------------------------------------------------------
(* What the invariant says of the data.                                    *)

LEMMA InvKeepsData ==
  ASSUME TypeOK, IInv
  PROVE  DataKept
<1> SUFFICES ASSUME NEW k \in Sound, stored[k] # last[k], k \notin ignored
             PROVE  /\ at[k] \in RecordPages /\ Resumed(at[k])
                    /\ cache[at[k]] # NotCached /\ cache[at[k]][k] = last[k]
  BY DEF IInv, StoredInv, DataKept, Sound
<1>1. /\ at[k] \in RecordPages /\ cache[at[k]] # NotCached
      /\ ToBeMoved(k) \/ (fresh /\ at[k] = page)
  BY DEF IInv, PendingInv
<1>2. cache[at[k]][k] = last[k]
  BY <1>1 DEF IInv, CacheInv, On, Sound
<1>3. ASSUME ToBeMoved(k) PROVE \E i \in DOMAIN stack : stack[i].page = at[k]
  BY <1>3 DEF ToBeMoved, IInv, StackInv, On
<1> QED
  BY <1>1, <1>2, <1>3 DEF Resumed

(* The steps of the specification keep both invariants.                    *)
THEOREM Inductive == Spec => [](TypeOK /\ IInv)
<1>1. Init => TypeOK /\ IInv
  BY InitTypeOK, InitIInv
<1>2. TypeOK /\ IInv /\ [Next]_vars => (TypeOK /\ IInv)'
  BY NextTypeOK, NextIInv
<1> QED
  BY <1>1, <1>2, PTL DEF Spec

(* Every variable of DataPages has its type: the frames of move_data_page  *)
(* are of record pages, an entry is taken from a page that is in the cache *)
(* (get_tv_data), and data is placed on a page.                            *)
THEOREM TypeCorrect == Spec => []TypeOK
BY Inductive, PTL

(* The last value of every key that no failed call has damaged is on the   *)
(* flash, or in the page cache while the move of its page can be taken up  *)
(* (move_data_page, data_paging.rs:177-262), for any keys and values and   *)
(* any number of record pages, hence of nested moves.                      *)
THEOREM Kept == Spec => []DataKept
BY Inductive, InvKeepsData, PTL

(* A write or flush that succeeds leaves the last value of each such key   *)
(* on the flash, but of those it was told to ignore.                       *)
THEOREM Repairs == Spec => SuccessRepairs
<1>1. TypeOK /\ IInv /\ [Next]_vars =>
        [RecordWritten \/ RecordFlushed =>
           \A k \in Keys \ (Spared' \cup ignored) : stored'[k] = last'[k]]_vars
  BY RecordWrittenIInv, RecordFlushedIInv
<1> QED
  BY Inductive, <1>1, PTL DEF Spec, SuccessRepairs

-------------------------------------------------------------------------------
(* Refinement of KeyStore: what can be recovered is the last value written.*)

Promised == [k \in Keys |-> IF k \in Safe THEN last[k] ELSE Gone]

Shown == [k \in Keys |-> IF k \in Safe THEN Recoverable(k) ELSE Gone]

LEMMA PromisedIsRecoverable ==
  ASSUME TypeOK, IInv
  PROVE  Shown = Promised
<1> SUFFICES ASSUME NEW k \in Safe PROVE Recoverable(k) = last[k]
  BY DEF Promised, Shown
<1>1. k \in Sound /\ (k \in ignored => stored[k] # Gone)
  BY DEF Safe, Sound
<1>2. CASE stored[k] # Gone
  BY <1>1, <1>2 DEF IInv, StoredInv, Recoverable
<1>3. CASE stored[k] = Gone /\ at[k] \in RecordPages /\ cache[at[k]] # NotCached
  <2>1. k \in Sound \cap On(at[k])
    BY <1>1 DEF On, Sound
  <2> QED
    BY <1>1, <1>3, <2>1 DEF IInv, CacheInv, Recoverable
<1>4. CASE stored[k] = Gone /\ ~(at[k] \in RecordPages /\ cache[at[k]] # NotCached)
  BY <1>1, <1>4 DEF IInv, PendingInv, Recoverable
<1> QED
  BY <1>2, <1>3, <1>4

(* Damage, as it shows in the last values.                                 *)
DamageOf(S) ==
  /\ Safe' \subseteq Safe /\ Safe \ S \subseteq Safe'
  /\ Promised' = [k \in Keys |-> IF k \in Safe' THEN Promised[k] ELSE Gone]

LEMMA DamageLosesOnly ==
  ASSUME Safe' \subseteq Safe, last' = last
  PROVE  \A S \in SUBSET Keys : Safe \ S \subseteq Safe' => DamageOf(S)
<1>1. \A k \in Keys : k \in Safe' => Promised'[k] = Promised[k]
  BY DEF Promised
<1>2. Promised' = [k \in Keys |-> IF k \in Safe' THEN Promised[k] ELSE Gone]
  BY <1>1 DEF Promised
<1> QED
  BY <1>2 DEF DamageOf

(* Begin: an entry that only the cache has is not moved if it is ignored.  *)
LEMMA BeginDamages ==
  ASSUME TypeOK, IInv, NEW k, NEW v, NEW i \in SUBSET Keys, Begin(k, v, i)
  PROVE  DamageOf(i)
<1>1. /\ UNCHANGED <<stored, last, torn, lost>> /\ ignored = {} /\ ignored' = i
  BY DEF Begin, place, history, IInv, PcInv
<1>2. Safe' \subseteq Safe /\ Safe \ i \subseteq Safe'
  BY <1>1 DEF Safe, Spared
<1> QED
  BY <1>1, <1>2, DamageLosesOnly

LEMMA EraseDamages ==
  ASSUME TypeOK, IInv, ErasePage
  PROVE  DamageOf(ignored)
<1>1. UNCHANGED <<at, last, torn, lost, ignored>> /\ stored' = ErasedOn(Top.page)
  BY DEF ErasePage, call, history
<1>2. \A k \in Keys : stored[k] = Gone => stored'[k] = Gone
  BY <1>1 DEF ErasedOn
<1>3. Safe' \subseteq Safe /\ Safe \ ignored \subseteq Safe' /\ ignored \in SUBSET Keys
  BY <1>1, <1>2 DEF Safe, Spared, TypeOK
<1> QED
  BY <1>1, <1>3, DamageLosesOnly

LEMMA FailureDamages ==
  ASSUME TypeOK, IInv, FlashFails
  PROVE  DamageOf(Keys)
<1>1. /\ torn' = GivenUp /\ lost' = lost \cup Abandoned /\ ignored' = {}
      /\ UNCHANGED <<stored, last>>
  BY DEF FlashFails, NoCall
<1>2. Safe' \subseteq Safe /\ Safe \subseteq Keys
  BY <1>1 DEF Safe, Spared, GivenUp
<1> QED
  BY <1>1, <1>2, DamageLosesOnly

(* The record of a moved entry: its key is not ignored.                    *)
LEMMA MovedUnseen ==
  ASSUME TypeOK, IInv, RecordMoved
  PROVE  Safe' = Safe /\ Promised' = Promised
<1>1. /\ pc = "record" /\ stack # <<>> /\ Entry
      /\ UNCHANGED <<ignored, last, torn, lost>>
  BY DEF RecordMoved, history
<1>2. who \notin ignored
  BY <1>1, NonEmptyStack DEF IInv, PcInv, StackInv, Top
<1>3. \A k \in ignored : stored'[k] = stored[k]
  BY <1>1, <1>2 DEF Entry, TypeOK
<1>4. Safe' = Safe
  BY <1>1, <1>3 DEF Safe, Spared, TypeOK
<1> QED
  BY <1>1, <1>4 DEF Promised

LEMMA WrittenTakesEffect ==
  ASSUME TypeOK, IInv, RecordWritten
  PROVE  /\ Safe' = Safe \cup {op}
         /\ Promised' = [Promised EXCEPT ![op] = value]
<1>1. /\ op \in Keys
      /\ last' = [last EXCEPT ![op] = value]
      /\ torn' = GivenUp \ {op} /\ lost' = lost \ {op} /\ ignored' = {}
  BY DEF RecordWritten, NoCall, TypeOK
<1>2. Safe' = Safe \cup {op}
  BY <1>1 DEF Safe, Spared, GivenUp
<1> QED
  BY <1>1, <1>2 DEF Promised, TypeOK

LEMMA FlushedKeeps ==
  ASSUME TypeOK, IInv, RecordFlushed
  PROVE  Safe' = Safe /\ Promised' = Promised
<1>1. op = NoKey /\ ignored' = {} /\ UNCHANGED <<stored, last, torn, lost>>
  BY DEF RecordFlushed, NoCall, history
<1>2. ignored = {}
  BY <1>1 DEF IInv, PcInv
<1> QED
  BY <1>1, <1>2 DEF Safe, Spared, Promised

(* Steps that the values do not show.                                      *)
LEMMA OthersUnseen ==
  ASSUME TypeOK, IInv,
         \/ KeepRecordPage \/ OpenRecordPage \/ LoadPage
         \/ (\E k \in Keys : MoveEntry(k)) \/ FrameDone \/ PlaceClient
         \/ PlaceData \/ PlaceSpins \/ RewriteRecordPage \/ UNCHANGED vars
  PROVE  /\ Safe' = Safe /\ Promised' = Promised
         /\ (pc' # "idle") = (pc # "idle")
         /\ UNCHANGED <<op, value, ignored>>
<1>1. /\ UNCHANGED <<stored, last, torn, lost, op, value, ignored>>
      /\ (pc' # "idle") = (pc # "idle")
  BY DEF KeepRecordPage, OpenRecordPage, LoadPage, MoveEntry, InFrame, FrameDone,
         PlaceClient, PlaceData, PlaceSpins, RewriteRecordPage, vars, call, place, history
<1> QED
  BY <1>1 DEF Safe, Spared, Promised

LEMMA StoreInit == Init => Store!Init
<1> SUFFICES ASSUME Init PROVE Store!Init
  OBVIOUS
<1>1. Safe = Keys
  BY DEF Init, Safe, Spared
<1>2. \A k \in Keys : Recoverable(k) = Gone
  <2> TAKE k \in Keys
  <2>1. at[k] \notin RecordPages /\ stored[k] = Gone
    BY PageConstants DEF Init, RecordPages, NoPage
  <2> QED
    BY <2>1 DEF Recoverable
<1> QED
  BY <1>1, <1>2 DEF Init, Store!Init

LEMMA StoreStep ==
  ASSUME TypeOK, IInv, Shown = Promised, (Shown = Promised)', [Next]_vars
  PROVE  [Store!Next]_Store!vars
<1>1. Shown = Promised /\ Shown' = Promised'
  OBVIOUS
<1>2. \A S \in SUBSET Keys : DamageOf(S) => Store!Damage(S)
  BY <1>1 DEF Shown, DamageOf, Store!Damage
<1>3. ASSUME NEW k \in Keys, NEW v \in Values, Write(k, v) PROVE Store!Write
  <2>1. PICK i \in SUBSET Keys : Begin(k, v, i)
    BY <1>3 DEF Write
  <2>2. Store!Damage(i)
    BY <1>2, <2>1, BeginDamages
  <2>3. Store!Begin(k, v, i)
    BY <2>1, <2>2 DEF Begin, Store!Begin
  <2> QED
    BY <2>3 DEF Store!Write
<1>4. CASE Flush
  <2>1. Begin(NoKey, Gone, {})
    BY <1>4 DEF Flush
  <2>2. Store!Damage({})
    BY <1>2, <2>1, BeginDamages
  <2> QED
    BY <2>1, <2>2 DEF Begin, Store!Begin, Store!Flush, Store!Next
<1>5. CASE ErasePage
  <2>1. Store!Damage(ignored)
    BY <1>1, <1>5, EraseDamages DEF Shown, DamageOf, Store!Damage
  <2> QED
    BY <1>5, <2>1 DEF ErasePage, call, Store!EraseSpared, Store!request, Store!Next
<1>6. CASE FlashFails
  <2>1. Store!Damage(Keys)
    BY <1>2, <1>6, FailureDamages
  <2> QED
    BY <1>6, <2>1 DEF FlashFails, NoCall, Store!Fails, Store!Return, Store!Next
<1>7. CASE RecordMoved
  <2>1. /\ UNCHANGED <<op, value, ignored>> /\ pc # "idle" /\ pc' # "idle"
        /\ Safe' = Safe /\ Promised' = Promised
    BY <1>7, MovedUnseen DEF RecordMoved
  <2> QED
    BY <1>1, <2>1 DEF Shown, Store!vars
<1>8. CASE RecordWritten
  <2>1. /\ Safe' = Safe \cup {op} /\ Promised' = [Promised EXCEPT ![op] = value]
        /\ pc = "record" /\ op # NoKey /\ NoCall
    BY <1>8, WrittenTakesEffect DEF RecordWritten
  <2> QED
    BY <1>1, <2>1 DEF Shown, NoCall, Store!Written, Store!Return, Store!Next
<1>9. CASE RecordFlushed
  <2>1. /\ Safe' = Safe /\ Promised' = Promised
        /\ pc = "record" /\ op = NoKey /\ NoCall
    BY <1>9, FlushedKeeps DEF RecordFlushed
  <2> QED
    BY <1>1, <2>1 DEF Shown, NoCall, Store!Flushed, Store!Return, Store!Next
<1>10. CASE \/ KeepRecordPage \/ OpenRecordPage \/ LoadPage
            \/ (\E k \in Keys : MoveEntry(k)) \/ FrameDone \/ PlaceClient
            \/ PlaceData \/ PlaceSpins \/ RewriteRecordPage \/ UNCHANGED vars
  <2>1. /\ Safe' = Safe /\ Promised' = Promised
        /\ (pc' # "idle") = (pc # "idle")
        /\ UNCHANGED <<op, value, ignored>>
    BY <1>10, OthersUnseen
  <2> QED
    BY <1>1, <2>1 DEF Shown, Store!vars
<1> QED
  BY <1>3, <1>4, <1>5, <1>6, <1>7, <1>8, <1>9, <1>10 DEF Next, Store!Next

(* DataPages implements KeyStore: whatever pages a call opens, and however *)
(* far it gets, the values that can be recovered change only where the     *)
(* record of a write is made, and are damaged only where KeyStore says.    *)
THEOREM Implementation == Spec => ImplementsKeyStore
<1>1. TypeOK /\ IInv => Shown = Promised
  BY PromisedIsRecoverable
<1>2. /\ TypeOK /\ IInv /\ [Next]_vars
      /\ Shown = Promised /\ (Shown = Promised)'
      => [Store!Next]_Store!vars
  BY StoreStep
<1> QED
  BY Inductive, StoreInit, <1>1, <1>2, PTL DEF Spec, ImplementsKeyStore, Store!Spec
===============================================================================
