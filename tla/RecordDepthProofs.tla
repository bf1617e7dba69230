--------------------------- MODULE RecordDepthProofs ---------------------------
(***************************************************************************)
(* How deep prepare_map and move_map_page of RecordLog can call each       *)
(* other, for any number of keys and any geometry of the map.              *)
(*                                                                         *)
(* The frame at the bottom of the stack has opened the first page of the   *)
(* call, or rewrites it behind the slots it held already.  Every other     *)
(* slot from there to the cursor holds a record the call has moved: with   *)
(* its entry, of which "moved" counts the most there can be, or alone, and *)
(* then by at least the length of the map.  Each move alone lifts its key  *)
(* a level, a level being as many pages as the map may span.               *)
(***************************************************************************)
EXTENDS RecordLogProofs

(* The page opened first by the calls in progress.                         *)
First(st) == st[1].page

(* What has been given to the frames: entries, and slots of the first page.*)
Given == moved + stack[1].slot

(* Entries some frame has still to move.                                   *)
Waiting(st) == {k \in Keys : \E i \in DOMAIN st : k \in st[i].todo}

(* The levels above f that the record of each key has reached.             *)
Levels(ix, f) ==
  {x \in Keys \X Nat : f + x[2] * MAPPING_MAX_RANGE <= ix[x[1]].page}

(* Slots from the start of page f to a.                                    *)
Count(f, a) == (a.page - f) * SLOTS + a.slot

FrameInv ==
  /\ pc = "idle" => stack = <<>>
  /\ \A i, j \in DOMAIN stack : i # j => stack[i].todo \cap stack[j].todo = {}
  /\ \A i \in DOMAIN stack :
       /\ stack[i].records => stack[i].back > 0
       /\ stack[i].back > 0 => stack[i].back + MAPPING_MAX_RANGE <= rec.page
  /\ stack # <<>> /\ pc \in {"place", "record", "zero"} => who \in Keys

(* A frame for each page opened, and fewer when a page is about to be.     *)
DepthInv ==
  stack # <<>> =>
    /\ First(stack) + Len(stack) <= rec.page + 1
    /\ pc = "prepare" /\ rec.slot = 0 => First(stack) + Len(stack) <= rec.page

(* The records written, the entries waiting, and one more record if extra. *)
Counted(extra) ==
  Count(First(stack), rec) + Cardinality(Waiting(stack)) + extra
    <= Given + Cardinality(Levels(index, First(stack)))

CountInv ==
  stack # <<>> =>
    /\ Counted(0)
    /\ pc = "place" => Counted(1)
    /\ pc \in {"record", "zero"} =>
         Counted(1) \/ index[who].page + MAPPING_MAX_RANGE <= rec.page

(* As many entries for every level as there are free slots.                *)
LevelInv ==
  stack # <<>> =>
    \A a \in Nat : First(stack) + a * MAPPING_MAX_RANGE <= rec.page => a * FreeSlots <= Given

RecursionInv == FrameInv /\ DepthInv /\ CountInv /\ LevelInv

-------------------------------------------------------------------------------
(* Counting.                                                               *)

LEMMA GeometryTypes ==
  /\ MAPPING_MAX_RANGE \in Nat /\ MAPPING_MAX_RANGE > 0
  /\ SLOTS \in Nat /\ SLOTS > 0
  /\ LAST_PAGE \in Nat /\ IsFiniteSet(Keys) /\ Cardinality(Keys) \in Nat
  /\ FreeSlots \in Int
<1>1. Cardinality(Keys) \in Nat
  BY FS_CardinalityType, LogConstants
<1>2. MAPPING_MAX_RANGE * SLOTS \in Nat
  BY LogConstants
<1> QED BY <1>1, <1>2, LogConstants DEF FreeSlots

Indexes == [Keys -> Addresses \cup {NoRecord}]

LEMMA IndexPages ==
  ASSUME NEW ix \in Indexes, NEW k \in Keys
  PROVE  ix[k].page \in 0 .. LAST_PAGE
<1>1. ix[k] \in Addresses \cup {NoRecord}
  BY DEF Indexes
<1>2. CASE ix[k] \in Addresses
  <2>1. ix[k].page \in MapPages
    BY <1>2 DEF Addresses
  <2>2. ix[k].page \in Nat /\ ix[k].page <= LAST_PAGE
    BY <2>1, PagesAreNumbers
  <2> QED BY <2>2, GeometryTypes
<1>3. CASE ix[k] = NoRecord
  BY <1>3, GeometryTypes DEF NoRecord
<1> QED BY <1>1, <1>2, <1>3

LEMMA PairsFinite ==
  ASSUME NEW n \in Nat
  PROVE  /\ IsFiniteSet(Keys \X (0 .. n))
         /\ Cardinality(Keys \X (0 .. n)) = Cardinality(Keys) * (n + 1)
<1>1. IsFiniteSet(0 .. n) /\ Cardinality(0 .. n) = n + 1
  BY FS_Interval
<1> QED BY <1>1, FS_Product, GeometryTypes

LEMMA LevelsFinite ==
  ASSUME NEW ix \in Indexes, NEW f \in Nat
  PROVE  /\ IsFiniteSet(Levels(ix, f))
         /\ Cardinality(Levels(ix, f)) \in Nat
<1>1. ASSUME NEW x \in Levels(ix, f) PROVE x \in Keys \X (0 .. LAST_PAGE)
  <2>1. x \in Keys \X Nat /\ f + x[2] * MAPPING_MAX_RANGE <= ix[x[1]].page
    BY DEF Levels
  <2>2. x[1] \in Keys /\ x[2] \in Nat /\ x = <<x[1], x[2]>>
    BY <2>1
  <2>3. ix[x[1]].page \in Nat /\ ix[x[1]].page <= LAST_PAGE
    BY <2>2, IndexPages, GeometryTypes
  <2>4. x[2] <= x[2] * MAPPING_MAX_RANGE /\ x[2] * MAPPING_MAX_RANGE \in Nat
    BY <2>2, GeometryTypes
  <2>5. x[2] <= LAST_PAGE
    BY <2>1, <2>2, <2>3, <2>4, GeometryTypes
  <2> QED BY <2>2, <2>5, GeometryTypes
<1>2. Levels(ix, f) \in SUBSET (Keys \X (0 .. LAST_PAGE))
  BY <1>1
<1>3. IsFiniteSet(Levels(ix, f))
  BY <1>2, PairsFinite, FS_Subset, GeometryTypes
<1> QED BY <1>3, FS_CardinalityType

(* Keys whose records lie before page f + a * MAPPING_MAX_RANGE have       *)
(* reached a levels each at the most.                                      *)
LEMMA LevelsBounded ==
  ASSUME NEW ix \in Indexes, NEW f \in Nat, NEW a \in Nat,
         \A k \in Keys : ix[k].page < f + a * MAPPING_MAX_RANGE
  PROVE  Cardinality(Levels(ix, f)) <= Cardinality(Keys) * a
<1>1. ASSUME NEW x \in Levels(ix, f) PROVE x[1] \in Keys /\ x[2] \in Nat /\ x[2] < a /\ x = <<x[1], x[2]>>
  <2>1. x \in Keys \X Nat /\ f + x[2] * MAPPING_MAX_RANGE <= ix[x[1]].page
    BY DEF Levels
  <2>2. x[1] \in Keys /\ x[2] \in Nat /\ x = <<x[1], x[2]>>
    BY <2>1
  <2>3. ix[x[1]].page \in Nat /\ ix[x[1]].page < f + a * MAPPING_MAX_RANGE
    BY <2>2, IndexPages, GeometryTypes
  <2> DEFINE j == x[2]  p == ix[x[1]].page  M == MAPPING_MAX_RANGE
  <2>4. j \in Nat /\ p \in Nat /\ M \in Nat /\ M > 0 /\ f + j * M <= p /\ p < f + a * M
    BY <2>1, <2>2, <2>3, GeometryTypes
  <2> HIDE DEF j, p, M
  <2>5. j * M < a * M
    BY <2>4
  <2>6. j < a
    <3> SUFFICES ASSUME j >= a PROVE FALSE
      BY <2>4
    <3>1. PICK d \in Nat : j = a + d
      <4>1. j - a \in Nat /\ j = a + (j - a)
        BY <2>4
      <4> QED BY <4>1
    <3>2. j * M = a * M + d * M /\ d * M >= 0
      BY <2>4, <3>1
    <3> QED BY <2>4, <2>5, <3>2
  <2> QED BY <2>2, <2>6 DEF j
<1>2. CASE a = 0
  <2>1. Levels(ix, f) = {}
    BY <1>1, <1>2
  <2> QED BY <1>2, <2>1, FS_EmptySet, GeometryTypes
<1>3. CASE a > 0
  <2>1. a - 1 \in Nat /\ (a - 1) + 1 = a
    BY <1>3
  <2>2. Levels(ix, f) \in SUBSET (Keys \X (0 .. a - 1))
    <3> SUFFICES ASSUME NEW x \in Levels(ix, f) PROVE x \in Keys \X (0 .. a - 1)
      OBVIOUS
    <3>1. x[1] \in Keys /\ x[2] \in 0 .. a - 1 /\ x = <<x[1], x[2]>>
      BY <1>1
    <3> QED BY <3>1
  <2>3. /\ IsFiniteSet(Keys \X (0 .. a - 1))
        /\ Cardinality(Keys \X (0 .. a - 1)) = Cardinality(Keys) * ((a - 1) + 1)
    BY <2>1, PairsFinite
  <2> QED BY <2>1, <2>2, <2>3, FS_Subset
<1> QED BY <1>2, <1>3

(* A record that moves on leaves no level, and reaches a new one if it     *)
(* moves as far as the map is long.                                        *)
LEMMA LevelsGrow ==
  ASSUME NEW ix \in Indexes, NEW iy \in Indexes, NEW f \in Nat, NEW w \in Keys,
         \A k \in Keys \ {w} : iy[k] = ix[k],
         ix[w].page <= iy[w].page
  PROVE  /\ Cardinality(Levels(ix, f)) <= Cardinality(Levels(iy, f))
         /\ f <= iy[w].page /\ ix[w].page + MAPPING_MAX_RANGE <= iy[w].page =>
              Cardinality(Levels(ix, f)) + 1 <= Cardinality(Levels(iy, f))
<1> DEFINE X == Levels(ix, f)  Y == Levels(iy, f)
<1>1. X \in SUBSET Y
  <2> SUFFICES ASSUME NEW x \in X PROVE x \in Y
    OBVIOUS
  <2>1. x \in Keys \X Nat /\ f + x[2] * MAPPING_MAX_RANGE <= ix[x[1]].page
    BY DEF Levels
  <2>2. x[1] \in Keys /\ x[2] \in Nat
    BY <2>1
  <2>3. ix[x[1]].page \in Nat /\ iy[x[1]].page \in Nat /\ ix[x[1]].page <= iy[x[1]].page
    BY <2>2, IndexPages, GeometryTypes
  <2>4. f + x[2] * MAPPING_MAX_RANGE \in Nat
    BY <2>2, GeometryTypes
  <2>5. f + x[2] * MAPPING_MAX_RANGE <= iy[x[1]].page
    BY <2>1, <2>3, <2>4
  <2> QED BY <2>1, <2>5 DEF Levels
<1>2. IsFiniteSet(X) /\ IsFiniteSet(Y) /\ Cardinality(X) \in Nat /\ Cardinality(Y) \in Nat
  BY LevelsFinite
<1>3. Cardinality(X) <= Cardinality(Y)
  BY <1>1, <1>2, FS_Subset
<1>4. ASSUME f <= iy[w].page, ix[w].page + MAPPING_MAX_RANGE <= iy[w].page
      PROVE  Cardinality(X) + 1 <= Cardinality(Y)
  <2> DEFINE p == ix[w].page  q == iy[w].page  M == MAPPING_MAX_RANGE
  <2>1. p \in Nat /\ q \in Nat /\ M \in Nat /\ M > 0 /\ f <= q /\ p + M <= q
    BY <1>4, IndexPages, GeometryTypes
  <2> DEFINE j == (q - f) \div M
  <2>2. j \in Nat /\ f + j * M <= q /\ q < f + j * M + M
    <3> HIDE DEF p, q, M
    <3>1. q - f \in Nat
      BY <2>1
    <3> DEFINE n == q - f
    <3>2. n \in Nat /\ n \div M \in Nat /\ (n \div M) * M <= n /\ n < (n \div M) * M + M
      <4> HIDE DEF n
      <4> QED BY <2>1, <3>1 DEF n
    <3> QED BY <2>1, <3>1, <3>2
  <2> HIDE DEF j
  <2>3. <<w, j>> \in Y
    BY <2>2 DEF Levels
  <2>4. <<w, j>> \notin X
    <3>1. ~(f + j * M <= p)
      <4> HIDE DEF p, q, M
      <4>1. j * M \in Nat
        BY <2>1, <2>2
      <4> QED BY <2>1, <2>2, <4>1
    <3> QED BY <3>1 DEF Levels
  <2>5. X \in SUBSET (Y \ {<<w, j>>})
    BY <1>1, <2>4
  <2>6. IsFiniteSet(Y \ {<<w, j>>}) /\ Cardinality(Y \ {<<w, j>>}) = Cardinality(Y) - 1
    BY <1>2, <2>3, FS_RemoveElement
  <2>7. Cardinality(X) <= Cardinality(Y \ {<<w, j>>})
    BY <2>5, <2>6, FS_Subset
  <2> QED BY <1>2, <2>6, <2>7
<1> QED BY <1>3, <1>4


LEMMA WaitingFinite ==
  ASSUME NEW st
  PROVE  IsFiniteSet(Waiting(st)) /\ Cardinality(Waiting(st)) \in Nat
<1>1. Waiting(st) \in SUBSET Keys
  BY DEF Waiting
<1> QED BY <1>1, FS_Subset, FS_CardinalityType, GeometryTypes

(* The next slot is one further on.                                        *)
LEMMA CountNext ==
  ASSUME NEW a \in Addresses, NEW f \in Nat, f <= a.page
  PROVE  /\ Count(f, a) \in Nat
         /\ Count(f, NextSlot(a)) = Count(f, a) + 1
         /\ NextSlot(a).page = a.page \/ (NextSlot(a).page = a.page + 1 /\ NextSlot(a).slot = 0)
<1> DEFINE p == a.page  s == a.slot  S == SLOTS
<1>1. p \in Nat /\ s \in Nat /\ S \in Nat /\ S > 0 /\ f <= p
  BY PagesAreNumbers, GeometryTypes DEF Addresses
<1>2. p - f \in Nat /\ (p - f) * S \in Nat
  BY <1>1
<1>3. Count(f, a) \in Nat
  BY <1>1, <1>2 DEF Count
<1>4. CASE s + 1 = S
  <2>1. NextSlot(a).page = p + 1 /\ NextSlot(a).slot = 0
    BY <1>4 DEF NextSlot
  <2>2. (p + 1 - f) * S = (p - f) * S + S
    <3> HIDE DEF p, S
    <3>1. p + 1 - f = (p - f) + 1
      BY <1>1
    <3> DEFINE d == p - f
    <3>2. d \in Nat /\ (d + 1) * S = d * S + S
      <4>1. d \in Nat
        BY <1>2
      <4> HIDE DEF d
      <4> QED BY <1>1, <4>1
    <3> QED BY <3>1, <3>2
  <2>3. Count(f, NextSlot(a)) = (p - f) * S + S + 0
    BY <2>1, <2>2, <1>1, <1>2 DEF Count
  <2> QED BY <1>1, <1>2, <1>3, <1>4, <2>1, <2>3 DEF Count
<1>5. CASE s + 1 # S
  <2>1. NextSlot(a) = [a EXCEPT !.slot = a.slot + 1]
    BY <1>5 DEF NextSlot
  <2>2. NextSlot(a).page = p /\ NextSlot(a).slot = s + 1
    BY <2>1 DEF Addresses
  <2> QED BY <1>1, <1>2, <1>3, <2>2 DEF Count
<1> QED BY <1>4, <1>5

-------------------------------------------------------------------------------
(* What the invariant speaks of.                                           *)

LEMMA RecursionTypes ==
  ASSUME TypeOK, PageInv, DepthInv, stack # <<>>
  PROVE  /\ First(stack) \in Nat /\ First(stack) <= rec.page /\ rec.page \in Nat
         /\ rec.slot \in Nat
         /\ Len(stack) \in Nat /\ Len(stack) >= 1 /\ DOMAIN stack = 1 .. Len(stack)
         /\ Count(First(stack), rec) \in Nat
         /\ Cardinality(Waiting(stack)) \in Nat
         /\ moved \in Nat /\ Given \in Nat
         /\ index \in Indexes
         /\ Cardinality(Levels(index, First(stack))) \in Nat
<1>1. Len(stack) \in Nat /\ Len(stack) >= 1 /\ DOMAIN stack = 1 .. Len(stack)
  BY TopType
<1>2. stack[1] \in Frames
  BY <1>1, ElementOfSeq DEF TypeOK
<1>3. First(stack) \in Nat /\ stack[1].slot \in Nat
  BY <1>2, PagesAreNumbers DEF First, Frames
<1>4. rec \in [page : Nat, slot : Nat]
  BY AddressesOrdered
<1>5. First(stack) <= rec.page
  <2>1. First(stack) + Len(stack) <= rec.page + 1
    BY DEF DepthInv
  <2> QED BY <1>1, <1>3, <1>4, <2>1
<1>6. Count(First(stack), rec) \in Nat
  <2>1. rec.page - First(stack) \in Nat
    BY <1>3, <1>4, <1>5
  <2>2. (rec.page - First(stack)) * SLOTS \in Nat
    BY <2>1, GeometryTypes
  <2> QED BY <1>4, <2>2 DEF Count
<1>7. index \in Indexes /\ moved \in Nat
  BY LogConstants DEF TypeOK, Indexes
<1>8. Given \in Nat
  BY <1>3, <1>7 DEF Given
<1> QED BY <1>1, <1>3, <1>4, <1>5, <1>6, <1>7, <1>8, WaitingFinite, LevelsFinite

LEMMA InitRecursion == Init => RecursionInv
<1> SUFFICES ASSUME Init PROVE RecursionInv
  OBVIOUS
<1>1. stack = <<>> /\ DOMAIN stack = {}
  BY DEF Init
<1>2. FrameInv
  BY <1>1 DEF FrameInv
<1> QED BY <1>1, <1>2 DEF RecursionInv, DepthInv, CountInv, LevelInv

(* Steps that end the call, or start one.                                  *)
LEMMA EmptyKeeps ==
  ASSUME stack' = <<>>
  PROVE  RecursionInv'
<1>1. DOMAIN stack' = {}
  OBVIOUS
<1>2. FrameInv'
  BY <1>1 DEF FrameInv
<1> QED BY <1>2 DEF RecursionInv, DepthInv, CountInv, LevelInv

(* Steps that keep the frames, the index and the cursor.                   *)
LEMMA StayKeeps ==
  ASSUME RecursionInv, UNCHANGED <<stack, index, rec, moved, who>>,
         pc # "idle", pc' # "idle",
         \/ pc' \in {"erase", "loop"}
         \/ pc' = "record" /\ pc = "place"
         \/ pc' = "zero" /\ pc = "record"
  PROVE  RecursionInv'
<1>1. FrameInv'
  BY DEF RecursionInv, FrameInv
<1>2. DepthInv'
  BY DEF RecursionInv, DepthInv
<1>3. LevelInv'
  BY DEF RecursionInv, LevelInv, Given
<1>4. (Counted(0) => Counted(0)') /\ (Counted(1) => Counted(1)')
  BY DEF Counted, Given
<1>5. CountInv'
  <2> SUFFICES ASSUME stack # <<>> PROVE CountInv'
    BY DEF CountInv
  <2>1. Counted(0)'
    BY <1>4 DEF RecursionInv, CountInv
  <2>2. CASE pc' \in {"erase", "loop"}
    BY <2>1, <2>2 DEF CountInv
  <2>3. CASE pc' = "record" /\ pc = "place"
    BY <1>4, <2>1, <2>3 DEF RecursionInv, CountInv
  <2>4. CASE pc' = "zero" /\ pc = "record"
    BY <1>4, <2>1, <2>4 DEF RecursionInv, CountInv
  <2> QED BY <2>2, <2>3, <2>4
<1> QED BY <1>1, <1>2, <1>3, <1>5 DEF RecursionInv

-------------------------------------------------------------------------------
(* Opening a page.                                                         *)

(* A frame for the page of the cursor, with its entries: of a page that is *)
(* opened, or of the first one, that may hold records already.             *)
Opens(f) ==
  /\ stack' = Append(stack, f)
  /\ f.page = rec.page /\ f.slot = rec.slot /\ ~f.records
  /\ f.back > 0 => f.back + MAPPING_MAX_RANGE <= rec.page
  /\ f.todo \subseteq Movable
  /\ moved' = moved + Cardinality(f.todo) /\ Cardinality(f.todo) \in Nat
  /\ stack # <<>> => pc = "prepare" /\ rec.slot = 0
  /\ pc' \in {"erase", "loop"} /\ rec.page \in MapPages
  /\ UNCHANGED <<index, rec>>

LEMMA Opening ==
  ASSUME TypeOK, PageInv, OpenRecordPage \/ RewriteRecordPage
  PROVE  \E f \in Frames : Opens(f)
<1>0. rec.page \in MapPages /\ rec.slot \in Slots /\ 0 \in 0 .. LAST_PAGE
  BY GeometryTypes DEF OpenRecordPage, RewriteRecordPage, PlaceOnNewPage, TypeOK
<1>1. ASSUME NEW todo \in SUBSET Movable
      PROVE  todo \subseteq Keys /\ Cardinality(todo) \in Nat
  <2>1. todo \in SUBSET Keys
    BY DEF Movable
  <2> QED BY <2>1, FS_Subset, FS_CardinalityType, GeometryTypes
<1>2. CASE OpenRecordPage
  <2>1. PICK todo \in SUBSET Movable :
          /\ moved' = moved + Cardinality(todo) /\ moved' <= MAX_MOVED
          /\ stack' = Append(stack, [page |-> rec.page, todo |-> todo, records |-> FALSE,
                                     back |-> IF MoveRecords THEN new ELSE 0, slot |-> 0])
    BY <1>2 DEF OpenRecordPage
  <2> DEFINE f == [page |-> rec.page, todo |-> todo, records |-> FALSE,
                   back |-> IF MoveRecords THEN new ELSE 0, slot |-> 0]
  <2>2. rec.slot = 0 /\ pc = "prepare" /\ pc' = "erase" /\ UNCHANGED <<index, rec>>
    BY <1>2 DEF OpenRecordPage
  <2>3. f \in Frames
    BY <1>0, <1>1, <2>2 DEF Frames, TypeOK
  <2>4. f.back > 0 => f.back + MAPPING_MAX_RANGE <= rec.page
    <3>1. new \in Nat /\ rec.page \in Nat /\ new <= rec.page
      BY AddressesOrdered DEF PageInv
    <3>2. MoveRecords => new + MAPPING_MAX_RANGE <= rec.page
      BY <3>1, GeometryTypes DEF MoveRecords
    <3> QED BY <3>1, <3>2
  <2>5. f.page = rec.page /\ f.slot = 0 /\ ~f.records /\ f.todo = todo
    OBVIOUS
  <2>6. stack' = Append(stack, f)
    BY <2>1
  <2> HIDE DEF f
  <2> QED BY <1>0, <1>1, <2>1, <2>2, <2>3, <2>4, <2>5, <2>6 DEF Opens
<1>3. CASE RewriteRecordPage
  <2>1. PICK todo \in SUBSET Movable :
          /\ moved' = moved + Cardinality(todo) /\ moved' <= MAX_MOVED
          /\ stack' = <<[page |-> rec.page, todo |-> todo, records |-> FALSE,
                         back |-> 0, slot |-> rec.slot]>>
    BY <1>3 DEF RewriteRecordPage
  <2> DEFINE f == [page |-> rec.page, todo |-> todo, records |-> FALSE,
                   back |-> 0, slot |-> rec.slot]
  <2>2. stack = <<>> /\ pc' = "loop" /\ UNCHANGED <<index, rec>>
    BY <1>3 DEF RewriteRecordPage
  <2>3. f \in Frames
    BY <1>0, <1>1 DEF Frames
  <2>4. f.page = rec.page /\ f.slot = rec.slot /\ ~f.records /\ f.todo = todo /\ f.back = 0
    OBVIOUS
  <2>5. stack' = <<f>>
    BY <2>1
  <2> HIDE DEF f
  <2>6. stack' = Append(stack, f)
    BY <2>2, <2>5
  <2> QED BY <1>0, <1>1, <2>1, <2>2, <2>3, <2>4, <2>6 DEF Opens
<1> QED BY <1>2, <1>3

LEMMA Pushed ==
  ASSUME TypeOK, NEW f \in Frames, NEW st, st = Append(stack, f)
  PROVE  /\ Len(stack) \in Nat /\ DOMAIN stack = 1 .. Len(stack)
         /\ Len(st) = Len(stack) + 1 /\ DOMAIN st = 1 .. Len(stack) + 1
         /\ \A i \in DOMAIN stack : st[i] = stack[i]
         /\ st[Len(stack) + 1] = f
         /\ Waiting(st) = Waiting(stack) \cup (f.todo \cap Keys)
<1>1. stack \in Seq(Frames)
  BY DEF TypeOK
<1>2. /\ st \in Seq(Frames) /\ Len(st) = Len(stack) + 1
      /\ \A i \in 1 .. Len(stack) : st[i] = stack[i]
      /\ st[Len(stack) + 1] = f
  BY <1>1, AppendProperties
<1>3. /\ Len(stack) \in Nat /\ DOMAIN stack = 1 .. Len(stack)
      /\ DOMAIN st = 1 .. Len(stack) + 1
  BY <1>1, <1>2, LenProperties
<1>4. ASSUME NEW k \in Keys
      PROVE  k \in Waiting(st) <=> k \in Waiting(stack) \/ k \in f.todo
  <2>1. (\E i \in DOMAIN st : k \in st[i].todo) <=>
          (\E i \in DOMAIN stack : k \in stack[i].todo) \/ k \in f.todo
    <3>1. \A i \in DOMAIN st : i \in DOMAIN stack \/ i = Len(stack) + 1
      BY <1>3
    <3>2. DOMAIN stack \subseteq DOMAIN st /\ Len(stack) + 1 \in DOMAIN st
      BY <1>3
    <3> QED BY <1>2, <1>3, <3>1, <3>2
  <2> QED BY <2>1 DEF Waiting
<1>5. Waiting(st) = Waiting(stack) \cup (f.todo \cap Keys)
  BY <1>4 DEF Waiting
<1> QED BY <1>2, <1>3, <1>5

LEMMA OpenKeeps ==
  ASSUME TypeOK, PageInv, RecursionInv, OpenRecordPage \/ RewriteRecordPage
  PROVE  RecursionInv'
<1>1. PICK f \in Frames : Opens(f)
  BY Opening
<1>2. /\ stack' = Append(stack, f) /\ f.page = rec.page /\ ~f.records
      /\ f.back > 0 => f.back + MAPPING_MAX_RANGE <= rec.page
      /\ f.todo \subseteq Movable
      /\ moved' = moved + Cardinality(f.todo) /\ Cardinality(f.todo) \in Nat
      /\ pc' \in {"erase", "loop"} /\ rec.page \in MapPages
      /\ rec' = rec /\ index' = index
  BY <1>1 DEF Opens
<1>3. /\ Len(stack) \in Nat /\ DOMAIN stack = 1 .. Len(stack)
      /\ Len(stack') = Len(stack) + 1 /\ DOMAIN stack' = 1 .. Len(stack) + 1
      /\ \A i \in DOMAIN stack : stack'[i] = stack[i]
      /\ stack'[Len(stack) + 1] = f
      /\ Waiting(stack') = Waiting(stack) \cup (f.todo \cap Keys)
  BY <1>2, Pushed
<1>4. \A i \in DOMAIN stack' : i \in DOMAIN stack \/ i = Len(stack) + 1
  BY <1>3
<1>5. f.todo \subseteq Keys /\ \A i \in DOMAIN stack : f.todo \cap stack[i].todo = {}
  BY <1>2 DEF Movable
<1>6. FrameInv'
  <2>1. ASSUME NEW i \in DOMAIN stack', NEW j \in DOMAIN stack', i # j
        PROVE  stack'[i].todo \cap stack'[j].todo = {}
    BY <1>3, <1>4, <1>5, <2>1 DEF RecursionInv, FrameInv
  <2>2. ASSUME NEW i \in DOMAIN stack'
        PROVE  /\ stack'[i].records => stack'[i].back > 0
               /\ stack'[i].back > 0 => stack'[i].back + MAPPING_MAX_RANGE <= rec.page
    BY <1>2, <1>3, <1>4 DEF RecursionInv, FrameInv
  <2> QED BY <1>2, <2>1, <2>2 DEF FrameInv
<1>7. CASE stack = <<>>
  <2>1. Len(stack) = 0 /\ Waiting(stack) = {}
    <3>1. Len(stack) = 0
      BY <1>7
    <3>2. DOMAIN stack = {}
      BY <1>7
    <3> QED BY <3>1, <3>2 DEF Waiting
  <2>2. /\ First(stack') = rec.page /\ rec.page \in Nat
        /\ stack'[1].slot = rec.slot /\ rec.slot \in Nat
    <3>1. Len(stack) + 1 = 1
      BY <2>1
    <3>2. stack'[1] = f
      BY <1>3, <3>1
    <3>3. rec.page \in Nat /\ rec.slot \in Nat
      BY AddressesOrdered
    <3> QED BY <1>1, <3>2, <3>3 DEF First, Opens
  <2>3. DepthInv'
    <3>1. First(stack') + Len(stack') <= rec.page + 1
      BY <1>3, <2>1, <2>2
    <3> QED BY <1>2, <3>1 DEF DepthInv
  <2>4. moved \in Nat /\ moved' \in Nat /\ Given' = moved' + rec.slot /\ Given' \in Nat
    BY <1>2, <2>2, GeometryTypes, LogConstants DEF TypeOK, Given
  <2>5. LevelInv'
    <3> SUFFICES ASSUME NEW a \in Nat, rec.page + a * MAPPING_MAX_RANGE <= rec.page
                 PROVE  a * FreeSlots <= Given'
      BY <1>2, <2>2 DEF LevelInv
    <3>1. a = 0
      <4>1. a <= a * MAPPING_MAX_RANGE /\ a * MAPPING_MAX_RANGE \in Nat
        BY GeometryTypes
      <4> QED BY <2>2, <4>1
    <3> QED BY <2>4, <3>1, GeometryTypes
  <2>6. Counted(0)'
    <3>1. Count(First(stack'), rec) = rec.slot
      BY <1>2, <2>2, GeometryTypes DEF Count
    <3>2. Waiting(stack') = f.todo
      BY <1>3, <1>5, <2>1
    <3>3. Cardinality(Levels(index, First(stack'))) \in Nat
      <4>1. index \in Indexes
        BY DEF TypeOK, Indexes
      <4> QED BY <2>2, <4>1, LevelsFinite
    <3>4. rec.slot + Cardinality(f.todo) + 0
            <= Given' + Cardinality(Levels(index, First(stack')))
      BY <1>2, <2>2, <2>4, <3>3
    <3> QED BY <1>2, <3>1, <3>2, <3>4 DEF Counted
  <2>7. CountInv'
    BY <1>2, <2>6 DEF CountInv
  <2> QED BY <1>6, <2>3, <2>5, <2>7 DEF RecursionInv
<1>8. CASE stack # <<>>
  <2>1. /\ First(stack) \in Nat /\ First(stack) <= rec.page /\ rec.page \in Nat
        /\ Len(stack) \in Nat /\ Len(stack) >= 1
        /\ Count(First(stack), rec) \in Nat
        /\ Cardinality(Waiting(stack)) \in Nat
        /\ moved \in Nat /\ Given \in Nat
        /\ Cardinality(Levels(index, First(stack))) \in Nat
    BY <1>8, RecursionTypes DEF RecursionInv
  <2>2. First(stack') = First(stack) /\ Given' = Given + Cardinality(f.todo)
    <3>1. stack'[1] = stack[1] /\ stack[1] \in Frames
      BY <1>3, <2>1, ElementOfSeq DEF TypeOK
    <3>2. stack[1].slot \in Nat
      BY <3>1, PagesAreNumbers DEF Frames
    <3> DEFINE t == Cardinality(f.todo)  b == stack[1].slot
    <3>3. t \in Nat /\ b \in Nat /\ moved \in Nat /\ moved' = moved + t
      BY <1>2, <2>1, <3>2
    <3>4. Given = moved + b /\ Given' = moved' + b
      BY <3>1 DEF Given
    <3>5. Given' = Given + t
      <4> HIDE DEF t, b
      <4> QED BY <3>3, <3>4
    <3> QED BY <3>1, <3>5 DEF First
  <2>3. DepthInv'
    <3>1. First(stack) + Len(stack) <= rec.page
      BY <1>1, <1>8 DEF RecursionInv, DepthInv, Opens
    <3>2. First(stack) + (Len(stack) + 1) <= rec.page + 1
      BY <2>1, <3>1
    <3> QED BY <1>2, <1>3, <2>2, <3>2 DEF DepthInv
  <2>4. LevelInv'
    <3> SUFFICES ASSUME NEW a \in Nat, First(stack) + a * MAPPING_MAX_RANGE <= rec.page
                 PROVE  a * FreeSlots <= Given'
      BY <1>2, <2>2 DEF LevelInv
    <3>1. a * FreeSlots <= Given
      BY <1>8 DEF RecursionInv, LevelInv
    <3>2. a * FreeSlots \in Int
      BY GeometryTypes
    <3> QED BY <1>2, <2>1, <2>2, <3>1, <3>2
  <2>5. Counted(0)'
    <3> DEFINE c == Count(First(stack), rec)  w == Cardinality(Waiting(stack))
               wn == Cardinality(Waiting(stack'))  t == Cardinality(f.todo)
               l == Cardinality(Levels(index, First(stack)))
    <3>1. wn \in Nat /\ wn <= w + t
      <4>1. IsFiniteSet(f.todo) /\ IsFiniteSet(Waiting(stack)) /\ IsFiniteSet(Waiting(stack'))
        BY <1>5, GeometryTypes, FS_Subset, WaitingFinite
      <4>2. Waiting(stack') = Waiting(stack) \cup f.todo
        BY <1>3, <1>5
      <4>3. Cardinality(Waiting(stack) \cap f.todo) \in Nat
        BY <4>1, FS_Intersection, FS_CardinalityType
      <4>4. wn = w + t - Cardinality(Waiting(stack) \cap f.todo) /\ wn \in Nat
        BY <4>1, <4>2, FS_Union, WaitingFinite
      <4> QED BY <1>2, <2>1, <4>3, <4>4
    <3>2. c + w + 0 <= Given + l
      BY <1>8 DEF RecursionInv, CountInv, Counted
    <3>3. c \in Nat /\ w \in Nat /\ t \in Nat /\ l \in Nat
      BY <1>2, <2>1
    <3>4. c + wn + 0 <= Given + t + l
      <4> HIDE DEF c, w, wn, t, l
      <4> QED BY <2>1, <3>1, <3>2, <3>3
    <3> QED BY <1>2, <2>2, <3>4 DEF Counted
  <2>6. CountInv'
    BY <1>2, <2>5 DEF CountInv
  <2> QED BY <1>6, <2>3, <2>4, <2>6 DEF RecursionInv
<1> QED BY <1>7, <1>8

-------------------------------------------------------------------------------
(* The frame on top.                                                       *)

(* MoveEntry takes one entry from the top frame.                           *)
LEMMA EntryKeeps ==
  ASSUME TypeOK, PageInv, RecursionInv, NEW k \in Keys, MoveEntry(k)
  PROVE  RecursionInv'
<1> DEFINE n == Len(stack)  f == [Top EXCEPT !.todo = @ \ {k}]
<1>1. /\ stack # <<>> /\ pc = "loop" /\ pc' = "place" /\ who' = k /\ k \in stack[n].todo
      /\ stack' = [stack EXCEPT ![n] = f]
      /\ UNCHANGED <<index, rec, moved>>
  BY DEF MoveEntry, InFrame, Top
<1>2. n \in DOMAIN stack /\ Top \in Frames /\ Top = stack[n]
  BY <1>1, TopType DEF Top
<1>3. /\ f \in Frames /\ f.todo = stack[n].todo \ {k} /\ f.back = stack[n].back
      /\ f.page = stack[n].page /\ f.records = stack[n].records /\ f.slot = stack[n].slot
  BY <1>2 DEF Frames
<1> HIDE DEF f
<1>4. /\ stack' \in Seq(Frames) /\ DOMAIN stack' = DOMAIN stack
      /\ \A i \in DOMAIN stack : stack'[i] = IF i = n THEN f ELSE stack[i]
  BY <1>1, <1>2, <1>3, FrameSet
<1>5. /\ First(stack) \in Nat /\ Len(stack) \in Nat /\ Len(stack) >= 1
      /\ DOMAIN stack = 1 .. Len(stack)
      /\ Count(First(stack), rec) \in Nat
      /\ Cardinality(Waiting(stack)) \in Nat
      /\ moved \in Nat /\ Given \in Nat
      /\ Cardinality(Levels(index, First(stack))) \in Nat
  BY <1>1, RecursionTypes DEF RecursionInv
<1>6. /\ First(stack') = First(stack) /\ stack' # <<>> /\ Len(stack') = Len(stack)
      /\ Given' = Given
  <2>1. 1 \in DOMAIN stack
    BY <1>5
  <2>2. Len(stack') = Len(stack)
    <3>1. stack \in Seq(Frames)
      BY DEF TypeOK
    <3> QED BY <1>1, <1>2, <1>3, <1>5, <3>1, ExceptSeq
  <2> QED BY <1>1, <1>3, <1>4, <2>1, <2>2 DEF First, Given
<1>7. \A i \in DOMAIN stack : i # n => k \notin stack[i].todo
  BY <1>1, <1>2 DEF RecursionInv, FrameInv
<1>8. FrameInv'
  <2>1. ASSUME NEW i \in DOMAIN stack', NEW j \in DOMAIN stack', i # j
        PROVE  stack'[i].todo \cap stack'[j].todo = {}
    <3>1. stack[i].todo \cap stack[j].todo = {}
      BY <1>4, <2>1 DEF RecursionInv, FrameInv
    <3>2. stack'[i].todo \subseteq stack[i].todo /\ stack'[j].todo \subseteq stack[j].todo
      BY <1>3, <1>4
    <3> QED BY <3>1, <3>2
  <2>2. ASSUME NEW i \in DOMAIN stack'
        PROVE  /\ stack'[i].records => stack'[i].back > 0
               /\ stack'[i].back > 0 => stack'[i].back + MAPPING_MAX_RANGE <= rec.page
    BY <1>3, <1>4 DEF RecursionInv, FrameInv
  <2> QED BY <1>1, <2>1, <2>2 DEF FrameInv
<1>9. DepthInv'
  BY <1>1, <1>6 DEF RecursionInv, DepthInv
<1>10. LevelInv'
  BY <1>1, <1>6 DEF RecursionInv, LevelInv
<1>11. Cardinality(Waiting(stack')) = Cardinality(Waiting(stack)) - 1
  <2>1. k \in Waiting(stack)
    BY <1>1, <1>2 DEF Waiting
  <2>2. Waiting(stack') = Waiting(stack) \ {k}
    <3> SUFFICES ASSUME NEW x \in Keys
                 PROVE  x \in Waiting(stack') <=> x \in Waiting(stack) /\ x # k
      BY DEF Waiting
    <3>1. \A i \in DOMAIN stack : x \in stack'[i].todo <=> x \in stack[i].todo /\ x # k
      BY <1>3, <1>4, <1>7
    <3> QED BY <1>4, <3>1 DEF Waiting
  <2> QED BY <2>1, <2>2, WaitingFinite, FS_RemoveElement
<1>12. Counted(0)' /\ Counted(1)'
  <2> DEFINE c == Count(First(stack), rec)  w == Cardinality(Waiting(stack))
             wn == Cardinality(Waiting(stack'))
             l == Cardinality(Levels(index, First(stack)))
  <2>1. c + w + 0 <= Given + l
    BY <1>1 DEF RecursionInv, CountInv, Counted
  <2>2. c \in Nat /\ w \in Nat /\ l \in Nat /\ wn = w - 1
    BY <1>5, <1>11
  <2>3. c + wn + 0 <= Given + l /\ c + wn + 1 <= Given + l
    <3> HIDE DEF c, w, wn, l
    <3> QED BY <1>5, <2>1, <2>2
  <2> QED BY <1>1, <1>6, <2>3 DEF Counted
<1>13. CountInv'
  BY <1>1, <1>12 DEF CountInv
<1> QED BY <1>8, <1>9, <1>10, <1>13 DEF RecursionInv

LEMMA MapPageKeeps ==
  ASSUME TypeOK, PageInv, RecursionInv, MoveMapPage
  PROVE  RecursionInv'
<1> DEFINE n == Len(stack)  f == [Top EXCEPT !.records = TRUE]
<1>1. /\ stack # <<>> /\ pc = "loop" /\ pc' = "loop" /\ stack[n].back > 0
      /\ stack' = [stack EXCEPT ![n] = f]
      /\ UNCHANGED <<index, rec, moved>>
  BY DEF MoveMapPage, InFrame, Top
<1>2. n \in DOMAIN stack /\ Top \in Frames /\ Top = stack[n]
  BY <1>1, TopType DEF Top
<1>3. /\ f \in Frames /\ f.todo = stack[n].todo /\ f.back = stack[n].back
      /\ f.page = stack[n].page /\ f.slot = stack[n].slot
  BY <1>2 DEF Frames
<1> HIDE DEF f
<1>4. /\ stack' \in Seq(Frames) /\ DOMAIN stack' = DOMAIN stack
      /\ \A i \in DOMAIN stack : stack'[i] = IF i = n THEN f ELSE stack[i]
  BY <1>1, <1>2, <1>3, FrameSet
<1>5. Len(stack) \in Nat /\ Len(stack) >= 1 /\ DOMAIN stack = 1 .. Len(stack)
  BY <1>1, TopType
<1>6. /\ First(stack') = First(stack) /\ stack' # <<>> /\ Len(stack') = Len(stack)
      /\ Given' = Given
  <2>1. 1 \in DOMAIN stack
    BY <1>5
  <2>2. Len(stack') = Len(stack)
    <3>1. stack \in Seq(Frames)
      BY DEF TypeOK
    <3> QED BY <1>1, <1>2, <1>3, <1>5, <3>1, ExceptSeq
  <2> QED BY <1>1, <1>3, <1>4, <2>1, <2>2 DEF First, Given
<1>7. \A i \in DOMAIN stack : stack'[i].todo = stack[i].todo /\ stack'[i].back = stack[i].back
  BY <1>3, <1>4
<1>8. FrameInv'
  <2>1. \A i \in DOMAIN stack' : stack'[i].records => stack'[i].back > 0
    BY <1>1, <1>3, <1>4 DEF RecursionInv, FrameInv
  <2> QED BY <1>1, <1>4, <1>7, <2>1 DEF RecursionInv, FrameInv
<1>9. DepthInv' /\ LevelInv'
  BY <1>1, <1>6 DEF RecursionInv, DepthInv, LevelInv
<1>10. Waiting(stack') = Waiting(stack)
  BY <1>4, <1>7 DEF Waiting
<1>11. CountInv'
  BY <1>1, <1>6, <1>10 DEF RecursionInv, CountInv, Counted
<1> QED BY <1>8, <1>9, <1>11 DEF RecursionInv

(* MoveRecord: the record moves at least as far as the map is long.        *)
LEMMA LeftRecordKeeps ==
  ASSUME TypeOK, PageInv, RecursionInv, NEW k \in Keys, MoveRecord(k)
  PROVE  RecursionInv'
<1>1. /\ stack # <<>> /\ pc = "loop" /\ pc' = "record" /\ who' = k
      /\ stack[Len(stack)].records /\ index[k].page = stack[Len(stack)].back
      /\ UNCHANGED <<stack, index, rec, moved>>
  BY DEF MoveRecord, InFrame, Top, LeftOn
<1>2. Len(stack) \in DOMAIN stack
  BY <1>1, TopType
<1>3. index[k].page + MAPPING_MAX_RANGE <= rec.page
  BY <1>1, <1>2 DEF RecursionInv, FrameInv
<1>4. FrameInv'
  BY <1>1 DEF RecursionInv, FrameInv
<1>5. DepthInv' /\ LevelInv'
  BY <1>1 DEF RecursionInv, DepthInv, LevelInv, Given
<1>6. CountInv'
  BY <1>1, <1>3 DEF RecursionInv, CountInv, Counted, Given
<1> QED BY <1>4, <1>5, <1>6 DEF RecursionInv

(* A frame that returns has nothing left to move.                          *)
LEMMA ReturnKeeps ==
  ASSUME TypeOK, PageInv, RecursionInv, PrepareReturns
  PROVE  RecursionInv'
<1>1. /\ stack # <<>> /\ pc = "loop" /\ pc' = "loop" /\ stack' = Rest
      /\ stack[Len(stack)].todo = {}
      /\ UNCHANGED <<index, rec, moved, who>>
  BY DEF PrepareReturns, InFrame, Top
<1>2. /\ DOMAIN stack' = 1 .. Len(stack) - 1 /\ stack' \in Seq(Frames)
      /\ \A i \in 1 .. Len(stack) - 1 : stack'[i] = stack[i]
  BY <1>1, RestType
<1>3. /\ Len(stack) \in Nat /\ Len(stack) >= 1 /\ DOMAIN stack = 1 .. Len(stack)
      /\ First(stack) \in Nat /\ rec.page \in Nat
  BY <1>1, RecursionTypes DEF RecursionInv
<1>4. CASE stack' = <<>>
  BY <1>4, EmptyKeeps
<1>5. CASE stack' # <<>>
  <2>1. Len(stack') \in Nat /\ Len(stack') >= 1 /\ DOMAIN stack' = 1 .. Len(stack')
    <3>1. Len(stack') \in Nat \ {0}
      BY <1>2, <1>5, EmptySeq
    <3> QED BY <1>2, <3>1, LenProperties
  <2>2. Len(stack') <= Len(stack) /\ 1 \in 1 .. Len(stack) - 1
    <3>1. 1 \in 1 .. Len(stack) - 1 /\ Len(stack') \in 1 .. Len(stack) - 1
      BY <1>2, <2>1
    <3> QED BY <1>3, <3>1
  <2>3. First(stack') = First(stack) /\ Given' = Given
    BY <1>1, <1>2, <2>2 DEF First, Given
  <2>4. \A i \in DOMAIN stack' : i \in DOMAIN stack /\ stack'[i] = stack[i]
    BY <1>2, <1>3
  <2>5. FrameInv'
    BY <1>1, <2>4 DEF RecursionInv, FrameInv
  <2>6. DepthInv'
    <3>1. First(stack) + Len(stack) <= rec.page + 1
      BY <1>1 DEF RecursionInv, DepthInv
    <3>2. First(stack) + Len(stack') <= rec.page + 1
      BY <1>3, <2>1, <2>2, <3>1
    <3> QED BY <1>1, <2>3, <3>2 DEF DepthInv
  <2>7. LevelInv'
    BY <1>1, <2>3 DEF RecursionInv, LevelInv
  <2>8. Waiting(stack') = Waiting(stack)
    <3>1. \A i \in DOMAIN stack : i \in DOMAIN stack' \/ i = Len(stack)
      BY <1>2, <1>3
    <3> QED BY <1>1, <2>4, <3>1 DEF Waiting
  <2>9. CountInv'
    BY <1>1, <2>3, <2>8 DEF RecursionInv, CountInv, Counted
  <2> QED BY <2>5, <2>6, <2>7, <2>9 DEF RecursionInv
<1> QED BY <1>4, <1>5

-------------------------------------------------------------------------------
(* The record of a frame is written, and the cursor goes on.               *)

LEMMA SlotZeroIsNext ==
  ASSUME NEW a \in Addresses, NextSlot(a).slot = 0
  PROVE  NextSlot(a).page = a.page + 1
<1>1. CASE a.slot + 1 = SLOTS
  BY <1>1 DEF NextSlot
<1>2. CASE a.slot + 1 # SLOTS
  <2>1. NextSlot(a).slot = a.slot + 1 /\ a.slot \in Nat
    BY <1>2, PagesAreNumbers DEF NextSlot, Addresses
  <2> QED BY <2>1
<1> QED BY <1>1, <1>2

(* A page that completes a level holds as many entries as it has free      *)
(* slots, beyond those of the levels before.                               *)
LEMMA LevelCosts ==
  ASSUME NEW c \in Nat, NEW w \in Nat, NEW l \in Nat, NEW m \in Nat, NEW a \in Nat,
         c = a * MAPPING_MAX_RANGE * SLOTS,
         c + w <= m + l, l <= Cardinality(Keys) * a
  PROVE  a * FreeSlots <= m
<1> DEFINE M == MAPPING_MAX_RANGE  S == SLOTS  K == Cardinality(Keys)
<1>1. M \in Nat /\ S \in Nat /\ K \in Nat
  BY GeometryTypes
<1>2. FreeSlots = M * S - K
  BY DEF FreeSlots
<1>3. c = a * M * S /\ l <= K * a
  OBVIOUS
<1> HIDE DEF M, S, K
<1>4. a * (M * S - K) = a * M * S - K * a
  BY <1>1
<1>5. K * a \in Nat /\ a * M * S \in Nat
  BY <1>1
<1> QED BY <1>2, <1>3, <1>4, <1>5

LEMMA MovedKeeps ==
  ASSUME TypeOK, PageInv, LogInv, RecursionInv, RecordMoved
  PROVE  RecursionInv'
<1>1. /\ stack # <<>> /\ pc = "zero" /\ pc' = "prepare"
      /\ rec' = NextSlot(rec) /\ index' = Indexed
      /\ UNCHANGED <<stack, moved, who>>
  BY DEF RecordMoved, RecordDone, call
<1>2. rec.page \in MapPages /\ rec \in Addresses
  BY <1>1, AddressesOrdered DEF PageInv
<1>3. who \in Keys /\ index' = [index EXCEPT ![who] = rec]
  <2>1. who \in Keys
    BY <1>1 DEF RecursionInv, FrameInv
  <2> QED BY <1>1, <2>1, ContentsApart DEF Indexed
<1> DEFINE f == First(stack)  p == rec.page
<1>4. /\ f \in Nat /\ f <= p /\ p \in Nat
      /\ Len(stack) \in Nat /\ Len(stack) >= 1
      /\ Count(f, rec) \in Nat
      /\ Cardinality(Waiting(stack)) \in Nat
      /\ Given \in Nat /\ Given' = Given
      /\ index \in Indexes
      /\ Cardinality(Levels(index, f)) \in Nat
  BY <1>1, RecursionTypes DEF RecursionInv, Given
<1>5. /\ Count(f, rec') = Count(f, rec) + 1
      /\ rec'.page = p \/ (rec'.page = p + 1 /\ rec'.slot = 0)
  BY <1>1, <1>2, <1>4, CountNext
<1>6. /\ index' \in Indexes /\ index'[who] = rec
      /\ \A k \in Keys \ {who} : index'[k] = index[k]
  BY <1>2, <1>3, <1>4 DEF Indexes
<1>7. \A k \in Keys : index[k].page \in Nat /\ index[k].page <= p
  <2> SUFFICES ASSUME NEW k \in Keys PROVE index[k].page \in Nat /\ index[k].page <= p
    OBVIOUS
  <2>1. index[k].page \in Nat
    BY <1>4, IndexPages, GeometryTypes
  <2>2. CASE Stored(k)
    <3>1. Precedes(index[k], rec)
      BY <2>2 DEF LogInv, IndexInv
    <3> QED BY <1>4, <2>1, <3>1 DEF Precedes
  <2>3. CASE ~Stored(k)
    BY <1>4, <2>1, <2>3 DEF Stored, NoRecord
  <2> QED BY <2>1, <2>2, <2>3
<1>8. /\ Cardinality(Levels(index', f)) \in Nat
      /\ Cardinality(Levels(index, f)) <= Cardinality(Levels(index', f))
      /\ index[who].page + MAPPING_MAX_RANGE <= p =>
           Cardinality(Levels(index, f)) + 1 <= Cardinality(Levels(index', f))
  <2>1. index[who].page <= index'[who].page /\ f <= index'[who].page
    BY <1>3, <1>4, <1>6, <1>7
  <2>2. Cardinality(Levels(index', f)) \in Nat
    BY <1>4, <1>6, LevelsFinite
  <2> QED BY <1>3, <1>4, <1>6, <2>1, <2>2, LevelsGrow
<1>9. Count(f, rec') + Cardinality(Waiting(stack)) <= Given + Cardinality(Levels(index', f))
  <2> DEFINE c == Count(f, rec)  w == Cardinality(Waiting(stack))
             l == Cardinality(Levels(index, f))  ln == Cardinality(Levels(index', f))
  <2>1. /\ c \in Nat /\ w \in Nat /\ l \in Nat /\ ln \in Nat /\ l <= ln
        /\ index[who].page + MAPPING_MAX_RANGE <= p => l + 1 <= ln
    BY <1>4, <1>8
  <2>2. c + w + 0 <= Given + l
    BY <1>1 DEF RecursionInv, CountInv, Counted
  <2>3. c + w + 1 <= Given + l \/ index[who].page + MAPPING_MAX_RANGE <= p
    BY <1>1 DEF RecursionInv, CountInv, Counted
  <2>4. c + w + 1 <= Given + ln
    <3> HIDE DEF c, w, l, ln
    <3> QED BY <1>4, <2>1, <2>2, <2>3
  <2>5. Count(f, rec') + w = c + w + 1
    <3> HIDE DEF w
    <3> QED BY <1>5, <2>1
  <2> QED BY <2>4, <2>5
<1>10. CountInv'
  <2>1. Counted(0)'
    <3> DEFINE cn == Count(f, rec')  w == Cardinality(Waiting(stack))
    <3>1. cn \in Nat /\ w \in Nat /\ cn + w + 0 = cn + w
      <4>1. cn \in Nat /\ w \in Nat
        BY <1>4, <1>5
      <4> HIDE DEF cn, w
      <4> QED BY <4>1
    <3> QED BY <1>1, <1>4, <1>9, <3>1 DEF Counted
  <2> QED BY <1>1, <2>1 DEF CountInv
<1>11. FrameInv'
  <2>1. rec'.page >= p /\ rec'.page \in Nat
    BY <1>4, <1>5
  <2>2. ASSUME NEW i \in DOMAIN stack, stack[i].back > 0
        PROVE  stack[i].back + MAPPING_MAX_RANGE <= rec'.page
    <3>1. stack[i].back + MAPPING_MAX_RANGE <= p
      BY <2>2 DEF RecursionInv, FrameInv
    <3>2. stack[i].back \in Nat
      <4>1. stack[i] \in Frames
        BY ElementOfSeq, LenProperties DEF TypeOK
      <4> QED BY <4>1, GeometryTypes DEF Frames
    <3> QED BY <1>4, <2>1, <3>1, <3>2, GeometryTypes
  <2> QED BY <1>1, <2>2 DEF RecursionInv, FrameInv
<1>12. DepthInv'
  <2>1. f + Len(stack) <= p + 1
    BY <1>1 DEF RecursionInv, DepthInv
  <2>2. f + Len(stack) <= rec'.page + 1
    BY <1>4, <1>5, <2>1
  <2>3. rec'.slot = 0 => f + Len(stack) <= rec'.page
    <3> SUFFICES ASSUME rec'.slot = 0 PROVE rec'.page = p + 1
      BY <1>4, <2>1
    <3> QED BY <1>1, <1>2, SlotZeroIsNext
  <2> QED BY <1>1, <2>2, <2>3 DEF DepthInv
<1>13. LevelInv'
  <2> SUFFICES ASSUME NEW a \in Nat, f + a * MAPPING_MAX_RANGE <= rec'.page
               PROVE  a * FreeSlots <= Given
    BY <1>1, <1>4 DEF LevelInv
  <2>1. a * MAPPING_MAX_RANGE \in Nat
    BY GeometryTypes
  <2>2. CASE f + a * MAPPING_MAX_RANGE <= p
    BY <1>1, <2>2 DEF RecursionInv, LevelInv
  <2>3. CASE ~(f + a * MAPPING_MAX_RANGE <= p)
    <3>1. rec'.page = p + 1 /\ rec'.slot = 0 /\ p + 1 = f + a * MAPPING_MAX_RANGE
      BY <1>4, <1>5, <2>1, <2>3
    <3>2. Count(f, rec') = a * MAPPING_MAX_RANGE * SLOTS
      <4>1. rec'.page - f = a * MAPPING_MAX_RANGE
        BY <1>4, <2>1, <3>1
      <4>2. a * MAPPING_MAX_RANGE * SLOTS \in Nat
        BY <2>1, GeometryTypes
      <4> QED BY <3>1, <4>1, <4>2 DEF Count
    <3>3. \A k \in Keys : index'[k].page < f + a * MAPPING_MAX_RANGE
      <4>1. \A k \in Keys : index'[k].page \in Nat /\ index'[k].page <= p
        BY <1>4, <1>6, <1>7
      <4> QED BY <1>4, <3>1, <4>1
    <3>4. Cardinality(Levels(index', f)) <= Cardinality(Keys) * a
      BY <1>4, <1>6, <3>3, LevelsBounded
    <3>5. Count(f, rec') \in Nat
      BY <1>4, <1>5
    <3> QED BY <1>4, <1>8, <1>9, <3>2, <3>4, <3>5, LevelCosts
  <2> QED BY <2>2, <2>3
<1> QED BY <1>10, <1>11, <1>12, <1>13 DEF RecursionInv

LEMMA RecursionStep ==
  ASSUME IInv, RecursionInv, [Next]_vars
  PROVE  RecursionInv'
<1> USE DEF IInv
<1>1. ASSUME NEW o, NEW i, Begin(o, i) PROVE RecursionInv'
  <2>1. stack' = <<>>
    BY <1>1 DEF Begin, RecursionInv, FrameInv
  <2> QED BY <2>1, EmptyKeeps
<1>2. CASE KeepRecordPage \/ ErasePage \/ PlaceData \/ PlaceDataOnNewPage \/ ProgramRecord
  <2>1. /\ UNCHANGED <<stack, index, rec, moved, who>> /\ pc # "idle" /\ pc' # "idle"
        /\ \/ pc' \in {"erase", "loop"}
           \/ pc' = "record" /\ pc = "place"
           \/ pc' = "zero" /\ pc = "record"
    BY <1>2 DEF KeepRecordPage, ErasePage, PlaceData, PlaceDataOnNewPage,
              PlaceOnNewPage, ProgramRecord, call
  <2> QED BY <2>1, StayKeeps
<1>3. CASE PlaceClient \/ RecordWritten \/ RecordFlushed \/ FlashFails \/ ZeroFails
  <2>1. stack' = <<>>
    BY <1>3 DEF PlaceClient, RecordWritten, RecordFlushed, FlashFails, ZeroFails, Abandon, NoCall
  <2> QED BY <2>1, EmptyKeeps
<1>4. CASE UNCHANGED vars
  <2>1. UNCHANGED <<stack, index, rec, moved, who, pc>>
    BY <1>4 DEF vars, call
  <2>2. (Counted(0) => Counted(0)') /\ (Counted(1) => Counted(1)')
    BY <2>1 DEF Counted, Given
  <2>3. FrameInv' /\ DepthInv' /\ LevelInv'
    BY <2>1 DEF RecursionInv, FrameInv, DepthInv, LevelInv, Given
  <2>4. CountInv'
    BY <2>1, <2>2 DEF RecursionInv, CountInv
  <2> QED BY <2>3, <2>4 DEF RecursionInv
<1>5. CASE OpenRecordPage \/ RewriteRecordPage
  BY <1>5, OpenKeeps
<1>6. CASE MoveMapPage \/ PrepareReturns \/ RecordMoved
  BY <1>6, MapPageKeeps, ReturnKeeps, MovedKeeps
<1>7. ASSUME NEW k \in Keys, MoveEntry(k) \/ MoveRecord(k) PROVE RecursionInv'
  BY <1>7, EntryKeeps, LeftRecordKeeps
<1>8. CASE PlaceSpins
  <2>1. UNCHANGED <<stack, index, rec, moved, who>> /\ pc' = "spins"
    BY <1>8 DEF PlaceSpins, call
  <2>2. Counted(0) => Counted(0)'
    BY <2>1 DEF Counted, Given
  <2>3. FrameInv' /\ DepthInv' /\ LevelInv'
    BY <2>1 DEF RecursionInv, FrameInv, DepthInv, LevelInv, Given
  <2>4. CountInv'
    BY <2>1, <2>2 DEF RecursionInv, CountInv
  <2> QED BY <2>3, <2>4 DEF RecursionInv
<1> QED BY <1>1, <1>2, <1>3, <1>4, <1>5, <1>6, <1>7, <1>8
        DEF Next, Step, Frame, Write, FlushRecord

(* The levels that the cursor has passed are paid for by moved entries.    *)
LEMMA PagesBound ==
  ASSUME IInv, RecursionInv, FreeSlots > 0, stack # <<>>
  PROVE  rec.page < First(stack) + MAPPING_MAX_RANGE * (1 + Given \div FreeSlots)
<1> DEFINE M == MAPPING_MAX_RANGE  F == FreeSlots  q == Given \div FreeSlots
           f == First(stack)  p == rec.page
<1>1. M \in Nat /\ M > 0 /\ F \in Nat /\ F > 0 /\ Given \in Nat
  BY GeometryTypes, RecursionTypes DEF IInv, RecursionInv
<1>2. q \in Nat /\ Given < (q + 1) * F
  <2> HIDE DEF F
  <2> DEFINE m == Given
  <2>1. m \in Nat
    BY <1>1
  <2> HIDE DEF m
  <2>2. m \div F \in Nat /\ m < (m \div F + 1) * F
    BY <1>1, <2>1
  <2> QED BY <2>2 DEF m, F
<1>3. f \in Nat /\ p \in Nat
  BY RecursionTypes DEF IInv, RecursionInv
<1>4. \A a \in Nat : f + a * M <= p => a * F <= Given
  BY DEF RecursionInv, LevelInv
<1> HIDE DEF q, f, p, M, F
<1>5. q + 1 \in Nat /\ (q + 1) * F \in Nat /\ (q + 1) * M \in Nat
  BY <1>1, <1>2
<1>6. ~(f + (q + 1) * M <= p)
  <2> SUFFICES ASSUME f + (q + 1) * M <= p PROVE FALSE
    OBVIOUS
  <2> DEFINE a == q + 1
  <2>1. a \in Nat /\ f + a * M <= p
    BY <1>5
  <2>2. a * F <= Given
    <3> HIDE DEF a
    <3> QED BY <1>4, <2>1
  <2> DEFINE x == (q + 1) * F
  <2>3. x \in Nat /\ x <= Given /\ Given < x
    BY <1>2, <1>5, <2>2
  <2> HIDE DEF x
  <2> QED BY <1>1, <2>3
<1>7. p < f + (q + 1) * M
  BY <1>3, <1>5, <1>6
<1>8. (q + 1) * M = M * (1 + q)
  BY <1>1, <1>2
<1>9. p < f + M * (1 + q)
  BY <1>7, <1>8
<1> QED BY <1>9 DEF q, f, p, M, F

(* Each frame has opened a page.                                           *)
LEMMA DepthBound ==
  ASSUME IInv, RecursionInv, FreeSlots > 0, stack # <<>>
  PROVE  Len(stack) <= MAPPING_MAX_RANGE * (1 + Given \div FreeSlots)
<1> DEFINE B == MAPPING_MAX_RANGE * (1 + Given \div FreeSlots)
<1>1. B \in Nat
  <2>1. Given \in Nat /\ FreeSlots \in Nat /\ FreeSlots > 0 /\ MAPPING_MAX_RANGE \in Nat
    BY GeometryTypes, RecursionTypes DEF IInv, RecursionInv
  <2> DEFINE m == Given  F == FreeSlots
  <2>2. m \in Nat /\ F \in Nat /\ F > 0
    BY <2>1
  <2> HIDE DEF m, F
  <2>3. m \div F \in Nat
    BY <2>2
  <2> QED BY <2>1, <2>3 DEF m, F
<1> HIDE DEF B
<1>2. Len(stack) <= B
  <2> DEFINE f == First(stack)  n == Len(stack)  p == rec.page
  <2>1. f \in Nat /\ p \in Nat /\ n \in Nat
    BY RecursionTypes DEF IInv, RecursionInv
  <2>2. f + n <= p + 1
    BY DEF RecursionInv, DepthInv
  <2>3. p < f + B
    BY PagesBound DEF B
  <2> HIDE DEF f, n, p
  <2>4. n <= B
    BY <1>1, <2>1, <2>2, <2>3
  <2> QED BY <2>4 DEF n
<1> QED BY <1>2 DEF B

LEMMA RecursionInvariant == Spec => [](IInv /\ RecursionInv)
<1>1. Init => RecursionInv
  BY InitRecursion
<1>2. IInv /\ RecursionInv /\ [Next]_vars => RecursionInv'
  BY RecursionStep
<1> QED BY <1>1, <1>2, Invariant, PTL DEF Spec

(* A call erases no more pages for records than the map is long, times one *)
(* more than the entries the call moves for every slot the map has free:   *)
(* what prepare_map and move_map_page write to make room is not more than  *)
(* the room they make.                                                     *)
THEOREM PagesEnd == Spec => []OpenedBounded
<1>1. IInv /\ RecursionInv => OpenedBounded
  BY PagesBound DEF OpenedBounded, Laps, Given, First
<1> QED BY <1>1, RecursionInvariant, PTL

(* prepare_map and move_map_page go no deeper into each other than that.   *)
THEOREM RecursionEnds == Spec => []RecursionBounded
<1>1. IInv /\ RecursionInv => RecursionBounded
  BY DepthBound DEF RecursionBounded, Laps, Given
<1> QED BY <1>1, RecursionInvariant, PTL
===============================================================================
