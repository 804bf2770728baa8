--------------------------- MODULE SpscRingProofs ---------------------------
(***************************************************************************)
(* What SpscRing does for every capacity and every width of its indices:    *)
(* while the producer is at most Cap entries ahead the turn of the consumer *)
(* is in the slot it reads and no slot is copied while it is stored; however *)
(* far the producer is ahead, no entry is popped after its turn.            *)
(*                                                                         *)
(* The inductive invariant Inv relates the indices, which wrap around, to   *)
(* the numbers of completed calls: they are as many slots apart as entries  *)
(* are outstanding, up to m whole rings, and m laps apart, up to z          *)
(* overflows (Distance); and it says of every slot which entry is in it     *)
(* (Contents), relative to the write index alone.  From it follows that     *)
(* the ring implements the safety part of LossyFifo.                       *)
(***************************************************************************)
EXTENDS SpscRing, Integers, TLAPS

Distance ==
    \E m, z \in Int :
        /\ pushed - popped = m * Cap + (write_.slot - read_.slot)
        /\ m = (write_.lap - read_.lap) + z * Laps

(* The entry stored last in slot s, by completed calls; below 1 if none.    *)
Latest(s) ==
    IF s < write_.slot THEN pushed - (write_.slot - 1 - s)
    ELSE pushed - (write_.slot - 1 - s) - Cap

Contents ==
    \A s \in Slot :
        buf_[s] = IF producer = "publish" /\ s = write_.slot THEN pushed + 1
                  ELSE IF Latest(s) >= 1 THEN Latest(s) ELSE 0

Progress ==
    /\ popped <= pushed
    /\ consumer # "idle" => popped < pushed

Inv ==
    /\ TypeOK
    /\ Distance
    /\ Contents
    /\ Progress
    /\ NeverStale
-----------------------------------------------------------------------------
(* Whole rings between two points that are less than a ring apart: none.    *)
LEMMA NoWholeRing ==
    ASSUME NEW m \in Int, NEW c \in Nat \ {0}, m * c < c, 0 - c < m * c
    PROVE  m = 0
<1>1. CASE m >= 1
  <2>1. m * c >= 1 * c
    BY <1>1
  <2> QED
    BY <2>1
<1>2. CASE m <= -1
  <2>1. m * c <= (-1) * c
    BY <1>2
  <2> QED
    BY <2>1
<1> QED
  BY <1>1, <1>2

LEMMA SomeWholeRing ==
    ASSUME NEW m \in Int, NEW c \in Nat \ {0}, 0 < m * c
    PROVE  m >= 1 /\ m * c >= c
<1>1. m >= 1
  <2>1. CASE m <= 0
    <3>1. m * c <= 0
      BY <2>1
    <3> QED
      BY <3>1
  <2> QED
    BY <2>1
<1>2. m * c >= 1 * c
  BY <1>1
<1> QED
  BY <1>1, <1>2

LEMMA OneRingMore ==
    ASSUME NEW m \in Int, NEW c \in Nat
    PROVE  (m + 1) * c = m * c + c /\ (m - 1) * c = m * c - c
  OBVIOUS

LEMMA NoDifference ==
    ASSUME NEW a \in Int, NEW b \in Int, NEW d \in Int, 0 = d + (a - b), d = 0
    PROVE  a = b
  OBVIOUS

(* The fields of an index. *)
LEMMA IndexFields ==
    ASSUME NEW i \in Index
    PROVE  /\ i.lap \in 0..(Laps - 1) /\ i.slot \in 0..(Cap - 1)
           /\ \A j \in Index : i = j <=> i.lap = j.lap /\ i.slot = j.slot
  BY DEF Index, Slot

LEMMA SuccFields ==
    ASSUME NEW i \in Index
    PROVE  /\ Succ(i) \in Index
           /\ i.slot < Cap - 1 => Succ(i).slot = i.slot + 1 /\ Succ(i).lap = i.lap
           /\ i.slot = Cap - 1 =>
                 /\ Succ(i).slot = 0
                 /\ Succ(i).lap = IF i.lap = Laps - 1 THEN 0 ELSE i.lap + 1
  BY CapIsPositive, LapsIsPlural DEF Succ, Index, Slot

LEMMA TypeStep == Inv /\ [Next]_vars => TypeOK'
<1> SUFFICES ASSUME Inv, [Next]_vars PROVE TypeOK'
  OBVIOUS
<1> USE CapIsPositive, LapsIsPlural DEF Inv, TypeOK
<1>1. Succ(write_) \in Index /\ Succ(read_) \in Index
  BY SuccFields
<1>2. write_.slot \in Slot /\ read_.slot \in Slot
  BY DEF Index
<1>3. CASE Push
  BY <1>1, <1>2, <1>3 DEF Push, PushTest, PushStore, PushPublish
<1>4. CASE Pop
  BY <1>1, <1>2, <1>4 DEF Pop, PopTest, PopLoad, PopRelease
<1>5. CASE UNCHANGED vars
  BY <1>5 DEF vars
<1> QED
  BY <1>3, <1>4, <1>5 DEF Next

(* An index that advances keeps the distances. *)
LEMMA DistanceStep == Inv /\ [Next]_vars => Distance'
<1> SUFFICES ASSUME Inv, [Next]_vars PROVE Distance'
  OBVIOUS
<1> USE CapIsPositive, LapsIsPlural
<1>0. /\ write_ \in Index /\ read_ \in Index
      /\ pushed \in Int /\ popped \in Int
  BY DEF Inv, TypeOK
<1>f. /\ write_.lap \in 0..(Laps - 1) /\ write_.slot \in 0..(Cap - 1)
      /\ read_.lap \in 0..(Laps - 1) /\ read_.slot \in 0..(Cap - 1)
  BY <1>0, IndexFields
<1>m. PICK m \in Int, z \in Int :
        /\ pushed - popped = m * Cap + (write_.slot - read_.slot)
        /\ m = (write_.lap - read_.lap) + z * Laps
  BY DEF Inv, Distance
<1>r. PICK rings \in Int : rings = m * Cap
  OBVIOUS
<1>w. PICK wraps \in Int : wraps = z * Laps
  OBVIOUS
<1>p. /\ rings = m * Cap /\ wraps = z * Laps
      /\ pushed - popped = rings + (write_.slot - read_.slot)
      /\ m = (write_.lap - read_.lap) + wraps
  BY <1>m, <1>r, <1>w
<1>1. /\ pushed - popped = rings + (write_.slot - read_.slot)
      /\ m = (write_.lap - read_.lap) + wraps
  BY <1>p
<1>2. /\ rings = m * Cap /\ rings + Cap = (m + 1) * Cap /\ rings - Cap = (m - 1) * Cap
      /\ wraps = z * Laps /\ wraps + Laps = (z + 1) * Laps /\ wraps - Laps = (z - 1) * Laps
  BY <1>p, OneRingMore
<1>d. ASSUME NEW k \in Int, NEW y \in Int, NEW r, NEW v, r = k * Cap, v = y * Laps,
             pushed' - popped' = r + (write_'.slot - read_'.slot),
             k = (write_'.lap - read_'.lap) + v
      PROVE  Distance'
  BY <1>d DEF Distance
<1>3. CASE PushPublish
  <2>1. write_' = Succ(write_) /\ pushed' = pushed + 1 /\ read_' = read_ /\ popped' = popped
    BY <1>3 DEF PushPublish
  <2>2. CASE write_.slot < Cap - 1
    <3>1. write_'.slot = write_.slot + 1 /\ write_'.lap = write_.lap
      BY <1>0, <2>1, <2>2, SuccFields
    <3>2. /\ pushed' - popped' = rings + (write_'.slot - read_'.slot)
          /\ m = (write_'.lap - read_'.lap) + wraps
      BY <1>0, <1>f, <1>1, <2>1, <3>1
    <3> QED
      BY <1>2, <1>d, <3>2
  <2>3. CASE write_.slot = Cap - 1
    <3>1. /\ write_'.slot = 0
          /\ write_'.lap = IF write_.lap = Laps - 1 THEN 0 ELSE write_.lap + 1
      BY <1>0, <2>1, <2>3, SuccFields
    <3>2. pushed' - popped' = (rings + Cap) + (write_'.slot - read_'.slot)
      BY <1>0, <1>f, <1>1, <2>1, <2>3, <3>1
    <3>i. m + 1 \in Int /\ z + 1 \in Int
      OBVIOUS
    <3>3. CASE write_.lap = Laps - 1
      <4>0. write_'.lap = 0 /\ read_'.lap = read_.lap
        BY <2>1, <3>1, <3>3
      <4>1. m + 1 = (write_'.lap - read_'.lap) + (wraps + Laps)
        BY <1>f, <1>1, <3>3, <4>0
      <4> QED
        BY <1>2, <1>d, <3>2, <3>i, <4>1
    <3>4. CASE write_.lap # Laps - 1
      <4>1. m + 1 = (write_'.lap - read_'.lap) + wraps
        BY <1>0, <1>f, <1>1, <2>1, <3>1, <3>4
      <4> QED
        BY <1>2, <1>d, <3>2, <3>i, <4>1
    <3> QED
      BY <3>3, <3>4
  <2> QED
    BY <1>f, <2>2, <2>3
<1>4. CASE PopRelease
  <2>1. read_' = Succ(read_) /\ popped' = popped + 1 /\ write_' = write_ /\ pushed' = pushed
    BY <1>4 DEF PopRelease
  <2>2. CASE read_.slot < Cap - 1
    <3>1. read_'.slot = read_.slot + 1 /\ read_'.lap = read_.lap
      BY <1>0, <2>1, <2>2, SuccFields
    <3>2. /\ pushed' - popped' = rings + (write_'.slot - read_'.slot)
          /\ m = (write_'.lap - read_'.lap) + wraps
      BY <1>0, <1>f, <1>1, <2>1, <3>1
    <3> QED
      BY <1>2, <1>d, <3>2
  <2>3. CASE read_.slot = Cap - 1
    <3>1. /\ read_'.slot = 0
          /\ read_'.lap = IF read_.lap = Laps - 1 THEN 0 ELSE read_.lap + 1
      BY <1>0, <2>1, <2>3, SuccFields
    <3>2. pushed' - popped' = (rings - Cap) + (write_'.slot - read_'.slot)
      BY <1>0, <1>f, <1>1, <2>1, <2>3, <3>1
    <3>i. m - 1 \in Int /\ z - 1 \in Int
      OBVIOUS
    <3>3. CASE read_.lap = Laps - 1
      <4>1. m - 1 = (write_'.lap - read_'.lap) + (wraps - Laps)
        BY <1>0, <1>f, <1>1, <2>1, <3>1, <3>3
      <4> QED
        BY <1>2, <1>d, <3>2, <3>i, <4>1
    <3>4. CASE read_.lap # Laps - 1
      <4>1. m - 1 = (write_'.lap - read_'.lap) + wraps
        BY <1>0, <1>f, <1>1, <2>1, <3>1, <3>4
      <4> QED
        BY <1>2, <1>d, <3>2, <3>i, <4>1
    <3> QED
      BY <3>3, <3>4
  <2> QED
    BY <1>f, <2>2, <2>3
<1>5. CASE UNCHANGED <<write_, read_, pushed, popped>>
  BY <1>1, <1>2, <1>5, <1>d
<1> QED
  BY <1>3, <1>4, <1>5 DEF Next, Push, Pop, PushTest, PushStore, PopTest, PopLoad, vars

(* Only the producer changes which entry was stored last in a slot. *)
LEMMA ContentsStep == Inv /\ [Next]_vars => Contents'
<1> SUFFICES ASSUME Inv, [Next]_vars, NEW s \in Slot
             PROVE  (buf_[s] = IF producer = "publish" /\ s = write_.slot THEN pushed + 1
                               ELSE IF Latest(s) >= 1 THEN Latest(s) ELSE 0)'
  BY DEF Contents
<1> USE CapIsPositive, LapsIsPlural
<1>0. /\ write_ \in Index /\ pushed \in Nat /\ buf_ \in [Slot -> Nat]
      /\ s \in 0..(Cap - 1) /\ write_.slot \in 0..(Cap - 1)
  BY IndexFields DEF Inv, TypeOK, Slot
<1>1. buf_[s] = IF producer = "publish" /\ s = write_.slot THEN pushed + 1
                ELSE IF Latest(s) >= 1 THEN Latest(s) ELSE 0
  BY DEF Inv, Contents
<1>2. CASE PushStore
  BY <1>0, <1>1, <1>2 DEF PushStore, Latest, Slot
<1>3. CASE PushPublish
  <2>1. /\ write_' = Succ(write_) /\ pushed' = pushed + 1 /\ buf_' = buf_
        /\ producer = "publish" /\ producer' = "idle"
    BY <1>3 DEF PushPublish
  <2>2. CASE write_.slot < Cap - 1
    <3>1. write_'.slot = write_.slot + 1
      BY <1>0, <2>1, <2>2, SuccFields
    <3> QED
      BY <1>0, <1>1, <2>1, <3>1 DEF Latest
  <2>3. CASE write_.slot = Cap - 1
    <3>1. write_'.slot = 0
      BY <1>0, <2>1, <2>3, SuccFields
    <3> QED
      BY <1>0, <1>1, <2>1, <2>3, <3>1 DEF Latest
  <2> QED
    BY <1>0, <2>2, <2>3
<1>4. CASE PushTest
  BY <1>1, <1>4 DEF PushTest, Latest
<1>5. CASE Pop
  BY <1>1, <1>5 DEF Pop, PopTest, PopLoad, PopRelease, Latest
<1>6. CASE UNCHANGED vars
  BY <1>1, <1>6 DEF vars, Latest
<1> QED
  BY <1>2, <1>3, <1>4, <1>5, <1>6 DEF Next, Push

(* Different indices: something is outstanding. *)
LEMMA EmptyIsEmpty == ASSUME Inv PROVE pushed = popped => read_ = write_
<1> USE CapIsPositive, LapsIsPlural
<1>0. /\ write_ \in Index /\ read_ \in Index /\ pushed \in Nat /\ popped \in Nat
      /\ write_.lap \in 0..(Laps - 1) /\ write_.slot \in 0..(Cap - 1)
      /\ read_.lap \in 0..(Laps - 1) /\ read_.slot \in 0..(Cap - 1)
  BY IndexFields DEF Inv, TypeOK
<1>m. PICK m \in Int, z \in Int :
        /\ pushed - popped = m * Cap + (write_.slot - read_.slot)
        /\ m = (write_.lap - read_.lap) + z * Laps
  BY DEF Inv, Distance
<1>r. PICK rings \in Int : rings = m * Cap
  OBVIOUS
<1>w. PICK wraps \in Int : wraps = z * Laps
  OBVIOUS
<1>p. /\ rings = m * Cap /\ wraps = z * Laps
      /\ pushed - popped = rings + (write_.slot - read_.slot)
      /\ m = (write_.lap - read_.lap) + wraps
  BY <1>m, <1>r, <1>w
<1>e. SUFFICES ASSUME pushed = popped PROVE read_ = write_
  OBVIOUS
<1>1. /\ 0 = rings + (write_.slot - read_.slot)
      /\ m = (write_.lap - read_.lap) + wraps
  BY <1>0, <1>p, <1>e
<1>3. rings < Cap /\ 0 - Cap < rings
  BY <1>0, <1>1
<1>4. m = 0 /\ rings = 0
  <2>1. m = 0
    BY <1>p, <1>3, NoWholeRing
  <2> QED
    BY <1>p, <2>1
<1>i. /\ write_.slot \in Int /\ read_.slot \in Int
      /\ write_.lap \in Int /\ read_.lap \in Int
  BY <1>0
<1>5. write_.slot = read_.slot
  BY <1>1, <1>4, <1>i, NoDifference
<1>6. 0 = wraps + (write_.lap - read_.lap)
  BY <1>1, <1>4, <1>i
<1>7. wraps < Laps /\ 0 - Laps < wraps
  BY <1>0, <1>6
<1>8. wraps = 0
  <2>1. z = 0
    BY <1>p, <1>7, NoWholeRing
  <2> QED
    BY <1>p, <2>1
<1>9. write_.lap = read_.lap
  BY <1>6, <1>8, <1>i, NoDifference
<1> QED
  BY <1>0, <1>5, <1>9, IndexFields

LEMMA ProgressStep == Inv /\ [Next]_vars => Progress'
<1> SUFFICES ASSUME Inv, [Next]_vars PROVE Progress'
  OBVIOUS
<1>0. pushed \in Nat /\ popped \in Nat /\ Progress
  BY DEF Inv, TypeOK
<1>1. CASE PopTest
  <2>1. popped # pushed
    BY <1>1, EmptyIsEmpty DEF PopTest
  <2> QED
    BY <1>0, <1>1, <2>1 DEF PopTest, Progress
<1>2. CASE PopLoad
  BY <1>0, <1>2 DEF PopLoad, Progress
<1>3. CASE PopRelease
  BY <1>0, <1>3 DEF PopRelease, Progress
<1>4. CASE Push
  BY <1>0, <1>4 DEF Push, PushTest, PushStore, PushPublish, Progress
<1>5. CASE UNCHANGED vars
  BY <1>0, <1>5 DEF vars, Progress
<1> QED
  BY <1>1, <1>2, <1>3, <1>4, <1>5 DEF Next, Pop

(* What try_pop reads: the entry whose turn it is or, if the producer is    *)
(* more than a ring ahead, a later one.                                    *)
LEMMA SlotHoldsTurn ==
    ASSUME Inv, popped < pushed
    PROVE  /\ popped + 1 <= buf_[read_.slot] /\ buf_[read_.slot] <= pushed + 1
           /\ Ahead <= Cap => buf_[read_.slot] = popped + 1
<1> USE CapIsPositive, LapsIsPlural
<1>0. /\ pushed \in Nat /\ popped \in Nat
      /\ write_.slot \in 0..(Cap - 1) /\ read_.slot \in 0..(Cap - 1)
  BY IndexFields DEF Inv, TypeOK
<1>m. PICK m \in Int : pushed - popped = m * Cap + (write_.slot - read_.slot)
  BY DEF Inv, Distance
<1>r. PICK rings \in Int : rings = m * Cap
  OBVIOUS
<1>p. rings = m * Cap /\ pushed - popped = rings + (write_.slot - read_.slot)
  BY <1>m, <1>r
<1>1. pushed - popped = rings + (write_.slot - read_.slot)
  BY <1>p
<1>3. buf_[read_.slot] =
        IF producer = "publish" /\ read_.slot = write_.slot THEN pushed + 1
        ELSE IF Latest(read_.slot) >= 1 THEN Latest(read_.slot) ELSE 0
  BY <1>0 DEF Inv, Contents, Slot
<1>4. Ahead = IF producer = "publish" THEN pushed - popped + 1 ELSE pushed - popped
  BY DEF Ahead, Outstanding
<1>5. CASE read_.slot < write_.slot
  <2>1. rings > 0 - Cap
    BY <1>0, <1>1, <1>5
  <2>2. rings >= 0
    <3>1. (m + 1) * Cap > 0
      BY <1>p, <2>1, OneRingMore
    <3>2. m + 1 >= 1
      BY <3>1, SomeWholeRing
    <3> QED
      BY <1>p, <3>2
  <2>3. Latest(read_.slot) = popped + 1 + rings
    <3>1. Latest(read_.slot) = pushed - (write_.slot - 1 - read_.slot)
      BY <1>5 DEF Latest
    <3> QED
      BY <1>0, <1>1, <3>1
  <2>4. Ahead <= Cap => rings < Cap
    BY <1>0, <1>1, <1>4, <1>5
  <2>5. Ahead <= Cap => rings = 0
    <3>1. Ahead <= Cap => m = 0
      BY <1>p, <2>1, <2>4, NoWholeRing
    <3> QED
      BY <1>p, <3>1
  <2> QED
    BY <1>0, <1>1, <1>3, <1>5, <2>2, <2>3, <2>5
<1>6. CASE read_.slot >= write_.slot
  <2>1. rings > 0
    BY <1>0, <1>1, <1>6
  <2>2. m >= 1 /\ rings >= Cap
    BY <1>p, <2>1, SomeWholeRing
  <2>3. Latest(read_.slot) = popped + 1 + rings - Cap
    BY <1>0, <1>1, <1>6 DEF Latest
  <2>4. Ahead <= Cap => rings = Cap /\ ~(producer = "publish" /\ read_.slot = write_.slot)
    <3>1. CASE m = 1
      <4>1. rings = Cap
        BY <1>p, <3>1
      <4> QED
        BY <1>0, <1>1, <1>4, <4>1
    <3>2. CASE m >= 2
      <4>1. rings >= 2 * Cap
        BY <1>p, <3>2
      <4> QED
        BY <1>0, <1>1, <1>4, <4>1
    <3> QED
      BY <2>2, <3>1, <3>2
  <2> QED
    BY <1>0, <1>1, <1>3, <1>6, <2>2, <2>3, <2>4
<1> QED
  BY <1>0, <1>5, <1>6

LEMMA StaleStep == Inv /\ [Next]_vars => NeverStale'
<1> SUFFICES ASSUME Inv, [Next]_vars PROVE NeverStale'
  OBVIOUS
<1>0. pushed \in Nat /\ popped \in Nat /\ out \in Nat /\ NeverStale /\ Progress
  BY DEF Inv, TypeOK
<1>1. CASE PopLoad
  <2>1. popped < pushed
    BY <1>0, <1>1 DEF PopLoad, Progress
  <2>2. popped + 1 <= buf_[read_.slot] /\ buf_[read_.slot] <= pushed + 1
    BY <2>1, SlotHoldsTurn
  <2>3. out' \in Nat
    BY TypeStep DEF TypeOK
  <2> QED
    BY <1>0, <1>1, <2>2, <2>3 DEF PopLoad, NeverStale
<1>2. CASE PopTest \/ PopRelease
  BY <1>0, <1>2 DEF PopTest, PopRelease, NeverStale
<1>3. CASE Push
  BY <1>0, <1>3 DEF Push, PushTest, PushStore, PushPublish, NeverStale
<1>4. CASE UNCHANGED vars
  BY <1>0, <1>4 DEF vars, NeverStale
<1> QED
  BY <1>1, <1>2, <1>3, <1>4 DEF Next, Pop

LEMMA InvInit == Init => Inv
<1> SUFFICES ASSUME Init PROVE Inv
  OBVIOUS
<1> USE CapIsPositive, LapsIsPlural DEF Init
<1>1. TypeOK
  BY DEF TypeOK, Index, Slot
<1>2. Distance
  <2>1. pushed - popped = 0 * Cap + (write_.slot - read_.slot)
    OBVIOUS
  <2>2. 0 = (write_.lap - read_.lap) + 0 * Laps
    OBVIOUS
  <2> QED
    BY <2>1, <2>2 DEF Distance
<1>3. Contents
  BY DEF Contents, Latest, Slot
<1>4. Progress /\ NeverStale
  BY DEF Progress, NeverStale
<1> QED
  BY <1>1, <1>2, <1>3, <1>4 DEF Inv

LEMMA InvAlways == Spec => []Inv
<1>1. Inv /\ [Next]_vars => Inv'
  BY TypeStep, DistanceStep, ContentsStep, ProgressStep, StaleStep DEF Inv
<1> QED
  BY InvInit, <1>1, PTL DEF Spec
-----------------------------------------------------------------------------
(* The indices stay indices and the slots hold numbers of entries. *)
THEOREM TypeCorrect == Spec => []TypeOK
<1>1. Inv => TypeOK
  BY DEF Inv
<1> QED
  BY InvAlways, <1>1, PTL

(* The entry whose turn it is is in its slot, unless the producer is more   *)
(* than Cap entries ahead at that moment.                                  *)
THEOREM TurnIsInSlotAlways == Spec => []TurnIsInSlot
<1>1. Inv => TurnIsInSlot
  <2> SUFFICES ASSUME Inv, consumer = "load", Ahead <= Cap
               PROVE  buf_[read_.slot] = popped + 1
    BY DEF TurnIsInSlot
  <2>1. popped < pushed
    BY DEF Inv, Progress
  <2> QED
    BY <2>1, SlotHoldsTurn
<1> QED
  BY InvAlways, <1>1, PTL

(* try_push and try_pop are in one slot together only if the ring is full   *)
(* or more than full.                                                      *)
THEOREM NoTornReadAlways == Spec => []NoTornRead
<1>1. Inv => NoTornRead
  <2> SUFFICES ASSUME Inv, producer = "store", consumer = "load", write_.slot = read_.slot
               PROVE  Outstanding >= Cap
    BY DEF NoTornRead
  <2>0. pushed \in Nat /\ popped \in Nat /\ popped < pushed /\ write_.slot \in Int
    BY IndexFields, CapIsPositive DEF Inv, TypeOK, Progress
  <2>1. PICK m \in Int : pushed - popped = m * Cap + (write_.slot - read_.slot)
    BY DEF Inv, Distance
  <2>2. m * Cap \in Int
    BY CapIsPositive
  <2>3. pushed - popped = m * Cap /\ 0 < m * Cap
    BY <2>0, <2>1, <2>2
  <2>4. m * Cap >= Cap
    BY <2>3, SomeWholeRing, CapIsPositive
  <2> QED
    BY <2>3, <2>4 DEF Outstanding
<1> QED
  BY InvAlways, <1>1, PTL

(* However far the producer gets ahead, no entry is popped after its turn. *)
THEOREM NeverStaleAlways == Spec => []NeverStale
<1>1. Inv => NeverStale
  BY DEF Inv
<1> QED
  BY InvAlways, <1>1, PTL
-----------------------------------------------------------------------------
(* No slot holds an entry whose push has not begun. *)
LEMMA NothingFromTheFuture ==
    ASSUME Inv, NEW s \in Slot, producer # "publish"
    PROVE  buf_[s] <= pushed
<1>1. pushed \in Nat /\ write_.slot \in 0..(Cap - 1) /\ s \in 0..(Cap - 1) /\ Cap \in Nat
  BY IndexFields, CapIsPositive DEF Inv, TypeOK, Slot
<1>2. Latest(s) <= pushed
  BY <1>1 DEF Latest
<1>3. buf_[s] = IF Latest(s) >= 1 THEN Latest(s) ELSE 0
  BY DEF Inv, Contents
<1> QED
  BY <1>1, <1>2, <1>3

LEMMA FifoStep == Inv /\ [Next]_vars => [Fifo!Begin \/ Fifo!Send \/ Fifo!Receive]_(Fifo!vars)
<1> SUFFICES ASSUME Inv, [Next]_vars PROVE [Fifo!Begin \/ Fifo!Send \/ Fifo!Receive]_(Fifo!vars)
  OBVIOUS
<1>0. pushed \in Nat /\ popped \in Nat /\ Cap \in Nat /\ Progress
  BY CapIsPositive DEF Inv, TypeOK
<1>1. CASE PushTest
  BY <1>0, <1>1 DEF PushTest, Fifo!Begin
<1>2. CASE PushStore
  BY <1>2 DEF PushStore, Fifo!vars
<1>3. CASE PushPublish
  BY <1>0, <1>3 DEF PushPublish, Fifo!Send
<1>4. CASE PopTest
  BY <1>4 DEF PopTest, Fifo!vars
<1>5. CASE PopLoad
  <2>1. popped < pushed /\ out' = buf_[read_.slot] /\ consumer = "load" /\ consumer' = "release"
        /\ UNCHANGED <<producer, pushed, popped>>
    BY <1>0, <1>5 DEF PopLoad, Progress
  <2> DEFINE begun == IF producer = "idle" THEN pushed ELSE pushed + 1
  <2>2. begun - popped <= Cap => out' = popped + 1
    BY <1>0, <2>1, SlotHoldsTurn DEF Ahead, Outstanding
  <2>3. popped + 1 <= out' /\ out' <= begun
    <3>1. read_.slot \in Slot
      BY DEF Inv, TypeOK, Index
    <3>2. CASE producer = "publish"
      BY <2>1, <3>2, SlotHoldsTurn
    <3>3. CASE producer # "publish"
      BY <1>0, <2>1, <3>1, <3>3, SlotHoldsTurn, NothingFromTheFuture
    <3> QED
      BY <3>2, <3>3
  <2>4. out' \in Nat
    BY TypeStep DEF TypeOK
  <2> QED
    BY <1>0, <2>1, <2>2, <2>3, <2>4 DEF Fifo!Receive
<1>6. CASE PopRelease
  BY <1>0, <1>6 DEF PopRelease, Fifo!vars
<1>7. CASE UNCHANGED vars
  BY <1>7 DEF vars, Fifo!vars
<1> QED
  BY <1>1, <1>2, <1>3, <1>4, <1>5, <1>6, <1>7 DEF Next, Push, Pop

(* The ring is a queue that loses entries only if the producer is more than *)
(* the capacity ahead: the safety part of LossyFifo.                        *)
THEOREM RingIsLossyFifo == Spec => Fifo!SafeSpec
<1>1. Init => Fifo!Init
  BY DEF Init, Fifo!Init
<1> QED
  BY <1>1, FifoStep, InvAlways, PTL DEF Spec, Fifo!SafeSpec
=============================================================================
