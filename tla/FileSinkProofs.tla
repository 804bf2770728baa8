---------------------------- MODULE FileSinkProofs ----------------------------
(***************************************************************************)
(* Proofs about FileSink, for every rotate_bytes_, number of descriptors    *)
(* and run of the clock: what the sink keeps and in which order, and whose  *)
(* descriptors it closes.  Two facts carry them: a rotated file has a name  *)
(* no older one has reached, because time() does not run backwards; and     *)
(* between the two calls of close nobody has the descriptor, unless met.    *)
(***************************************************************************)
EXTENDS FileSink, TLAPS

(* Names follow the clock, and a new name is free unless seconds are hasty. *)
Names ==
    /\ name <= now
    /\ \A s \in Second : archive[s] # {} => s <= name
    /\ pc \in {"close", "rename"} => name \in Second /\ (hasty \/ archive[name] = {})

(* Only what was given to write() is anywhere, and a file is at its path.   *)
Known ==
    /\ buf_ \cup Kept \cup lost \cup stray \cup replaced \subseteq 1..n
    /\ ~exists => file = {}
    /\ pc \in {"idle", "close"} /\ fd_ # -1 => exists
    /\ pc = "none" => buf_ = {}

(* Who has which descriptor, when. *)
Descriptors ==
    ~met =>
        /\ \A f \in others : table[f] = "other"
        /\ pc \in {"idle", "close"} =>
              /\ \A f \in Fd : table[f] = "sink" => f = fd_
              /\ fd_ # -1 => table[fd_] = "sink"
        /\ pc \notin {"idle", "close"} => \A f \in Fd : table[f] # "sink"
        /\ pc \in {"rename", "reopen"} /\ fd_ # -1 => table[fd_] = "free"

Inv == TypeOK /\ Names /\ Known /\ Descriptors /\ EveryUnitOnce /\ InOrder
-----------------------------------------------------------------------------
LEMMA KeptIs ==
    /\ \A u : u \in Kept <=> u \in file \/ \E s \in Second : u \in archive[s]
    /\ \A u : u \in Kept' <=> u \in file' \/ \E s \in Second : u \in archive'[s]
  BY DEF Kept

(* The steps that leave every unit where it is. *)
Quiet == Create \/ Destroy \/ RotateClose \/ OpenClose \/ Open \/ OtherOpen \/ OtherClose \/ Tick

LEMMA TypeStep ==
    ASSUME TypeOK, Names, Next
    PROVE  TypeOK'
  <1> USE BoundsAreNat, RotateIsPositive
      DEF TypeOK, Fd, Unit, Second, Close, sinkVars, diskVars, procVars, histVars, fateVars
  <1>1. CASE Create       BY <1>1 DEF Create
  <1>2. CASE Destroy      BY <1>2 DEF Destroy
  <1>3. CASE Write
    <2>1. n + 1 \in Unit /\ n' \in 0..MaxUnit /\ buf_' \subseteq Unit
      BY <1>3 DEF Write
    <2>2. CASE written_ + 1 >= Rotate   BY <1>3, <2>1, <2>2 DEF Write
    <2>3. CASE written_ + 1 < Rotate    BY <1>3, <2>1, <2>3 DEF Write
    <2> QED  BY <2>2, <2>3
  <1>4. CASE RotateClose  BY <1>4 DEF RotateClose
  <1>5. CASE Rename
    <2>1. archive' \in [Second -> SUBSET Unit] /\ replaced' \subseteq Unit
      BY <1>5 DEF Rename, Names
    <2> QED  BY <1>5, <2>1 DEF Rename
  <1>6. CASE OpenClose    BY <1>6 DEF OpenClose
  <1>7. CASE Open
    <2>1. fd_' \in Fd \cup {-1} /\ exists' \in BOOLEAN
      BY <1>7 DEF Open, OpenPath
    <2>2. table' \in [Fd -> {"free", "sink", "other"}]
      BY <1>7 DEF Open, OpenPath
    <2> QED  BY <1>7, <2>1, <2>2 DEF Open
  <1>8. CASE Flush        BY <1>8 DEF Flush, WriteThrough
  <1>9. CASE OtherOpen    BY <1>9 DEF OtherOpen, IsLowest
  <1>10. CASE OtherClose  BY <1>10 DEF OtherClose
  <1>11. CASE Tick        BY <1>11 DEF Tick
  <1> QED
    BY <1>1, <1>2, <1>3, <1>4, <1>5, <1>6, <1>7, <1>8, <1>9, <1>10, <1>11 DEF Next, Sink

LEMMA QuietLeaves ==
    ASSUME Inv, Quiet
    PROVE  /\ UNCHANGED <<file, archive, lost, stray, replaced, n, hasty, name, buf_>> /\ (met => met')
           /\ exists => exists'
           /\ now' \in Second /\ now' >= now
           /\ pc' \in {"close", "rename"} => pc \in {"close", "rename"}
           /\ pc' = "none" => buf_ = {}
           /\ pc' \in {"idle", "close"} /\ fd_' # -1 => exists'
  <1> USE BoundsAreNat DEF Inv, TypeOK, Known, Second, sinkVars, diskVars, procVars, histVars, fateVars
  <1>1. CASE Create       BY <1>1 DEF Create
  <1>2. CASE Destroy      BY <1>2 DEF Destroy
  <1>3. CASE RotateClose  BY <1>3 DEF RotateClose
  <1>4. CASE OpenClose    BY <1>4 DEF OpenClose
  <1>5. CASE Open         BY <1>5 DEF Open, OpenPath
  <1>6. CASE OtherOpen    BY <1>6 DEF OtherOpen
  <1>7. CASE OtherClose   BY <1>7 DEF OtherClose
  <1>8. CASE Tick         BY <1>8 DEF Tick
  <1> QED  BY <1>1, <1>2, <1>3, <1>4, <1>5, <1>6, <1>7, <1>8 DEF Quiet

LEMMA QuietStep ==
    ASSUME Inv, Quiet
    PROVE  Names' /\ Known' /\ EveryUnitOnce' /\ InOrder'
  <1> USE QuietLeaves DEF Inv
  <1>1. Kept' = Kept     BY DEF Kept
  <1>2. Names'
    <2>1. name <= now'   BY DEF Names, TypeOK, Second
    <2> QED  BY <2>1 DEF Names
  <1>3. Known'           BY <1>1 DEF Known, TypeOK
  <1>4. EveryUnitOnce'   BY <1>1 DEF EveryUnitOnce
  <1>5. InOrder'         BY <1>1 DEF InOrder
  <1> QED  BY <1>2, <1>3, <1>4, <1>5

LEMMA WriteStep ==
    ASSUME Inv, Write
    PROVE  Names' /\ Known' /\ EveryUnitOnce' /\ InOrder'
  <1> USE BoundsAreNat DEF Inv, Write, diskVars, procVars, fateVars
  <1>1. Kept' = Kept   BY DEF Kept
  <1>2. n \in Nat /\ n' = n + 1 /\ 1..n' = (1..n) \cup {n + 1}
    BY DEF TypeOK
  <1>3. n + 1 \notin 1..n /\ \A u \in 1..n : u < n + 1
    BY <1>2
  <1>4. Names'
    <2>1. CASE written_ + 1 >= Rotate
      <3>1. name' = now /\ name <= now /\ hasty' = (hasty \/ name = now)   BY <2>1 DEF Names
      <3>2. \A s \in Second : archive[s] # {} => s <= now
        BY <3>1 DEF Names, TypeOK, Second
      <3>3. name = now \/ archive[now] = {}
        BY <3>1 DEF Names, TypeOK, Second
      <3>4. now \in Second   BY DEF TypeOK
      <3>5. now' = now /\ archive' = archive   OBVIOUS
      <3>6. now <= now   BY <3>4 DEF Second
      <3> HIDE DEF Inv, Write
      <3> QED  BY <3>1, <3>2, <3>3, <3>4, <3>5, <3>6 DEF Names
    <2>2. CASE ~(written_ + 1 >= Rotate)
      BY <2>2 DEF Names
    <2> QED  BY <2>1, <2>2
  <1>5. Known'
    BY <1>1, <1>2 DEF Known, TypeOK
  <1>6. EveryUnitOnce'
    <2>1. hasty => hasty'   OBVIOUS
    <2>2. UNCHANGED <<lost, stray, replaced, met>> /\ buf_' = buf_ \cup {n + 1}   OBVIOUS
    <2>3. EveryUnitOnce /\ n + 1 \notin buf_ \cup Kept \cup lost \cup stray \cup replaced
      BY <1>3 DEF Known
    <2> HIDE DEF Inv, Write
    <2> QED  BY <1>1, <1>2, <2>1, <2>2, <2>3 DEF EveryUnitOnce
  <1>7. InOrder'
    BY <1>1, <1>3 DEF InOrder, Known
  <1> QED  BY <1>4, <1>5, <1>6, <1>7

(* The file goes to its name: in order, and on no other file unless hasty. *)
LEMMA RenameStep ==
    ASSUME Inv, Rename
    PROVE  Names' /\ Known' /\ EveryUnitOnce' /\ InOrder' /\ (hasty \/ Kept' = Kept)
  <1> USE DEF Inv, Rename, sinkVars, procVars, histVars
  <1>1. name \in Second /\ (hasty \/ archive[name] = {})   BY DEF Names
  <1>2. \A s \in Second : archive'[s] = IF s = name /\ exists THEN file ELSE archive[s]
    BY DEF TypeOK
  <1>3. Kept' \subseteq Kept
    BY <1>1, <1>2, KeptIs DEF Known
  <1>4. hasty \/ Kept \subseteq Kept'
    BY <1>1, <1>2, KeptIs DEF Known
  <1>5. Names'   BY <1>1, <1>2 DEF Names, TypeOK, Second
  <1>6. Known'
    <2>1. replaced' \subseteq 1..n   BY <1>1, KeptIs DEF Known
    <2> QED  BY <1>3, <2>1 DEF Known
  <1>7. EveryUnitOnce'
    <2>1. CASE exists
      <3>1. replaced' = replaced \cup archive[name]   BY <2>1
      <3>2. Kept \subseteq Kept' \cup archive[name]   BY <2>1, <1>1, <1>2, KeptIs
      <3>3. archive[name] \subseteq Kept   BY <1>1, KeptIs
      <3>4. Kept' \cap archive[name] = {}
        <4>1. file \cap archive[name] = {}
          BY <1>1 DEF InOrder, TypeOK, Unit
        <4>2. ASSUME NEW s \in Second, s # name PROVE archive[s] \cap archive[name] = {}
          BY <1>1, <4>2 DEF InOrder, TypeOK, Unit, Second
        <4> QED  BY <1>2, <2>1, <4>1, <4>2, KeptIs
      <3>5. ~hasty' => replaced' = {}
        BY <1>1, <3>1 DEF EveryUnitOnce
      <3>6. UNCHANGED <<n, buf_, lost, stray, met, hasty>>   OBVIOUS
      <3> HIDE DEF Inv, Rename
      <3>7. EveryUnitOnce   BY DEF Inv
      <3> QED  BY <1>3, <3>1, <3>2, <3>3, <3>4, <3>5, <3>6, <3>7 DEF EveryUnitOnce
    <2>2. CASE ~exists
      BY <1>2, <2>2, KeptIs DEF EveryUnitOnce, Known
    <2> QED  BY <2>1, <2>2
  <1>8. InOrder'
    <2>1. ASSUME NEW s \in Second, NEW r \in Second, s < r,
                 NEW u \in archive'[s], NEW v \in archive'[r]
          PROVE  u < v
      <3>1. CASE r = name /\ exists
        BY <2>1, <1>2, <3>1 DEF InOrder, Second
      <3>2. CASE s = name /\ exists
        BY <2>1, <1>2, <3>2 DEF Names, Second, TypeOK
      <3>3. CASE ~exists \/ (s # name /\ r # name)
        BY <2>1, <1>2, <3>3 DEF InOrder
      <3> QED  BY <3>1, <3>2, <3>3
    <2>2. file' = {}   OBVIOUS
    <2>3. \A u \in Kept', v \in buf_' : u < v   BY <1>3 DEF InOrder
    <2> QED  BY <2>1, <2>2, <2>3 DEF InOrder
  <1> QED  BY <1>3, <1>4, <1>5, <1>6, <1>7, <1>8

(* A front part of the buffer goes to the end of the file, or astray. *)
LEMMA FlushStep ==
    ASSUME Inv, Flush
    PROVE  Names' /\ Known' /\ EveryUnitOnce' /\ InOrder' /\ Kept \subseteq Kept'
  <1> USE DEF Inv
  <1>1. PICK part \in SUBSET buf_ : WriteThrough(part)
    BY DEF Flush
  <1>2. /\ pc = "idle" /\ buf_' = {}
        /\ UNCHANGED <<pc, fd_, written_, name, exists, archive, table, others, now, n, replaced, hasty, met>>
    BY DEF Flush, procVars
  <1>3. lost' = lost \cup (buf_ \ part) /\ \A u \in part, v \in buf_ \ part : u < v
    BY <1>1 DEF WriteThrough
  <1>4. PICK toFile \in {{}, part}, astray \in {{}, part} :
          /\ file' = file \cup toFile /\ stray' = stray \cup astray
          /\ toFile \cup astray = part /\ (toFile = {} \/ astray = {})
          /\ toFile # {} => fd_ \in Fd
          /\ astray # {} => fd_ \in Fd /\ table[fd_] = "other"
    BY <1>1 DEF WriteThrough
  <1>5. Kept' = Kept \cup toFile   BY <1>2, <1>4 DEF Kept
  <1>6. Names'   BY <1>2 DEF Names
  <1>7. Known'
    <2>1. exists \/ toFile = {}   BY <1>2, <1>4 DEF Known, Fd
    <2>2. UNCHANGED <<pc, fd_, exists, n, replaced>> /\ buf_' = {}   BY <1>2
    <2>3. toFile \subseteq buf_ /\ astray \subseteq buf_   BY <1>4
    <2>4. Known   OBVIOUS
    <2> HIDE DEF Inv
    <2> QED  BY <1>3, <1>4, <1>5, <2>1, <2>2, <2>3, <2>4 DEF Known
  <1>8. EveryUnitOnce'
    <2>1. ~met => astray = {}   BY <1>2, <1>4 DEF Descriptors, Fd
    <2>2. ~met => stray' = {}   BY <1>4, <2>1 DEF EveryUnitOnce
    <2>3. UNCHANGED <<n, replaced, met, hasty>> /\ buf_' = {}   BY <1>2
    <2>4. EveryUnitOnce   OBVIOUS
    <2>5. lost' = lost \cup (buf_ \ part)   BY <1>3
    <2>6. stray' = stray \cup astray /\ toFile \cup astray = part /\ (toFile = {} \/ astray = {})
      BY <1>4
    <2> HIDE DEF Inv
    <2> QED  BY <1>5, <2>2, <2>3, <2>4, <2>5, <2>6 DEF EveryUnitOnce
  <1>9. InOrder'
    <2>1. \A s \in Second : \A u \in archive[s], v \in toFile : u < v
      BY <1>4, KeptIs DEF InOrder
    <2> QED  BY <1>2, <1>4, <2>1 DEF InOrder
  <1> QED  BY <1>5, <1>6, <1>7, <1>8, <1>9
-----------------------------------------------------------------------------
LEMMA DescriptorsStep ==
    ASSUME TypeOK, Descriptors, Next
    PROVE  Descriptors'
  <1> USE DEF TypeOK, Descriptors, Close, Fd, sinkVars, diskVars, procVars, histVars, fateVars
  <1>1. CASE Create       BY <1>1 DEF Create
  <1>2. CASE Destroy      BY <1>2 DEF Destroy
  <1>3. CASE Write        BY <1>3 DEF Write
  <1>4. CASE RotateClose  BY <1>4 DEF RotateClose
  <1>5. CASE Rename       BY <1>5 DEF Rename
  <1>6. CASE OpenClose    BY <1>6 DEF OpenClose
  <1>7. CASE Open         BY <1>7 DEF Open, OpenPath, IsLowest
  <1>8. CASE Flush        BY <1>8 DEF Flush
  <1>9. CASE OtherOpen    BY <1>9 DEF OtherOpen, IsLowest
  <1>10. CASE OtherClose  BY <1>10 DEF OtherClose
  <1>11. CASE Tick        BY <1>11 DEF Tick
  <1> QED
    BY <1>1, <1>2, <1>3, <1>4, <1>5, <1>6, <1>7, <1>8, <1>9, <1>10, <1>11 DEF Next, Sink

LEMMA InvInit == Init => Inv
  <1> SUFFICES ASSUME Init PROVE Inv
    OBVIOUS
  <1> USE BoundsAreNat, RotateIsPositive DEF Init, Second
  <1>1. TypeOK
    <2>1. archive \in [Second -> SUBSET Unit]   OBVIOUS
    <2>2. table \in [Fd -> {"free", "sink", "other"}]   OBVIOUS
    <2>3. written_ \in 0..Rotate /\ now \in Second /\ n \in 0..MaxUnit   OBVIOUS
    <2> QED  BY <2>1, <2>2, <2>3 DEF TypeOK
  <1>2. Kept = {}    BY DEF Kept
  <1>3. Names        BY DEF Names
  <1>4. Known /\ Descriptors   BY <1>2 DEF Known, Descriptors
  <1>5. 1..n = {}    OBVIOUS
  <1>6. EveryUnitOnce /\ InOrder   BY <1>2, <1>5 DEF EveryUnitOnce, InOrder
  <1> QED  BY <1>1, <1>3, <1>4, <1>6 DEF Inv

LEMMA InvStep == Inv /\ [Next]_vars => Inv'
  <1> SUFFICES ASSUME Inv, [Next]_vars PROVE Inv'
    OBVIOUS
  <1>1. CASE Next
    <2>1. TypeOK' /\ Descriptors'   BY <1>1, TypeStep, DescriptorsStep DEF Inv
    <2>2. Names' /\ Known' /\ EveryUnitOnce' /\ InOrder'
      BY <1>1, QuietStep, WriteStep, RenameStep, FlushStep DEF Next, Sink, Quiet
    <2> QED  BY <2>1, <2>2 DEF Inv
  <1>2. CASE UNCHANGED vars
    BY <1>2
    DEF vars, sinkVars, diskVars, procVars, histVars, fateVars, Inv, TypeOK, Names, Known, Descriptors,
        EveryUnitOnce, InOrder, Kept
  <1> QED  BY <1>1, <1>2

LEMMA Invariance == Spec => []Inv
  BY InvInit, InvStep, PTL DEF Spec

(* Every variable of the sink keeps its type; written_ never passes         *)
(* rotate_bytes_ unnoticed.                                                *)
THEOREM TypeCorrect == Spec => []TypeOK
  <1>1. Inv => TypeOK   BY DEF Inv
  <1> QED  BY <1>1, Invariance, PTL

(* Every unit given to write() is in one place, also after a write through  *)
(* a descriptor that became another thread's; none is there unless met, and *)
(* no rotated file is replaced unless a second saw two rotations.           *)
THEOREM EveryUnitOnceAlways == Spec => []EveryUnitOnce
  <1>1. Inv => EveryUnitOnce   BY DEF Inv
  <1> QED  BY <1>1, Invariance, PTL

(* The rotated files by name, the file and the buffer are in the order of   *)
(* the calls of write(), whatever is in the buffer when rotate() runs.      *)
THEOREM InOrderAlways == Spec => []InOrder
  <1>1. Inv => InOrder   BY DEF Inv
  <1> QED  BY <1>1, Invariance, PTL

(* The sink leaks no descriptor over rotations, failed opens and restarts,  *)
(* and writes to its own, unless another thread met it between two closes.  *)
THEOREM OwnsItsDescriptorAlways == Spec => []OwnsItsDescriptor
  <1>1. Inv => OwnsItsDescriptor   BY DEF Inv, TypeOK, Descriptors, OwnsItsDescriptor
  <1> QED  BY <1>1, Invariance, PTL

(* No step of the sink closes a descriptor of another thread, unless one    *)
(* was opened between its two calls of close.                              *)
THEOREM LeavesOthersAloneAlways == Spec => LeavesOthersAlone
  <1> DEFINE A == \A f \in others : table[f] = "other" /\ Sink => table'[f] = "other" \/ met
  <1>1. Inv /\ Next => A
    <2> SUFFICES ASSUME Inv, Sink, ~met, NEW f \in others, table[f] = "other"
                 PROVE  table'[f] = "other"
      OBVIOUS
    <2> USE DEF Inv, TypeOK, Descriptors, Close, Fd, procVars
    <2>1. CASE Create \/ Write \/ Rename \/ Flush
      BY <2>1 DEF Create, Write, Rename, Flush
    <2>2. CASE Destroy \/ RotateClose \/ OpenClose
      <3>1. f # fd_
        BY <2>2 DEF Destroy, RotateClose, OpenClose
      <3> QED  BY <2>2, <3>1 DEF Destroy, RotateClose, OpenClose
    <2>3. CASE Open
      BY <2>3 DEF Open, OpenPath, IsLowest
    <2> QED  BY <2>1, <2>2, <2>3 DEF Sink
  <1>2. Inv /\ [Next]_vars => [A]_vars   BY <1>1
  <1> HIDE DEF A
  <1>3. Spec => [][A]_vars   BY <1>2, Invariance, PTL DEF Spec
  <1> QED  BY <1>3 DEF A, LeavesOthersAlone

(* What is in a file stays in a file, unless a second saw two rotations.    *)
THEOREM AppendsUnlessHastyAlways == Spec => AppendsUnlessHasty
  <1>1. Inv /\ Next => Kept \subseteq Kept' \/ hasty
    <2>1. ASSUME Inv, Quiet PROVE Kept' = Kept
      BY <2>1, QuietLeaves DEF Kept
    <2>2. ASSUME Inv, Write PROVE Kept' = Kept
      BY <2>2 DEF Write, diskVars, Kept
    <2> QED  BY <2>1, <2>2, RenameStep, FlushStep DEF Next, Sink, Quiet
  <1>2. Inv /\ [Next]_vars => [Kept \subseteq Kept' \/ hasty]_vars   BY <1>1
  <1> QED  BY <1>2, Invariance, PTL DEF Spec, AppendsUnlessHasty
=============================================================================
