-------------------------- MODULE AsyncLoggerProofs --------------------------
(***************************************************************************)
(* Proofs about AsyncLogger, for any producers and bounds: the types        *)
(* whatever the callers do; and, when no start() overlaps a start() or a    *)
(* stop() or finds the logger running, that the worker keeps its sinks,     *)
(* that no record is lost, that stop() writes what it owes, and that no     *)
(* threads wait for each other in a circle.                                *)
(*                                                                         *)
(* The safety of the sinks is a matter of phases: while the thread that     *)
(* starts or stops is between two of its steps, running_, joinable() and    *)
(* the worker are what that step left, and there is one such thread.        *)
(***************************************************************************)
EXTENDS AsyncLogger, TLAPS

(* A producer inside _logf_impl has a record to go. *)
Bounded ==
    \A p \in Producer :
        /\ ring[p] + buf[p] + out[p] <= logged[p]
        /\ pc[p] # "idle" => logged[p] < MaxLog

TypeInv == TypeOK /\ Bounded

(* Nobody else is between the lock of start() and its end, or in stop(),    *)
(* while one thread is.                                                    *)
OneStarter ==
    /\ \A p \in Producer : pc[p] \in StartPc => once = "doing"
    /\ \A p, q \in Producer : pc[p] \in StartPc /\ pc[q] \in StartPc => p = q
    /\ pc[Owner] # "idle" => NoStartInLog

(* start() does not find the logger running. *)
StartsStopped ==
    /\ \A p \in Producer : pc[p] = "once" /\ once = "no" => ~running_
    /\ \A t \in Caller : pc[t] = "start" => ~running_
    /\ \A t \in Caller : pc[t] # "rejoin"

Active == worker \notin {"none", "ended"}

Stable == \A t \in Caller : pc[t] \notin {"create", "run", "spawn", "join", "reset"}

Phases ==
    /\ Stable /\ running_ => sinks /\ joinable /\ Active /\ ~final
    /\ Stable /\ ~running_ => ~joinable /\ ~Active
    /\ \A t \in Caller :
        /\ pc[t] \in {"create", "run"} => ~running_ /\ ~joinable /\ ~Active
        /\ pc[t] \in {"run", "spawn"} => sinks
        /\ pc[t] = "spawn" => running_ /\ ~joinable /\ ~Active
        /\ pc[t] = "join" => ~running_ /\ sinks /\ joinable /\ worker # "none"
        /\ pc[t] = "reset" => ~running_ /\ ~joinable /\ worker = "ended"
    /\ worker = "final" => final
    /\ ~Active => buf = Zero

(* The worker is past the last look it takes at the ring of p. *)
Late(p) == worker \in {"final", "ended"} \/ (worker = "drain" /\ final /\ p \notin local)

Owed ==
    /\ \A p \in Producer : pc[p] = "push" \/ logged[p] > 0 => p \in producers_
    /\ \A p \in Producer :
        pc[Owner] = "join" =>
            /\ due[p] <= logged[p]
            /\ due[p] <= out[p] + buf[p] + Batch
            /\ Late(p) => due[p] <= out[p] + buf[p]

Inv == TypeInv /\ OneStarter /\ StartsStopped /\ Phases /\ NothingLost /\ Owed /\ StopWrites
-----------------------------------------------------------------------------
(* Types. *)


LEMMA ThreadTypes == Owner \notin Producer /\ Nobody \notin Caller
  BY ThreadsAreDistinct DEF Caller

LEMMA ZeroIsCount == Zero \in Count /\ \A p \in Producer : Zero[p] = 0
  BY BoundsAreNat DEF Zero, Count

LEMMA StartTypes ==
    ASSUME TypeInv, NEW t \in Caller, Start(t)
    PROVE  TypeInv'
  <1> USE ThreadTypes, BoundsAreNat, ZeroIsCount
      DEF TypeInv, TypeOK, DataTypes, ControlTypes, Bounded, Count, Goto, Caller, StartPc, StopPc, LogPc, workerVars, dataVars, startVars
  <1>1. CASE StartLock(t)    BY <1>1 DEF StartLock
  <1>2. CASE StartRejoin(t)
    <2>1. Bounded'   BY <1>2 DEF StartRejoin
    <2>2. DataTypes'      BY <1>2 DEF StartRejoin
    <2>3. ControlTypes'   BY <1>2 DEF StartRejoin
    <2>4. (\A u \in Caller : mu_ = u <=> pc[u] \in StartPc \ {"start"})'
      BY <1>2 DEF StartRejoin
    <2> QED  BY <2>1, <2>2, <2>3, <2>4
  <1>3. CASE StartCreate(t)  BY <1>3 DEF StartCreate
  <1>4. CASE StartRun(t)     BY <1>4 DEF StartRun
  <1>5. CASE StartSpawn(t)
    <2>1. Bounded'   BY <1>5 DEF StartSpawn
    <2>2. DataTypes'      BY <1>5 DEF StartSpawn
    <2>3. ControlTypes'   BY <1>5 DEF StartSpawn
    <2>4. (\A u \in Caller : mu_ = u <=> pc[u] \in StartPc \ {"start"})'
      BY <1>5 DEF StartSpawn
    <2> QED  BY <2>1, <2>2, <2>3, <2>4
  <1> QED  BY <1>1, <1>2, <1>3, <1>4, <1>5 DEF Start

LEMMA OwnerTypes ==
    ASSUME TypeInv, CallStart \/ CallStop \/ Stop
    PROVE  TypeInv'
  <1> USE ThreadTypes, BoundsAreNat, BatchIsPositive, ZeroIsCount
      DEF TypeInv, TypeOK, DataTypes, ControlTypes, Bounded, Count, Goto, Caller, StartPc, StopPc, LogPc, workerVars, dataVars, startVars
  <1>1. CASE CallStart  BY <1>1 DEF CallStart
  <1>2. CASE CallStop   BY <1>2 DEF CallStop
  <1>3. CASE StopLock
    <2>1. due' \in Count
      <3>1. \A p \in Producer : Least(logged[p], out[p] + buf[p] + Batch) \in 0..MaxLog
        BY DEF Least
      <3> QED  BY <1>3, <3>1 DEF StopLock
    <2>2. Bounded'   BY <1>3 DEF StopLock
    <2>3. DataTypes'   BY <1>3, <2>1 DEF StopLock
    <2>4. ControlTypes'   BY <1>3 DEF StopLock
    <2>5. (\A u \in Caller : mu_ = u <=> pc[u] \in StartPc \ {"start"})'
      BY <1>3 DEF StopLock
    <2> QED  BY <2>2, <2>3, <2>4, <2>5
  <1>4. CASE StopJoin
    <2>1. Bounded'   BY <1>4 DEF StopJoin
    <2>2. DataTypes'      BY <1>4 DEF StopJoin
    <2>3. ControlTypes'   BY <1>4 DEF StopJoin
    <2>4. (\A u \in Caller : mu_ = u <=> pc[u] \in StartPc \ {"start"})'
      BY <1>4 DEF StopJoin
    <2> QED  BY <2>1, <2>2, <2>3, <2>4
  <1>5. CASE StopReset
    <2>1. Bounded'   BY <1>5 DEF StopReset
    <2>2. DataTypes'      BY <1>5 DEF StopReset
    <2>3. ControlTypes'   BY <1>5 DEF StopReset
    <2>4. (\A u \in Caller : mu_ = u <=> pc[u] \in StartPc \ {"start"})'
      BY <1>5 DEF StopReset
    <2> QED  BY <2>1, <2>2, <2>3, <2>4
  <1> QED  BY <1>1, <1>2, <1>3, <1>4, <1>5 DEF Stop

LEMMA LogTypes ==
    ASSUME TypeInv, NEW p \in Producer, CallLog(p) \/ Log(p)
    PROVE  TypeInv'
  <1> USE ThreadTypes, BoundsAreNat
      DEF TypeInv, TypeOK, DataTypes, ControlTypes, Bounded, Count, Goto, Caller, StartPc, StopPc, LogPc, workerVars, dataVars, startVars
  <1>1. CASE CallLog(p)   BY <1>1 DEF CallLog
  <1>2. CASE CallOnce(p)  BY <1>2 DEF CallOnce
  <1>3. CASE Register(p)  BY <1>3 DEF Register
  <1>4. CASE Push(p)      BY <1>4 DEF Push
  <1> QED  BY <1>1, <1>2, <1>3, <1>4 DEF Log

(* What the worker may do to the records of a producer. *)
LEMMA RecordsMove ==
    ASSUME TypeInv, (\E p \in Producer : Drain(p)) \/ WriteOut
    PROVE  /\ {ring', buf', out'} \subseteq Count
           /\ \A q \in Producer : ring'[q] + buf'[q] + out'[q] = ring[q] + buf[q] + out[q]
  <1> USE BoundsAreNat, BatchIsPositive, ZeroIsCount DEF TypeInv, TypeOK, DataTypes, ControlTypes, Bounded, Count
  <1>1. ASSUME NEW p \in Producer, Drain(p)
        PROVE  /\ {ring', buf', out'} \subseteq Count
               /\ \A q \in Producer : ring'[q] + buf'[q] + out'[q] = ring[q] + buf[q] + out[q]
    <2> DEFINE n == Least(ring[p], Batch)
    <2>1. n \in Nat /\ n <= ring[p]   BY DEF Least
    <2>2. ring' = [ring EXCEPT ![p] = @ - n] /\ buf' = [buf EXCEPT ![p] = @ + n] /\ out' = out
      BY <1>1 DEF Drain
    <2> HIDE DEF n
    <2> QED  BY <2>1, <2>2
  <1>2. CASE WriteOut
    <2>1. \A p \in Producer : out'[p] = out[p] + buf[p] /\ out'[p] \in 0..MaxLog
      BY <1>2 DEF WriteOut
    <2>2. out' \in Count   BY <1>2, <2>1 DEF WriteOut
    <2> QED  BY <1>2, <2>1, <2>2 DEF WriteOut
  <1> QED  BY <1>1, <1>2

LEMMA RunTypes ==
    ASSUME TypeInv, Run
    PROVE  TypeInv'
  <1> USE DEF TypeInv, TypeOK, DataTypes, ControlTypes, Bounded, Rest, workerVars, dataVars, startVars
  <1>1. CASE WorkerTest  BY <1>1 DEF WorkerTest
  <1>2. CASE DrainCopy   BY <1>2 DEF DrainCopy
  <1>3. CASE \E p \in Producer : Drain(p)
    <2> PICK p \in Producer : Drain(p)  BY <1>3
    <2> QED  BY RecordsMove DEF Drain
  <1>4. CASE Drained     BY <1>4 DEF Drained
  <1>5. CASE Flush       BY <1>5, RecordsMove DEF Flush, WriteOut
  <1>6. CASE FlushNot    BY <1>6 DEF FlushNot
  <1>7. CASE Sleep       BY <1>7 DEF Sleep
  <1>8. CASE Wake        BY <1>8 DEF Wake
  <1>9. CASE FinalFlush  BY <1>9, RecordsMove DEF FinalFlush, WriteOut
  <1> QED  BY <1>1, <1>2, <1>3, <1>4, <1>5, <1>6, <1>7, <1>8, <1>9 DEF Run

LEMMA TypeInit == Init => TypeInv
  <1> SUFFICES ASSUME Init PROVE TypeInv
    OBVIOUS
  <1> USE ThreadTypes, BoundsAreNat, ZeroIsCount DEF Init
  <1>1. Bounded  BY DEF Bounded, Caller
  <1>2. DataTypes   BY DEF DataTypes
  <1>3. ControlTypes
    <2>1. calls \in [starts : 0..MaxStarts, stops : 0..MaxStops]   OBVIOUS
    <2>2. pc \in [Caller -> {"idle"} \cup StartPc \cup StopPc \cup LogPc]   OBVIOUS
    <2>3. pc[Owner] \notin LogPc /\ \A p \in Producer : pc[p] \notin StopPc
      BY DEF Caller, StopPc, LogPc
    <2> QED  BY <2>1, <2>2, <2>3 DEF ControlTypes
  <1>4. \A t \in Caller : mu_ = t <=> pc[t] \in StartPc \ {"start"}
    BY DEF StartPc
  <1> QED  BY <1>1, <1>2, <1>3, <1>4 DEF TypeInv, TypeOK

LEMMA TypeStep == TypeInv /\ [Next]_vars => TypeInv'
  <1> SUFFICES ASSUME TypeInv, [Next]_vars PROVE TypeInv'
    OBVIOUS
  <1>1. CASE CallStart \/ CallStop   BY <1>1, OwnerTypes
  <1>2. CASE \E p \in Producer : CallLog(p)   BY <1>2, LogTypes
  <1>3. CASE \E t \in Caller : Inside(t)
    BY <1>3, StartTypes, OwnerTypes, LogTypes DEF Inside
  <1>4. CASE Run   BY <1>4, RunTypes
  <1>5. CASE UNCHANGED vars
    BY <1>5 DEF vars, startVars, workerVars, dataVars, TypeInv, TypeOK, DataTypes, ControlTypes, Bounded
  <1> QED  BY <1>1, <1>2, <1>3, <1>4, <1>5 DEF Next

(* Every variable keeps its type, and mu_ its owner, however start(),       *)
(* stop() and the log macros overlap.                                      *)
THEOREM TypeCorrect == Spec => []TypeOK
  <1>1. Spec => []TypeInv  BY TypeInit, TypeStep, PTL DEF Spec
  <1>2. TypeInv => TypeOK  BY DEF TypeInv
  <1> QED  BY <1>1, <1>2, PTL
-----------------------------------------------------------------------------
(* The starter and its phases, when the calls are polite. *)

LEMMA RunLeavesCallers ==
    ASSUME Run
    PROVE  UNCHANGED <<pc, once, running_, sinks, joinable, producers_, logged, due, dead>>
  BY DEF Run, WorkerTest, DrainCopy, Drain, Drained, Flush, FlushNot, Sleep, Wake,
         FinalFlush, WriteOut, startVars, dataVars

LEMMA OneStarterStep ==
    ASSUME Polite, TypeOK, OneStarter, Next
    PROVE  OneStarter'
  <1> USE ThreadTypes
      DEF TypeOK, DataTypes, ControlTypes, OneStarter, NoStartInLog, Goto, Caller, StartPc, StopPc, LogPc
  <1>1. CASE CallStart \/ CallStop   BY <1>1 DEF CallStart, CallStop
  <1>2. CASE \E p \in Producer : CallLog(p)   BY <1>2 DEF CallLog
  <1>3. CASE \E t \in Caller : StartLock(t) \/ StartRejoin(t) \/ StartCreate(t) \/ StartRun(t)
    BY <1>3 DEF StartLock, StartRejoin, StartCreate, StartRun
  <1>4. CASE \E t \in Caller : StartSpawn(t)   BY <1>4 DEF StartSpawn
  <1>5. CASE Stop   BY <1>5 DEF Stop, StopLock, StopJoin, StopReset
  <1>6. CASE \E p \in Producer : CallOnce(p)   BY <1>6 DEF CallOnce
  <1>7. CASE \E p \in Producer : Register(p) \/ Push(p)   BY <1>7 DEF Register, Push
  <1>8. CASE Run   BY <1>8, RunLeavesCallers
  <1> QED
    BY <1>1, <1>2, <1>3, <1>4, <1>5, <1>6, <1>7, <1>8 DEF Next, Inside, Start, Log

(* One thread at a time is on its way through start() or stop(). *)
LEMMA OneAtATime ==
    ASSUME TypeOK, OneStarter,
           NEW t \in Caller, NEW u \in Caller,
           pc[t] \in StartPc \cup StopPc, pc[u] \in StartPc \cup StopPc
    PROVE  t = u
  BY ThreadTypes
  DEF TypeOK, ControlTypes, OneStarter, NoStartInLog, Caller, StartPc, StopPc, LogPc

LEMMA StartsStoppedStep ==
    ASSUME Polite, TypeOK, OneStarter, StartsStopped, Next
    PROVE  StartsStopped'
  <1> USE ThreadTypes
      DEF TypeOK, DataTypes, ControlTypes, OneStarter, NoStartInLog, StartsStopped, Goto, Caller, StartPc, StopPc, LogPc
  <1>1. CASE CallStart \/ CallStop   BY <1>1 DEF CallStart, CallStop, startVars
  <1>2. CASE \E p \in Producer : CallLog(p)   BY <1>2 DEF CallLog, startVars
  <1>3. CASE \E t \in Caller : StartLock(t) \/ StartRejoin(t) \/ StartCreate(t)
    BY <1>3 DEF StartLock, StartRejoin, StartCreate
  <1>4. ASSUME NEW t \in Caller, StartRun(t)
        PROVE  StartsStopped'
    BY <1>4, OneAtATime DEF StartRun
  <1>5. CASE \E t \in Caller : StartSpawn(t)   BY <1>5 DEF StartSpawn
  <1>6. CASE Stop   BY <1>6 DEF Stop, StopLock, StopJoin, StopReset
  <1>7. CASE \E p \in Producer : CallOnce(p)   BY <1>7 DEF CallOnce, startVars
  <1>8. CASE \E p \in Producer : Register(p) \/ Push(p)   BY <1>8 DEF Register, Push, startVars
  <1>9. CASE Run   BY <1>9, RunLeavesCallers
  <1> QED
    BY <1>1, <1>2, <1>3, <1>4, <1>5, <1>6, <1>7, <1>8, <1>9 DEF Next, Inside, Start, Log

(* The variables that Phases is about and the log macros leave alone. *)
LEMMA PhasesStart ==
    ASSUME TypeOK, OneStarter, StartsStopped, Phases, NEW t \in Caller, Start(t)
    PROVE  Phases'
  <1> USE ThreadTypes DEF TypeOK, ControlTypes, StartsStopped, Phases, Stable, Active, Goto
  <1>1. \A u \in Caller : pc[u] \in StartPc \cup StopPc /\ pc[t] \in StartPc => u = t
    BY OneAtATime
  <1>2. CASE StartLock(t)
    BY <1>1, <1>2 DEF StartLock, StartPc, StopPc, workerVars, dataVars
  <1>3. CASE StartRejoin(t)
    BY <1>3 DEF StartRejoin
  <1>4. CASE StartCreate(t)
    BY <1>1, <1>4 DEF StartCreate, StartPc, StopPc, workerVars
  <1>5. CASE StartRun(t)
    BY <1>1, <1>5 DEF StartRun, StartPc, StopPc, workerVars, dataVars
  <1>6. CASE StartSpawn(t)
    BY <1>1, <1>6 DEF StartSpawn, StartPc, StopPc, workerVars, dataVars
  <1> QED  BY <1>2, <1>3, <1>4, <1>5, <1>6 DEF Start

LEMMA PhasesStop ==
    ASSUME TypeOK, OneStarter, Phases, Stop
    PROVE  Phases'
  <1> USE ThreadTypes DEF TypeOK, ControlTypes, Phases, Stable, Active, Goto, Caller
  <1>1. \A u \in Caller : pc[u] \in StartPc \cup StopPc /\ pc[Owner] \in StopPc => u = Owner
    BY OneAtATime
  <1>2. CASE StopLock
    BY <1>1, <1>2 DEF StopLock, StartPc, StopPc, workerVars, dataVars
  <1>3. CASE StopJoin
    BY <1>1, <1>3 DEF StopJoin, StartPc, StopPc, workerVars, dataVars
  <1>4. CASE StopReset
    BY <1>1, <1>4 DEF StopReset, StartPc, StopPc, workerVars
  <1> QED  BY <1>2, <1>3, <1>4 DEF Stop

LEMMA PhasesOther ==
    ASSUME TypeOK, Phases,
           \/ CallStart \/ CallStop
           \/ \E p \in Producer : CallLog(p) \/ Log(p)
    PROVE  Phases'
  <1> USE ThreadTypes DEF TypeOK, ControlTypes, Phases, Stable, Active, Goto, Caller, startVars, workerVars, dataVars
  <1>1. CASE CallStart \/ CallStop   BY <1>1 DEF CallStart, CallStop
  <1>2. CASE \E p \in Producer : CallLog(p)   BY <1>2 DEF CallLog
  <1>3. CASE \E p \in Producer : CallOnce(p)   BY <1>3 DEF CallOnce
  <1>4. CASE \E p \in Producer : Register(p)   BY <1>4 DEF Register
  <1>5. CASE \E p \in Producer : Push(p)   BY <1>5 DEF Push
  <1> QED  BY <1>1, <1>2, <1>3, <1>4, <1>5 DEF Log

LEMMA PhasesRun ==
    ASSUME TypeOK, Phases, Run
    PROVE  Phases'
  <1> USE RunLeavesCallers DEF TypeOK, ControlTypes, Phases, Stable, Active, dataVars
  <1>1. CASE WorkerTest  BY <1>1 DEF WorkerTest
  <1>2. CASE DrainCopy   BY <1>2 DEF DrainCopy
  <1>3. CASE \E p \in Producer : Drain(p)   BY <1>3 DEF Drain
  <1>4. CASE Drained     BY <1>4 DEF Drained
  <1>5. CASE Flush       BY <1>5 DEF Flush, Rest, WriteOut
  <1>6. CASE FlushNot    BY <1>6 DEF FlushNot, Rest
  <1>7. CASE Sleep       BY <1>7 DEF Sleep
  <1>8. CASE Wake        BY <1>8 DEF Wake
  <1>9. CASE FinalFlush  BY <1>9 DEF FinalFlush, WriteOut
  <1> QED  BY <1>1, <1>2, <1>3, <1>4, <1>5, <1>6, <1>7, <1>8, <1>9 DEF Run
-----------------------------------------------------------------------------
(* What becomes of the records. *)

LEMMA NothingLostStep ==
    ASSUME TypeInv, OneStarter, StartsStopped, Phases, NothingLost, Next
    PROVE  NothingLost'
  <1> USE DEF NothingLost, dataVars
  <1>1. CASE \E t \in Caller : StartCreate(t) \/ StartRejoin(t)
    BY <1>1, ZeroIsCount DEF StartCreate, StartRejoin, StartsStopped, Phases
  <1>2. CASE StopReset
    BY <1>2, ThreadTypes DEF StopReset, Phases, Active, Caller
  <1>3. CASE \E p \in Producer : Push(p)
    BY <1>3 DEF Push, TypeInv, TypeOK, DataTypes, Count
  <1>4. CASE Run
    <2>1. CASE (\E p \in Producer : Drain(p)) \/ WriteOut
      BY <1>4, <2>1, RecordsMove, RunLeavesCallers
    <2>2. CASE UNCHANGED <<ring, buf, out, logged>>
      BY <2>2
    <2> QED
      BY <1>4, <2>1, <2>2
      DEF Run, WorkerTest, DrainCopy, Drained, Flush, FlushNot, Sleep, Wake, FinalFlush
  <1>5. CASE UNCHANGED <<ring, buf, out, logged>>
    BY <1>5
  <1> QED
    BY <1>1, <1>2, <1>3, <1>4, <1>5
    DEF Next, Inside, Start, Stop, Log, CallStart, CallStop, CallLog, StartLock, StartRun,
        StartSpawn, StopLock, StopJoin, CallOnce, Register

(* What stop() owes is covered by what is in the buffers, in the file, and  *)
(* in the rings the worker has still to look at.                           *)
LEMMA OwedCallers ==
    ASSUME TypeInv, OneStarter, StartsStopped, Phases, NothingLost, Owed,
           Next, ~Run
    PROVE  Owed'
  <1> USE ThreadTypes, BatchIsPositive
      DEF TypeInv, TypeOK, DataTypes, ControlTypes, Count, Owed, Late, Goto, Caller,
          startVars, workerVars, dataVars
  <1>1. CASE CallStart \/ CallStop   BY <1>1 DEF CallStart, CallStop
  <1>2. CASE \E p \in Producer : CallLog(p)   BY <1>2 DEF CallLog
  <1>3. CASE \E t \in Caller : StartLock(t) \/ StartRun(t)
    BY <1>3 DEF StartLock, StartRun
  <1>4. ASSUME NEW t \in Caller, StartRejoin(t) \/ StartCreate(t) \/ StartSpawn(t)
        PROVE  Owed'
    <2>1. pc[Owner] # "join" \/ t = Owner
      BY <1>4, OneAtATime DEF StartRejoin, StartCreate, StartSpawn, StartPc, StopPc
    <2> QED  BY <1>4, <2>1 DEF StartRejoin, StartCreate, StartSpawn
  <1>5. CASE StopLock
    <2>1. running_ => worker # "final" /\ ~final /\ Active
      <3>1. CASE Stable   BY <3>1 DEF Phases
      <3>2. CASE ~Stable
        <4>1. PICK t \in Caller : pc[t] \in {"create", "run", "spawn", "join", "reset"}
          BY <3>2 DEF Stable
        <4>2. t = Owner
          BY <1>5, <4>1, OneAtATime DEF StopLock, StartPc, StopPc
        <4> QED  BY <1>5, <4>1, <4>2 DEF StopLock
      <3> QED  BY <3>1, <3>2
    <2>2. \A p \in Producer : running_ =>
            due'[p] <= logged[p] /\ due'[p] <= out[p] + buf[p] + Batch
      BY <1>5 DEF StopLock, Least
    <2>3. UNCHANGED <<producers_, worker, final, local, logged, out, buf>> /\ \A p \in Producer : pc'[p] = pc[p]
      BY <1>5 DEF StopLock
    <2>4. pc'[Owner] = "join" => running_
      BY <1>5 DEF StopLock
    <2> QED  BY <2>1, <2>2, <2>3, <2>4 DEF Active
  <1>6. CASE StopJoin \/ StopReset   BY <1>6 DEF StopJoin, StopReset
  <1>7. CASE \E p \in Producer : CallOnce(p)   BY <1>7 DEF CallOnce
  <1>8. CASE \E p \in Producer : Register(p)   BY <1>8 DEF Register
  <1>9. CASE \E p \in Producer : Push(p)   BY <1>9 DEF Push
  <1> QED
    BY <1>1, <1>2, <1>3, <1>4, <1>5, <1>6, <1>7, <1>8, <1>9 DEF Next, Inside, Start, Stop, Log

LEMMA OwedRun ==
    ASSUME TypeInv, NothingLost, Phases, Owed, Run
    PROVE  Owed'
  <1>1. UNCHANGED <<pc, producers_, logged, due>>   BY RunLeavesCallers
  <1> USE BatchIsPositive, <1>1
      DEF TypeInv, TypeOK, DataTypes, ControlTypes, Count, Owed, Late, dataVars
  <1>2. CASE WorkerTest  BY <1>2 DEF WorkerTest
  <1>3. CASE DrainCopy
    BY <1>3, ZeroIsCount DEF DrainCopy, NothingLost
  <1>4. ASSUME NEW p \in Producer, Drain(p)
        PROVE  Owed'
    <2> DEFINE n == Least(ring[p], Batch)
    <2>1. n \in Nat /\ (n = Batch \/ n = ring[p])   BY DEF Least
    <2>2. /\ buf' = [buf EXCEPT ![p] = @ + n] /\ out' = out
          /\ local' = local \ {p} /\ UNCHANGED <<worker, final>>
      BY <1>4 DEF Drain
    <2>3. pc[Owner] = "join" => due[p] <= out[p] + buf[p] + n
      BY <2>1 DEF NothingLost
    <2> HIDE DEF n
    <2>4. \A q \in Producer : out[q] + buf[q] <= out'[q] + buf'[q]
      BY <2>1, <2>2
    <2>5. pc[Owner] = "join" => due[p] <= out'[p] + buf'[p]
      BY <2>1, <2>2, <2>3
    <2>6. out' \in Count /\ buf' \in Count   BY <1>4, RecordsMove
    <2> QED  BY <2>2, <2>4, <2>5, <2>6
  <1>5. CASE Drained     BY <1>5 DEF Drained
  <1>6. CASE Flush       BY <1>6, ZeroIsCount DEF Flush, WriteOut, Rest
  <1>7. CASE FlushNot    BY <1>7 DEF FlushNot, Rest
  <1>8. CASE Sleep       BY <1>8 DEF Sleep
  <1>9. CASE Wake        BY <1>9 DEF Wake
  <1>10. CASE FinalFlush  BY <1>10, ZeroIsCount DEF FinalFlush, WriteOut
  <1> QED  BY <1>2, <1>3, <1>4, <1>5, <1>6, <1>7, <1>8, <1>9, <1>10 DEF Run

LEMMA StopWritesStep ==
    ASSUME Inv, Next
    PROVE  StopWrites'
  <1> USE ThreadTypes DEF Inv, TypeInv, TypeOK, ControlTypes, StopWrites, Goto, Caller
  <1>1. CASE StopJoin
    <2>1. pc[Owner] = "join" /\ worker = "ended"
      BY <1>1 DEF StopJoin, Phases
    <2>2. \A p \in Producer : due[p] <= out[p]
      BY <2>1, ZeroIsCount DEF Owed, Late, Phases, Active, DataTypes, Count
    <2> QED  BY <1>1, <2>2 DEF StopJoin, dataVars, DataTypes, Count
  <1>2. CASE Run
    <2>1. pc[Owner] # "reset"
      BY <1>2 DEF Run, WorkerTest, DrainCopy, Drain, Drained, Flush, FlushNot, Sleep, Wake,
                  FinalFlush, Phases
    <2> QED  BY <1>2, <2>1, RunLeavesCallers
  <1>3. CASE CallStart \/ CallStop \/ StopReset
    BY <1>3 DEF CallStart, CallStop, StopReset
  <1>4. CASE StopLock   BY <1>4 DEF StopLock
  <1>5. CASE \E p \in Producer : CallLog(p)   BY <1>5 DEF CallLog, dataVars
  <1>6. CASE \E p \in Producer : CallOnce(p)   BY <1>6 DEF CallOnce, dataVars
  <1>7. CASE \E p \in Producer : Register(p)   BY <1>7 DEF Register, dataVars
  <1>8. CASE \E p \in Producer : Push(p)   BY <1>8 DEF Push, dataVars
  <1>9. CASE \E t \in Caller : Start(t)
    BY <1>9 DEF Start, StartLock, StartRejoin, StartCreate, StartRun, StartSpawn, dataVars
  <1> QED
    BY <1>1, <1>2, <1>3, <1>4, <1>5, <1>6, <1>7, <1>8, <1>9 DEF Next, Inside, Stop, Log

LEMMA InvInit == Init => Inv
  <1> SUFFICES ASSUME Init PROVE Inv
    OBVIOUS
  <1>1. TypeInv   BY TypeInit
  <1>2. OneStarter /\ StartsStopped /\ Phases
    BY ThreadTypes
    DEF Init, OneStarter, NoStartInLog, StartsStopped, Phases, Stable, Active, Caller, StartPc
  <1>3. NothingLost /\ Owed /\ StopWrites
    BY ThreadTypes, ZeroIsCount DEF Init, NothingLost, Owed, StopWrites, Caller
  <1> QED  BY <1>1, <1>2, <1>3 DEF Inv

LEMMA InvStep == Polite /\ Inv /\ [Next]_vars => Inv'
  <1> SUFFICES ASSUME Polite, Inv, [Next]_vars PROVE Inv'
    OBVIOUS
  <1>1. CASE Next
    <2>0. TypeInv /\ TypeOK   BY DEF Inv, TypeInv
    <2>1. TypeInv'   BY <1>1, <2>0, TypeStep
    <2>2. OneStarter' /\ StartsStopped'
      BY <1>1, <2>0, OneStarterStep, StartsStoppedStep DEF Inv
    <2>3. Phases'
      BY <1>1, <2>0, PhasesStart, PhasesStop, PhasesOther, PhasesRun DEF Inv, Next, Inside
    <2>4. NothingLost'   BY <1>1, NothingLostStep DEF Inv
    <2>5. Owed'   BY <1>1, OwedCallers, OwedRun DEF Inv
    <2>6. StopWrites'   BY <1>1, StopWritesStep
    <2> QED  BY <2>1, <2>2, <2>3, <2>4, <2>5, <2>6 DEF Inv
  <1>2. CASE UNCHANGED vars
    BY <1>2
    DEF Inv, TypeInv, TypeOK, DataTypes, ControlTypes, Bounded, OneStarter, NoStartInLog,
        StartsStopped, Phases, Stable, Active, NothingLost, Owed, Late, StopWrites,
        vars, startVars, workerVars, dataVars
  <1> QED  BY <1>1, <1>2

LEMMA Invariance == ASSUME Polite PROVE Spec => []Inv
  <1>1. Inv /\ [Next]_vars => Inv'   BY InvStep
  <1> QED  BY <1>1, InvInit, PTL DEF Spec

(* The worker never runs without its sinks, and nobody is about to destroy  *)
(* or replace them, or worker_, meanwhile: if no start() overlaps a start() *)
(* or stop(), or finds the logger running.                                 *)
THEOREM WorkerKeepsSinksAlways == ASSUME Polite PROVE Spec => []WorkerKeepsSinks
  <1>1. Inv => WorkerKeepsSinks
    <2> SUFFICES ASSUME Inv, Active PROVE sinks /\ \A t \in Caller : pc[t] \notin {"create", "run", "spawn", "reset"}
      BY DEF WorkerKeepsSinks, Active
    <2>1. \A t \in Caller : pc[t] \notin {"create", "run", "spawn", "reset"}
      BY DEF Inv, Phases, Active
    <2>2. CASE Stable   BY <2>1, <2>2 DEF Inv, Phases
    <2>3. CASE ~Stable  BY <2>1, <2>3 DEF Inv, Phases, Stable
    <2> QED  BY <2>2, <2>3
  <1> QED  BY <1>1, Invariance, PTL

(* No record that was pushed is lost between the ring and the file, and     *)
(* none is written twice, over any number of stops and starts.              *)
THEOREM NothingLostAlways == ASSUME Polite PROVE Spec => []NothingLost
  <1>1. Inv => NothingLost   BY DEF Inv
  <1> QED  BY <1>1, Invariance, PTL

(* stop() does not return before the worker has written what was in the     *)
(* rings when it was called, up to Batch records of each.                   *)
THEOREM StopWritesAlways == ASSUME Polite PROVE Spec => []StopWrites
  <1>1. Inv => StopWrites   BY DEF Inv
  <1> QED  BY <1>1, Invariance, PTL
-----------------------------------------------------------------------------
(* While call_once is under way, a producer is in start(). *)
OnceHasStarter == once = "doing" => \E p \in Producer : pc[p] \in StartPc

LEMMA OnceHasStarterStep ==
    ASSUME TypeOK, OneStarter, OnceHasStarter, Next
    PROVE  OnceHasStarter'
  <1> SUFFICES ASSUME once' = "doing" PROVE \E p \in Producer : pc'[p] \in StartPc
    BY DEF OnceHasStarter
  <1> USE ThreadTypes
      DEF TypeOK, ControlTypes, OneStarter, OnceHasStarter, Goto, Caller, StartPc, StopPc, LogPc
  <1>1. CASE CallStart \/ CallStop   BY <1>1 DEF CallStart, CallStop
  <1>2. CASE \E p \in Producer : CallLog(p)   BY <1>2 DEF CallLog
  <1>3. CASE \E t \in Caller : StartLock(t) \/ StartRejoin(t) \/ StartCreate(t) \/ StartRun(t)
    BY <1>3 DEF StartLock, StartRejoin, StartCreate, StartRun
  <1>4. ASSUME NEW t \in Caller, StartSpawn(t) PROVE \E p \in Producer : pc'[p] \in StartPc
    <2>1. PICK p \in Producer : pc[p] \in StartPc   BY <1>4 DEF StartSpawn
    <2>2. CASE joinable   BY <1>4, <2>1, <2>2 DEF StartSpawn
    <2>3. CASE ~joinable
      <3>1. t = Owner /\ pc'[p] = pc[p]   BY <1>4, <2>3 DEF StartSpawn
      <3> QED  BY <2>1, <3>1
    <2> QED  BY <2>2, <2>3
  <1>5. CASE Stop   BY <1>5 DEF Stop, StopLock, StopJoin, StopReset
  <1>6. ASSUME NEW p \in Producer, CallOnce(p) PROVE \E q \in Producer : pc'[q] \in StartPc
    <2>1. once = "no" /\ pc'[p] = "start"   BY <1>6 DEF CallOnce
    <2> QED  BY <2>1
  <1>7. CASE \E p \in Producer : Register(p) \/ Push(p)   BY <1>7 DEF Register, Push
  <1>8. CASE Run   BY <1>8, RunLeavesCallers
  <1> QED
    BY <1>1, <1>2, <1>3, <1>4, <1>5, <1>6, <1>7, <1>8 DEF Next, Inside, Start, Log

(* Who holds mu_ waits for nobody; and who waits for call_once waits for a  *)
(* thread that waits for mu_ at most.  So no circle can be closed.          *)
LEMMA NoCircle ==
    ASSUME TypeOK, StartsStopped, NEW S \in SUBSET Caller, S # {}
    PROVE  \E t \in S : \A u \in S : ~WaitsFor(t, u)
  <1>1. ASSUME NEW t \in Caller, NEW u \in Caller, mu_ = t PROVE ~WaitsFor(t, u)
    BY <1>1, ThreadTypes
    DEF TypeOK, StartsStopped, StartPc, WaitsFor, NeedsMutex, NeedsOnce, NeedsWorker
  <1>2. ASSUME NEW t \in Caller, NEW u \in Caller, pc[t] \in StartPc, WaitsFor(t, u) PROVE mu_ = u
    BY <1>2 DEF StartPc, WaitsFor, NeedsOnce
  <1>3. CASE mu_ \in S   BY <1>1, <1>3
  <1>4. CASE mu_ \notin S /\ \E t \in S : pc[t] \in StartPc
    <2>1. PICK t \in S : pc[t] \in StartPc   BY <1>4
    <2>2. \A u \in S : ~WaitsFor(t, u)   BY <1>2, <1>4, <2>1
    <2> QED  BY <2>2
  <1>5. CASE mu_ \notin S /\ \A t \in S : pc[t] \notin StartPc
    <2>1. PICK t \in S : TRUE   OBVIOUS
    <2>2. \A u \in S : ~WaitsFor(t, u)   BY <1>5 DEF WaitsFor
    <2> QED  BY <2>1, <2>2
  <1> QED  BY <1>3, <1>4, <1>5

(* start(), stop() and the log macros never wait for each other in a        *)
(* circle, for any number of producers: the safety that their return rests  *)
(* on.  Without the assumption it fails where start() joins under mu_.      *)
THEOREM NoCircularWaitAlways == ASSUME Polite PROVE Spec => []NoCircularWait
  <1>1. Init => OnceHasStarter   BY DEF Init, OnceHasStarter
  <1>2. Inv /\ OnceHasStarter /\ [Next]_vars => OnceHasStarter'
    <2> SUFFICES ASSUME Inv, OnceHasStarter, [Next]_vars PROVE OnceHasStarter'
      OBVIOUS
    <2>1. CASE Next   BY <2>1, OnceHasStarterStep DEF Inv, TypeInv
    <2>2. CASE UNCHANGED vars   BY <2>2 DEF vars, OnceHasStarter
    <2> QED  BY <2>1, <2>2
  <1>3. Inv /\ OnceHasStarter => NoCircularWait
    <2> SUFFICES ASSUME Inv, OnceHasStarter PROVE NoCircularWait
      OBVIOUS
    <2>1. \A S \in SUBSET Caller : S # {} => \E t \in S : \A u \in S : ~WaitsFor(t, u)
      BY NoCircle DEF Inv, TypeInv
    <2>2. \A t \in Caller : NeedsOnce(t) => \E u \in Producer : pc[u] \in StartPc
      BY DEF NeedsOnce, OnceHasStarter
    <2>3. \A t \in Caller : NeedsWorker(t) => worker # "none"
      BY DEF NeedsWorker, Inv, StartsStopped, Phases
    <2> QED  BY <2>1, <2>2, <2>3 DEF NoCircularWait
  <1> QED  BY <1>1, <1>2, <1>3, Invariance, PTL DEF Spec
=============================================================================
