------------------------ MODULE ServerLifecycleProofs ------------------------
(***************************************************************************)
(* Proofs about ServerLifecycle, for any number of threads that call stop() *)
(* while the owner joins and destroys the server: the loop has ended before *)
(* the members go; and, unless a stop() was so early that it found          *)
(* running_ set before startInThread() had returned and the loop had begun, *)
(* ~thread never finds a thread that is joinable.  The argument for the     *)
(* second: from the assignment of serverThread_ on, until it is joined,     *)
(* running_ is still set or the one call of stop() that cleared it has not  *)
(* come back.  And whoever joins the loop's thread has told the loop to end. *)
(***************************************************************************)
EXTENDS ServerLifecycle, TLAPS

Early == pc[Owner] \in {"start", "set", "spawn"}
Late  == pc[Owner] \in StopPc \cup {"awaiting", "members", "pool", "destroyed"}

(* What the loop and its thread are while the owner is where it is. *)
Phases ==
    /\ Early => loopPc = "none"
    /\ pc[Owner] = "keep" => ~Blocking
    /\ ~Blocking /\ Late => thread # "none"
    /\ Blocking => thread = "none" /\ (Late => loopPc = "ended")
    /\ \A t \in Caller : Joining(t) => thread # "none"
    /\ thread = "joined" => loopPc = "ended"
    /\ pc[Owner] \in {"pool", "destroyed"} <=> ~members
    /\ ~members => thread # "joinable"

(* The owner finds running_ cleared once it is past the test of stop(). *)
Cleared == pc[Owner] \in {"quit", "join", "joining", "members", "pool", "destroyed"} => ~running_

(* Without a hasty stop(): once the owner has set running_, only a call of  *)
(* stop() that will join serverThread_ clears it.                          *)
SomeoneJoins == ~hasty =>
    /\ pc[Owner] \in {"spawn", "keep"} /\ ~Blocking => running_
    /\ pc[Owner] \in Starting => \A t \in Stopper : pc[t] \in {"ready", "test", "returned"}
    /\ thread = "joinable" => running_ \/ \E t \in Caller : pc[t] \in {"quit", "join", "joining"}

Inv == TypeOK /\ Phases /\ Cleared
-----------------------------------------------------------------------------
LEMMA CallersDiffer == Owner \notin Stopper /\ Caller = {Owner} \cup Stopper
  BY OwnerIsNoStopper DEF Caller

(* The steps of the pool keep its types and touch nothing else. *)
LEMMA PoolTypes ==
    ASSUME TypeOK,
           \/ Pool!Submit(Remove) \/ Pool!Close
           \/ \E w \in Worker : Pool!Start(w) \/ Pool!Finish(w)
    PROVE  queue' \in Seq({Remove}) /\ running' \in [Worker -> {Remove, Idle}] /\ open' \in BOOLEAN
  <1> USE DEF TypeOK
  <1>1. CASE Pool!Submit(Remove)   BY <1>1 DEF Pool!Submit, Pool!Put
  <1>2. CASE Pool!Close   BY <1>2 DEF Pool!Close
  <1>3. ASSUME NEW w \in Worker, Pool!Start(w)
        PROVE  queue' \in Seq({Remove}) /\ running' \in [Worker -> {Remove, Idle}] /\ open' \in BOOLEAN
    <2>1. Head(queue) = Remove /\ Tail(queue) \in Seq({Remove})
      BY <1>3 DEF Pool!Start, Pool!Take
    <2> QED  BY <1>3, <2>1 DEF Pool!Start, Pool!Take
  <1>4. ASSUME NEW w \in Worker, Pool!Finish(w)
        PROVE  queue' \in Seq({Remove}) /\ running' \in [Worker -> {Remove, Idle}] /\ open' \in BOOLEAN
    BY <1>4 DEF Pool!Finish, Pool!Retire
  <1> QED  BY <1>1, <1>2, <1>3, <1>4

(* A call of stop() or join(), and the threads that could disturb it. *)
CallStep(t) == CallStop(t) \/ StopStep(t) \/ JoinThrows(t)

LEMMA TypeStep ==
    ASSUME TypeOK, Phases, Next
    PROVE  TypeOK'
  <1> USE CallersDiffer, Options
      DEF TypeOK, Goto, StopperPc, OwnerPc, Starting, StopPc, poolVars
  <1>1. CASE LoopEntry \/ LoopTest   BY <1>1 DEF LoopEntry, LoopTest
  <1>2. CASE LoopPoll                BY <1>2, PoolTypes DEF LoopPoll
  <1>3. CASE StartTest \/ StartSet   BY <1>3 DEF StartTest, StartSet
  <1>4. CASE SpawnThread \/ KeepThread   BY <1>4 DEF SpawnThread, KeepThread, Phases, Early
  <1>5. CASE DestroyThread           BY <1>5 DEF DestroyThread
  <1>6. CASE ClosePool               BY <1>6, PoolTypes DEF ClosePool, Pool!Close
  <1>7. CASE JoinPool                BY <1>7 DEF JoinPool
  <1>8. CASE CallJoin                BY <1>8 DEF CallJoin, Started
  <1>9. ASSUME NEW t \in Caller, CallStep(t)
        PROVE  TypeOK'
    <2>1. CASE CallStop(t)    BY <2>1 DEF CallStop, Started
    <2>2. CASE StopTest(t)    BY <2>2 DEF StopTest, Back
    <2>3. CASE StopClear(t)   BY <2>3 DEF StopClear
    <2>4. CASE StopQuit(t)    BY <2>4 DEF StopQuit
    <2>5. CASE JoinTest(t)    BY <2>5 DEF JoinTest, Back
    <2>6. CASE Join(t)        BY <2>6 DEF Phases, Join, Joining, Back
    <2>7. CASE JoinThrows(t)  BY <2>7 DEF JoinThrows
    <2> QED  BY <1>9, <2>1, <2>2, <2>3, <2>4, <2>5, <2>6, <2>7 DEF CallStep, StopStep
  <1>10. CASE \E w \in Worker : RunTask(w)   BY <1>10, PoolTypes DEF RunTask
  <1> QED
    BY <1>1, <1>2, <1>3, <1>4, <1>5, <1>6, <1>7, <1>8, <1>9, <1>10
    DEF Next, LoopStep, OwnerStep, CallStep

LEMMA PhasesStep ==
    ASSUME TypeOK, Phases, Cleared, Next
    PROVE  Phases' /\ Cleared'
  <1> USE CallersDiffer
      DEF TypeOK, Phases, Cleared, Early, Late, Joining, Goto, StopperPc, OwnerPc, Starting, StopPc
  <1>1. CASE LoopEntry \/ LoopTest \/ LoopPoll   BY <1>1 DEF LoopEntry, LoopTest, LoopPoll
  <1>2. CASE StartTest \/ StartSet   BY <1>2 DEF StartTest, StartSet
  <1>7. CASE SpawnThread \/ KeepThread   BY <1>7 DEF SpawnThread, KeepThread
  <1>3. CASE DestroyThread \/ ClosePool \/ JoinPool
    BY <1>3 DEF DestroyThread, ClosePool, JoinPool
  <1>4. CASE CallJoin                BY <1>4 DEF CallJoin, Started
  <1>5. ASSUME NEW t \in Caller, CallStep(t)
        PROVE  Phases' /\ Cleared'
    <2>1. CASE CallStop(t)    BY <2>1 DEF CallStop, Started
    <2>2. CASE StopTest(t)    BY <2>2 DEF StopTest, Back
    <2>3. CASE StopClear(t)   BY <2>3 DEF StopClear
    <2>4. CASE StopQuit(t)    BY <2>4 DEF StopQuit
    <2>5. CASE JoinTest(t)    BY <2>5 DEF JoinTest, Back
    <2>6. CASE Join(t)        BY <2>6 DEF Join, Joining, Back
    <2>7. CASE JoinThrows(t)  BY <2>7 DEF JoinThrows
    <2> QED  BY <1>5, <2>1, <2>2, <2>3, <2>4, <2>5, <2>6, <2>7 DEF CallStep, StopStep
  <1>6. CASE \E w \in Worker : RunTask(w)   BY <1>6 DEF RunTask
  <1> QED
    BY <1>1, <1>2, <1>7, <1>3, <1>4, <1>5, <1>6 DEF Next, LoopStep, OwnerStep, CallStep

LEMMA SomeoneJoinsStep ==
    ASSUME TypeOK, Phases, SomeoneJoins, Next
    PROVE  SomeoneJoins'
  <1> USE CallersDiffer
      DEF TypeOK, Phases, SomeoneJoins, Early, Goto, StopperPc, OwnerPc, Starting, StopPc
  <1>1. CASE LoopEntry \/ LoopTest \/ LoopPoll   BY <1>1 DEF LoopEntry, LoopTest, LoopPoll
  <1>2. CASE StartTest \/ StartSet   BY <1>2 DEF StartTest, StartSet
  <1>7. CASE SpawnThread \/ KeepThread   BY <1>7 DEF SpawnThread, KeepThread
  <1>3. CASE DestroyThread \/ ClosePool \/ JoinPool
    BY <1>3 DEF DestroyThread, ClosePool, JoinPool
  <1>4. CASE CallJoin                BY <1>4 DEF CallJoin, Started
  <1>5. ASSUME NEW t \in Caller, CallStep(t)
        PROVE  SomeoneJoins'
    <2>1. CASE CallStop(t)    BY <2>1 DEF CallStop, Started
    <2>2. CASE StopTest(t)    BY <2>2 DEF StopTest, Begun, Back
    <2>3. CASE StopClear(t)   BY <2>3 DEF StopClear
    <2>4. CASE StopQuit(t)    BY <2>4 DEF StopQuit
    <2>5. CASE JoinTest(t)    BY <2>5 DEF JoinTest, Back
    <2>6. CASE Join(t)        BY <2>6 DEF Join, Joining, Back
    <2>7. CASE JoinThrows(t)  BY <2>7 DEF JoinThrows
    <2> QED  BY <1>5, <2>1, <2>2, <2>3, <2>4, <2>5, <2>6, <2>7 DEF CallStep, StopStep
  <1>6. CASE \E w \in Worker : RunTask(w)   BY <1>6 DEF RunTask
  <1> QED
    BY <1>1, <1>2, <1>7, <1>3, <1>4, <1>5, <1>6 DEF Next, LoopStep, OwnerStep, CallStep
-----------------------------------------------------------------------------
LEMMA InvInit == Init => Inv /\ SomeoneJoins
  <1> SUFFICES ASSUME Init PROVE Inv /\ SomeoneJoins
    OBVIOUS
  <1> USE CallersDiffer, Options DEF Init, Pool!Init
  <1>1. TypeOK
    <2>1. pc \in [Caller -> StopperPc \cup OwnerPc]   BY DEF StopperPc, OwnerPc, Starting
    <2>2. pc[Owner] \in OwnerPc /\ \A t \in Stopper : pc[t] \in StopperPc
      BY DEF StopperPc, OwnerPc, Starting
    <2>3. queue \in Seq({Remove}) /\ running \in [Worker -> {Remove, Idle}]
      OBVIOUS
    <2>4. removals \in 0..MaxRemovals   OBVIOUS
    <2>5. thread = "none" /\ pc[Owner] \in Starting   BY DEF Starting
    <2>6. {running_, quit_, members, hasty, open} \subseteq BOOLEAN   OBVIOUS
    <2> QED  BY <2>1, <2>2, <2>3, <2>4, <2>5, <2>6 DEF TypeOK
  <1>2. Phases /\ Cleared   BY DEF Phases, Cleared, Early, Late, Joining, StopPc
  <1>3. SomeoneJoins   BY DEF SomeoneJoins, Starting
  <1> QED  BY <1>1, <1>2, <1>3 DEF Inv

LEMMA Unchanged == (Inv /\ UNCHANGED vars => Inv') /\ (SomeoneJoins /\ UNCHANGED vars => SomeoneJoins')
  BY DEF vars, poolVars, Inv, TypeOK, Phases, Cleared, Early, Late, Joining, SomeoneJoins

LEMMA Invariance == Spec => []Inv
  <1>1. Inv /\ [Next]_vars => Inv'
    BY TypeStep, PhasesStep, Unchanged DEF Inv
  <1> QED  BY <1>1, InvInit, PTL DEF Spec

(* Every variable keeps its type, and serverThread_ is set from the return   *)
(* of startInThread() on, and not before.                                  *)
THEOREM TypeCorrect == Spec => []TypeOK
  <1>1. Inv => TypeOK   BY DEF Inv
  <1> QED  BY <1>1, Invariance, PTL

(* The loop, which uses conns_ and the callbacks, has ended before the      *)
(* members of the server are destroyed, however many threads call stop(),   *)
(* and however early.                                                      *)
THEOREM LoopEndsFirstAlways == Spec => []LoopEndsFirst
  <1>1. Inv => LoopEndsFirst
    BY DEF Inv, TypeOK, Phases, Late, LoopEndsFirst
  <1> QED  BY <1>1, Invariance, PTL

(* ~thread never finds the thread joinable, unless a stop() was hasty.      *)
THEOREM ThreadIsJoinedAlways == Spec => []ThreadIsJoined
  <1>1. Inv /\ SomeoneJoins /\ [Next]_vars => SomeoneJoins'
    BY SomeoneJoinsStep, Unchanged DEF Inv
  <1>2. Inv /\ SomeoneJoins => ThreadIsJoined
    BY CallersDiffer DEF Inv, Cleared, SomeoneJoins, ThreadIsJoined, Outside
  <1> QED  BY <1>1, <1>2, InvInit, Invariance, PTL DEF Spec
-----------------------------------------------------------------------------
(* Without a hasty stop(): before loop() has cleared quit_ no stop() is past *)
(* its test of running_, and past quit() it is set for good.               *)
Heard == ~hasty =>
    /\ ~Begun => \A t \in Caller : pc[t] \notin {"clear", "quit", "join", "joining"}
    /\ \A t \in Caller : pc[t] \in {"join", "joining"} => quit_

LEMMA HeardStep ==
    ASSUME TypeOK, Phases, Heard, Next
    PROVE  Heard'
  <1> USE CallersDiffer DEF TypeOK, Phases, Heard, Begun, Early, Goto, StopperPc, OwnerPc, Starting, StopPc
  <1>1. CASE LoopEntry \/ LoopTest \/ LoopPoll   BY <1>1 DEF LoopEntry, LoopTest, LoopPoll
  <1>2. CASE StartTest \/ StartSet   BY <1>2 DEF StartTest, StartSet
  <1>7. CASE SpawnThread \/ KeepThread   BY <1>7 DEF SpawnThread, KeepThread
  <1>3. CASE DestroyThread \/ ClosePool \/ JoinPool
    BY <1>3 DEF DestroyThread, ClosePool, JoinPool
  <1>4. CASE CallJoin                BY <1>4 DEF CallJoin
  <1>5. ASSUME NEW t \in Caller, CallStep(t)
        PROVE  Heard'
    <2>1. CASE CallStop(t)    BY <2>1 DEF CallStop, Started
    <2>2. CASE StopTest(t)    BY <2>2 DEF StopTest, Back
    <2>3. CASE StopClear(t)   BY <2>3 DEF StopClear
    <2>4. CASE StopQuit(t)    BY <2>4 DEF StopQuit
    <2>5. CASE JoinTest(t)    BY <2>5 DEF JoinTest, Back
    <2>6. CASE Join(t)        BY <2>6 DEF Join, Joining, Back
    <2>7. CASE JoinThrows(t)  BY <2>7 DEF JoinThrows
    <2> QED  BY <1>5, <2>1, <2>2, <2>3, <2>4, <2>5, <2>6, <2>7 DEF CallStep, StopStep
  <1>6. CASE \E w \in Worker : RunTask(w)   BY <1>6 DEF RunTask
  <1> QED
    BY <1>1, <1>2, <1>7, <1>3, <1>4, <1>5, <1>6 DEF Next, LoopStep, OwnerStep, CallStep

(* Whoever joins in stop() waits for a loop that will see quit_: no loop    *)
(* that begins late takes the request back, unless a stop() was hasty.  The *)
(* return of stop() rests on it.                                           *)
THEOREM QuitIsHeardAlways == Spec => []QuitIsHeard
  <1>1. Init => Heard
    BY CallersDiffer DEF Init, Heard, Begun, Starting
  <1>2. Inv /\ Heard /\ [Next]_vars => Heard'
    <2> SUFFICES ASSUME Inv, Heard, [Next]_vars PROVE Heard'
      OBVIOUS
    <2>1. CASE Next   BY <2>1, HeardStep DEF Inv
    <2>2. CASE UNCHANGED vars   BY <2>2 DEF vars, Heard, Begun
    <2> QED  BY <2>1, <2>2
  <1>3. Inv /\ Heard => QuitIsHeard
    BY DEF Inv, TypeOK, Heard, Begun, QuitIsHeard
  <1> QED  BY <1>1, <1>2, <1>3, InvInit, Invariance, PTL DEF Spec
=============================================================================
