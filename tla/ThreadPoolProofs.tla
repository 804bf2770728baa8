-------------------------- MODULE ThreadPoolProofs --------------------------
(***************************************************************************)
(* ThreadPool keeps its types, loses no wake-up, starts every accepted task *)
(* once, drains before it is destroyed and is a TaskQueue, for any number   *)
(* of workers and of calls.                                                *)
(*                                                                         *)
(* The inductive invariant Inv adds to the properties what the mutex        *)
(* protects: who is between lock and unlock (MutexInv), what a worker has   *)
(* learnt from the predicate while it holds the lock (TestInv), when stop_  *)
(* is set and what an exited worker proves (StopInv), and that the queue    *)
(* holds accepted tasks, none of them twice (QueueInv).                     *)
(***************************************************************************)
EXTENDS ThreadPool, QueueLemmas

MutexInv ==
    /\ \A w \in Worker : pc[w] \in {"test", "block", "go"} <=> mutex = w
    /\ \A t \in Task : call[t] = "locked" <=> mutex = t
    /\ dtor = "locked" <=> mutex = Dtor

TestInv ==
    \A w \in Worker :
        /\ pc[w] = "block" => ~stop /\ tasks = <<>>
        /\ pc[w] = "run" <=> running[w] # Idle

StopInv ==
    /\ stop <=> dtor \in {"notify", "join", "destroyed"}
    /\ \A w \in Worker : pc[w] = "exited" => stop /\ tasks = <<>>
    /\ stop /\ (\E w \in Worker : pc[w] = "wait") => dtor = "notify"
    /\ dtor = "destroyed" => \A w \in Worker : pc[w] = "exited"

QueueInv ==
    /\ \A i \in DOMAIN tasks : Accepted(tasks[i])
    /\ \A i, j \in DOMAIN tasks : tasks[i] = tasks[j] => i = j

Inv ==
    /\ TypeOK
    /\ MutexInv
    /\ TestInv
    /\ StopInv
    /\ QueueInv
    /\ StartedOnce
    /\ NoLostWakeup

(* Every step keeps the types; that starts[t] stays below 2 takes the rest of *)
(* the invariant.                                                           *)
LEMMA TypeStep == Inv /\ [Next]_vars => TypeOK'
<1> SUFFICES ASSUME Inv, [Next]_vars PROVE TypeOK'
  OBVIOUS
<1>a. TypeOK /\ QueueInv /\ StartedOnce
  BY DEF Inv
<1> USE <1>a, OwnersAreDistinct DEF TypeOK
<1>1. ASSUME NEW w \in Worker, Lock(w) PROVE TypeOK'
  BY <1>1 DEF Lock
<1>2. ASSUME NEW w \in Worker, Test(w) PROVE TypeOK'
  BY <1>2 DEF Test
<1>3. ASSUME NEW w \in Worker, Block(w) PROVE TypeOK'
  BY <1>3 DEF Block
<1>4. ASSUME NEW w \in Worker, Exit(w) PROVE TypeOK'
  BY <1>4 DEF Exit
<1>5. ASSUME NEW w \in Worker, Take(w) PROVE TypeOK'
  <2>1. Head(tasks) \in Task /\ Tail(tasks) \in Seq(Task) /\ tasks # <<>>
    BY <1>5 DEF Take
  <2>2. Queued(Head(tasks)) /\ Accepted(Head(tasks))
    BY <2>1 DEF Queued, QueueInv
  <2>3. starts[Head(tasks)] = 0
    BY <2>1, <2>2 DEF StartedOnce
  <2> QED
    BY <1>5, <2>1, <2>3 DEF Take
<1>6. ASSUME NEW w \in Worker, Finish(w) PROVE TypeOK'
  BY <1>6 DEF Finish
<1>7. ASSUME NEW w \in Worker, WakeSpuriously(w) PROVE TypeOK'
  BY <1>7 DEF WakeSpuriously
<1>8. ASSUME NEW t \in Task, EnqueueLock(t) PROVE TypeOK'
  BY <1>8 DEF EnqueueLock
<1>9. ASSUME NEW t \in Task, EnqueueThrow(t) PROVE TypeOK'
  BY <1>9 DEF EnqueueThrow
<1>10. ASSUME NEW t \in Task, EnqueueEmplace(t) PROVE TypeOK'
  BY <1>10 DEF EnqueueEmplace
<1>11. ASSUME NEW t \in Task, EnqueueNotify(t) PROVE TypeOK'
  BY <1>11 DEF EnqueueNotify
<1>12. CASE DtorBegin
  BY <1>12 DEF DtorBegin
<1>13. CASE DtorLock
  BY <1>13 DEF DtorLock
<1>14. CASE DtorStop
  BY <1>14 DEF DtorStop
<1>15. CASE DtorNotifyAll
  BY <1>15 DEF DtorNotifyAll
<1>16. CASE DtorJoin
  BY <1>16 DEF DtorJoin
<1>17. CASE UNCHANGED vars
  BY <1>17 DEF vars
<1> QED
  BY <1>1, <1>2, <1>3, <1>4, <1>5, <1>6, <1>7, <1>8, <1>9, <1>10, <1>11, <1>12, <1>13, <1>14, <1>15, <1>16, <1>17 DEF Next, WorkerInside, CallInside, DtorInside

(* The mutex has one owner, and the owner is where it must be. *)
LEMMA MutexStep == Inv /\ [Next]_vars => MutexInv'
<1> SUFFICES ASSUME Inv, [Next]_vars PROVE MutexInv'
  OBVIOUS
<1> USE OwnersAreDistinct DEF Inv, TypeOK, MutexInv
<1>1. ASSUME NEW w \in Worker, Lock(w) PROVE MutexInv'
  BY <1>1 DEF Lock
<1>2. ASSUME NEW w \in Worker, Test(w) PROVE MutexInv'
  BY <1>2 DEF Test
<1>3. ASSUME NEW w \in Worker, Block(w) PROVE MutexInv'
  BY <1>3 DEF Block
<1>4. ASSUME NEW w \in Worker, Exit(w) PROVE MutexInv'
  BY <1>4 DEF Exit
<1>5. ASSUME NEW w \in Worker, Take(w) PROVE MutexInv'
  BY <1>5 DEF Take
<1>6. ASSUME NEW w \in Worker, Finish(w) PROVE MutexInv'
  BY <1>6 DEF Finish
<1>7. ASSUME NEW w \in Worker, WakeSpuriously(w) PROVE MutexInv'
  BY <1>7 DEF WakeSpuriously
<1>8. ASSUME NEW t \in Task, EnqueueLock(t) PROVE MutexInv'
  BY <1>8 DEF EnqueueLock
<1>9. ASSUME NEW t \in Task, EnqueueThrow(t) PROVE MutexInv'
  BY <1>9 DEF EnqueueThrow
<1>10. ASSUME NEW t \in Task, EnqueueEmplace(t) PROVE MutexInv'
  BY <1>10 DEF EnqueueEmplace
<1>11. ASSUME NEW t \in Task, EnqueueNotify(t) PROVE MutexInv'
  BY <1>11 DEF EnqueueNotify
<1>12. CASE DtorBegin
  BY <1>12 DEF DtorBegin
<1>13. CASE DtorLock
  BY <1>13 DEF DtorLock
<1>14. CASE DtorStop
  BY <1>14 DEF DtorStop
<1>15. CASE DtorNotifyAll
  BY <1>15 DEF DtorNotifyAll
<1>16. CASE DtorJoin
  BY <1>16 DEF DtorJoin
<1>17. CASE UNCHANGED vars
  BY <1>17 DEF vars
<1> QED
  BY <1>1, <1>2, <1>3, <1>4, <1>5, <1>6, <1>7, <1>8, <1>9, <1>10, <1>11, <1>12, <1>13, <1>14, <1>15, <1>16, <1>17 DEF Next, WorkerInside, CallInside, DtorInside

(* What a worker saw under the lock stays true while it holds the lock. *)
LEMMA TestStep == Inv /\ [Next]_vars => TestInv'
<1> SUFFICES ASSUME Inv, [Next]_vars PROVE TestInv'
  OBVIOUS
<1> USE OwnersAreDistinct DEF Inv, TypeOK, MutexInv, TestInv
<1>1. ASSUME NEW w \in Worker, Lock(w) PROVE TestInv'
  BY <1>1 DEF Lock
<1>2. ASSUME NEW w \in Worker, Test(w) PROVE TestInv'
  BY <1>2 DEF Test
<1>3. ASSUME NEW w \in Worker, Block(w) PROVE TestInv'
  BY <1>3 DEF Block
<1>4. ASSUME NEW w \in Worker, Exit(w) PROVE TestInv'
  BY <1>4 DEF Exit
<1>5. ASSUME NEW w \in Worker, Take(w) PROVE TestInv'
  BY <1>5 DEF Take
<1>6. ASSUME NEW w \in Worker, Finish(w) PROVE TestInv'
  BY <1>6 DEF Finish
<1>7. ASSUME NEW w \in Worker, WakeSpuriously(w) PROVE TestInv'
  BY <1>7 DEF WakeSpuriously
<1>8. ASSUME NEW t \in Task, EnqueueLock(t) PROVE TestInv'
  BY <1>8 DEF EnqueueLock
<1>9. ASSUME NEW t \in Task, EnqueueThrow(t) PROVE TestInv'
  BY <1>9 DEF EnqueueThrow
<1>10. ASSUME NEW t \in Task, EnqueueEmplace(t) PROVE TestInv'
  BY <1>10 DEF EnqueueEmplace
<1>11. ASSUME NEW t \in Task, EnqueueNotify(t) PROVE TestInv'
  BY <1>11 DEF EnqueueNotify
<1>12. CASE DtorBegin
  BY <1>12 DEF DtorBegin
<1>13. CASE DtorLock
  BY <1>13 DEF DtorLock
<1>14. CASE DtorStop
  BY <1>14 DEF DtorStop
<1>15. CASE DtorNotifyAll
  BY <1>15 DEF DtorNotifyAll
<1>16. CASE DtorJoin
  BY <1>16 DEF DtorJoin
<1>17. CASE UNCHANGED vars
  BY <1>17 DEF vars
<1> QED
  BY <1>1, <1>2, <1>3, <1>4, <1>5, <1>6, <1>7, <1>8, <1>9, <1>10, <1>11, <1>12, <1>13, <1>14, <1>15, <1>16, <1>17 DEF Next, WorkerInside, CallInside, DtorInside

(* What stop_ and the exit of a worker entail. *)
LEMMA StopStep == Inv /\ [Next]_vars => StopInv'
<1> SUFFICES ASSUME Inv, [Next]_vars PROVE StopInv'
  OBVIOUS
<1> USE OwnersAreDistinct DEF Inv, TypeOK, MutexInv, TestInv, StopInv
<1>1. ASSUME NEW w \in Worker, Lock(w) PROVE StopInv'
  BY <1>1 DEF Lock
<1>2. ASSUME NEW w \in Worker, Test(w) PROVE StopInv'
  BY <1>2 DEF Test
<1>3. ASSUME NEW w \in Worker, Block(w) PROVE StopInv'
  BY <1>3 DEF Block
<1>4. ASSUME NEW w \in Worker, Exit(w) PROVE StopInv'
  BY <1>4 DEF Exit
<1>5. ASSUME NEW w \in Worker, Take(w) PROVE StopInv'
  BY <1>5 DEF Take
<1>6. ASSUME NEW w \in Worker, Finish(w) PROVE StopInv'
  BY <1>6 DEF Finish
<1>7. ASSUME NEW w \in Worker, WakeSpuriously(w) PROVE StopInv'
  BY <1>7 DEF WakeSpuriously
<1>8. ASSUME NEW t \in Task, EnqueueLock(t) PROVE StopInv'
  BY <1>8 DEF EnqueueLock
<1>9. ASSUME NEW t \in Task, EnqueueThrow(t) PROVE StopInv'
  BY <1>9 DEF EnqueueThrow
<1>10. ASSUME NEW t \in Task, EnqueueEmplace(t) PROVE StopInv'
  BY <1>10 DEF EnqueueEmplace
<1>11. ASSUME NEW t \in Task, EnqueueNotify(t) PROVE StopInv'
  BY <1>11 DEF EnqueueNotify
<1>12. CASE DtorBegin
  BY <1>12 DEF DtorBegin
<1>13. CASE DtorLock
  BY <1>13 DEF DtorLock
<1>14. CASE DtorStop
  BY <1>14 DEF DtorStop
<1>15. CASE DtorNotifyAll
  BY <1>15 DEF DtorNotifyAll
<1>16. CASE DtorJoin
  BY <1>16 DEF DtorJoin
<1>17. CASE UNCHANGED vars
  BY <1>17 DEF vars
<1> QED
  BY <1>1, <1>2, <1>3, <1>4, <1>5, <1>6, <1>7, <1>8, <1>9, <1>10, <1>11, <1>12, <1>13, <1>14, <1>15, <1>16, <1>17 DEF Next, WorkerInside, CallInside, DtorInside

(* The queue holds accepted tasks, each at one place. *)
LEMMA QueueStep == Inv /\ [Next]_vars => QueueInv'
<1> SUFFICES ASSUME Inv, [Next]_vars PROVE QueueInv'
  OBVIOUS
<1> USE OwnersAreDistinct DEF Inv, TypeOK, MutexInv, QueueInv, Accepted
<1>1. ASSUME NEW w \in Worker, Lock(w) PROVE QueueInv'
  BY <1>1 DEF Lock
<1>2. ASSUME NEW w \in Worker, Test(w) PROVE QueueInv'
  BY <1>2 DEF Test
<1>3. ASSUME NEW w \in Worker, Block(w) PROVE QueueInv'
  BY <1>3 DEF Block
<1>4. ASSUME NEW w \in Worker, Exit(w) PROVE QueueInv'
  BY <1>4 DEF Exit
<1>5. ASSUME NEW w \in Worker, Take(w) PROVE QueueInv'
  BY <1>5 DEF Take
<1>6. ASSUME NEW w \in Worker, Finish(w) PROVE QueueInv'
  BY <1>6 DEF Finish
<1>7. ASSUME NEW w \in Worker, WakeSpuriously(w) PROVE QueueInv'
  BY <1>7 DEF WakeSpuriously
<1>8. ASSUME NEW t \in Task, EnqueueLock(t) PROVE QueueInv'
  BY <1>8 DEF EnqueueLock
<1>9. ASSUME NEW t \in Task, EnqueueThrow(t) PROVE QueueInv'
  BY <1>9 DEF EnqueueThrow
<1>10. ASSUME NEW t \in Task, EnqueueEmplace(t) PROVE QueueInv'
  BY <1>10 DEF EnqueueEmplace
<1>11. ASSUME NEW t \in Task, EnqueueNotify(t) PROVE QueueInv'
  BY <1>11 DEF EnqueueNotify
<1>12. CASE DtorBegin
  BY <1>12 DEF DtorBegin
<1>13. CASE DtorLock
  BY <1>13 DEF DtorLock
<1>14. CASE DtorStop
  BY <1>14 DEF DtorStop
<1>15. CASE DtorNotifyAll
  BY <1>15 DEF DtorNotifyAll
<1>16. CASE DtorJoin
  BY <1>16 DEF DtorJoin
<1>17. CASE UNCHANGED vars
  BY <1>17 DEF vars
<1> QED
  BY <1>1, <1>2, <1>3, <1>4, <1>5, <1>6, <1>7, <1>8, <1>9, <1>10, <1>11, <1>12, <1>13, <1>14, <1>15, <1>16, <1>17 DEF Next, WorkerInside, CallInside, DtorInside

(* What the two operations on the queue do to the tasks in it. *)
LEMMA EmplaceQueued ==
    ASSUME tasks \in Seq(Task), NEW t \in Task, tasks' = Append(tasks, t)
    PROVE  \A u \in Task : Queued(u)' <=> Queued(u) \/ u = t
BY AppendOccurs DEF Queued

LEMMA TakeQueued ==
    ASSUME tasks \in Seq(Task), tasks # <<>>, tasks' = Tail(tasks),
           \A i, j \in DOMAIN tasks : tasks[i] = tasks[j] => i = j
    PROVE  \A u \in Task : Queued(u)' <=> Queued(u) /\ u # Head(tasks)
<1>1. \A u \in Task : Queued(u) <=> Queued(u)' \/ u = Head(tasks)
  BY TailOccurs DEF Queued
<1>2. \A u \in Task : Queued(u)' => u # Head(tasks)
  BY HeadLeaves DEF Queued
<1> QED
  BY <1>1, <1>2

(* A task is started at most once, and only after it was accepted. *)
LEMMA StartedOnceStep == Inv /\ [Next]_vars => StartedOnce'
<1> SUFFICES ASSUME Inv, [Next]_vars PROVE StartedOnce'
  OBVIOUS
<1> USE OwnersAreDistinct DEF Inv, TypeOK, MutexInv, QueueInv, StartedOnce, Accepted, Queued
<1>1. ASSUME NEW w \in Worker, Lock(w) PROVE StartedOnce'
  BY <1>1 DEF Lock
<1>2. ASSUME NEW w \in Worker, Test(w) PROVE StartedOnce'
  BY <1>2 DEF Test
<1>3. ASSUME NEW w \in Worker, Block(w) PROVE StartedOnce'
  BY <1>3 DEF Block
<1>4. ASSUME NEW w \in Worker, Exit(w) PROVE StartedOnce'
  BY <1>4 DEF Exit
<1>5. ASSUME NEW w \in Worker, Take(w) PROVE StartedOnce'
  <2>1. \A u \in Task : Queued(u)' <=> Queued(u) /\ u # Head(tasks)
    BY <1>5, TakeQueued DEF Take
  <2>2. Queued(Head(tasks)) /\ Head(tasks) \in Task /\ Accepted(Head(tasks))
    BY <1>5 DEF Take
  <2>3. \A u \in Task : Accepted(u)' <=> Accepted(u)
    BY <1>5 DEF Take
  <2>4. \A u \in Task : starts'[u] = IF u = Head(tasks) THEN starts[u] + 1 ELSE starts[u]
    BY <1>5, <2>2 DEF Take
  <2> HIDE DEF Queued, Accepted
  <2> QED
    BY <2>1, <2>2, <2>3, <2>4
<1>6. ASSUME NEW w \in Worker, Finish(w) PROVE StartedOnce'
  BY <1>6 DEF Finish
<1>7. ASSUME NEW w \in Worker, WakeSpuriously(w) PROVE StartedOnce'
  BY <1>7 DEF WakeSpuriously
<1>8. ASSUME NEW t \in Task, EnqueueLock(t) PROVE StartedOnce'
  BY <1>8 DEF EnqueueLock
<1>9. ASSUME NEW t \in Task, EnqueueThrow(t) PROVE StartedOnce'
  BY <1>9 DEF EnqueueThrow
<1>10. ASSUME NEW t \in Task, EnqueueEmplace(t) PROVE StartedOnce'
  <2>1. \A u \in Task : Queued(u)' <=> Queued(u) \/ u = t
    BY <1>10, EmplaceQueued DEF EnqueueEmplace
  <2>2. ~Accepted(t) /\ ~Queued(t)
    BY <1>10 DEF EnqueueEmplace
  <2>3. \A u \in Task : Accepted(u)' <=> Accepted(u) \/ u = t
    BY <1>10 DEF EnqueueEmplace
  <2>4. starts' = starts
    BY <1>10 DEF EnqueueEmplace
  <2> HIDE DEF Queued, Accepted
  <2> QED
    BY <2>1, <2>2, <2>3, <2>4
<1>11. ASSUME NEW t \in Task, EnqueueNotify(t) PROVE StartedOnce'
  BY <1>11 DEF EnqueueNotify
<1>12. CASE DtorBegin
  BY <1>12 DEF DtorBegin
<1>13. CASE DtorLock
  BY <1>13 DEF DtorLock
<1>14. CASE DtorStop
  BY <1>14 DEF DtorStop
<1>15. CASE DtorNotifyAll
  BY <1>15 DEF DtorNotifyAll
<1>16. CASE DtorJoin
  BY <1>16 DEF DtorJoin
<1>17. CASE UNCHANGED vars
  BY <1>17 DEF vars
<1> QED
  BY <1>1, <1>2, <1>3, <1>4, <1>5, <1>6, <1>7, <1>8, <1>9, <1>10, <1>11, <1>12, <1>13, <1>14, <1>15, <1>16, <1>17 DEF Next, WorkerInside, CallInside, DtorInside

(* No wake-up is lost. *)
LEMMA NoLostWakeupStep == Inv /\ [Next]_vars => NoLostWakeup'
<1> SUFFICES ASSUME Inv, [Next]_vars PROVE NoLostWakeup'
  OBVIOUS
<1> USE OwnersAreDistinct DEF Inv, TypeOK, MutexInv, TestInv, StopInv, NoLostWakeup
<1>1. ASSUME NEW w \in Worker, Lock(w) PROVE NoLostWakeup'
  BY <1>1 DEF Lock
<1>2. ASSUME NEW w \in Worker, Test(w) PROVE NoLostWakeup'
  BY <1>2 DEF Test
<1>3. ASSUME NEW w \in Worker, Block(w) PROVE NoLostWakeup'
  BY <1>3 DEF Block
<1>4. ASSUME NEW w \in Worker, Exit(w) PROVE NoLostWakeup'
  BY <1>4 DEF Exit
<1>5. ASSUME NEW w \in Worker, Take(w) PROVE NoLostWakeup'
  BY <1>5 DEF Take
<1>6. ASSUME NEW w \in Worker, Finish(w) PROVE NoLostWakeup'
  BY <1>6 DEF Finish
<1>7. ASSUME NEW w \in Worker, WakeSpuriously(w) PROVE NoLostWakeup'
  BY <1>7 DEF WakeSpuriously
<1>8. ASSUME NEW t \in Task, EnqueueLock(t) PROVE NoLostWakeup'
  BY <1>8 DEF EnqueueLock
<1>9. ASSUME NEW t \in Task, EnqueueThrow(t) PROVE NoLostWakeup'
  BY <1>9 DEF EnqueueThrow
<1>10. ASSUME NEW t \in Task, EnqueueEmplace(t) PROVE NoLostWakeup'
  BY <1>10 DEF EnqueueEmplace
<1>11. ASSUME NEW t \in Task, EnqueueNotify(t) PROVE NoLostWakeup'
  BY <1>11 DEF EnqueueNotify
<1>12. CASE DtorBegin
  BY <1>12 DEF DtorBegin
<1>13. CASE DtorLock
  BY <1>13 DEF DtorLock
<1>14. CASE DtorStop
  BY <1>14 DEF DtorStop
<1>15. CASE DtorNotifyAll
  BY <1>15 DEF DtorNotifyAll
<1>16. CASE DtorJoin
  BY <1>16 DEF DtorJoin
<1>17. CASE UNCHANGED vars
  BY <1>17 DEF vars
<1> QED
  BY <1>1, <1>2, <1>3, <1>4, <1>5, <1>6, <1>7, <1>8, <1>9, <1>10, <1>11, <1>12, <1>13, <1>14, <1>15, <1>16, <1>17 DEF Next, WorkerInside, CallInside, DtorInside
-----------------------------------------------------------------------------
LEMMA InvInit == Init => Inv
<1> SUFFICES ASSUME Init PROVE Inv
  OBVIOUS
<1> USE OwnersAreDistinct DEF Init
<1>1. TypeOK
  <2>1. tasks \in Seq(Task)
    OBVIOUS
  <2>2. pc \in [Worker -> {"lock", "test", "block", "wait", "go", "run", "exited"}]
    OBVIOUS
  <2>3. running \in [Worker -> Task \cup {Idle}] /\ starts \in [Task -> {0, 1}]
    OBVIOUS
  <2>4. call \in [Task -> {"new", "locked", "notify", "done", "threw"}]
    OBVIOUS
  <2> QED
    BY <2>1, <2>2, <2>3, <2>4 DEF TypeOK
<1>2. MutexInv /\ TestInv /\ StopInv /\ QueueInv
  BY DEF MutexInv, TestInv, StopInv, QueueInv
<1>3. StartedOnce /\ NoLostWakeup
  BY DEF StartedOnce, NoLostWakeup, Accepted, Queued
<1> QED
  BY <1>1, <1>2, <1>3 DEF Inv

LEMMA InvStep == Inv /\ [Next]_vars => Inv'
BY TypeStep, MutexStep, TestStep, StopStep, QueueStep, StartedOnceStep,
    NoLostWakeupStep DEF Inv

LEMMA Invariance == Spec => []Inv
BY InvInit, InvStep, PTL DEF Spec

(* Every variable of the pool keeps its type. *)
THEOREM TypeCorrect == Spec => []TypeOK
<1>1. Inv => TypeOK
  BY DEF Inv
<1> QED
  BY <1>1, Invariance, PTL

(* However many threads call enqueue and however the workers interleave, an *)
(* accepted task is started exactly once and a refused one never.           *)
THEOREM StartedExactlyOnce == Spec => []StartedOnce
<1>1. Inv => StartedOnce
  BY DEF Inv
<1> QED
  BY <1>1, Invariance, PTL

(* enqueue notifies after it has released the lock, and a worker tests the  *)
(* predicate before it sleeps: together they lose no wake-up.               *)
THEOREM NoWakeupIsLost == Spec => []NoLostWakeup
<1>1. Inv => NoLostWakeup
  BY DEF Inv
<1> QED
  BY <1>1, Invariance, PTL

(* ~ThreadPool returns only after every accepted task was run. *)
THEOREM DestructorDrains == Spec => []DrainedAtDestroy
<1>1. Inv => DrainedAtDestroy
  <2> SUFFICES ASSUME Inv, dtor = "destroyed"
               PROVE  /\ tasks = <<>>
                      /\ \A t \in Task : Accepted(t) => starts[t] = 1
                      /\ \A w \in Worker : running[w] = Idle
    BY DEF DrainedAtDestroy
  <2>1. \A w \in Worker : pc[w] = "exited"
    BY DEF Inv, StopInv
  <2>2. tasks = <<>>
    BY <2>1, SomeWorker DEF Inv, StopInv
  <2>3. \A t \in Task : Accepted(t) => starts[t] = 1
    BY <2>2 DEF Inv, StartedOnce, Queued
  <2>4. \A w \in Worker : running[w] = Idle
    BY <2>1 DEF Inv, TestInv
  <2> QED
    BY <2>2, <2>3, <2>4
<1> QED
  BY <1>1, Invariance, PTL
-----------------------------------------------------------------------------
(* The pool is a TaskQueue: emplacing submits, popping starts, the end of   *)
(* the task finishes, setting stop_ closes, and all the rest is invisible.  *)
LEMMA RefineInit == Init => Queue!Init
BY DEF Init, Queue!Init

LEMMA RefineStep == Inv /\ [Next]_vars => [Queue!Next]_(Queue!vars)
<1> SUFFICES ASSUME Inv, [Next]_vars PROVE [Queue!Next]_(Queue!vars)
  OBVIOUS
<1> USE DEF Queue!vars
<1>1. ASSUME NEW w \in Worker, Take(w) PROVE Queue!Next
  <2>1. running[w] = Idle
    BY <1>1 DEF Take, Inv, TestInv, TypeOK
  <2> QED
    BY <1>1, <2>1 DEF Take, Queue!Next, Queue!Start, Queue!Take
<1>2. ASSUME NEW w \in Worker, Finish(w) PROVE Queue!Next
  <2>1. running[w] # Idle
    BY <1>2 DEF Finish, Inv, TestInv
  <2> QED
    BY <1>2, <2>1 DEF Finish, Queue!Next, Queue!Finish, Queue!Retire
<1>3. ASSUME NEW t \in Task, EnqueueEmplace(t) PROVE Queue!Next
  BY <1>3 DEF EnqueueEmplace, Queue!Next, Queue!Submit, Queue!Put
<1>4. CASE DtorStop
  BY <1>4 DEF DtorStop, Queue!Next, Queue!Close, Inv, StopInv
<1>5. ASSUME NEW w \in Worker,
             Lock(w) \/ Test(w) \/ Block(w) \/ Exit(w) \/ WakeSpuriously(w)
      PROVE  UNCHANGED Queue!vars
  BY <1>5 DEF Lock, Test, Block, Exit, WakeSpuriously
<1>6. ASSUME NEW t \in Task, EnqueueLock(t) \/ EnqueueThrow(t) \/ EnqueueNotify(t)
      PROVE  UNCHANGED Queue!vars
  BY <1>6 DEF EnqueueLock, EnqueueThrow, EnqueueNotify
<1>7. ASSUME DtorBegin \/ DtorLock \/ DtorNotifyAll \/ DtorJoin
      PROVE  UNCHANGED Queue!vars
  BY <1>7 DEF DtorBegin, DtorLock, DtorNotifyAll, DtorJoin
<1>8. CASE UNCHANGED vars
  BY <1>8 DEF vars
<1> QED
  BY <1>1, <1>2, <1>3, <1>4, <1>5, <1>6, <1>7, <1>8
  DEF Next, WorkerInside, CallInside, DtorInside

(* Whatever holds of every safe behaviour of TaskQueue holds of the pool.   *)
THEOREM PoolIsTaskQueue == Spec => Queue!SafeSpec
BY RefineInit, RefineStep, Invariance, PTL DEF Spec, Queue!SafeSpec
=============================================================================
