----------------------------- MODULE ThreadPool -----------------------------
(***************************************************************************)
(* kenet's ThreadPool with its mutex and its condition variable: the        *)
(* workers' loop, enqueue called by any number of threads at a time, and    *)
(* the destructor, which may start while calls of enqueue are in progress.  *)
(*                                                                         *)
(* A task stands for one call of enqueue: call[t] is how far the call has   *)
(* come, and the same t is then what lies in tasks_ and what a worker runs. *)
(* Whether a task returns or throws makes no difference to the pool.  As    *)
(* for every C++ object, no call may begin after the destructor has         *)
(* returned, and none may still be inside then.                             *)
(***************************************************************************)
EXTENDS Naturals, Sequences, FiniteSets

CONSTANTS
    Task,     \* the calls of enqueue
    Worker,   \* workers_
    Idle,     \* no task
    Dtor,     \* the thread in ~ThreadPool, as an owner of mutex_
    Nobody    \* mutex_ is free

ASSUME OwnersAreDistinct ==
    /\ Worker \cap Task = {}
    /\ Idle \notin Task
    /\ Dtor \notin Worker \cup Task
    /\ Nobody \notin Worker \cup Task \cup {Dtor}
(* ThreadPool() asks hardware_concurrency(), which may say 0; EventLoop asks *)
(* for 4 workers.                                                            *)
ASSUME SomeWorker == Worker # {}

VARIABLES
    tasks,    \* tasks_, front first
    stop,     \* stop_
    mutex,    \* who holds mutex_
    pc,       \* pc[w]: where worker w is in its loop; "wait" is condition_'s wait set
    running,  \* running[w]: the local variable task of worker w
    call,     \* call[t]: where the call of enqueue is
    dtor,     \* where the destructor is
    starts    \* starts[t]: how often t was started, for the properties

vars == <<tasks, stop, mutex, pc, running, call, dtor, starts>>

TypeOK ==
    /\ tasks \in Seq(Task)
    /\ stop \in BOOLEAN
    /\ mutex \in Worker \cup Task \cup {Dtor, Nobody}
    /\ pc \in [Worker -> {"lock", "test", "block", "wait", "go", "run", "exited"}]
    /\ running \in [Worker -> Task \cup {Idle}]
    /\ call \in [Task -> {"new", "locked", "notify", "done", "threw"}]
    /\ dtor \in {"alive", "lock", "locked", "notify", "join", "destroyed"}
    /\ starts \in [Task -> {0, 1}]

Init ==
    /\ tasks = <<>>
    /\ stop = FALSE
    /\ mutex = Nobody
    /\ pc = [w \in Worker |-> "lock"]
    /\ running = [w \in Worker |-> Idle]
    /\ call = [t \in Task |-> "new"]
    /\ dtor = "alive"
    /\ starts = [t \in Task |-> 0]
-----------------------------------------------------------------------------
(* The loop of a worker. *)

(* The unique_lock, and the lock that condition_.wait takes again. *)
Lock(w) ==
    /\ pc[w] = "lock" /\ mutex = Nobody
    /\ mutex' = w
    /\ pc' = [pc EXCEPT ![w] = "test"]
    /\ UNCHANGED <<tasks, stop, running, call, dtor, starts>>

(* The predicate of condition_.wait. *)
Test(w) ==
    /\ pc[w] = "test"
    /\ pc' = [pc EXCEPT ![w] = IF stop \/ tasks # <<>> THEN "go" ELSE "block"]
    /\ UNCHANGED <<tasks, stop, mutex, running, call, dtor, starts>>

(* condition_.wait releases mutex_ and joins the wait set in one step. *)
Block(w) ==
    /\ pc[w] = "block"
    /\ mutex' = Nobody
    /\ pc' = [pc EXCEPT ![w] = "wait"]
    /\ UNCHANGED <<tasks, stop, running, call, dtor, starts>>

(* A condition variable may wake a thread although nobody notified it. *)
WakeSpuriously(w) ==
    /\ pc[w] = "wait"
    /\ pc' = [pc EXCEPT ![w] = "lock"]
    /\ UNCHANGED <<tasks, stop, mutex, running, call, dtor, starts>>

(* A variant: a worker that leaves as soon as it sees stop_. *)
ExitAtOnce(w) ==
    /\ pc[w] = "go" /\ stop
    /\ mutex' = Nobody
    /\ pc' = [pc EXCEPT ![w] = "exited"]
    /\ UNCHANGED <<tasks, stop, running, call, dtor, starts>>

Exit(w) ==
    /\ pc[w] = "go" /\ stop /\ tasks = <<>>
    /\ mutex' = Nobody
    /\ pc' = [pc EXCEPT ![w] = "exited"]
    /\ UNCHANGED <<tasks, stop, running, call, dtor, starts>>

(* Variants: the newest task first; the front is copied and not popped. *)
TakeNewest(w) ==
    /\ pc[w] = "go" /\ tasks # <<>>
    /\ running' = [running EXCEPT ![w] = tasks[Len(tasks)]]
    /\ tasks' = SubSeq(tasks, 1, Len(tasks) - 1)
    /\ starts' = [starts EXCEPT ![tasks[Len(tasks)]] = @ + 1]
    /\ mutex' = Nobody
    /\ pc' = [pc EXCEPT ![w] = "run"]
    /\ UNCHANGED <<stop, call, dtor>>

TakeUnpopped(w) ==
    /\ pc[w] = "go" /\ tasks # <<>>
    /\ starts[Head(tasks)] < 2
    /\ running' = [running EXCEPT ![w] = Head(tasks)]
    /\ tasks' = IF starts[Head(tasks)] = 1 THEN Tail(tasks) ELSE tasks
    /\ starts' = [starts EXCEPT ![Head(tasks)] = @ + 1]
    /\ mutex' = Nobody
    /\ pc' = [pc EXCEPT ![w] = "run"]
    /\ UNCHANGED <<stop, call, dtor>>

(* task = move(tasks_.front()); tasks_.pop(); and the lock is released. *)
Take(w) ==
    /\ pc[w] = "go" /\ tasks # <<>>
    /\ running' = [running EXCEPT ![w] = Head(tasks)]
    /\ tasks' = Tail(tasks)
    /\ starts' = [starts EXCEPT ![Head(tasks)] = @ + 1]
    /\ mutex' = Nobody
    /\ pc' = [pc EXCEPT ![w] = "run"]
    /\ UNCHANGED <<stop, call, dtor>>

(* task() returns, or throws and is caught. *)
Finish(w) ==
    /\ pc[w] = "run"
    /\ running' = [running EXCEPT ![w] = Idle]
    /\ pc' = [pc EXCEPT ![w] = "lock"]
    /\ UNCHANGED <<tasks, stop, mutex, call, dtor, starts>>
-----------------------------------------------------------------------------
(* ThreadPool::enqueue. *)

EnqueueLock(t) ==
    /\ dtor # "destroyed"
    /\ call[t] = "new" /\ mutex = Nobody
    /\ mutex' = t
    /\ call' = [call EXCEPT ![t] = "locked"]
    /\ UNCHANGED <<tasks, stop, pc, running, dtor, starts>>

(* throw std::runtime_error("enqueue on stopped ThreadPool") *)
EnqueueThrow(t) ==
    /\ call[t] = "locked" /\ stop
    /\ mutex' = Nobody
    /\ call' = [call EXCEPT ![t] = "threw"]
    /\ UNCHANGED <<tasks, stop, pc, running, dtor, starts>>

EnqueueEmplace(t) ==
    /\ call[t] = "locked" /\ ~stop
    /\ tasks' = Append(tasks, t)
    /\ mutex' = Nobody
    /\ call' = [call EXCEPT ![t] = "notify"]
    /\ UNCHANGED <<stop, pc, running, dtor, starts>>

(* condition_.notify_one wakes one waiting worker, if there is one. *)
EnqueueNotify(t) ==
    /\ call[t] = "notify"
    /\ call' = [call EXCEPT ![t] = "done"]
    /\ \/ \E w \in Worker : pc[w] = "wait" /\ pc' = [pc EXCEPT ![w] = "lock"]
       \/ (\A w \in Worker : pc[w] # "wait") /\ UNCHANGED pc
    /\ UNCHANGED <<tasks, stop, mutex, running, dtor, starts>>
-----------------------------------------------------------------------------
(* ThreadPool::~ThreadPool. *)

DtorBegin ==
    /\ dtor = "alive"
    /\ dtor' = "lock"
    /\ UNCHANGED <<tasks, stop, mutex, pc, running, call, starts>>

(* A variant: the lock is not taken to set stop_. *)
DtorUnlocked ==
    /\ dtor = "lock"
    /\ stop' = TRUE
    /\ dtor' = "notify"
    /\ UNCHANGED <<tasks, mutex, pc, running, call, starts>>

DtorLock ==
    /\ dtor = "lock" /\ mutex = Nobody
    /\ mutex' = Dtor
    /\ dtor' = "locked"
    /\ UNCHANGED <<tasks, stop, pc, running, call, starts>>

DtorStop ==
    /\ dtor = "locked"
    /\ stop' = TRUE
    /\ mutex' = Nobody
    /\ dtor' = "notify"
    /\ UNCHANGED <<tasks, pc, running, call, starts>>

(* A variant: notify_one, which wakes a single worker. *)
DtorNotifyOne ==
    /\ dtor = "notify"
    /\ dtor' = "join"
    /\ \/ \E w \in Worker : pc[w] = "wait" /\ pc' = [pc EXCEPT ![w] = "lock"]
       \/ (\A w \in Worker : pc[w] # "wait") /\ UNCHANGED pc
    /\ UNCHANGED <<tasks, stop, mutex, running, call, starts>>

DtorNotifyAll ==
    /\ dtor = "notify"
    /\ dtor' = "join"
    /\ pc' = [w \in Worker |-> IF pc[w] = "wait" THEN "lock" ELSE pc[w]]
    /\ UNCHANGED <<tasks, stop, mutex, running, call, starts>>

(* Every worker is joined; by contract no call of enqueue is still inside. *)
DtorJoin ==
    /\ dtor = "join"
    /\ \A w \in Worker : pc[w] = "exited"
    /\ \A t \in Task : call[t] \notin {"locked", "notify"}
    /\ dtor' = "destroyed"
    /\ UNCHANGED <<tasks, stop, mutex, pc, running, call, starts>>
-----------------------------------------------------------------------------
WorkerInside(w) == Test(w) \/ Block(w) \/ Exit(w) \/ Take(w)
CallInside(t)   == EnqueueThrow(t) \/ EnqueueEmplace(t) \/ EnqueueNotify(t)
DtorInside      == DtorStop \/ DtorNotifyAll \/ DtorJoin

Next ==
    \/ \E w \in Worker : Lock(w) \/ WorkerInside(w) \/ Finish(w) \/ WakeSpuriously(w)
    \/ \E t \in Task : EnqueueLock(t) \/ CallInside(t)
    \/ DtorBegin \/ DtorLock \/ DtorInside

Spec == Init /\ [][Next]_vars

(* No thread is suspended for ever, every task comes to an end, a free      *)
(* mutex_ is given to a thread that goes on asking for it, and spurious     *)
(* wake-ups do not go on for ever.  Nobody has to begin a call.             *)
Fairness ==
    /\ \A w \in Worker :
          WF_vars(Lock(w)) /\ WF_vars(WorkerInside(w)) /\ WF_vars(Finish(w))
    /\ \A t \in Task : WF_vars(CallInside(t))
    /\ WF_vars(DtorLock) /\ WF_vars(DtorInside)
    /\ <>[][\A w \in Worker : ~WakeSpuriously(w)]_vars

FairSpec == Spec /\ Fairness
-----------------------------------------------------------------------------
(* Properties. *)

Accepted(t) == call[t] \in {"notify", "done"}
Queued(t)   == \E i \in DOMAIN tasks : tasks[i] = t

(* An accepted task is started exactly once, never before it was accepted, *)
(* and a task whose enqueue threw never is.                                *)
StartedOnce ==
    \A t \in Task : starts[t] = IF Accepted(t) /\ ~Queued(t) THEN 1 ELSE 0

(* No wake-up is lost: with a task in the queue and a worker asleep, some  *)
(* thread is still bound to look at the queue or to notify; and once stop_ *)
(* is set, a worker sleeps only as long as the destructor has not notified. *)
NoLostWakeup ==
    /\ tasks # <<>> /\ (\E w \in Worker : pc[w] = "wait") =>
          \/ \E t \in Task : call[t] = "notify"
          \/ \E w \in Worker : pc[w] \in {"lock", "test", "go", "run"}
    /\ stop /\ (\E w \in Worker : pc[w] = "wait") => dtor = "notify"

(* The destructor drains: when it returns, every task that enqueue accepted *)
(* was started, and no worker is left that could run one.                   *)
DrainedAtDestroy ==
    dtor = "destroyed" =>
        /\ tasks = <<>>
        /\ \A t \in Task : Accepted(t) => starts[t] = 1
        /\ \A w \in Worker : running[w] = Idle

(* What runInLoop relies on: the pool is a queue of tasks that are started *)
(* in order, each by a worker of its own, until it is closed.              *)
Queue == INSTANCE TaskQueue WITH queue <- tasks, open <- ~stop
ImplementsTaskQueue == Queue!Spec

(* The destructor returns. *)
DtorReturns == dtor # "alive" ~> dtor = "destroyed"
=============================================================================
