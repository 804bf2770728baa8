------------------------------ MODULE TaskQueue ------------------------------
(***************************************************************************)
(* What kenet's ThreadPool promises to EventLoop::runInLoop: a task that    *)
(* is submitted while the pool is open is started exactly once, in the      *)
(* order of submission, by a worker that is doing nothing else.  Tasks of   *)
(* different workers overlap, and the pool promises no more than that.      *)
(*                                                                         *)
(* ThreadPool.tla is the detailed specification that implements this one;   *)
(* TcpServer.tla and TcpConnection.tla use its actions for the pool that    *)
(* EventLoop owns.                                                         *)
(***************************************************************************)
EXTENDS Sequences

CONSTANTS
    Task,      \* what is submitted: std::function<void()> values
    Worker,    \* the pool's threads (ThreadPool::workers_)
    Idle       \* the "task" of a worker that runs none; not in Task

VARIABLES
    queue,     \* ThreadPool::tasks_, oldest first
    running,   \* running[w]: the task worker w executes, or Idle
    open       \* ~ThreadPool::stop_

vars == <<queue, running, open>>

Init ==
    /\ queue = <<>>
    /\ running = [w \in Worker |-> Idle]
    /\ open = TRUE

(* The effect on the queue and the workers of each operation, for the       *)
(* specifications in which the pool stays open.                             *)
Put(t) ==
    /\ queue' = Append(queue, t)
    /\ UNCHANGED running

Take(w) ==
    /\ queue # <<>>
    /\ running[w] = Idle
    /\ running' = [running EXCEPT ![w] = Head(queue)]
    /\ queue' = Tail(queue)

Retire(w) ==
    /\ running[w] # Idle
    /\ running' = [running EXCEPT ![w] = Idle]
    /\ UNCHANGED queue

(* ThreadPool::enqueue, when it does not throw. *)
Submit(t) == open /\ Put(t) /\ UNCHANGED open

(* A worker moves the front of the queue out and pops it. *)
Start(w) == Take(w) /\ UNCHANGED open

(* The task returns or throws; the worker catches and goes on either way. *)
Finish(w) == Retire(w) /\ UNCHANGED open

(* ThreadPool::~ThreadPool sets stop_. *)
Close ==
    /\ open' = FALSE
    /\ UNCHANGED <<queue, running>>

Next ==
    \/ \E t \in Task : Submit(t)
    \/ \E w \in Worker : Start(w) \/ Finish(w)
    \/ Close

(* A queued task does not wait for ever while some worker could start it, *)
(* and a started task comes to an end.                                    *)
Fairness ==
    /\ WF_vars(\E w \in Worker : Start(w))
    /\ \A w \in Worker : WF_vars(Finish(w))

SafeSpec == Init /\ [][Next]_vars
Spec     == SafeSpec /\ Fairness
=============================================================================
