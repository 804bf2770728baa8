--------------------------- MODULE ServerLifecycle ---------------------------
(***************************************************************************)
(* Starting, stopping and destroying a TcpServer: start, startInThread,     *)
(* stop, join and ~TcpServer, EventLoop::loop and quit, and the pool that   *)
(* the loop owns and that is destroyed last.                                *)
(*                                                                         *)
(* The Owner constructed the server.  It starts it in one of the two ways,  *)
(* may then stop or join it, and destroys it.  Other threads may call stop  *)
(* in the meantime, as a program does on a signal.  What the loop handles   *)
(* is reduced to this: an iteration may hand a task of removeConn to the    *)
(* pool.                                                                   *)
(***************************************************************************)
EXTENDS Naturals, Sequences

CONSTANTS
    Owner,        \* the thread that constructs and destroys the server
    Stopper,      \* other threads, each of which may call stop() once
    Worker,       \* threads of EventLoop::threadPool_
    Idle,         \* no task
    Blocking,     \* BOOLEAN: the owner calls start(), not startInThread()
    Joins,        \* BOOLEAN: the owner calls join()
    MaxRemovals   \* bound: tasks of removeConn

ASSUME OwnerIsNoStopper == Owner \notin Stopper
ASSUME Options == {Blocking, Joins} \subseteq BOOLEAN /\ MaxRemovals \in Nat

VARIABLES
    running_,   \* TcpServer::running_
    quit_,      \* EventLoop::quit_
    thread,     \* serverThread_: "none", "joinable" or "joined"
    loopPc,     \* the thread in EventLoop::loop
    pc,         \* pc[t]: where the owner and the stoppers are
    members,    \* the members of TcpServer are not destroyed: mu, conns_, ...
    end,        \* "terminate" once std::terminate has ended the process,
                \* "undefined" once a destroyed member was used
    hasty,      \* history: a stop() found running_ set before startInThread()
                \* had returned and the loop had begun
    removals,   \* tasks of removeConn so far
    queue, running, open \* EventLoop::threadPool_

poolVars == <<queue, running, open>>
vars == <<running_, quit_, thread, loopPc, pc, members, end, hasty, removals, poolVars>>

Caller == {Owner} \cup Stopper
Remove == "remove"
Pool   == INSTANCE TaskQueue WITH Task <- {Remove}

StopPc    == {"test", "clear", "quit", "join", "joining"}
StopperPc == {"ready", "returned"} \cup StopPc
Starting  == {"start", "set", "spawn", "keep"}
OwnerPc   == Starting \cup {"started", "awaiting", "members", "pool", "destroyed"} \cup StopPc

(* Types; and serverThread_ is set as soon as startInThread() has returned. *)
TypeOK ==
    /\ {running_, quit_, members, hasty, open} \subseteq BOOLEAN
    /\ thread \in {"none", "joinable", "joined"}
    /\ loopPc \in {"none", "entry", "test", "poll", "ended"}
    /\ pc \in [Caller -> StopperPc \cup OwnerPc]
    /\ pc[Owner] \in OwnerPc /\ \A t \in Stopper : pc[t] \in StopperPc
    /\ end \in {"no", "terminate", "undefined"}
    /\ removals \in 0..MaxRemovals
    /\ queue \in Seq({Remove}) /\ running \in [Worker -> {Remove, Idle}]
    /\ thread = "none" <=> Blocking \/ pc[Owner] \in Starting

Init ==
    /\ running_ = FALSE /\ quit_ = FALSE
    /\ thread = "none" /\ loopPc = "none"
    /\ pc = [t \in Caller |-> IF t = Owner THEN "start" ELSE "ready"]
    /\ members = TRUE /\ end = "no" /\ hasty = FALSE /\ removals = 0
    /\ Pool!Init

Goto(t, where) == pc' = [pc EXCEPT ![t] = where]
-----------------------------------------------------------------------------
(* TcpServer::start and startInThread, by the owner.  Acceptor::Listen, which *)
(* either calls first, has no part in this: see TcpServer.tla.              *)

(* startInThread does nothing when running_ is set, which it is not yet;    *)
(* start neither looks at running_ nor sets it.                             *)
StartTest ==
    /\ pc[Owner] = "start" /\ ~running_
    /\ Goto(Owner, IF Blocking THEN "spawn" ELSE "set")
    /\ UNCHANGED <<running_, quit_, thread, loopPc, members, end, hasty, removals, poolVars>>

StartSet ==
    /\ pc[Owner] = "set"
    /\ running_' = TRUE
    /\ Goto(Owner, "spawn")
    /\ UNCHANGED <<quit_, thread, loopPc, members, end, hasty, removals, poolVars>>

(* loop() can begin: in the owner's own thread, or in a new one. *)
SpawnThread ==
    /\ pc[Owner] = "spawn"
    /\ loopPc' = "entry"
    /\ Goto(Owner, IF Blocking THEN "started" ELSE "keep")
    /\ UNCHANGED <<running_, quit_, thread, members, end, hasty, removals, poolVars>>

(* A variant: the thread is started and not kept. *)
KeepThreadNot ==
    /\ pc[Owner] = "keep"
    /\ Goto(Owner, "started")
    /\ UNCHANGED <<running_, quit_, thread, loopPc, members, end, hasty, removals, poolVars>>

(* The new thread, which runs already, is assigned to serverThread_. *)
KeepThread ==
    /\ pc[Owner] = "keep"
    /\ thread' = "joinable"
    /\ Goto(Owner, "started")
    /\ UNCHANGED <<running_, quit_, loopPc, members, end, hasty, removals, poolVars>>

(* start() returns when the loop does, startInThread() at once. *)
Started == pc[Owner] = "started" /\ (Blocking => loopPc = "ended")
-----------------------------------------------------------------------------
(* EventLoop::loop. *)

LoopEntry ==
    /\ loopPc = "entry"
    /\ quit_' = FALSE
    /\ loopPc' = "test"
    /\ UNCHANGED <<running_, thread, pc, members, end, hasty, removals, poolVars>>

(* A variant: the loop tests quit_ only before its first iteration. *)
LoopForever ==
    /\ loopPc = "test"
    /\ loopPc' = "poll"
    /\ UNCHANGED <<running_, quit_, thread, pc, members, end, hasty, removals, poolVars>>

LoopTest ==
    /\ loopPc = "test"
    /\ loopPc' = IF quit_ THEN "ended" ELSE "poll"
    /\ UNCHANGED <<running_, quit_, thread, pc, members, end, hasty, removals, poolVars>>

(* poll() returns, after a second at the latest, and events are handled. *)
LoopPoll ==
    /\ loopPc = "poll"
    /\ loopPc' = "test"
    /\ \/ UNCHANGED <<removals, poolVars>>
       \/ /\ removals < MaxRemovals
          /\ removals' = removals + 1
          /\ Pool!Submit(Remove)
    /\ UNCHANGED <<running_, quit_, thread, pc, members, end, hasty>>
-----------------------------------------------------------------------------
(* TcpServer::stop and join. *)

(* startInThread() has returned, and the loop has cleared quit_. *)
Begun == pc[Owner] \notin Starting /\ loopPc \notin {"none", "entry"}

(* Where a call of stop() by t returns to. *)
Back(t) == IF t = Owner THEN "members" ELSE "returned"

(* The destructor of the server calls stop(), which is also what an owner   *)
(* does who calls it first; a stopper may call as long as nothing is        *)
(* destroyed.                                                              *)
CallStop(t) ==
    /\ IF t = Owner THEN Started
       ELSE pc[t] = "ready" /\ pc[Owner] \notin {"members", "pool", "destroyed"}
    /\ Goto(t, "test")
    /\ UNCHANGED <<running_, quit_, thread, loopPc, members, end, hasty, removals, poolVars>>

StopTest(t) ==
    /\ pc[t] = "test"
    /\ Goto(t, IF running_ THEN "clear" ELSE Back(t))
    /\ hasty' = (hasty \/ (running_ /\ ~Begun))
    /\ UNCHANGED <<running_, quit_, thread, loopPc, members, end, removals, poolVars>>

StopClear(t) ==
    /\ pc[t] = "clear"
    /\ running_' = FALSE
    /\ Goto(t, "quit")
    /\ UNCHANGED <<quit_, thread, loopPc, members, end, hasty, removals, poolVars>>

(* EventLoop::quit *)
StopQuit(t) ==
    /\ pc[t] = "quit"
    /\ quit_' = TRUE
    /\ Goto(t, "join")
    /\ UNCHANGED <<running_, thread, loopPc, members, end, hasty, removals, poolVars>>

(* A variant: stop() does not join. *)
JoinNever(t) ==
    /\ pc[t] = "join"
    /\ Goto(t, Back(t))
    /\ UNCHANGED <<running_, quit_, thread, loopPc, members, end, hasty, removals, poolVars>>

(* serverThread_ && serverThread_->joinable(); not yet assigned it is null. *)
JoinTest(t) ==
    /\ pc[t] = "join"
    /\ Goto(t, IF thread = "joinable" THEN "joining" ELSE Back(t))
    /\ UNCHANGED <<running_, quit_, thread, loopPc, members, end, hasty, removals, poolVars>>

(* TcpServer::join, by the owner, whose destructor calls stop() afterwards. *)
CallJoin ==
    /\ Joins /\ Started /\ thread = "joinable"
    /\ Goto(Owner, "awaiting")
    /\ UNCHANGED <<running_, quit_, thread, loopPc, members, end, hasty, removals, poolVars>>

Joining(t) == pc[t] \in {"joining", "awaiting"}

(* A variant: the thread is detached instead. *)
Detach(t) ==
    /\ Joining(t)
    /\ thread' = "joined"
    /\ Goto(t, IF pc[t] = "awaiting" THEN "started" ELSE Back(t))
    /\ UNCHANGED <<running_, quit_, loopPc, members, end, hasty, removals, poolVars>>

Join(t) ==
    /\ Joining(t) /\ loopPc = "ended"
    /\ thread' = "joined"
    /\ Goto(t, IF pc[t] = "awaiting" THEN "started" ELSE Back(t))
    /\ UNCHANGED <<running_, quit_, loopPc, members, end, hasty, removals, poolVars>>

(* To join a thread that another thread joins is undefined.  Either both    *)
(* come back, or join() throws and nothing catches it.                      *)
JoinThrows(t) ==
    /\ Joining(t) /\ \E u \in Caller \ {t} : Joining(u)
    /\ end' = "terminate"
    /\ UNCHANGED <<running_, quit_, thread, loopPc, pc, members, hasty, removals, poolVars>>
-----------------------------------------------------------------------------
(* The rest of ~TcpServer: the members in reverse order. *)

(* No thread may be inside stop() when the members go. *)
Outside == \A t \in Stopper : pc[t] \in {"ready", "returned"}

(* ~thread of a thread that is joinable terminates the process. *)
DestroyThread ==
    /\ pc[Owner] = "members" /\ Outside
    /\ IF thread = "joinable"
       THEN end' = "terminate" /\ UNCHANGED <<members, pc>>
       ELSE members' = FALSE /\ Goto(Owner, "pool") /\ UNCHANGED end
    /\ UNCHANGED <<running_, quit_, thread, loopPc, hasty, removals, poolVars>>

(* ~EventLoop, ~ThreadPool: closes the pool, which then drains. *)
ClosePool ==
    /\ pc[Owner] = "pool" /\ open
    /\ Pool!Close
    /\ UNCHANGED <<running_, quit_, thread, loopPc, pc, members, end, hasty, removals>>

JoinPool ==
    /\ pc[Owner] = "pool" /\ ~open
    /\ queue = <<>> /\ \A w \in Worker : running[w] = Idle
    /\ Goto(Owner, "destroyed")
    /\ UNCHANGED <<running_, quit_, thread, loopPc, members, end, hasty, removals, poolVars>>

(* A variant: the task waits for mu, which onNewConn has not unlocked. *)
RunTaskStuck(w) ==
    /\ Pool!Start(w)
    /\ UNCHANGED <<running_, quit_, thread, loopPc, pc, members, end, hasty, removals>>

(* A task of removeConn locks mu and erases from conns_.  If they are       *)
(* destroyed, that is undefined: it may do no harm, or anything.           *)
RunTask(w) ==
    /\ \/ Pool!Start(w) /\ UNCHANGED end
       \/ Pool!Finish(w) /\ end' \in IF members THEN {end} ELSE {end, "undefined"}
    /\ UNCHANGED <<running_, quit_, thread, loopPc, pc, members, hasty, removals>>
-----------------------------------------------------------------------------
LoopStep == LoopEntry \/ LoopTest \/ LoopPoll

StopStep(t) == StopTest(t) \/ StopClear(t) \/ StopQuit(t) \/ JoinTest(t) \/ Join(t)

OwnerStep == StartTest \/ StartSet \/ SpawnThread \/ KeepThread \/ DestroyThread \/ ClosePool \/ JoinPool

Next ==
    /\ end = "no"
    /\ \/ LoopStep \/ OwnerStep \/ CallJoin
       \/ \E t \in Caller : CallStop(t) \/ StopStep(t) \/ JoinThrows(t)
       \/ \E w \in Worker : RunTask(w)

Spec == Init /\ [][Next]_vars

(* Every thread goes on with what it has begun; nobody has to call stop(). *)
Fairness ==
    /\ WF_vars(LoopStep /\ end = "no") /\ WF_vars(OwnerStep /\ end = "no")
    /\ \A t \in Caller : WF_vars(StopStep(t) /\ end = "no")
    /\ \A w \in Worker : WF_vars(RunTask(w) /\ end = "no")

FairSpec == Spec /\ Fairness
-----------------------------------------------------------------------------
(* Properties.  A hasty stop() is exempt from what follows: loop() forgets  *)
(* its quit_, or it finds no serverThread_ and skips the join.              *)

(* stop() returns, unless the process ends. *)
StopReturns ==
    \A t \in Caller : pc[t] \in StopPc ~> (pc[t] \notin StopPc \/ end # "no" \/ hasty)

(* A call of stop() that joins the loop's thread was heard by the loop:     *)
(* quit_ is set, and loop() does not clear it any more.                    *)
QuitIsHeard ==
    (\E t \in Caller : pc[t] \in {"join", "joining"}) =>
        hasty \/ (quit_ /\ loopPc \in {"test", "poll", "ended"})

(* The loop, which uses conns_ and the callbacks, has ended before the      *)
(* members of the server are destroyed, whoever called stop(), and however  *)
(* early.                                                                  *)
LoopEndsFirst == ~members => loopPc \in {"none", "ended"}

(* ~thread, which ends the process if the thread is joinable, never finds   *)
(* it so: whoever cleared running_ has joined before the destructor of the  *)
(* server, whose own stop() may have done nothing, can go on.               *)
ThreadIsJoined == pc[Owner] = "members" /\ Outside => thread # "joinable" \/ hasty

(* A task of removeConn finds the mu and the conns_ it captured by this.   *)
TaskFindsServer == (\E w \in Worker : running[w] = Remove) => members

(* Once the destructor has begun to take the server apart, it returns,      *)
(* unless the process ends or a task uses the destroyed members; and with   *)
(* no task in the pool it does return.                                     *)
DestroyReturns ==
    /\ pc[Owner] = "members" ~> (pc[Owner] = "destroyed" \/ end # "no" \/ hasty)
    /\ (pc[Owner] = "pool" /\ end = "no" /\ queue = <<>> /\ \A w \in Worker : running[w] = Idle)
           ~> pc[Owner] = "destroyed"
=============================================================================
