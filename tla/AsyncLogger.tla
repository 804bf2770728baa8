----------------------------- MODULE AsyncLogger -----------------------------
(***************************************************************************)
(* AsyncLogger: threads that log, each through a ring of its own, the       *)
(* worker that takes the records out of the rings and writes them through   *)
(* its sinks, and start() and stop(), by the owner (main, atexit) or, once,  *)
(* by the first thread that logs while the logger is not running.           *)
(*                                                                         *)
(* A ring is the number of records in it: SpscRing.tla shows that they come *)
(* out in order, each once, while there is room.  Both sinks get the same   *)
(* lines and are one here; FileSink.tla has their insides.  A step that     *)
(* locks and unlocks mu_ is one action, enabled when nobody holds mu_; only *)
(* start() keeps it longer.                                                *)
(***************************************************************************)
EXTENDS Naturals

CONSTANTS
    Owner,      \* the thread that calls start() and stop()
    Producer,   \* the threads that log
    Nobody,     \* holds a mutex that is not locked
    Batch,      \* records drain_all takes from a ring at most: 1024
    Polite,     \* BOOLEAN: no start() overlaps a start() or a stop(), or finds
                \* the logger running
    MaxLog,     \* bound: records of a producer
    MaxStarts,  \* bound: calls of start() by the owner
    MaxStops    \* bound: calls of stop()

ASSUME ThreadsAreDistinct == Owner \notin Producer /\ Nobody \notin Producer \cup {Owner}
ASSUME BatchIsPositive == Batch \in Nat \ {0}
ASSUME BoundsAreNat == Polite \in BOOLEAN /\ {MaxLog, MaxStarts, MaxStops} \subseteq Nat

VARIABLES
    running_,     \* AsyncLogger::running_
    mu_,          \* the thread that holds it in start(), or Nobody
    once,         \* the once_flag of _logf_impl: "no", "doing" or "done"
    producers_,   \* the producers that are registered
    sinks,        \* file_sink_ and console_sink_ exist
    joinable,     \* worker_.joinable()
    worker,       \* the thread in run()
    local, did, final, \* its variables: the rings still to drain, whether there
                  \* was anything, whether it has seen that it must stop
    pc,           \* where each thread is that calls
    ring,         \* ring[p]: records in the ring of p
    buf,          \* buf[p]: records of p in the buffer of the sinks
    out,          \* out[p]: records of p that were written
    logged,       \* logged[p]: records of p that were pushed
    due,          \* due[p]: those that the call of stop() still has to write
    calls,        \* calls of start() and of stop() so far
    dead          \* std::terminate has ended the process

workerVars == <<worker, local, did, final>>
dataVars   == <<ring, buf, out, logged>>
startVars  == <<running_, mu_, sinks, joinable>>
vars == <<startVars, once, producers_, workerVars, pc, dataVars, due, calls, dead>>

Caller  == {Owner} \cup Producer
StartPc == {"start", "rejoin", "create", "run", "spawn"}
StopPc  == {"stop", "join", "reset"}
LogPc   == {"once", "register", "push"}

Count == [Producer -> 0..MaxLog]

DataTypes == {ring, buf, out, logged, due} \subseteq Count

ControlTypes ==
    /\ {running_, sinks, joinable, did, final, dead} \subseteq BOOLEAN
    /\ once \in {"no", "doing", "done"}
    /\ producers_ \in SUBSET Producer /\ local \in SUBSET Producer
    /\ worker \in {"none", "test", "lock", "drain", "decide", "sleep", "asleep", "final", "ended"}
    /\ pc \in [Caller -> {"idle"} \cup StartPc \cup StopPc \cup LogPc]
    /\ pc[Owner] \notin LogPc /\ \A p \in Producer : pc[p] \notin StopPc
    /\ calls \in [starts : 0..MaxStarts, stops : 0..MaxStops]
    /\ mu_ \in Caller \cup {Nobody}

(* Types; and mu_ is held over several steps by a thread in start() only.   *)
TypeOK ==
    /\ DataTypes
    /\ ControlTypes
    /\ \A t \in Caller : mu_ = t <=> pc[t] \in StartPc \ {"start"}

Zero == [p \in Producer |-> 0]

Init ==
    /\ running_ = FALSE /\ mu_ = Nobody /\ once = "no" /\ producers_ = {}
    /\ sinks = FALSE /\ joinable = FALSE
    /\ worker = "none" /\ local = {} /\ did = FALSE /\ final = FALSE
    /\ pc = [t \in Caller |-> "idle"]
    /\ ring = Zero /\ buf = Zero /\ out = Zero /\ logged = Zero /\ due = Zero
    /\ calls = [starts |-> 0, stops |-> 0]
    /\ dead = FALSE

Goto(t, where) == pc' = [pc EXCEPT ![t] = where]
Least(a, b) == IF a < b THEN a ELSE b
-----------------------------------------------------------------------------
(* start(), by t.  In a producer it is what call_once runs.                 *)

(* No log() can call start() from where it is now. *)
NoStartInLog == once = "done" \/ \A p \in Producer : pc[p] \in {"idle", "register", "push"}

CallStart ==
    /\ pc[Owner] = "idle" /\ calls.starts < MaxStarts
    /\ Polite => NoStartInLog /\ ~running_
    /\ calls' = [calls EXCEPT !.starts = @ + 1]
    /\ Goto(Owner, "start")
    /\ UNCHANGED <<startVars, once, producers_, workerVars, dataVars, due, dead>>

StartLock(t) ==
    /\ pc[t] = "start" /\ mu_ = Nobody
    /\ mu_' = t
    /\ running_' = FALSE
    /\ Goto(t, IF running_ THEN "rejoin" ELSE "create")
    /\ UNCHANGED <<once, producers_, sinks, joinable, workerVars, dataVars, due, calls, dead>>

(* Of a running logger: join the worker and destroy the sinks. *)
StartRejoin(t) ==
    /\ pc[t] = "rejoin"
    /\ joinable => worker = "ended"
    /\ joinable' = FALSE
    /\ sinks' = FALSE /\ buf' = Zero
    /\ Goto(t, "create")
    /\ UNCHANGED <<running_, mu_, once, producers_, workerVars, ring, out, logged, due, calls, dead>>

(* The new sinks replace old ones, if there are any. *)
StartCreate(t) ==
    /\ pc[t] = "create"
    /\ sinks' = TRUE /\ buf' = Zero
    /\ Goto(t, "run")
    /\ UNCHANGED <<running_, mu_, once, producers_, joinable, workerVars, ring, out, logged, due, calls, dead>>

StartRun(t) ==
    /\ pc[t] = "run"
    /\ running_' = TRUE
    /\ Goto(t, "spawn")
    /\ UNCHANGED <<mu_, once, producers_, sinks, joinable, workerVars, dataVars, due, calls, dead>>

(* To assign to a std::thread that is joinable ends the process. *)
StartSpawn(t) ==
    /\ pc[t] = "spawn"
    /\ IF joinable
       THEN dead' = TRUE /\ UNCHANGED <<mu_, once, joinable, workerVars, pc>>
       ELSE /\ joinable' = TRUE /\ mu_' = Nobody
            /\ worker' = "test" /\ local' = {} /\ did' = FALSE /\ final' = FALSE
            /\ Goto(t, IF t = Owner THEN "idle" ELSE "register")
            /\ once' = IF t = Owner THEN once ELSE "done"
            /\ UNCHANGED dead
    /\ UNCHANGED <<running_, producers_, sinks, dataVars, due, calls>>

Start(t) == StartLock(t) \/ StartRejoin(t) \/ StartCreate(t) \/ StartRun(t) \/ StartSpawn(t)
-----------------------------------------------------------------------------
(* stop(), by the owner: its own call, auto_stop at exit, the destructor.   *)

CallStop ==
    /\ pc[Owner] = "idle" /\ calls.stops < MaxStops
    /\ Polite => NoStartInLog
    /\ calls' = [calls EXCEPT !.stops = @ + 1]
    /\ Goto(Owner, "stop")
    /\ UNCHANGED <<startVars, once, producers_, workerVars, dataVars, due, dead>>

StopLock ==
    /\ pc[Owner] = "stop" /\ mu_ = Nobody
    /\ running_' = FALSE
    /\ due' = IF running_ THEN [p \in Producer |-> Least(logged[p], out[p] + buf[p] + Batch)] ELSE due
    /\ Goto(Owner, IF running_ THEN "join" ELSE "idle")
    /\ UNCHANGED <<mu_, once, producers_, sinks, joinable, workerVars, dataVars, calls, dead>>

(* A variant: the sinks are destroyed while the worker still drains. *)
StopJoinNot ==
    /\ pc[Owner] = "join"
    /\ joinable' = FALSE
    /\ Goto(Owner, "reset")
    /\ UNCHANGED <<running_, mu_, once, producers_, sinks, workerVars, dataVars, due, calls, dead>>

StopJoin ==
    /\ pc[Owner] = "join"
    /\ joinable => worker = "ended"
    /\ joinable' = FALSE
    /\ Goto(Owner, "reset")
    /\ UNCHANGED <<running_, mu_, once, producers_, sinks, workerVars, dataVars, due, calls, dead>>

(* The destructors of the sinks do not write what is in their buffers. *)
StopReset ==
    /\ pc[Owner] = "reset"
    /\ sinks' = FALSE /\ buf' = Zero
    /\ Goto(Owner, "idle")
    /\ UNCHANGED <<running_, mu_, once, producers_, joinable, workerVars, ring, out, logged, due, calls, dead>>

Stop == StopLock \/ StopJoin \/ StopReset
-----------------------------------------------------------------------------
(* _logf_impl, by producer p. *)

CallLog(p) ==
    /\ pc[p] = "idle" /\ logged[p] < MaxLog
    /\ Polite => once = "done" \/ pc[Owner] = "idle"
    /\ Goto(p, IF running_ THEN "register" ELSE "once")
    /\ UNCHANGED <<startVars, once, producers_, workerVars, dataVars, due, calls, dead>>

(* A variant: every thread that finds the logger stopped starts it. *)
EachCallsStart(p) ==
    /\ pc[p] = "once"
    /\ once' = "doing"
    /\ Goto(p, "start")
    /\ UNCHANGED <<startVars, producers_, workerVars, dataVars, due, calls, dead>>

(* call_once: one thread calls start(), others wait until it has returned. *)
CallOnce(p) ==
    /\ pc[p] = "once" /\ once # "doing"
    /\ once' = IF once = "no" THEN "doing" ELSE once
    /\ Goto(p, IF once = "no" THEN "start" ELSE "register")
    /\ UNCHANGED <<startVars, producers_, workerVars, dataVars, due, calls, dead>>

(* get_or_create_producer: under mu_, but once in a thread. *)
Register(p) ==
    /\ pc[p] = "register"
    /\ p \notin producers_ => mu_ = Nobody
    /\ producers_' = producers_ \cup {p}
    /\ Goto(p, "push")
    /\ UNCHANGED <<startVars, once, workerVars, dataVars, due, calls, dead>>

Push(p) ==
    /\ pc[p] = "push"
    /\ ring' = [ring EXCEPT ![p] = @ + 1]
    /\ logged' = [logged EXCEPT ![p] = @ + 1]
    /\ Goto(p, "idle")
    /\ UNCHANGED <<startVars, once, producers_, workerVars, buf, out, due, calls, dead>>

Log(p) == CallOnce(p) \/ Register(p) \/ Push(p)
-----------------------------------------------------------------------------
(* run(), in worker_. *)

(* A variant: a worker that must stop does not drain once more. *)
WorkerTestQuick ==
    /\ worker = "test"
    /\ final' = ~running_
    /\ worker' = IF running_ THEN "lock" ELSE "final"
    /\ UNCHANGED <<startVars, once, producers_, local, did, pc, dataVars, due, calls, dead>>

WorkerTest ==
    /\ worker = "test"
    /\ final' = ~running_
    /\ worker' = "lock"
    /\ UNCHANGED <<startVars, once, producers_, local, did, pc, dataVars, due, calls, dead>>

(* drain_all copies producers_ under mu_ ... *)
DrainCopy ==
    /\ worker = "lock" /\ mu_ = Nobody
    /\ local' = producers_
    /\ did' = FALSE
    /\ worker' = "drain"
    /\ UNCHANGED <<startVars, once, producers_, final, pc, dataVars, due, calls, dead>>

(* A variant: the number of records is not compared with what there is. *)
DrainUntested(p) ==
    /\ worker = "drain" /\ p \in local
    /\ local' = local \ {p}
    /\ ring' = [ring EXCEPT ![p] = @ - Batch]
    /\ buf' = [buf EXCEPT ![p] = @ + Batch]
    /\ did' = TRUE
    /\ UNCHANGED <<startVars, once, producers_, worker, final, pc, out, logged, due, calls, dead>>

(* ... and takes what is in a ring, up to Batch records, to the sinks.      *)
Drain(p) ==
    /\ worker = "drain" /\ p \in local
    /\ local' = local \ {p}
    /\ LET n == Least(ring[p], Batch)
       IN  /\ ring' = [ring EXCEPT ![p] = @ - n]
           /\ buf' = [buf EXCEPT ![p] = @ + n]
           /\ did' = (did \/ n > 0)
    /\ UNCHANGED <<startVars, once, producers_, worker, final, pc, out, logged, due, calls, dead>>

Drained ==
    /\ worker = "drain" /\ local = {}
    /\ worker' = IF final THEN "final" ELSE "decide"
    /\ UNCHANGED <<startVars, once, producers_, local, did, final, pc, dataVars, due, calls, dead>>

WriteOut ==
    /\ out' = [p \in Producer |-> out[p] + buf[p]]
    /\ buf' = Zero
    /\ UNCHANGED <<ring, logged>>

(* The wait follows when nothing was drained. *)
Rest == worker' = IF did THEN "test" ELSE "sleep"

(* The bytes since the last flush, or the time, ask for a flush ... *)
Flush ==
    /\ worker = "decide"
    /\ WriteOut
    /\ Rest
    /\ UNCHANGED <<startVars, once, producers_, local, did, final, pc, due, calls, dead>>

(* ... or they do not. *)
FlushNot ==
    /\ worker = "decide"
    /\ Rest
    /\ UNCHANGED <<startVars, once, producers_, local, did, final, pc, dataVars, due, calls, dead>>

(* wait_for: for 200 microseconds or less, with mu_ before and after.       *)
Sleep ==
    /\ worker = "sleep" /\ mu_ = Nobody
    /\ worker' = "asleep"
    /\ UNCHANGED <<startVars, once, producers_, local, did, final, pc, dataVars, due, calls, dead>>

(* A variant: the wait has no time limit, and ends when stop() notifies. *)
WakeOnStop ==
    /\ worker = "asleep" /\ mu_ = Nobody /\ ~running_
    /\ worker' = "test"
    /\ UNCHANGED <<startVars, once, producers_, local, did, final, pc, dataVars, due, calls, dead>>

Wake ==
    /\ worker = "asleep" /\ mu_ = Nobody
    /\ worker' = "test"
    /\ UNCHANGED <<startVars, once, producers_, local, did, final, pc, dataVars, due, calls, dead>>

(* A variant: what the last drain brought is not flushed. *)
FinalUnflushed ==
    /\ worker = "final"
    /\ worker' = "ended"
    /\ UNCHANGED <<startVars, once, producers_, local, did, final, pc, dataVars, due, calls, dead>>

FinalFlush ==
    /\ worker = "final"
    /\ WriteOut
    /\ worker' = "ended"
    /\ UNCHANGED <<startVars, once, producers_, local, did, final, pc, due, calls, dead>>

Run ==
    \/ WorkerTest \/ DrainCopy \/ (\E p \in Producer : Drain(p)) \/ Drained
    \/ Flush \/ FlushNot \/ Sleep \/ Wake \/ FinalFlush
-----------------------------------------------------------------------------
Inside(t) == Start(t) \/ (t = Owner /\ Stop) \/ (t \in Producer /\ Log(t))

Next ==
    /\ ~dead
    /\ \/ CallStart \/ CallStop
       \/ \E p \in Producer : CallLog(p)
       \/ \E t \in Caller : Inside(t)
       \/ Run

Spec == Init /\ [][Next]_vars

(* Every thread goes on with what it has begun; and the time between two    *)
(* flushes passes, however often the worker looks.                         *)
Fairness ==
    /\ \A t \in Caller : WF_vars(Inside(t) /\ ~dead)
    /\ WF_vars(Run /\ ~dead)
    /\ SF_vars(Flush /\ ~dead)

FairSpec == Spec /\ Fairness
-----------------------------------------------------------------------------
(* Properties. *)

(* While there is a worker its sinks exist, and no thread is about to       *)
(* destroy or to replace them, nor to assign to worker_.                    *)
WorkerKeepsSinks ==
    worker \notin {"none", "ended"} =>
        /\ sinks
        /\ \A t \in Caller : pc[t] \notin {"create", "run", "spawn", "reset"}

(* Every record that was pushed is in the ring, in the sinks, or written,   *)
(* also over a stop and a start: no sink is destroyed with records in it.   *)
NothingLost == \A p \in Producer : logged[p] = ring[p] + buf[p] + out[p]

(* When stop() has joined the worker it has written, of each ring, what was *)
(* there when it was called, or as much as one drain_all takes.             *)
StopWrites == pc[Owner] = "reset" => \A p \in Producer : out[p] >= due[p]

(* What keeps t waiting, and whom: the holder of mu_, the thread in start() *)
(* that call_once waits for, or the worker that is joined, which may itself *)
(* wait for mu_.                                                           *)
NeedsMutex(t) ==
    \/ pc[t] \in {"start", "stop"}
    \/ pc[t] = "register" /\ t \notin producers_
NeedsOnce(t)   == pc[t] = "once" /\ once = "doing"
NeedsWorker(t) == pc[t] \in {"rejoin", "join"} /\ joinable /\ worker # "ended"

WorkerNeedsMutex == worker \in {"lock", "sleep", "asleep"}

WaitsFor(t, u) ==
    \/ mu_ = u /\ (NeedsMutex(t) \/ (NeedsWorker(t) /\ WorkerNeedsMutex))
    \/ NeedsOnce(t) /\ u \in Producer /\ pc[u] \in StartPc

(* Threads never wait for each other in a circle; and a thread that waits   *)
(* for call_once or for the worker has one to wait for.                    *)
NoCircularWait ==
    /\ \A S \in SUBSET Caller : S # {} => \E t \in S : \A u \in S : ~WaitsFor(t, u)
    /\ \A t \in Caller :
          /\ NeedsOnce(t) => \E u \in Producer : pc[u] \in StartPc
          /\ NeedsWorker(t) => worker # "none"

(* start(), stop() and the log macros return. *)
CallsReturn == \A t \in Caller : pc[t] # "idle" ~> (pc[t] = "idle" \/ dead)

(* A record that is pushed while the logger runs is written, unless the     *)
(* logger is stopped.                                                      *)
LoggedIsWritten ==
    \A p \in Producer : \A n \in 1..MaxLog : logged[p] >= n ~> (out[p] >= n \/ ~running_)
=============================================================================
