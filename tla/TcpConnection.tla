---------------------------- MODULE TcpConnection ----------------------------
(***************************************************************************)
(* One TcpConnection of a server whose message callback answers: send,      *)
(* sendInLoop, handleWrite, shutdown, and what they share, the string       *)
(* outBuf_ and the mask events_ of the Channel.  Every access to these two  *)
(* is a step of its own, so that the loop thread and the workers interleave *)
(* between them.  An access itself is atomic here; where NoRace holds, that *)
(* is what the code does.                                                   *)
(*                                                                         *)
(* send asks EventLoop::isInLoopThread whether to call sendInLoop or to     *)
(* hand it to the pool.  The thread id it compares with is that of the      *)
(* thread which constructed the loop.  Under TcpServer::start that thread   *)
(* runs the loop and the answer is yes in every callback (inline); under    *)
(* startInThread it is no.                                                  *)
(*                                                                         *)
(* The messages of the peer are numbered, and so are the units of the       *)
(* answers: message m is answered by units (m-1)*Size+1 .. m*Size.          *)
(***************************************************************************)
EXTENDS Naturals, Sequences, FiniteSets

CONSTANTS
    Worker,     \* threads of EventLoop::threadPool_
    Loop,       \* the thread in EventLoop::loop
    Idle,       \* no task
    Size,       \* units of an answer
    SndBuf,     \* units the socket's send buffer holds
    MaxMsg,     \* bound: messages of the peer
    Scenario    \* the ways in which server and peer may use the connection

(* inline: isInLoopThread() in the callbacks; window: messages the peer      *)
(* sends ahead of the answers; ends: when the peer ends its stream;         *)
(* shutdowns: the callback may call shutdown().                             *)
Uses == [inline : BOOLEAN, window : Nat \ {0}, ends : {"never", "answered", "any"}, shutdowns : BOOLEAN]

ASSUME ThreadsAreDistinct == Loop \notin Worker
ASSUME SizesAreNat == {Size, SndBuf} \subseteq Nat \ {0} /\ MaxMsg \in Nat
ASSUME ScenarioIsUses == Scenario \subseteq Uses

VARIABLES
    use,       \* the scenario
    (* the peer and the socket *)
    asked,     \* messages the peer has sent
    inq,       \* those of them that were not read yet: the last inq ones
    fin,       \* the peer has ended its stream
    wire,      \* units in the socket's send buffer
    got,       \* units the peer has received, in order
    (* TcpConnection and its Channel *)
    state,     \* state_
    outBuf,    \* outBuf_
    events,    \* Channel::events_
    armed,     \* the events epoll watches
    inTable,   \* TcpServer::conns_ holds the connection
    alive,     \* the connection was not destroyed
    accepted,  \* messages send() has accepted
    closing,   \* shutdown() was called
    (* threads *)
    pc,        \* where each thread is
    rev,       \* loop thread: the reported events that are still to be handled
    arg,       \* arg[t]: the units sendInLoop was given, or has not written
    n,         \* loop thread: what write() returned to handleWrite
    queue, running \* EventLoop::threadPool_

peerVars == <<use, asked, fin, got>>
connVars == <<state, outBuf, events, armed>>
lifeVars == <<inTable, alive>>
poolVars == <<queue, running>>
vars == <<peerVars, inq, wire, connVars, lifeVars, accepted, closing, pc, rev, arg, n, poolVars>>

Thread == Worker \cup {Loop}

(* The closures given to runInLoop.  "send" and "shutdown" capture the raw   *)
(* this, "remove" a shared_ptr.                                             *)
SendTask(m)  == <<"send", m>>
ShutdownTask == <<"shutdown", 0>>
RemoveTask   == <<"remove", 0>>
Task == {SendTask(m) : m \in 1..MaxMsg} \cup {ShutdownTask, RemoveTask}

ASSUME IdleIsNoTask == Idle \notin Task

Pool == INSTANCE TaskQueue WITH open <- TRUE

SendPc == {"test", "write", "append", "appendArm", "arm", "armCtl"}
LoopPc == {"poll", "event", "callback", "flushed", "disarm", "disarmCtl", "closeCtl"}

TypeOK ==
    /\ use \in Scenario
    /\ asked \in 0..MaxMsg /\ inq \in 0..MaxMsg /\ accepted \in 0..MaxMsg
    /\ fin \in BOOLEAN /\ inTable \in BOOLEAN /\ alive \in BOOLEAN /\ closing \in BOOLEAN
    /\ {wire, got, outBuf} \subseteq Seq(1..MaxMsg * Size)
    /\ Len(wire) <= SndBuf
    /\ state \in {"connected", "disconnected"}
    /\ {events, armed, rev} \subseteq SUBSET {"IN", "OUT"}
    /\ pc[Loop] \in LoopPc \cup SendPc
    /\ \A w \in Worker : pc[w] \in SendPc \cup {"idle", "disarm", "disarmCtl", "remove", "end"}
    /\ arg \in [Thread -> Seq(1..MaxMsg * Size)]
    /\ n \in 0..SndBuf
    /\ queue \in Seq(Task) /\ running \in [Worker -> Task \cup {Idle}]

(* After connectEstablished. *)
Init ==
    /\ use \in Scenario
    /\ asked = 0 /\ inq = 0 /\ fin = FALSE /\ wire = <<>> /\ got = <<>>
    /\ state = "connected" /\ outBuf = <<>>
    /\ events = {"IN"} /\ armed = {"IN"}
    /\ inTable = TRUE /\ alive = TRUE /\ accepted = 0 /\ closing = FALSE
    /\ pc = [t \in Thread |-> IF t = Loop THEN "poll" ELSE "idle"]
    /\ rev = {} /\ n = 0
    /\ arg = [t \in Thread |-> <<>>]
    /\ queue = <<>> /\ running = [w \in Worker |-> Idle]

Goto(t, where) == pc' = [pc EXCEPT ![t] = where]
-----------------------------------------------------------------------------
(* The peer. *)

Answered == Len(got) \div Size

PeerAsk ==
    /\ ~fin /\ asked < MaxMsg /\ asked < Answered + use.window
    /\ asked' = asked + 1
    /\ inq' = inq + 1
    /\ UNCHANGED <<use, fin, got, wire, connVars, lifeVars, accepted, closing, pc, rev, arg, n, poolVars>>

PeerTake ==
    /\ wire # <<>>
    /\ got' = Append(got, Head(wire))
    /\ wire' = Tail(wire)
    /\ UNCHANGED <<use, asked, fin, inq, connVars, lifeVars, accepted, closing, pc, rev, arg, n, poolVars>>

PeerFin ==
    /\ ~fin
    /\ use.ends = "any" \/ (use.ends = "answered" /\ Answered = asked)
    /\ fin' = TRUE
    /\ UNCHANGED <<use, asked, got, inq, wire, connVars, lifeVars, accepted, closing, pc, rev, arg, n, poolVars>>
-----------------------------------------------------------------------------
(* The loop thread: epoll_wait, handleEvent, handleRead. *)

Room == SndBuf - Len(wire)

Report ==
    {e \in armed : \/ e = "IN" /\ (inq > 0 \/ fin)
                   \/ e = "OUT" /\ Room > 0}

Poll ==
    /\ pc[Loop] = "poll" /\ alive
    /\ Report # {}
    /\ rev' = Report
    /\ Goto(Loop, "event")
    /\ UNCHANGED <<peerVars, inq, wire, connVars, lifeVars, accepted, closing, arg, n, poolVars>>

(* The message number the callback is given: they are read in order. *)
Message == asked - inq + 1

Units(m) == [i \in 1..Size |-> (m - 1) * Size + i]

(* send(), by the loop thread, of the answer to message m. *)
Send(m) ==
    IF state # "connected"
    THEN Goto(Loop, "callback") /\ UNCHANGED <<accepted, arg, poolVars>>
    ELSE /\ accepted' = accepted + 1
         /\ \/ /\ use.inline
               /\ arg' = [arg EXCEPT ![Loop] = Units(m)]
               /\ Goto(Loop, "test")
               /\ UNCHANGED poolVars
            \/ /\ ~use.inline
               /\ Pool!Put(SendTask(m))
               /\ Goto(Loop, "callback")
               /\ UNCHANGED arg

(* handleRead gives a message to onMessage_, which calls send(). *)
HandleRead ==
    /\ pc[Loop] = "event" /\ "IN" \in rev /\ inq > 0
    /\ rev' = rev \ {"IN"}
    /\ inq' = inq - 1
    /\ Send(Message)
    /\ UNCHANGED <<peerVars, wire, connVars, lifeVars, closing, n>>

(* The callback may call shutdown() before it returns. *)
Shutdown ==
    /\ pc[Loop] = "callback" /\ use.shutdowns /\ ~closing
    /\ state = "connected"
    /\ closing' = TRUE
    /\ Pool!Put(ShutdownTask)
    /\ UNCHANGED <<peerVars, inq, wire, connVars, lifeVars, accepted, pc, rev, arg, n>>

EndCallback ==
    /\ pc[Loop] = "callback"
    /\ Goto(Loop, "event")
    /\ UNCHANGED <<peerVars, inq, wire, connVars, lifeVars, accepted, closing, rev, arg, n, poolVars>>

(* read() returns 0: handleClose, with its disableAll and its onClose_. *)
HandleClose ==
    /\ pc[Loop] = "event" /\ "IN" \in rev /\ inq = 0 /\ fin
    /\ rev' = rev \ {"IN"}
    /\ state' = "disconnected"
    /\ events' = {}
    /\ Goto(Loop, "closeCtl")
    /\ UNCHANGED <<peerVars, inq, wire, outBuf, armed, lifeVars, accepted, closing, arg, n, poolVars>>

CloseUpdate ==
    /\ pc[Loop] = "closeCtl"
    /\ armed' = events
    /\ Pool!Put(RemoveTask)
    /\ Goto(Loop, "event")
    /\ UNCHANGED <<peerVars, inq, wire, state, outBuf, events, lifeVars, accepted, closing, rev, arg, n>>
-----------------------------------------------------------------------------
(* The loop thread: handleWrite. *)

Least(a, b) == IF a < b THEN a ELSE b

(* write() of the buffer: n units, or EAGAIN; 0 units of an empty buffer. *)
HandleWrite ==
    /\ pc[Loop] = "event" /\ "IN" \notin rev /\ "OUT" \in rev
    /\ rev' = rev \ {"OUT"}
    /\ n' = Least(Room, Len(outBuf))
    /\ wire' = wire \o SubSeq(outBuf, 1, n')
    /\ Goto(Loop, IF n' > 0 THEN "flushed" ELSE "event")
    /\ UNCHANGED <<peerVars, inq, connVars, lifeVars, accepted, closing, arg, poolVars>>

(* A variant: EPOLLOUT is left enabled. *)
EraseArmed ==
    /\ pc[Loop] = "flushed"
    /\ outBuf' = SubSeq(outBuf, n + 1, Len(outBuf))
    /\ n' = 0
    /\ Goto(Loop, "event")
    /\ UNCHANGED <<peerVars, inq, wire, state, events, armed, lifeVars, accepted, closing, rev, arg, poolVars>>

(* outBuf_.erase(0, n), and whether it is empty then. *)
Erase ==
    /\ pc[Loop] = "flushed"
    /\ outBuf' = SubSeq(outBuf, n + 1, Len(outBuf))
    /\ n' = 0
    /\ Goto(Loop, IF outBuf' = <<>> THEN "disarm" ELSE "event")
    /\ UNCHANGED <<peerVars, inq, wire, state, events, armed, lifeVars, accepted, closing, rev, arg, poolVars>>
-----------------------------------------------------------------------------
(* Channel::enableWriting and disableWriting, by any thread: the mask, then  *)
(* Poller::updateChannel.                                                   *)

(* A variant: every thread goes on as the loop thread does. *)
ReturnToCallback(t) == Goto(t, "callback")

Return(t) == Goto(t, IF t = Loop THEN "callback" ELSE "end")

Arm(t) ==
    /\ pc[t] = "arm" /\ alive
    /\ events' = events \cup {"OUT"}
    /\ Goto(t, "armCtl")
    /\ UNCHANGED <<peerVars, inq, wire, state, outBuf, armed, lifeVars, accepted, closing, rev, arg, n, poolVars>>

ArmUpdate(t) ==
    /\ pc[t] = "armCtl" /\ alive
    /\ armed' = events
    /\ Return(t)
    /\ UNCHANGED <<peerVars, inq, wire, state, outBuf, events, lifeVars, accepted, closing, rev, arg, n, poolVars>>

Disarm(t) ==
    /\ pc[t] = "disarm" /\ alive
    /\ events' = events \ {"OUT"}
    /\ Goto(t, "disarmCtl")
    /\ UNCHANGED <<peerVars, inq, wire, state, outBuf, armed, lifeVars, accepted, closing, rev, arg, n, poolVars>>

DisarmUpdate(t) ==
    /\ pc[t] = "disarmCtl" /\ alive
    /\ armed' = events
    /\ Goto(t, IF t = Loop THEN "event" ELSE "end")
    /\ UNCHANGED <<peerVars, inq, wire, state, outBuf, events, lifeVars, accepted, closing, rev, arg, n, poolVars>>
-----------------------------------------------------------------------------
(* sendInLoop, on the loop thread or in a worker. *)

(* A variant: the direct write does not ask whether outBuf_ is empty. *)
SendUntested(t) ==
    /\ pc[t] = "test" /\ alive
    /\ Goto(t, "write")
    /\ UNCHANGED <<peerVars, inq, wire, connVars, lifeVars, accepted, closing, rev, arg, n, poolVars>>

SendTest(t) ==
    /\ pc[t] = "test" /\ alive
    /\ Goto(t, IF outBuf = <<>> THEN "write" ELSE "append")
    /\ UNCHANGED <<peerVars, inq, wire, connVars, lifeVars, accepted, closing, rev, arg, n, poolVars>>

SendWrite(t) ==
    /\ pc[t] = "write" /\ alive
    /\ LET k == Least(Room, Len(arg[t]))
       IN  /\ wire' = wire \o SubSeq(arg[t], 1, k)
           /\ arg' = [arg EXCEPT ![t] = SubSeq(@, k + 1, Len(@))]
           /\ IF k = Len(arg[t]) THEN Return(t) ELSE Goto(t, "appendArm")
    /\ UNCHANGED <<peerVars, inq, connVars, lifeVars, accepted, closing, rev, n, poolVars>>

(* A variant: the rest of a partial write is stored, EPOLLOUT not enabled. *)
SendAppendUnarmed(t) ==
    /\ pc[t] \in {"append", "appendArm"} /\ alive
    /\ outBuf' = outBuf \o arg[t]
    /\ arg' = [arg EXCEPT ![t] = <<>>]
    /\ Return(t)
    /\ UNCHANGED <<peerVars, inq, wire, state, events, armed, lifeVars, accepted, closing, rev, n, poolVars>>

SendAppend(t) ==
    /\ pc[t] \in {"append", "appendArm"} /\ alive
    /\ outBuf' = outBuf \o arg[t]
    /\ arg' = [arg EXCEPT ![t] = <<>>]
    /\ IF pc[t] = "append" THEN Return(t) ELSE Goto(t, "arm")
    /\ UNCHANGED <<peerVars, inq, wire, state, events, armed, lifeVars, accepted, closing, rev, n, poolVars>>

SendInLoop(t) == SendTest(t) \/ SendWrite(t) \/ SendAppend(t) \/ Arm(t) \/ ArmUpdate(t)
-----------------------------------------------------------------------------
(* The workers, and the lifetime of the connection. *)

StartTask(w) ==
    /\ Pool!Take(w)
    /\ LET task == Head(queue)
       IN  IF task[1] = "send"
           THEN Goto(w, "test") /\ arg' = [arg EXCEPT ![w] = Units(task[2])]
           ELSE /\ Goto(w, IF task = ShutdownTask THEN "disarm" ELSE "remove")
                /\ UNCHANGED arg
    /\ UNCHANGED <<peerVars, inq, wire, connVars, lifeVars, accepted, closing, rev, n>>

(* The task of TcpServer::removeConn. *)
RemoveConn(w) ==
    /\ pc[w] = "remove"
    /\ inTable' = FALSE
    /\ Goto(w, "end")
    /\ UNCHANGED <<peerVars, inq, wire, connVars, alive, accepted, closing, rev, arg, n, poolVars>>

(* A variant: conns_ does not keep the connection alive. *)
HeldNotByTable ==
    \/ pc[Loop] # "poll"
    \/ \E i \in DOMAIN queue : queue[i] = RemoveTask
    \/ \E w \in Worker : running[w] = RemoveTask

(* Who holds a shared_ptr: conns_, the guard of handleEvent, RemoveTask. *)
Held ==
    \/ inTable
    \/ pc[Loop] # "poll"
    \/ \E i \in DOMAIN queue : queue[i] = RemoveTask
    \/ \E w \in Worker : running[w] = RemoveTask

(* The end of handleEvent, and of a task, may destroy the connection. *)
EndEvent ==
    /\ pc[Loop] = "event" /\ rev = {}
    /\ Goto(Loop, "poll")
    /\ UNCHANGED <<peerVars, inq, wire, connVars, inTable, accepted, closing, rev, arg, n, poolVars>>
    /\ alive' = (alive /\ Held')

EndTask(w) ==
    /\ pc[w] = "end"
    /\ Pool!Retire(w)
    /\ Goto(w, "idle")
    /\ UNCHANGED <<peerVars, inq, wire, connVars, inTable, accepted, closing, rev, arg, n>>
    /\ alive' = (alive /\ Held')
-----------------------------------------------------------------------------
LoopStep ==
    \/ Poll \/ HandleRead \/ Shutdown \/ EndCallback \/ HandleClose \/ CloseUpdate
    \/ HandleWrite \/ Erase \/ EndEvent
    \/ SendInLoop(Loop) \/ Disarm(Loop) \/ DisarmUpdate(Loop)

WorkerStep(w) == SendInLoop(w) \/ Disarm(w) \/ DisarmUpdate(w) \/ RemoveConn(w) \/ EndTask(w)

Next ==
    \/ PeerAsk \/ PeerTake \/ PeerFin
    \/ LoopStep
    \/ \E w \in Worker : StartTask(w) \/ WorkerStep(w)

Spec == Init /\ [][Next]_vars

(* The loop thread and the workers are not suspended for ever, and the peer *)
(* reads what arrives.  It need not send anything.                          *)
Fairness ==
    /\ WF_vars(LoopStep)
    /\ WF_vars(\E w \in Worker : StartTask(w))
    /\ \A w \in Worker : WF_vars(WorkerStep(w))
    /\ WF_vars(PeerTake)

FairSpec == Spec /\ Fairness
-----------------------------------------------------------------------------
(* Properties. *)

(* Where a thread reads or writes outBuf_, and where events_. *)
ReadsOutBuf(t)  == pc[t] = "test" \/ (t = Loop /\ pc[t] = "event" /\ rev = {"OUT"})
WritesOutBuf(t) == pc[t] \in {"append", "appendArm", "flushed"}
ReadsEvents(t)  == pc[t] \in {"armCtl", "disarmCtl", "closeCtl"}
WritesEvents(t) ==
    \/ pc[t] \in {"arm", "disarm"}
    \/ t = Loop /\ pc[t] = "event" /\ "IN" \in rev /\ inq = 0 /\ fin

(* outBuf_ and events_ have no lock: until a shutdown() interferes, no      *)
(* thread may reach one while another thread is about to change it.         *)
NoRace ==
    closing \/ \A t, u \in Thread : t # u =>
        /\ ~(WritesOutBuf(t) /\ (ReadsOutBuf(u) \/ WritesOutBuf(u)))
        /\ ~(WritesEvents(t) /\ (ReadsEvents(u) \/ WritesEvents(u)))

(* Units leave in the order in which send() accepted them. *)
InOrder ==
    LET out == got \o wire
    IN  /\ Len(out) <= accepted * Size
        /\ \A i \in 1..Len(out) : out[i] = i

(* No thread is inside sendInLoop, handleWrite, or a change of events_, and *)
(* no call of sendInLoop is waiting in the queue.                           *)
Quiet ==
    /\ pc[Loop] \in {"poll", "event", "callback"}
    /\ \A w \in Worker : running[w] = Idle
    /\ queue = <<>>

(* Between the operations, and until shutdown() interferes, epoll watches   *)
(* for writability exactly when there is something to write: otherwise      *)
(* units are stranded, or the loop spins.                                   *)
InterestMatchesBuffer ==
    Quiet /\ state = "connected" /\ ~closing => (("OUT" \in armed) <=> (outBuf # <<>>))

(* The raw this of a queued sendInLoop or shutdown is used only while the   *)
(* connection exists.                                                       *)
UsedIsLive ==
    \A t \in Thread : pc[t] \in SendPc \cup {"disarm", "disarmCtl"} => alive

(* Nothing is stranded: until the peer has all the units of the accepted    *)
(* messages, it has some to take, or a call of sendInLoop is queued or       *)
(* under way, or handleWrite is, or epoll watches for the room to write.    *)
Cut == closing \/ (use.ends = "any" /\ fin)

NothingStranded ==
    ~Cut /\ Len(got) < accepted * Size =>
        \/ wire # <<>>
        \/ \E i \in DOMAIN queue : queue[i] \notin {ShutdownTask, RemoveTask}
        \/ \E t \in Thread : pc[t] \in SendPc
        \/ pc[Loop] = "flushed"
        \/ "OUT" \in armed /\ Room > 0

(* send keeps its promise, all the way to the peer: each unit once and in   *)
(* order; and all of them, unless shutdown() was called, or the peer ended  *)
(* its stream before it had its answers: what is in outBuf_ then is dropped. *)
Stream == INSTANCE OutputStream WITH
              delivered <- got, cut <- Cut
ImplementsStream == Stream!Spec
=============================================================================
