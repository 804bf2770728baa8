------------------------------ MODULE TcpServer ------------------------------
(***************************************************************************)
(* The reactor of kenet and the lifetime of its connections: the loop       *)
(* thread (EventLoop::loop, Poller::poll, Channel::handleEvent), the        *)
(* Acceptor, TcpServer's table conns_ and counter totalConnections_, the    *)
(* closing half of TcpConnection, and the tasks of TcpServer::removeConn,   *)
(* which EventLoop::runInLoop gives to the thread pool.                     *)
(*                                                                         *)
(* A TcpConnection and the Channel it owns are one element of Conn: the     *)
(* Channel is destroyed, and its descriptor closed, by the destructor of    *)
(* the connection.  Every accept makes a new object.  The threads are the   *)
(* loop thread, the workers of the pool, and user threads that kept a       *)
(* TcpConnection::Ptr a callback was given.  The kernel and the peers are   *)
(* the environment.  Of send and shutdown this module has what they do to   *)
(* the events a Channel asks for, and when; the bytes are the subject of    *)
(* TcpConnection.tla, starting and stopping the loop of ServerLifecycle.tla. *)
(***************************************************************************)
EXTENDS Integers, Sequences, FiniteSets

CONSTANTS
    Conn,      \* connections the peers may make
    Fd,        \* descriptors the process may have open (RLIMIT_NOFILE)
    Worker,    \* threads of EventLoop::threadPool_
    None,      \* the null pointer
    Listener,  \* the Acceptor's channel
    CountMod,  \* 2^64, the range of the counter totalConnections_
    MaxData,   \* bound: chunks a socket's receive queue holds
    MaxPosts,  \* bound: tasks of send and shutdown given to the pool
    Inline,    \* BOOLEAN: start(), not startInThread(): isInLoopThread() holds
               \* in the callbacks, because the loop runs where it was made
    MaxResets  \* bound: connections that are reset by their peers, not only ended

(* The closures of send and shutdown; each captured a raw this. *)
RawTask == {"send", "shutdown"} \X Conn

ASSUME ObjectsAreDistinct ==
    None \notin Conn /\ Listener \notin Conn /\ None # Listener /\ None \notin Fd
ASSUME CountModIsPositive == CountMod \in Nat \ {0}
ASSUME CountModIsEnough == IsFiniteSet(Fd) /\ Cardinality(Fd) < CountMod
ASSUME MaxDataIsNat == MaxData \in Nat
ASSUME MaxPostsIsNat == MaxPosts \in Nat
ASSUME MaxResetsIsNat == MaxResets \in Nat
ASSUME InlineIsBoolean == Inline \in BOOLEAN
ASSUME TasksAreDistinct == RawTask \cap (Conn \cup {None}) = {}

VARIABLES
    (* kernel and peers *)
    inq,       \* chunks of unread input of each connection
    fin,       \* the peer has ended its stream
    rst,       \* the peer has reset the connection
    err,       \* SO_ERROR is pending on the socket
    openFd,    \* descriptors open in the process
    (* TcpConnection and Channel *)
    life,      \* "none", "backlog" of the listening socket, "live" or "dead"
    fdOf,      \* TcpConnection::fd_
    state,     \* TcpConnection::state_
    events,    \* Channel::events_
    armed,     \* the events epoll watches for the channel
    (* TcpServer *)
    conns,     \* conns_: the connection kept for a descriptor, or None
    total,     \* totalConnections_
    (* loop thread *)
    loopPc,    \* "loop", in "event" (handleEvent), or in onNewConn
    batch,     \* activeChannels_: the events of each channel not yet handled
    cur,       \* the channel whose events are being handled, or None
    rev,       \* those of its events that are still to be handled
    fresh,     \* the local shared_ptr of onNewConn, or None
    (* pool, users *)
    queue, running, \* the tasks: a connection is the task of removeConn that
               \* holds it, the others are of RawTask
    erased,    \* workers that have run the body of their removeConn task
    step,      \* how far a worker is in Channel::enableWriting or disableWriting
    local,     \* the value of events_ that it has read
    posted,    \* number of tasks of RawTask so far, for the bound
    user,      \* connections a user thread holds a Ptr to
    late,      \* history: a task of RawTask has changed the events of a
               \* connection that is not connected any more, or met a dead one
    aborted    \* the process was ended, by SIGPIPE or a destroyed object

kernelVars == <<inq, fin, rst, err>>
connVars   == <<life, fdOf, state, events, armed, openFd>>
tableVars  == <<conns, total>>
loopVars   == <<loopPc, batch, cur, rev, fresh>>
poolVars   == <<queue, running, erased, step, local, posted, late>>
vars == <<kernelVars, connVars, tableVars, loopVars, poolVars, user, aborted>>

Channel   == Conn \cup {Listener}
Interest  == {"IN", "OUT"}
EventMask == Interest \cup {"ERR", "HUP"}
Task      == Conn \cup RawTask

(* EventLoop::threadPool_; it outlives every step of this module. *)
Pool == INSTANCE TaskQueue WITH Idle <- None, open <- TRUE

TypeOK ==
    /\ inq \in [Conn -> 0..MaxData]
    /\ fin \in [Conn -> BOOLEAN] /\ rst \in [Conn -> BOOLEAN] /\ err \in [Conn -> BOOLEAN]
    /\ openFd \in SUBSET Fd
    /\ life \in [Conn -> {"none", "backlog", "live", "dead"}]
    /\ fdOf \in [Conn -> Fd \cup {None}]
    /\ state \in [Conn -> {"connecting", "connected", "disconnected"}]
    /\ events \in [Conn -> SUBSET Interest] /\ armed \in [Conn -> SUBSET Interest]
    /\ conns \in [Fd -> Conn \cup {None}]
    /\ total \in 0..CountMod-1
    /\ loopPc \in {"loop", "event", "insert", "establish"}
    /\ batch \in [Channel -> SUBSET EventMask]
    /\ cur \in Channel \cup {None}
    /\ rev \in SUBSET EventMask
    /\ fresh \in Conn \cup {None}
    /\ queue \in Seq(Task)
    /\ running \in [Worker -> Task \cup {None}]
    /\ erased \in SUBSET Worker
    /\ step \in [Worker -> {"start", "mask", "read", "ctl"}]
    /\ local \in [Worker -> SUBSET Interest]
    /\ posted \in 0..MaxPosts
    /\ late \in BOOLEAN
    /\ user \in SUBSET Conn
    /\ aborted \in BOOLEAN

Init ==
    /\ inq = [c \in Conn |-> 0]
    /\ fin = [c \in Conn |-> FALSE]
    /\ rst = [c \in Conn |-> FALSE]
    /\ err = [c \in Conn |-> FALSE]
    /\ openFd = {}
    /\ life = [c \in Conn |-> "none"]
    /\ fdOf = [c \in Conn |-> None]
    /\ state = [c \in Conn |-> "connecting"]
    /\ events = [c \in Conn |-> {}] /\ armed = [c \in Conn |-> {}]
    /\ conns = [f \in Fd |-> None]
    /\ total = 0
    /\ loopPc = "loop" /\ cur = None /\ rev = {} /\ fresh = None
    /\ batch = [ch \in Channel |-> {}]
    /\ queue = <<>>
    /\ running = [w \in Worker |-> None]
    /\ erased = {}
    /\ step = [w \in Worker |-> "start"] /\ local = [w \in Worker |-> {}]
    /\ posted = 0 /\ late = FALSE
    /\ user = {}
    /\ aborted = FALSE
-----------------------------------------------------------------------------
(* The peers. *)

Connect(c) ==
    /\ life[c] = "none"
    /\ life' = [life EXCEPT ![c] = "backlog"]
    /\ UNCHANGED <<kernelVars, fdOf, state, events, armed, openFd, tableVars, loopVars,
                   poolVars, user, aborted>>

Alive(c) == life[c] \in {"backlog", "live"} /\ ~rst[c]

PeerSend(c) ==
    /\ Alive(c) /\ ~fin[c] /\ inq[c] < MaxData
    /\ inq' = [inq EXCEPT ![c] = @ + 1]
    /\ UNCHANGED <<fin, rst, err>>

PeerFin(c) ==
    /\ Alive(c) /\ ~fin[c]
    /\ fin' = [fin EXCEPT ![c] = TRUE]
    /\ UNCHANGED <<inq, rst, err>>

PeerReset(c) ==
    /\ Alive(c) /\ Cardinality({d \in Conn : rst[d]}) < MaxResets
    /\ rst' = [rst EXCEPT ![c] = TRUE]
    /\ err' = [err EXCEPT ![c] = TRUE]
    /\ UNCHANGED <<inq, fin>>

Peer(c) ==
    /\ PeerSend(c) \/ PeerFin(c) \/ PeerReset(c)
    /\ UNCHANGED <<connVars, tableVars, loopVars, poolVars, user, aborted>>
-----------------------------------------------------------------------------
(* Lifetime: shared_ptr, and the destructors it runs. *)

(* A task of removeConn waits in the queue and captured c. *)
Queued(c) == \E i \in DOMAIN queue : queue[i] = c

(* Variants of Held for the mutation of the runs, each with one holder less: *)
(* conns_ of raw pointers, a closure that captures a raw pointer, and        *)
(* handleEvent without the guard that tie_.lock() gives.                     *)
HeldNotByTable(c) ==
    \/ fresh = c \/ cur = c \/ c \in user
    \/ Queued(c)
    \/ \E w \in Worker : running[w] = c

HeldNotByTask(c) ==
    \/ \E f \in Fd : conns[f] = c
    \/ fresh = c \/ cur = c \/ c \in user

HeldNotByGuard(c) ==
    \/ \E f \in Fd : conns[f] = c
    \/ fresh = c \/ c \in user
    \/ Queued(c)
    \/ \E w \in Worker : running[w] = c

(* The holders of a shared_ptr to c: the table, onNewConn, the guard of     *)
(* handleEvent, the closures of removeConn, and user threads.               *)
Held(c) ==
    \/ \E f \in Fd : conns[f] = c
    \/ fresh = c
    \/ cur = c
    \/ Queued(c)
    \/ \E w \in Worker : running[w] = c
    \/ c \in user

(* A variant: ~Channel without close. *)
DropUnclosed(c) ==
    IF Held(c)'
    THEN UNCHANGED <<life, openFd, inq, fin, err>>
    ELSE /\ life' = [life EXCEPT ![c] = "dead"]
         /\ UNCHANGED <<openFd, inq, fin, err>>

(* A thread gives up a shared_ptr to c.  If it was the last one, the thread *)
(* runs ~TcpConnection and ~Channel: the descriptor is closed, which also   *)
(* takes it out of epoll; what the socket had to report is gone.            *)
Drop(c) ==
    IF Held(c)'
    THEN UNCHANGED <<life, openFd, inq, fin, err>>
    ELSE /\ life' = [life EXCEPT ![c] = "dead"]
         /\ openFd' = openFd \ {fdOf[c]}
         /\ inq' = [inq EXCEPT ![c] = 0]
         /\ fin' = [fin EXCEPT ![c] = FALSE]
         /\ err' = [err EXCEPT ![c] = FALSE]
-----------------------------------------------------------------------------
(* The loop thread: epoll_wait and the dispatch of its result. *)

(* What epoll reports of a socket: EPOLLIN and EPOLLOUT if it watches for   *)
(* them, EPOLLERR and EPOLLHUP always.  The peers decide which sockets have *)
(* room in their send buffers; a reset one takes every write, to fail it.   *)
Ready(c, room) ==
    {e \in EventMask :
        \/ e = "IN"  /\ e \in armed[c] /\ (inq[c] > 0 \/ fin[c] \/ rst[c])
        \/ e = "OUT" /\ e \in armed[c] /\ (c \in room \/ rst[c])
        \/ e = "ERR" /\ err[c]
        \/ e = "HUP" /\ rst[c]}

Backlog == {c \in Conn : life[c] = "backlog"}

ReadyEvents(ch, room) ==
    IF ch = Listener
    THEN IF Backlog # {} THEN {"IN"} ELSE {}
    ELSE IF life[ch] = "live" /\ state[ch] # "connecting" THEN Ready(ch, room) ELSE {}

(* Poller::poll with something to report; a timeout or EINTR changes nothing. *)
Poll ==
    /\ loopPc = "loop" /\ \A ch \in Channel : batch[ch] = {}
    /\ \E room \in SUBSET {c \in Conn : "OUT" \in armed[c]} :
          /\ \E ch \in Channel : ReadyEvents(ch, room) # {}
          /\ batch' = [ch \in Channel |-> ReadyEvents(ch, room)]
    /\ UNCHANGED <<kernelVars, connVars, tableVars, loopPc, cur, rev, fresh,
                   poolVars, user, aborted>>

(* Channel::handleEvent finds its owner alive; the guard is cur itself. *)
HandleEvent(ch) ==
    /\ loopPc = "loop" /\ batch[ch] # {}
    /\ ch \in Conn => life[ch] = "live"
    /\ loopPc' = "event"
    /\ cur' = ch
    /\ rev' = batch[ch]
    /\ batch' = [batch EXCEPT ![ch] = {}]
    /\ UNCHANGED <<kernelVars, connVars, tableVars, fresh, poolVars, user, aborted>>

(* The batch holds a raw Channel* whose object is gone.  Reading it is      *)
(* undefined: either the remains of tie_ still say "expired" and nothing    *)
(* happens, or the process ends.                                            *)
HandleEventOfDead(c) ==
    /\ loopPc = "loop" /\ batch[c] # {}
    /\ life[c] = "dead"
    /\ batch' = [batch EXCEPT ![c] = {}]
    /\ aborted' \in BOOLEAN
    /\ UNCHANGED <<kernelVars, connVars, tableVars, loopPc, cur, rev, fresh,
                   poolVars, user>>

(* TcpServer::removeConn, called through onClose_: the task holds c. *)
SubmitRemove(c) == Pool!Put(c) /\ UNCHANGED <<erased, step, local, posted, late>>

(* The loop thread sets events_ and calls Channel::update. *)
SetEvents(c, mask) ==
    /\ events' = [events EXCEPT ![c] = mask]
    /\ armed' = [armed EXCEPT ![c] = mask]

(* Variants of Disconnect: one that leaves the events enabled, one that     *)
(* forgets to call onClose_.                                                *)
DisconnectListening(c) ==
    /\ state' = [state EXCEPT ![c] = "disconnected"]
    /\ SubmitRemove(c)
    /\ UNCHANGED <<life, fdOf, openFd, events, armed>>

DisconnectQuietly(c) ==
    /\ state' = [state EXCEPT ![c] = "disconnected"]
    /\ SetEvents(c, {})
    /\ UNCHANGED <<life, fdOf, openFd, poolVars>>

(* handleClose, and the end of handleError: kDisconnected, disableAll(),   *)
(* onClose_.  Neither asks whether the connection is disconnected already. *)
Disconnect(c) ==
    /\ state' = [state EXCEPT ![c] = "disconnected"]
    /\ SetEvents(c, {})
    /\ SubmitRemove(c)
    /\ UNCHANGED <<life, fdOf, openFd>>

(* EventLoop::runInLoop for send and shutdown. *)
Post(t) ==
    /\ posted < MaxPosts
    /\ posted' = posted + 1
    /\ Pool!Put(t)
    /\ UNCHANGED <<erased, step, local, late>>

(* ::write to a reset socket: the pending error is fetched, but the EPIPE   *)
(* of one that had ended its stream before, like that of every later write, *)
(* comes with SIGPIPE, which nobody ignores.                                *)
WriteFails(c) ==
    /\ rst[c]
    /\ err' = [err EXCEPT ![c] = FALSE]
    /\ aborted' = (~err[c] \/ fin[c])

(* TcpConnection::send in the loop thread: sendInLoop leaves output behind, *)
(* so that enableWriting follows, or all is written or joins older output,  *)
(* or the write fails.  With another tid_ the work is left to the pool.     *)
Send(c) ==
    \/ /\ Inline /\ ~rst[c]
       /\ SetEvents(c, events[c] \cup {"OUT"})
       /\ UNCHANGED <<err, poolVars, aborted>>
    \/ Inline /\ UNCHANGED <<err, events, armed, poolVars, aborted>>
    \/ Inline /\ WriteFails(c) /\ UNCHANGED <<events, armed, poolVars>>
    \/ ~Inline /\ Post(<<"send", c>>) /\ UNCHANGED <<err, events, armed, aborted>>

Shutdown(c) == Post(<<"shutdown", c>>) /\ UNCHANGED <<err, events, armed, aborted>>

(* handleRead with n > 0: onMessage_ gets a Ptr it may keep, and may call   *)
(* send or shutdown, which do something only in state kConnected.          *)
HandleReadData(c) ==
    /\ loopPc = "event" /\ cur = c /\ "IN" \in rev
    /\ inq[c] > 0
    /\ inq' = [inq EXCEPT ![c] = @ - 1]
    /\ rev' = rev \ {"IN"}
    /\ user' \in {user, user \cup {c}}
    /\ \/ UNCHANGED <<err, events, armed, poolVars, aborted>>
       \/ state[c] = "connected" /\ (Send(c) \/ Shutdown(c))
    /\ UNCHANGED <<fin, rst, life, fdOf, state, openFd, tableVars, loopPc, batch, cur,
                   fresh>>

(* handleRead with n = 0: the stream has ended, or the error of a reset was *)
(* fetched before.                                                          *)
HandleReadEnd(c) ==
    /\ loopPc = "event" /\ cur = c /\ "IN" \in rev
    /\ inq[c] = 0 /\ (fin[c] \/ ~err[c])
    /\ rev' = rev \ {"IN"}
    /\ Disconnect(c)
    /\ UNCHANGED <<kernelVars, tableVars, loopPc, batch, cur, fresh, user, aborted>>

(* handleRead with n < 0 calls handleError. *)
HandleReadError(c) ==
    /\ loopPc = "event" /\ cur = c /\ "IN" \in rev
    /\ inq[c] = 0 /\ ~fin[c] /\ err[c]
    /\ err' = [err EXCEPT ![c] = FALSE]
    /\ rev' = rev \ {"IN"}
    /\ Disconnect(c)
    /\ UNCHANGED <<inq, fin, rst, tableVars, loopPc, batch, cur, fresh, user, aborted>>

(* EPOLLOUT, after EPOLLIN of the same report, even if that one has closed  *)
(* the connection: output is left, or handleWrite calls disableWriting.     *)
HandleWrite(c) ==
    /\ loopPc = "event" /\ cur = c /\ "IN" \notin rev /\ "OUT" \in rev
    /\ rev' = rev \ {"OUT"}
    /\ \/ UNCHANGED <<err, events, armed, aborted>>
       \/ ~rst[c] /\ SetEvents(c, events[c] \ {"OUT"}) /\ UNCHANGED <<err, aborted>>
       \/ WriteFails(c) /\ UNCHANGED <<events, armed>>
    /\ UNCHANGED <<inq, fin, rst, life, fdOf, state, openFd, tableVars, loopPc, batch,
                   cur, fresh, poolVars, user>>

(* EPOLLERR, after the other events of the same report: getsockopt fetches *)
(* and clears the error.                                                   *)
HandleError(c) ==
    /\ loopPc = "event" /\ cur = c /\ rev \cap Interest = {} /\ "ERR" \in rev
    /\ err' = [err EXCEPT ![c] = FALSE]
    /\ rev' = rev \ {"ERR"}
    /\ Disconnect(c)
    /\ UNCHANGED <<inq, fin, rst, tableVars, loopPc, batch, cur, fresh, user, aborted>>

(* The end of handleEvent releases the guard. *)
EndEvent(c) ==
    /\ loopPc = "event" /\ cur = c /\ rev \subseteq {"HUP"}
    /\ loopPc' = "loop"
    /\ cur' = None
    /\ rev' = {}
    /\ UNCHANGED <<rst, fdOf, state, events, armed, tableVars, batch, fresh,
                   poolVars, user, aborted>>
    /\ Drop(c)
-----------------------------------------------------------------------------
(* The loop thread: Acceptor::handleAccept and TcpServer::onNewConn. *)

(* accept4 succeeds; onNewConn counts and constructs the connection. *)
HandleAccept(c, f) ==
    /\ loopPc = "event" /\ cur = Listener
    /\ life[c] = "backlog" /\ f \notin openFd
    /\ life' = [life EXCEPT ![c] = "live"]
    /\ fdOf' = [fdOf EXCEPT ![c] = f]
    /\ openFd' = openFd \cup {f}
    /\ total' = (total + 1) % CountMod
    /\ fresh' = c
    /\ loopPc' = "insert"
    /\ UNCHANGED <<kernelVars, state, events, armed, conns, batch, cur, rev, poolVars,
                   user, aborted>>

(* conns_.insert, under mu: an existing entry would be kept. *)
InsertConn(c) ==
    /\ loopPc = "insert" /\ fresh = c
    /\ conns' = [conns EXCEPT ![fdOf[c]] = IF @ = None THEN c ELSE @]
    /\ loopPc' = "establish"
    /\ UNCHANGED <<kernelVars, connVars, total, batch, cur, rev, fresh, poolVars,
                   user, aborted>>

(* connectEstablished and the end of onNewConn; onConn_ may keep the Ptr. *)
ConnectEstablished(c) ==
    /\ loopPc = "establish" /\ fresh = c
    /\ state' = [state EXCEPT ![c] = "connected"]
    /\ SetEvents(c, {"IN"})
    /\ user' \in {user, user \cup {c}}
    /\ fresh' = None
    /\ loopPc' = "event"
    /\ UNCHANGED <<rst, fdOf, tableVars, batch, cur, rev, poolVars, aborted>>
    /\ Drop(c)

(* accept4 fails: EAGAIN with an empty backlog, EMFILE with no descriptor. *)
EndAccept ==
    /\ loopPc = "event" /\ cur = Listener
    /\ Backlog = {} \/ openFd = Fd
    /\ loopPc' = "loop"
    /\ cur' = None
    /\ rev' = {}
    /\ UNCHANGED <<kernelVars, connVars, tableVars, batch, fresh, poolVars, user, aborted>>
-----------------------------------------------------------------------------
(* The workers of the pool, and the user threads. *)

StartTask(w) ==
    /\ Pool!Take(w)
    /\ UNCHANGED <<kernelVars, connVars, tableVars, loopVars, erased, step, local,
                   posted, late, user, aborted>>

(* A variant: a signed counter. *)
RemoveConnSigned(w, c) ==
    /\ running[w] = c /\ w \notin erased
    /\ conns' = [conns EXCEPT ![fdOf[c]] = None]
    /\ total' = IF total = 0 THEN -1 ELSE total - 1
    /\ erased' = erased \cup {w}
    /\ UNCHANGED <<kernelVars, connVars, loopVars, queue, running, step, local,
                   posted, late, user, aborted>>

(* The body of removeConn's task, under mu. *)
RemoveConn(w, c) ==
    /\ running[w] = c /\ w \notin erased
    /\ conns' = [conns EXCEPT ![fdOf[c]] = None]
    /\ total' = (total + CountMod - 1) % CountMod
    /\ erased' = erased \cup {w}
    /\ UNCHANGED <<kernelVars, connVars, loopVars, queue, running, step, local,
                   posted, late, user, aborted>>

(* The task is destroyed, and with it the Ptr it captured. *)
EndRemove(w, c) ==
    /\ w \in erased /\ running[w] = c
    /\ Pool!Retire(w)
    /\ erased' = erased \ {w}
    /\ UNCHANGED <<rst, fdOf, state, events, armed, tableVars, loopVars, step,
                   local, posted, late, user, aborted>>
    /\ Drop(c)

(* A task of send or shutdown is over; it held nothing. *)
EndRaw(w) ==
    /\ Pool!Retire(w)
    /\ step' = [step EXCEPT ![w] = "start"]
    /\ local' = [local EXCEPT ![w] = {}]
    /\ UNCHANGED <<erased, posted>>

(* enableWriting or disableWriting has read events_. *)
ReadMask(w, mask) ==
    /\ step' = [step EXCEPT ![w] = "mask"]
    /\ local' = [local EXCEPT ![w] = mask]
    /\ UNCHANGED <<queue, running, erased, posted, late, err, aborted>>

(* sendInLoop in a worker: as in Send, but it does not ask for the state.   *)
SendTask(w, c) ==
    /\ running[w] = <<"send", c>> /\ step[w] = "start" /\ life[c] = "live"
    /\ \/ ~rst[c] /\ ReadMask(w, events[c] \cup {"OUT"})
       \/ EndRaw(w) /\ UNCHANGED <<late, err, aborted>>
       \/ WriteFails(c) /\ EndRaw(w) /\ UNCHANGED late
    /\ UNCHANGED <<inq, fin, rst, connVars, tableVars, loopVars, user>>

ShutdownTask(w, c) ==
    /\ running[w] = <<"shutdown", c>> /\ step[w] = "start" /\ life[c] = "live"
    /\ ReadMask(w, events[c] \ {"OUT"})
    /\ UNCHANGED <<inq, fin, rst, connVars, tableVars, loopVars, user>>

(* Worker w runs a task of send or shutdown of c. *)
RunsRaw(w, c) == running[w] \in {<<"send", c>>, <<"shutdown", c>>}

(* events_ is written, without a lock. *)
SetMask(w, c) ==
    /\ RunsRaw(w, c) /\ step[w] = "mask" /\ life[c] = "live"
    /\ events' = [events EXCEPT ![c] = local[w]]
    /\ late' = (late \/ state[c] # "connected")
    /\ step' = [step EXCEPT ![w] = "read"]
    /\ UNCHANGED <<kernelVars, life, fdOf, state, armed, openFd, tableVars, loopVars,
                   queue, running, erased, local, posted, user, aborted>>

(* Poller::updateChannel reads events_ again ... *)
ReloadMask(w, c) ==
    /\ RunsRaw(w, c) /\ step[w] = "read" /\ life[c] = "live"
    /\ local' = [local EXCEPT ![w] = events[c]]
    /\ step' = [step EXCEPT ![w] = "ctl"]
    /\ UNCHANGED <<kernelVars, connVars, tableVars, loopVars, queue, running, erased,
                   posted, late, user, aborted>>

(* ... and calls epoll_ctl. *)
UpdateChannel(w, c) ==
    /\ RunsRaw(w, c) /\ step[w] = "ctl" /\ life[c] = "live"
    /\ armed' = [armed EXCEPT ![c] = local[w]]
    /\ late' = (late \/ state[c] # "connected")
    /\ EndRaw(w)
    /\ UNCHANGED <<kernelVars, life, fdOf, state, events, openFd, tableVars, loopVars,
                   user, aborted>>

(* The this that the task captured is gone.  Using it is undefined: either  *)
(* the remains do no harm here (shared_from_this of the Channel throws, the *)
(* worker catches), or the process ends.  A worker that is in updateChannel *)
(* keeps the Channel, and its descriptor, until it returns; the model closes *)
(* the descriptor with the connection.                                     *)
RawOfDead(w, c) ==
    /\ RunsRaw(w, c) /\ life[c] = "dead"
    /\ EndRaw(w)
    /\ late' = TRUE
    /\ aborted' \in BOOLEAN
    /\ UNCHANGED <<kernelVars, connVars, tableVars, loopVars, user>>

UserRelease(c) ==
    /\ c \in user
    /\ user' = user \ {c}
    /\ UNCHANGED <<rst, fdOf, state, events, armed, tableVars, loopVars, poolVars, aborted>>
    /\ Drop(c)
-----------------------------------------------------------------------------
LoopStep ==
    \/ Poll
    \/ \E ch \in Channel : HandleEvent(ch)
    \/ \E c \in Conn :
          \/ HandleEventOfDead(c)
          \/ HandleReadData(c) \/ HandleReadEnd(c) \/ HandleReadError(c)
          \/ HandleWrite(c) \/ HandleError(c) \/ EndEvent(c)
          \/ InsertConn(c) \/ ConnectEstablished(c)
    \/ \E c \in Conn, f \in Fd : HandleAccept(c, f)
    \/ EndAccept

RawStep(w, c) ==
    \/ SendTask(w, c) \/ ShutdownTask(w, c)
    \/ SetMask(w, c) \/ ReloadMask(w, c) \/ UpdateChannel(w, c)
    \/ RawOfDead(w, c)

RunTask(w) == \E c \in Conn : RemoveConn(w, c) \/ EndRemove(w, c) \/ RawStep(w, c)

WorkerStep(w) == StartTask(w) \/ RunTask(w)

Environment == \E c \in Conn : Connect(c) \/ Peer(c) \/ UserRelease(c)

Next ==
    /\ ~aborted
    /\ \/ LoopStep
       \/ \E w \in Worker : WorkerStep(w)
       \/ Environment

(* The loop thread and every worker are running threads: none is suspended *)
(* for ever.  Peers and users owe nothing.                                 *)
Fairness ==
    /\ WF_vars(~aborted /\ LoopStep)
    /\ WF_vars(~aborted /\ \E w \in Worker : StartTask(w))
    /\ \A w \in Worker : WF_vars(~aborted /\ RunTask(w))

Spec     == Init /\ [][Next]_vars
FairSpec == Spec /\ Fairness
-----------------------------------------------------------------------------
(* Properties. *)

(* An entry of conns_ is a connection that exists and still owns the        *)
(* descriptor it is filed under: closing a descriptor, reusing it and       *)
(* erasing the entry, on three different threads, never get out of step.    *)
TableOwnsSockets ==
    \A f \in Fd : conns[f] # None =>
        life[conns[f]] = "live" /\ fdOf[conns[f]] = f /\ f \in openFd

(* TcpServer never loses a working connection: from connectEstablished on,  *)
(* a connection that is not disconnected is in conns_, also when the entry  *)
(* of an earlier owner of its descriptor is erased late, or twice.          *)
ConnectedIsTracked ==
    \A c \in Conn : life[c] = "live" /\ state[c] = "connected" => conns[fdOf[c]] = c

(* The kernel's and the server's idea of a descriptor agree: two existing   *)
(* connections never share one, so no read or erase hits a stranger.        *)
OneSocketPerFd ==
    \A c, d \in Conn :
        life[c] = "live" /\ life[d] = "live" /\ fdOf[c] = fdOf[d] => c = d

(* Channel::tie at work: a connection whose events are being handled is not *)
(* destroyed under the handler, although a worker may erase it from conns_  *)
(* and end its task while handleEvent is still running.                     *)
HandledIsLive == cur \in Conn => life[cur] = "live"

(* Erasing an entry of conns_ only ever removes a disconnected connection.  *)
OnlyDisconnectedErased ==
    [][\A f \in Fd : conns[f] # None /\ conns'[f] # conns[f] =>
          conns'[f] = None /\ state[conns[f]] = "disconnected"]_vars

(* totalConnections_ is what removeConn logs as "total connections": the    *)
(* number of entries of conns_, and the one being inserted.                 *)
TotalIsTableSize ==
    total = Cardinality({f \in Fd : conns[f] # None})
            + (IF loopPc = "insert" THEN 1 ELSE 0)

(* No raw Channel* that epoll_wait returned outlives its Channel.           *)
BatchIsLive == \A c \in Conn : batch[c] # {} => life[c] = "live"

(* As long as no peer has reset a connection, and no task of send or        *)
(* shutdown has changed the events of one that is closed, every connection  *)
(* is removed once, and by a handler that was the last to be called for it: *)
(* neither of the two can go wrong, whatever else the tasks do.             *)
Orderly             == (\A c \in Conn : ~rst[c]) /\ ~late
OrderlyTotalIsExact == Orderly => TotalIsTableSize
OrderlyBatchIsLive  == Orderly => BatchIsLive

(* No connection is forgotten.  One that exists has a holder who will drop  *)
(* it; as long as it is connected epoll watches it for input, whatever the   *)
(* tasks of send and shutdown do to its events, so that the end of its      *)
(* stream is seen; and once it is disconnected, the task that takes it out  *)
(* of conns_ is queued or running.                                         *)
NobodyIsForgotten ==
    \A c \in Conn : life[c] = "live" =>
        /\ Held(c)
        /\ state[c] = "connecting" => fresh = c
        /\ state[c] = "connected" => "IN" \in armed[c]
        /\ state[c] = "disconnected" /\ conns[fdOf[c]] = c =>
               Queued(c) \/ \E w \in Worker \ erased : running[w] = c

(* How far a connection is in its life: the object, its state, and conns_   *)
(* must agree on it at every step.                                         *)
Stage(c) ==
    CASE life[c] \in {"none", "backlog"} -> "pending"
      [] life[c] = "dead" -> "destroyed"
      [] life[c] = "live" /\ fresh = c -> "accepted"
      [] OTHER -> IF conns[fdOf[c]] = c THEN state[c] ELSE "removed"

(* Every connection has the life that ConnLife describes, although accept,  *)
(* the reports of epoll, the erasing from conns_ and the last Ptr may be on *)
(* four threads, and the erasing may be done twice.                        *)
Life == INSTANCE ConnLife WITH stage <- [c \in Conn |-> Stage(c)]
ImplementsConnLife == Life!Spec

(* A connection whose peer has gone leaves conns_, and is destroyed unless  *)
(* a user thread keeps it.                                                  *)
GoneIsDestroyed ==
    \A c \in Conn : (life[c] = "live" /\ (fin[c] \/ rst[c])) ~>
        \/ aborted
        \/ life[c] = "dead"
        \/ c \in user /\ \A f \in Fd : conns[f] # c

(* A pending connection is accepted, unless the connections that exist use  *)
(* up the descriptors: those of destroyed ones come back.                   *)
BacklogIsAccepted ==
    \A c \in Conn : life[c] = "backlog" ~>
        \/ aborted
        \/ life[c] # "backlog"
        \/ \A f \in Fd : \E d \in Conn : life[d] = "live" /\ fdOf[d] = f
=============================================================================
