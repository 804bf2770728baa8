--------------------------- MODULE TcpServerProofs ---------------------------
(***************************************************************************)
(* The table conns_, the descriptors and the connections of TcpServer never *)
(* get out of step, for any number of connections, descriptors and workers, *)
(* and with resets.                                                        *)
(*                                                                         *)
(* The inductive invariant Inv says in addition who may hold what: every    *)
(* holder of a shared_ptr holds a live connection (HeldIsLive), a live      *)
(* connection owns an open descriptor (LiveOwnsFd), a task of removeConn    *)
(* exists only for a disconnected connection (DoomedIsDisconnected), and    *)
(* the connection that onNewConn is setting up is in conns_ before it is    *)
(* registered with epoll (FreshInv).                                       *)
(*                                                                         *)
(* Two parts follow it: what holds until a peer resets a connection or a    *)
(* task of send or shutdown comes late (OrderlyInv), and, with both, that   *)
(* no connection is forgotten (AnyInv), from which the server implements    *)
(* ConnLife.                                                               *)
(***************************************************************************)
EXTENDS TcpServer, QueueLemmas, FiniteSetTheorems

HeldIsLive == \A c \in Conn : Held(c) => life[c] = "live"

LiveOwnsFd == \A c \in Conn : life[c] = "live" => fdOf[c] \in openFd

DoomedIsDisconnected ==
    \A c \in Conn : Queued(c) \/ (\E w \in Worker : running[w] = c)
                        => state[c] = "disconnected"

FreshInv ==
    /\ fresh # None <=> loopPc \in {"insert", "establish"}
    /\ fresh # None => state[fresh] = "connecting"
    /\ loopPc = "establish" => conns[fdOf[fresh]] = fresh
    /\ \A c \in Conn : life[c] \in {"none", "backlog"} => state[c] = "connecting"

LifeInv  == HeldIsLive /\ LiveOwnsFd /\ OneSocketPerFd /\ TableOwnsSockets
StateInv == DoomedIsDisconnected /\ FreshInv /\ ConnectedIsTracked

Inv == TypeOK /\ LifeInv /\ StateInv

(* What a task of send or shutdown leaves alone: everything but the events *)
(* of its channel, a pending error of its socket, and its own progress.     *)
LEMMA RawFrame ==
    ASSUME TypeOK, NEW w \in Worker, NEW c \in Conn, RawStep(w, c)
    PROVE  /\ life' = life /\ fdOf' = fdOf /\ state' = state /\ openFd' = openFd
           /\ conns' = conns /\ total' = total
           /\ loopPc' = loopPc /\ batch' = batch /\ cur' = cur /\ rev' = rev /\ fresh' = fresh
           /\ inq' = inq /\ fin' = fin /\ rst' = rst
           /\ queue' = queue /\ erased' = erased /\ user' = user
           /\ RunsRaw(w, c) /\ running[w] \in RawTask
           /\ running' = running \/ running' = [running EXCEPT ![w] = None]
           /\ \A v \in Worker, d \in Conn : running'[v] = d <=> running[v] = d
           /\ \A d \in Conn : (Queued(d)' <=> Queued(d)) /\ (Held(d)' <=> Held(d))
<1> USE DEF RawStep
<1>1. /\ life' = life /\ fdOf' = fdOf /\ state' = state /\ openFd' = openFd
      /\ conns' = conns /\ total' = total
      /\ loopPc' = loopPc /\ batch' = batch /\ cur' = cur /\ rev' = rev /\ fresh' = fresh
      /\ inq' = inq /\ fin' = fin /\ rst' = rst
      /\ queue' = queue /\ erased' = erased /\ user' = user
  BY DEF SendTask, ShutdownTask, SetMask, ReloadMask, UpdateChannel, RawOfDead, ReadMask, EndRaw,
         Pool!Retire, kernelVars, connVars, tableVars, loopVars
<1>2. running' = running \/ running' = [running EXCEPT ![w] = None]
  BY DEF SendTask, ShutdownTask, SetMask, ReloadMask, UpdateChannel, RawOfDead, ReadMask, EndRaw,
         Pool!Retire
<1>3. RunsRaw(w, c) /\ running[w] \in RawTask
  BY DEF SendTask, ShutdownTask, SetMask, ReloadMask, UpdateChannel, RawOfDead, RunsRaw, RawTask
<1>4. \A v \in Worker, d \in Conn : running'[v] = d <=> running[v] = d
  BY <1>2, <1>3, TasksAreDistinct, ObjectsAreDistinct DEF TypeOK
<1>5. \A d \in Conn : Queued(d)' <=> Queued(d)
  BY <1>1 DEF Queued
<1>6. \A d \in Conn : Held(d)' <=> Held(d)
  BY <1>1, <1>4, <1>5 DEF Held
<1> QED
  BY <1>1, <1>2, <1>3, <1>4, <1>5, <1>6

LEMMA RawType == ASSUME TypeOK, NEW w \in Worker, NEW c \in Conn, RawStep(w, c) PROVE TypeOK'
<1>1. running' \in [Worker -> Task \cup {None}]
  BY DEF RawStep, SendTask, ShutdownTask, SetMask, ReloadMask, UpdateChannel, RawOfDead, ReadMask, EndRaw,
         Pool!Retire, TypeOK
<1>2. /\ step' \in [Worker -> {"start", "mask", "read", "ctl"}]
      /\ local' \in [Worker -> SUBSET Interest]
  <2> USE DEF TypeOK, Interest
  <2>1. ASSUME NEW mask \in SUBSET Interest, ReadMask(w, mask) PROVE step' \in [Worker -> {"start", "mask", "read", "ctl"}] /\ local' \in [Worker -> SUBSET Interest]
    BY <2>1 DEF ReadMask
  <2>2. ASSUME EndRaw(w) PROVE step' \in [Worker -> {"start", "mask", "read", "ctl"}] /\ local' \in [Worker -> SUBSET Interest]
    BY <2>2 DEF EndRaw
  <2>3. events[c] \cup {"OUT"} \in SUBSET Interest /\ events[c] \ {"OUT"} \in SUBSET Interest
    OBVIOUS
  <2>4. CASE SendTask(w, c) \/ ShutdownTask(w, c)
    BY <2>1, <2>2, <2>3, <2>4 DEF SendTask, ShutdownTask
  <2>5. CASE SetMask(w, c) \/ ReloadMask(w, c)
    BY <2>5 DEF SetMask, ReloadMask
  <2>6. CASE UpdateChannel(w, c) \/ RawOfDead(w, c)
    BY <2>2, <2>6 DEF UpdateChannel, RawOfDead
  <2> QED
    BY <2>4, <2>5, <2>6 DEF RawStep
<1>3. events' \in [Conn -> SUBSET Interest] /\ armed' \in [Conn -> SUBSET Interest]
  BY DEF RawStep, SendTask, ShutdownTask, SetMask, ReloadMask, UpdateChannel, RawOfDead, connVars, TypeOK
<1>4. late' \in BOOLEAN /\ aborted' \in BOOLEAN /\ err' \in [Conn -> BOOLEAN]
  BY DEF RawStep, SendTask, ShutdownTask, SetMask, ReloadMask, UpdateChannel, RawOfDead, ReadMask, WriteFails,
         kernelVars, TypeOK
<1>5. posted' = posted
  BY DEF RawStep, SendTask, ShutdownTask, SetMask, ReloadMask, UpdateChannel, RawOfDead, ReadMask, EndRaw
<1> QED
  BY <1>1, <1>2, <1>3, <1>4, <1>5, RawFrame DEF TypeOK

(* onMessage_ may give a task of send or shutdown to the pool; nobody's    *)
(* lifetime depends on it.                                                 *)
LEMMA DataFrame ==
    ASSUME TypeOK, NEW c \in Conn, HandleReadData(c)
    PROVE  /\ running' = running /\ erased' = erased /\ step' = step /\ local' = local /\ late' = late
           /\ \/ queue' = queue
              \/ \E t \in RawTask : queue' = Append(queue, t) /\ state[c] = "connected"
                                   /\ t \in {<<"send", c>>, <<"shutdown", c>>}
           /\ \A d \in Conn : Queued(d)' <=> Queued(d)
<1>1. /\ running' = running /\ erased' = erased /\ step' = step /\ local' = local /\ late' = late
      /\ \/ queue' = queue
         \/ \E t \in RawTask : queue' = Append(queue, t) /\ state[c] = "connected"
                              /\ t \in {<<"send", c>>, <<"shutdown", c>>}
  BY DEF HandleReadData, Send, Shutdown, Post, Pool!Put, poolVars, RawTask
<1>2. ASSUME NEW t \in RawTask, queue' = Append(queue, t), NEW d \in Conn PROVE Queued(d)' <=> Queued(d)
  <2>1. t \in Task /\ d # t /\ queue \in Seq(Task)
    BY TasksAreDistinct DEF Task, TypeOK
  <2>2. (\E i \in DOMAIN Append(queue, t) : Append(queue, t)[i] = d)
           <=> (\E i \in DOMAIN queue : queue[i] = d) \/ d = t
    BY <2>1, AppendOccurs
  <2> QED
    BY <1>2, <2>1, <2>2 DEF Queued
<1>3. CASE queue' = queue
  BY <1>1, <1>3 DEF Queued
<1> QED
  BY <1>1, <1>2, <1>3

LEMMA DropType ==
    ASSUME TypeOK, NEW c \in Conn, Drop(c)
    PROVE  /\ life' \in [Conn -> {"none", "backlog", "live", "dead"}] /\ openFd' \in SUBSET Fd
           /\ inq' \in [Conn -> 0 .. MaxData]
           /\ fin' \in [Conn -> BOOLEAN] /\ err' \in [Conn -> BOOLEAN]
<1>1. 0 \in 0 .. MaxData
  BY MaxDataIsNat
<1> QED
  BY <1>1 DEF TypeOK, Drop

LEMMA DropErrors == ASSUME TypeOK, NEW c \in Conn, Drop(c) PROVE \A d \in Conn : err'[d] => err[d]
BY DEF TypeOK, Drop

LEMMA PollRoom ==
    ASSUME Poll PROVE \E room \in SUBSET Conn : batch' = [ch \in Channel |-> ReadyEvents(ch, room)]
<1>1. {c \in Conn : "OUT" \in armed[c]} \in SUBSET Conn
  OBVIOUS
<1> QED
  BY <1>1 DEF Poll

(* Every step keeps the types. *)
LEMMA TypeStep == TypeOK /\ [Next]_vars => TypeOK'
<1> SUFFICES ASSUME TypeOK, [Next]_vars PROVE TypeOK'
  OBVIOUS
<1> USE ObjectsAreDistinct, CountModIsPositive, MaxDataIsNat, MaxPostsIsNat DEF TypeOK, Channel, EventMask, vars, kernelVars, connVars, tableVars, loopVars, poolVars
<1>1. ASSUME NEW c \in Conn, Connect(c) PROVE TypeOK'
  BY <1>1 DEF Connect
<1>2. ASSUME NEW c \in Conn, Peer(c) PROVE TypeOK'
  <2>1. CASE PeerSend(c)
    BY <1>2, <2>1 DEF Peer, PeerSend
  <2>2. CASE PeerFin(c)
    BY <1>2, <2>2 DEF Peer, PeerFin
  <2>3. CASE PeerReset(c)
    BY <1>2, <2>3 DEF Peer, PeerReset
  <2> QED
    BY <1>2, <2>1, <2>2, <2>3 DEF Peer
<1>3. ASSUME NEW c \in Conn, UserRelease(c) PROVE TypeOK'
  BY <1>3, DropType DEF UserRelease
<1>4. CASE Poll
  <2>1. \A ch \in Channel, room \in SUBSET Conn : ReadyEvents(ch, room) \in SUBSET EventMask
    BY DEF ReadyEvents, Ready, Interest
  <2>2. PICK room \in SUBSET Conn : batch' = [ch \in Channel |-> ReadyEvents(ch, room)]
    BY <1>4, PollRoom
  <2>3. batch' \in [Channel -> SUBSET EventMask]
    BY <2>1, <2>2
  <2> QED
    BY <1>4, <2>3 DEF Poll
<1>5. ASSUME NEW ch \in Channel, HandleEvent(ch) PROVE TypeOK'
  BY <1>5 DEF HandleEvent
<1>6. ASSUME NEW c \in Conn, HandleEventOfDead(c) PROVE TypeOK'
  BY <1>6 DEF HandleEventOfDead
<1>7. ASSUME NEW c \in Conn, HandleReadData(c) PROVE TypeOK'
  <2>1. queue' \in Seq(Task)
    <3>1. \A t \in RawTask : t \in Task
      BY DEF Task
    <3>2. \A t \in RawTask : Append(queue, t) \in Seq(Task)
      BY <3>1
    <3>3. queue' = queue \/ \E t \in RawTask : queue' = Append(queue, t)
      BY <1>7, DataFrame
    <3>4. queue \in Seq(Task)
      OBVIOUS
    <3> HIDE DEF TypeOK
    <3> QED
      BY <3>2, <3>3, <3>4, Zenon
  <2>2. events' \in [Conn -> SUBSET Interest] /\ armed' \in [Conn -> SUBSET Interest]
    <3>1. events[c] \cup {"OUT"} \in SUBSET Interest
      BY DEF Interest
    <3>2. CASE SetEvents(c, events[c] \cup {"OUT"})
      BY <3>1, <3>2 DEF SetEvents
    <3>3. CASE UNCHANGED <<events, armed>>
      BY <3>3
    <3>4. SetEvents(c, events[c] \cup {"OUT"}) \/ UNCHANGED <<events, armed>>
      BY <1>7 DEF HandleReadData, Send, Shutdown
    <3> QED
      BY <3>2, <3>3, <3>4
  <2>3. err' \in [Conn -> BOOLEAN] /\ aborted' \in BOOLEAN
    BY <1>7 DEF HandleReadData, Send, Shutdown, WriteFails
  <2>4. posted' \in 0 .. MaxPosts
    BY <1>7 DEF HandleReadData, Send, Shutdown, Post
  <2>5. /\ inq' \in [Conn -> 0 .. MaxData] /\ rev' \in SUBSET EventMask /\ user' \in SUBSET Conn
        /\ fin' = fin /\ rst' = rst /\ life' = life /\ fdOf' = fdOf /\ state' = state /\ openFd' = openFd
        /\ conns' = conns /\ total' = total /\ loopPc' = loopPc /\ batch' = batch /\ cur' = cur
        /\ fresh' = fresh
    BY <1>7 DEF HandleReadData
  <2>6. /\ running' = running /\ erased' = erased /\ step' = step /\ local' = local /\ late' = late
    BY <1>7, DataFrame
  <2> QED
    BY <2>1, <2>2, <2>3, <2>4, <2>5, <2>6
<1>8. ASSUME NEW c \in Conn, HandleReadEnd(c) PROVE TypeOK'
  <2>1. queue' \in Seq(Task)
    BY <1>8 DEF HandleReadEnd, Disconnect, SubmitRemove, Pool!Put, Task
  <2> QED
    BY <1>8, <2>1 DEF HandleReadEnd, Disconnect, SetEvents, SubmitRemove, Pool!Put
<1>9. ASSUME NEW c \in Conn, HandleReadError(c) PROVE TypeOK'
  <2>1. queue' \in Seq(Task)
    BY <1>9 DEF HandleReadError, Disconnect, SubmitRemove, Pool!Put, Task
  <2> QED
    BY <1>9, <2>1 DEF HandleReadError, Disconnect, SetEvents, SubmitRemove, Pool!Put
<1>10. ASSUME NEW c \in Conn, HandleError(c) PROVE TypeOK'
  <2>1. queue' \in Seq(Task)
    BY <1>10 DEF HandleError, Disconnect, SubmitRemove, Pool!Put, Task
  <2> QED
    BY <1>10, <2>1 DEF HandleError, Disconnect, SetEvents, SubmitRemove, Pool!Put
<1>11. ASSUME NEW c \in Conn, EndEvent(c) PROVE TypeOK'
  BY <1>11, DropType DEF EndEvent
<1>12. ASSUME NEW c \in Conn, NEW f \in Fd, HandleAccept(c, f) PROVE TypeOK'
  BY <1>12 DEF HandleAccept
<1>13. ASSUME NEW c \in Conn, InsertConn(c) PROVE TypeOK'
  BY <1>13 DEF InsertConn
<1>14. ASSUME NEW c \in Conn, ConnectEstablished(c) PROVE TypeOK'
  <2>1. events' \in [Conn -> SUBSET Interest] /\ armed' \in [Conn -> SUBSET Interest]
    BY <1>14 DEF ConnectEstablished, SetEvents, Interest
  <2>2. /\ state' \in [Conn -> {"connecting", "connected", "disconnected"}]
        /\ user' \in SUBSET Conn /\ fresh' \in Conn \cup {None}
    BY <1>14 DEF ConnectEstablished
  <2> QED
    BY <1>14, <2>1, <2>2, DropType DEF ConnectEstablished
<1>15. CASE EndAccept
  BY <1>15 DEF EndAccept
<1>16. ASSUME NEW w \in Worker, StartTask(w) PROVE TypeOK'
  <2>1. queue' \in Seq(Task) /\ running' \in [Worker -> Task \cup {None}]
    BY <1>16 DEF StartTask, Pool!Take
  <2> QED
    BY <1>16, <2>1 DEF StartTask
<1>17. ASSUME NEW w \in Worker, NEW c \in Conn, RemoveConn(w, c) PROVE TypeOK'
  <2>1. total' \in 0 .. CountMod - 1
    <3>1. total + CountMod - 1 \in Nat
      OBVIOUS
    <3> QED
      BY <1>17, <3>1 DEF RemoveConn
  <2>2. conns' \in [Fd -> Conn \cup {None}] /\ erased' \in SUBSET Worker
    BY <1>17 DEF RemoveConn
  <2> QED
    BY <1>17, <2>1, <2>2 DEF RemoveConn
<1>18. ASSUME NEW w \in Worker, NEW c \in Conn, EndRemove(w, c) PROVE TypeOK'
  <2>1. running' \in [Worker -> Task \cup {None}] /\ erased' \in SUBSET Worker /\ queue' = queue
    BY <1>18 DEF EndRemove, Pool!Retire
  <2> QED
    BY <1>18, <2>1, DropType DEF EndRemove
<1>19. CASE UNCHANGED vars
  BY <1>19
<1>20. ASSUME NEW c \in Conn, HandleWrite(c) PROVE TypeOK'
  <2>1. events' \in [Conn -> SUBSET Interest] /\ armed' \in [Conn -> SUBSET Interest]
    <3>1. CASE SetEvents(c, events[c] \ {"OUT"})
      BY <3>1 DEF SetEvents
    <3>2. CASE UNCHANGED <<events, armed>>
      BY <3>2
    <3> QED
      BY <1>20, <3>1, <3>2 DEF HandleWrite
  <2>2. err' \in [Conn -> BOOLEAN] /\ aborted' \in BOOLEAN
    BY <1>20 DEF HandleWrite, WriteFails
  <2> QED
    BY <1>20, <2>1, <2>2 DEF HandleWrite
<1>21. ASSUME NEW w \in Worker, NEW c \in Conn, RawStep(w, c) PROVE TypeOK'
  BY <1>21, RawType
<1> QED
  BY <1>1, <1>2, <1>3, <1>4, <1>5, <1>6, <1>7, <1>8, <1>9, <1>10, <1>11,
    <1>12, <1>13, <1>14, <1>15, <1>16, <1>17, <1>18, <1>19, <1>20, <1>21
  DEF Next, LoopStep, WorkerStep, RunTask, Environment
-----------------------------------------------------------------------------
(* Which connections the queued tasks hold after runInLoop and after a     *)
(* worker has taken the front one.                                         *)
LEMMA PutTask ==
    ASSUME queue \in Seq(Task), NEW t \in Task, queue' = Append(queue, t)
    PROVE  \A u \in Conn \cup RawTask : Queued(u)' <=> Queued(u) \/ u = t
BY AppendOccurs DEF Queued

LEMMA PutQueued ==
    ASSUME queue \in Seq(Task), NEW c \in Conn, queue' = Append(queue, c)
    PROVE  \A d \in Conn \cup RawTask : Queued(d)' <=> Queued(d) \/ d = c
BY PutTask DEF Task

LEMMA TakeQueued ==
    ASSUME queue \in Seq(Task), queue # <<>>, queue' = Tail(queue)
    PROVE  /\ Head(queue) \in Task
           /\ \A d \in Conn \cup RawTask : Queued(d) <=> Queued(d)' \/ d = Head(queue)
<1>1. Head(queue) \in Task
  OBVIOUS
<1> QED
  BY <1>1, TailOccurs DEF Queued

(* Only live connections are held, and the last holder destroys. *)
LEMMA HeldStep == Inv /\ [Next]_vars => HeldIsLive'
<1> SUFFICES ASSUME Inv, [Next]_vars PROVE HeldIsLive'
  OBVIOUS
<1> USE ObjectsAreDistinct DEF Inv, TypeOK, LifeInv, HeldIsLive, Held, Channel, vars, kernelVars, connVars, tableVars, loopVars, poolVars
<1>1. ASSUME NEW c \in Conn, Connect(c) PROVE HeldIsLive'
  BY <1>1 DEF Connect, Queued
<1>2. ASSUME NEW c \in Conn, Peer(c) PROVE HeldIsLive'
  BY <1>2 DEF Peer, PeerSend, PeerFin, PeerReset, Alive, Queued
<1>3. ASSUME NEW c \in Conn, UserRelease(c) PROVE HeldIsLive'
  BY <1>3 DEF UserRelease, Drop, Queued
<1>4. CASE Poll
  BY <1>4 DEF Poll, ReadyEvents, Ready, Queued
<1>5. ASSUME NEW ch \in Channel, HandleEvent(ch) PROVE HeldIsLive'
  BY <1>5 DEF HandleEvent, Queued
<1>6. ASSUME NEW c \in Conn, HandleEventOfDead(c) PROVE HeldIsLive'
  BY <1>6 DEF HandleEventOfDead, Queued
<1>7. ASSUME NEW c \in Conn, HandleReadData(c) PROVE HeldIsLive'
  <2>1. /\ running' = running /\ erased' = erased
        /\ \A d \in Conn : Queued(d)' <=> Queued(d)
    BY <1>7, DataFrame
  <2>2. /\ conns' = conns /\ fresh' = fresh /\ cur' = cur /\ cur = c /\ life' = life
        /\ fdOf' = fdOf /\ state' = state /\ user \subseteq user' /\ user' \subseteq user \cup {c}
    BY <1>7 DEF HandleReadData
  <2>3. \A d \in Conn : Held(d)' => Held(d)
    BY <2>1, <2>2
  <2> QED
    BY <2>2, <2>3
<1>8. ASSUME NEW c \in Conn, HandleReadEnd(c) PROVE HeldIsLive'
  <2>1. \A d \in Conn : Queued(d)' <=> Queued(d) \/ d = c
    BY <1>8, PutQueued DEF HandleReadEnd, Disconnect, SubmitRemove, Pool!Put
  <2>2. life[c] = "live"
    BY <1>8 DEF HandleReadEnd
  <2> QED
    BY <1>8, <2>1, <2>2 DEF HandleReadEnd, Disconnect, SubmitRemove, Pool!Put
<1>9. ASSUME NEW c \in Conn, HandleReadError(c) PROVE HeldIsLive'
  <2>1. \A d \in Conn : Queued(d)' <=> Queued(d) \/ d = c
    BY <1>9, PutQueued DEF HandleReadError, Disconnect, SubmitRemove, Pool!Put
  <2>2. life[c] = "live"
    BY <1>9 DEF HandleReadError
  <2> QED
    BY <1>9, <2>1, <2>2 DEF HandleReadError, Disconnect, SubmitRemove, Pool!Put
<1>10. ASSUME NEW c \in Conn, HandleError(c) PROVE HeldIsLive'
  <2>1. \A d \in Conn : Queued(d)' <=> Queued(d) \/ d = c
    BY <1>10, PutQueued DEF HandleError, Disconnect, SubmitRemove, Pool!Put
  <2>2. life[c] = "live"
    BY <1>10 DEF HandleError
  <2> QED
    BY <1>10, <2>1, <2>2 DEF HandleError, Disconnect, SubmitRemove, Pool!Put
<1>11. ASSUME NEW c \in Conn, EndEvent(c) PROVE HeldIsLive'
  BY <1>11 DEF EndEvent, Drop, Queued
<1>12. ASSUME NEW c \in Conn, NEW f \in Fd, HandleAccept(c, f) PROVE HeldIsLive'
  BY <1>12 DEF HandleAccept, Queued
<1>13. ASSUME NEW c \in Conn, InsertConn(c) PROVE HeldIsLive'
  BY <1>13 DEF InsertConn, Queued
<1>14. ASSUME NEW c \in Conn, ConnectEstablished(c) PROVE HeldIsLive'
  BY <1>14 DEF ConnectEstablished, Drop, Queued
<1>15. CASE EndAccept
  BY <1>15 DEF EndAccept, Queued
<1>16. ASSUME NEW w \in Worker, StartTask(w) PROVE HeldIsLive'
  <2>1. queue # <<>> /\ queue' = Tail(queue) /\ running' = [running EXCEPT ![w] = Head(queue)]
    BY <1>16 DEF StartTask, Pool!Take
  <2>2. /\ Head(queue) \in Task
        /\ \A d \in Conn : Queued(d) <=> Queued(d)' \/ d = Head(queue)
    BY <2>1, TakeQueued
  <2> QED
    BY <1>16, <2>1, <2>2 DEF StartTask
<1>17. ASSUME NEW w \in Worker, NEW c \in Conn, RemoveConn(w, c) PROVE HeldIsLive'
  BY <1>17 DEF RemoveConn, Queued
<1>18. ASSUME NEW w \in Worker, NEW c \in Conn, EndRemove(w, c) PROVE HeldIsLive'
  BY <1>18 DEF EndRemove, Pool!Retire, Drop, Queued
<1>19. CASE UNCHANGED vars
  BY <1>19 DEF Queued
<1>20. ASSUME NEW c \in Conn, HandleWrite(c) PROVE HeldIsLive'
  BY <1>20 DEF HandleWrite, Queued
<1>21. ASSUME NEW w \in Worker, NEW c \in Conn, RawStep(w, c) PROVE HeldIsLive'
  BY <1>21, RawFrame
<1> QED
  BY <1>1, <1>2, <1>3, <1>4, <1>5, <1>6, <1>7, <1>8, <1>9, <1>10, <1>11,
    <1>12, <1>13, <1>14, <1>15, <1>16, <1>17, <1>18, <1>19, <1>20, <1>21
  DEF Next, LoopStep, WorkerStep, RunTask, Environment

(* Whether the last reference is given up or not, the descriptors of the    *)
(* connections that remain stay open and distinct.                          *)
LEMMA DropFds ==
    ASSUME TypeOK, LiveOwnsFd, OneSocketPerFd, fdOf' = fdOf,
           NEW c \in Conn, life[c] = "live", Drop(c)
    PROVE  (LiveOwnsFd /\ OneSocketPerFd)'
<1> USE DEF TypeOK, LiveOwnsFd, OneSocketPerFd, Drop
<1>1. CASE Held(c)'
  BY <1>1
<1>2. CASE ~Held(c)'
  <2>1. life' = [life EXCEPT ![c] = "dead"] /\ openFd' = openFd \ {fdOf[c]}
    BY <1>2
  <2>2. ASSUME NEW d \in Conn, life'[d] = "live"
        PROVE  life[d] = "live" /\ d # c
    BY <2>1, <2>2
  <2> QED
    BY <2>1, <2>2
<1> QED
  BY <1>1, <1>2

(* A descriptor is open exactly as long as its one connection lives. *)
LEMMA FdStep == Inv /\ [Next]_vars => (LiveOwnsFd /\ OneSocketPerFd)'
<1> SUFFICES ASSUME Inv, [Next]_vars PROVE (LiveOwnsFd /\ OneSocketPerFd)'
  OBVIOUS
<1> USE ObjectsAreDistinct DEF Inv, TypeOK, LifeInv, LiveOwnsFd, OneSocketPerFd, vars, kernelVars, connVars, tableVars, loopVars, poolVars
<1>1. ASSUME NEW c \in Conn, Connect(c) PROVE (LiveOwnsFd /\ OneSocketPerFd)'
  BY <1>1 DEF Connect
<1>2. ASSUME NEW c \in Conn, Peer(c) PROVE (LiveOwnsFd /\ OneSocketPerFd)'
  BY <1>2 DEF Peer, PeerSend, PeerFin, PeerReset, Alive
<1>3. ASSUME NEW c \in Conn, UserRelease(c) PROVE (LiveOwnsFd /\ OneSocketPerFd)'
  <2>1. life[c] = "live"
    BY <1>3 DEF UserRelease, HeldIsLive, Held
  <2>2. fdOf' = fdOf /\ Drop(c)
    BY <1>3 DEF UserRelease
  <2> QED
    BY <2>1, <2>2, DropFds
<1>4. CASE Poll
  BY <1>4 DEF Poll, ReadyEvents, Ready
<1>5. ASSUME NEW ch \in Channel, HandleEvent(ch) PROVE (LiveOwnsFd /\ OneSocketPerFd)'
  BY <1>5 DEF HandleEvent
<1>6. ASSUME NEW c \in Conn, HandleEventOfDead(c) PROVE (LiveOwnsFd /\ OneSocketPerFd)'
  BY <1>6 DEF HandleEventOfDead
<1>7. ASSUME NEW c \in Conn, HandleReadData(c) PROVE (LiveOwnsFd /\ OneSocketPerFd)'
  BY <1>7 DEF HandleReadData
<1>8. ASSUME NEW c \in Conn, HandleReadEnd(c) PROVE (LiveOwnsFd /\ OneSocketPerFd)'
  BY <1>8 DEF HandleReadEnd, Disconnect, SubmitRemove, Pool!Put
<1>9. ASSUME NEW c \in Conn, HandleReadError(c) PROVE (LiveOwnsFd /\ OneSocketPerFd)'
  BY <1>9 DEF HandleReadError, Disconnect, SubmitRemove, Pool!Put
<1>10. ASSUME NEW c \in Conn, HandleError(c) PROVE (LiveOwnsFd /\ OneSocketPerFd)'
  BY <1>10 DEF HandleError, Disconnect, SubmitRemove, Pool!Put
<1>11. ASSUME NEW c \in Conn, EndEvent(c) PROVE (LiveOwnsFd /\ OneSocketPerFd)'
  <2>1. life[c] = "live"
    BY <1>11 DEF EndEvent, HeldIsLive, Held
  <2>2. fdOf' = fdOf /\ Drop(c)
    BY <1>11 DEF EndEvent
  <2> QED
    BY <2>1, <2>2, DropFds
<1>12. ASSUME NEW c \in Conn, NEW f \in Fd, HandleAccept(c, f) PROVE (LiveOwnsFd /\ OneSocketPerFd)'
  BY <1>12 DEF HandleAccept
<1>13. ASSUME NEW c \in Conn, InsertConn(c) PROVE (LiveOwnsFd /\ OneSocketPerFd)'
  BY <1>13 DEF InsertConn
<1>14. ASSUME NEW c \in Conn, ConnectEstablished(c) PROVE (LiveOwnsFd /\ OneSocketPerFd)'
  <2>1. life[c] = "live"
    BY <1>14 DEF ConnectEstablished, HeldIsLive, Held
  <2>2. fdOf' = fdOf /\ Drop(c)
    BY <1>14 DEF ConnectEstablished
  <2> QED
    BY <2>1, <2>2, DropFds
<1>15. CASE EndAccept
  BY <1>15 DEF EndAccept
<1>16. ASSUME NEW w \in Worker, StartTask(w) PROVE (LiveOwnsFd /\ OneSocketPerFd)'
  BY <1>16 DEF StartTask, Pool!Take
<1>17. ASSUME NEW w \in Worker, NEW c \in Conn, RemoveConn(w, c) PROVE (LiveOwnsFd /\ OneSocketPerFd)'
  BY <1>17 DEF RemoveConn
<1>18. ASSUME NEW w \in Worker, NEW c \in Conn, EndRemove(w, c) PROVE (LiveOwnsFd /\ OneSocketPerFd)'
  <2>1. life[c] = "live"
    BY <1>18 DEF EndRemove, HeldIsLive, Held
  <2>2. fdOf' = fdOf /\ Drop(c)
    BY <1>18 DEF EndRemove
  <2> QED
    BY <2>1, <2>2, DropFds
<1>19. CASE UNCHANGED vars
  BY <1>19
<1>20. ASSUME NEW c \in Conn, HandleWrite(c) PROVE (LiveOwnsFd /\ OneSocketPerFd)'
  BY <1>20 DEF HandleWrite
<1>21. ASSUME NEW w \in Worker, NEW c \in Conn, RawStep(w, c) PROVE (LiveOwnsFd /\ OneSocketPerFd)'
  BY <1>21, RawFrame
<1> QED
  BY <1>1, <1>2, <1>3, <1>4, <1>5, <1>6, <1>7, <1>8, <1>9, <1>10, <1>11,
    <1>12, <1>13, <1>14, <1>15, <1>16, <1>17, <1>18, <1>19, <1>20, <1>21
  DEF Next, LoopStep, WorkerStep, RunTask, Environment

(* conns_ files live connections under the descriptors they own. *)
LEMMA TableStep == Inv /\ [Next]_vars => TableOwnsSockets'
<1> SUFFICES ASSUME Inv, [Next]_vars PROVE TableOwnsSockets'
  OBVIOUS
<1> USE ObjectsAreDistinct, FdStep DEF Inv, TypeOK, LifeInv, HeldIsLive, LiveOwnsFd, TableOwnsSockets, vars, kernelVars, connVars, tableVars, loopVars, poolVars
<1>1. ASSUME NEW c \in Conn, Connect(c) PROVE TableOwnsSockets'
  BY <1>1 DEF Connect
<1>2. ASSUME NEW c \in Conn, Peer(c) PROVE TableOwnsSockets'
  BY <1>2 DEF Peer, PeerSend, PeerFin, PeerReset, Alive
<1>3. ASSUME NEW c \in Conn, UserRelease(c) PROVE TableOwnsSockets'
  <2>1. \A f \in Fd : conns'[f] = c => life'[c] = life[c]
    BY <1>3 DEF UserRelease, Drop, Held
  <2> QED
    BY <1>3, <2>1 DEF UserRelease, Drop
<1>4. CASE Poll
  BY <1>4 DEF Poll, ReadyEvents, Ready
<1>5. ASSUME NEW ch \in Channel, HandleEvent(ch) PROVE TableOwnsSockets'
  BY <1>5 DEF HandleEvent
<1>6. ASSUME NEW c \in Conn, HandleEventOfDead(c) PROVE TableOwnsSockets'
  BY <1>6 DEF HandleEventOfDead
<1>7. ASSUME NEW c \in Conn, HandleReadData(c) PROVE TableOwnsSockets'
  BY <1>7 DEF HandleReadData
<1>8. ASSUME NEW c \in Conn, HandleReadEnd(c) PROVE TableOwnsSockets'
  BY <1>8 DEF HandleReadEnd, Disconnect, SubmitRemove, Pool!Put
<1>9. ASSUME NEW c \in Conn, HandleReadError(c) PROVE TableOwnsSockets'
  BY <1>9 DEF HandleReadError, Disconnect, SubmitRemove, Pool!Put
<1>10. ASSUME NEW c \in Conn, HandleError(c) PROVE TableOwnsSockets'
  BY <1>10 DEF HandleError, Disconnect, SubmitRemove, Pool!Put
<1>11. ASSUME NEW c \in Conn, EndEvent(c) PROVE TableOwnsSockets'
  <2>1. \A f \in Fd : conns'[f] = c => life'[c] = life[c]
    BY <1>11 DEF EndEvent, Drop, Held
  <2> QED
    BY <1>11, <2>1 DEF EndEvent, Drop
<1>12. ASSUME NEW c \in Conn, NEW f \in Fd, HandleAccept(c, f) PROVE TableOwnsSockets'
  BY <1>12 DEF HandleAccept
<1>13. ASSUME NEW c \in Conn, InsertConn(c) PROVE TableOwnsSockets'
  <2>1. c \in Conn /\ life[c] = "live" /\ fdOf[c] \in openFd
    BY <1>13 DEF InsertConn, Held
  <2> QED
    BY <1>13, <2>1 DEF InsertConn
<1>14. ASSUME NEW c \in Conn, ConnectEstablished(c) PROVE TableOwnsSockets'
  <2>1. \A f \in Fd : conns'[f] = c => life'[c] = life[c]
    BY <1>14 DEF ConnectEstablished, Drop, Held
  <2> QED
    BY <1>14, <2>1 DEF ConnectEstablished, Drop
<1>15. CASE EndAccept
  BY <1>15 DEF EndAccept
<1>16. ASSUME NEW w \in Worker, StartTask(w) PROVE TableOwnsSockets'
  BY <1>16 DEF StartTask, Pool!Take
<1>17. ASSUME NEW w \in Worker, NEW c \in Conn, RemoveConn(w, c) PROVE TableOwnsSockets'
  BY <1>17 DEF RemoveConn
<1>18. ASSUME NEW w \in Worker, NEW c \in Conn, EndRemove(w, c) PROVE TableOwnsSockets'
  <2>1. \A f \in Fd : conns'[f] = c => life'[c] = life[c]
    BY <1>18 DEF EndRemove, Drop, Held
  <2> QED
    BY <1>18, <2>1 DEF EndRemove, Drop
<1>19. CASE UNCHANGED vars
  BY <1>19
<1>20. ASSUME NEW c \in Conn, HandleWrite(c) PROVE TableOwnsSockets'
  BY <1>20 DEF HandleWrite
<1>21. ASSUME NEW w \in Worker, NEW c \in Conn, RawStep(w, c) PROVE TableOwnsSockets'
  BY <1>21, RawFrame
<1> QED
  BY <1>1, <1>2, <1>3, <1>4, <1>5, <1>6, <1>7, <1>8, <1>9, <1>10, <1>11,
    <1>12, <1>13, <1>14, <1>15, <1>16, <1>17, <1>18, <1>19, <1>20, <1>21
  DEF Next, LoopStep, WorkerStep, RunTask, Environment

(* Only a disconnected connection is given to removeConn, and it stays disconnected. *)
LEMMA DoomedStep == Inv /\ [Next]_vars => DoomedIsDisconnected'
<1> SUFFICES ASSUME Inv, [Next]_vars PROVE DoomedIsDisconnected'
  OBVIOUS
<1> USE ObjectsAreDistinct DEF Inv, TypeOK, StateInv, DoomedIsDisconnected, FreshInv, vars, kernelVars, connVars, tableVars, loopVars, poolVars
<1>1. ASSUME NEW c \in Conn, Connect(c) PROVE DoomedIsDisconnected'
  BY <1>1 DEF Connect, Queued
<1>2. ASSUME NEW c \in Conn, Peer(c) PROVE DoomedIsDisconnected'
  BY <1>2 DEF Peer, PeerSend, PeerFin, PeerReset, Alive, Queued
<1>3. ASSUME NEW c \in Conn, UserRelease(c) PROVE DoomedIsDisconnected'
  BY <1>3 DEF UserRelease, Queued
<1>4. CASE Poll
  BY <1>4 DEF Poll, ReadyEvents, Ready, Queued
<1>5. ASSUME NEW ch \in Channel, HandleEvent(ch) PROVE DoomedIsDisconnected'
  BY <1>5 DEF HandleEvent, Queued
<1>6. ASSUME NEW c \in Conn, HandleEventOfDead(c) PROVE DoomedIsDisconnected'
  BY <1>6 DEF HandleEventOfDead, Queued
<1>7. ASSUME NEW c \in Conn, HandleReadData(c) PROVE DoomedIsDisconnected'
  BY <1>7, DataFrame DEF HandleReadData
<1>8. ASSUME NEW c \in Conn, HandleReadEnd(c) PROVE DoomedIsDisconnected'
  <2>1. \A d \in Conn : Queued(d)' <=> Queued(d) \/ d = c
    BY <1>8, PutQueued DEF HandleReadEnd, Disconnect, SubmitRemove, Pool!Put
  <2> QED
    BY <1>8, <2>1 DEF HandleReadEnd, Disconnect, SubmitRemove, Pool!Put
<1>9. ASSUME NEW c \in Conn, HandleReadError(c) PROVE DoomedIsDisconnected'
  <2>1. \A d \in Conn : Queued(d)' <=> Queued(d) \/ d = c
    BY <1>9, PutQueued DEF HandleReadError, Disconnect, SubmitRemove, Pool!Put
  <2> QED
    BY <1>9, <2>1 DEF HandleReadError, Disconnect, SubmitRemove, Pool!Put
<1>10. ASSUME NEW c \in Conn, HandleError(c) PROVE DoomedIsDisconnected'
  <2>1. \A d \in Conn : Queued(d)' <=> Queued(d) \/ d = c
    BY <1>10, PutQueued DEF HandleError, Disconnect, SubmitRemove, Pool!Put
  <2> QED
    BY <1>10, <2>1 DEF HandleError, Disconnect, SubmitRemove, Pool!Put
<1>11. ASSUME NEW c \in Conn, EndEvent(c) PROVE DoomedIsDisconnected'
  BY <1>11 DEF EndEvent, Queued
<1>12. ASSUME NEW c \in Conn, NEW f \in Fd, HandleAccept(c, f) PROVE DoomedIsDisconnected'
  BY <1>12 DEF HandleAccept, Queued
<1>13. ASSUME NEW c \in Conn, InsertConn(c) PROVE DoomedIsDisconnected'
  BY <1>13 DEF InsertConn, Queued
<1>14. ASSUME NEW c \in Conn, ConnectEstablished(c) PROVE DoomedIsDisconnected'
  <2>1. ~Queued(c) /\ \A w \in Worker : running[w] # c
    BY <1>14 DEF ConnectEstablished
  <2>2. \A d \in Conn : Queued(d)' <=> Queued(d)
    BY <1>14 DEF ConnectEstablished, Queued
  <2> QED
    BY <1>14, <2>1, <2>2 DEF ConnectEstablished
<1>15. CASE EndAccept
  BY <1>15 DEF EndAccept, Queued
<1>16. ASSUME NEW w \in Worker, StartTask(w) PROVE DoomedIsDisconnected'
  <2>1. queue # <<>> /\ queue' = Tail(queue) /\ running' = [running EXCEPT ![w] = Head(queue)]
    BY <1>16 DEF StartTask, Pool!Take
  <2>2. /\ Head(queue) \in Task
        /\ \A d \in Conn : Queued(d) <=> Queued(d)' \/ d = Head(queue)
    BY <2>1, TakeQueued
  <2> QED
    BY <1>16, <2>1, <2>2 DEF StartTask
<1>17. ASSUME NEW w \in Worker, NEW c \in Conn, RemoveConn(w, c) PROVE DoomedIsDisconnected'
  BY <1>17 DEF RemoveConn, Queued
<1>18. ASSUME NEW w \in Worker, NEW c \in Conn, EndRemove(w, c) PROVE DoomedIsDisconnected'
  BY <1>18 DEF EndRemove, Pool!Retire, Queued
<1>19. CASE UNCHANGED vars
  BY <1>19 DEF Queued
<1>20. ASSUME NEW c \in Conn, HandleWrite(c) PROVE DoomedIsDisconnected'
  BY <1>20 DEF HandleWrite, Queued
<1>21. ASSUME NEW w \in Worker, NEW c \in Conn, RawStep(w, c) PROVE DoomedIsDisconnected'
  BY <1>21, RawFrame
<1> QED
  BY <1>1, <1>2, <1>3, <1>4, <1>5, <1>6, <1>7, <1>8, <1>9, <1>10, <1>11,
    <1>12, <1>13, <1>14, <1>15, <1>16, <1>17, <1>18, <1>19, <1>20, <1>21
  DEF Next, LoopStep, WorkerStep, RunTask, Environment

(* onNewConn files a connection before it registers it, and nobody unfiles it meanwhile. *)
LEMMA FreshStep == Inv /\ [Next]_vars => FreshInv'
<1> SUFFICES ASSUME Inv, [Next]_vars PROVE FreshInv'
  OBVIOUS
<1> USE ObjectsAreDistinct DEF Inv, TypeOK, LifeInv, HeldIsLive, StateInv, FreshInv, vars, kernelVars, connVars, tableVars, loopVars, poolVars
<1>1. ASSUME NEW c \in Conn, Connect(c) PROVE FreshInv'
  BY <1>1 DEF Connect
<1>2. ASSUME NEW c \in Conn, Peer(c) PROVE FreshInv'
  BY <1>2 DEF Peer, PeerSend, PeerFin, PeerReset, Alive
<1>3. ASSUME NEW c \in Conn, UserRelease(c) PROVE FreshInv'
  BY <1>3 DEF UserRelease, Drop
<1>4. CASE Poll
  BY <1>4 DEF Poll, ReadyEvents, Ready
<1>5. ASSUME NEW ch \in Channel, HandleEvent(ch) PROVE FreshInv'
  BY <1>5 DEF HandleEvent
<1>6. ASSUME NEW c \in Conn, HandleEventOfDead(c) PROVE FreshInv'
  BY <1>6 DEF HandleEventOfDead
<1>7. ASSUME NEW c \in Conn, HandleReadData(c) PROVE FreshInv'
  BY <1>7 DEF HandleReadData
<1>8. ASSUME NEW c \in Conn, HandleReadEnd(c) PROVE FreshInv'
  <2>1. life[c] = "live"
    BY <1>8 DEF HandleReadEnd, Held
  <2> QED
    BY <1>8, <2>1 DEF HandleReadEnd, Disconnect, SubmitRemove, Pool!Put
<1>9. ASSUME NEW c \in Conn, HandleReadError(c) PROVE FreshInv'
  <2>1. life[c] = "live"
    BY <1>9 DEF HandleReadError, Held
  <2> QED
    BY <1>9, <2>1 DEF HandleReadError, Disconnect, SubmitRemove, Pool!Put
<1>10. ASSUME NEW c \in Conn, HandleError(c) PROVE FreshInv'
  <2>1. life[c] = "live"
    BY <1>10 DEF HandleError, Held
  <2> QED
    BY <1>10, <2>1 DEF HandleError, Disconnect, SubmitRemove, Pool!Put
<1>11. ASSUME NEW c \in Conn, EndEvent(c) PROVE FreshInv'
  BY <1>11 DEF EndEvent, Drop
<1>12. ASSUME NEW c \in Conn, NEW f \in Fd, HandleAccept(c, f) PROVE FreshInv'
  BY <1>12 DEF HandleAccept
<1>13. ASSUME NEW c \in Conn, InsertConn(c) PROVE FreshInv'
  <2>1. life[c] = "live" /\ fdOf[c] \in Fd
    BY <1>13 DEF InsertConn, Held, LiveOwnsFd
  <2>2. conns[fdOf[c]] \in {None, c}
    BY <2>1 DEF OneSocketPerFd, TableOwnsSockets
  <2> QED
    BY <1>13, <2>1, <2>2 DEF InsertConn
<1>14. ASSUME NEW c \in Conn, ConnectEstablished(c) PROVE FreshInv'
  <2>1. life[c] = "live"
    BY <1>14 DEF ConnectEstablished, Held
  <2> QED
    BY <1>14, <2>1 DEF ConnectEstablished, Drop
<1>15. CASE EndAccept
  BY <1>15 DEF EndAccept
<1>16. ASSUME NEW w \in Worker, StartTask(w) PROVE FreshInv'
  BY <1>16 DEF StartTask, Pool!Take
<1>17. ASSUME NEW w \in Worker, NEW c \in Conn, RemoveConn(w, c) PROVE FreshInv'
  <2>1. life[c] = "live" /\ state[c] = "disconnected"
    BY <1>17 DEF RemoveConn, Held, DoomedIsDisconnected
  <2>2. fresh # None => fresh # c /\ life[fresh] = "live" /\ fresh \in Conn
    BY <1>17, <2>1 DEF RemoveConn, Held
  <2> QED
    BY <1>17, <2>1, <2>2 DEF RemoveConn, OneSocketPerFd
<1>18. ASSUME NEW w \in Worker, NEW c \in Conn, EndRemove(w, c) PROVE FreshInv'
  BY <1>18 DEF EndRemove, Pool!Retire, Drop
<1>19. CASE UNCHANGED vars
  BY <1>19
<1>20. ASSUME NEW c \in Conn, HandleWrite(c) PROVE FreshInv'
  BY <1>20 DEF HandleWrite
<1>21. ASSUME NEW w \in Worker, NEW c \in Conn, RawStep(w, c) PROVE FreshInv'
  BY <1>21, RawFrame
<1> QED
  BY <1>1, <1>2, <1>3, <1>4, <1>5, <1>6, <1>7, <1>8, <1>9, <1>10, <1>11,
    <1>12, <1>13, <1>14, <1>15, <1>16, <1>17, <1>18, <1>19, <1>20, <1>21
  DEF Next, LoopStep, WorkerStep, RunTask, Environment

(* A connected connection stays in conns_. *)
LEMMA TrackedStep == Inv /\ [Next]_vars => ConnectedIsTracked'
<1> SUFFICES ASSUME Inv, [Next]_vars PROVE ConnectedIsTracked'
  OBVIOUS
<1> USE ObjectsAreDistinct DEF Inv, TypeOK, LifeInv, HeldIsLive, StateInv, ConnectedIsTracked, vars, kernelVars, connVars, tableVars, loopVars, poolVars
<1>1. ASSUME NEW c \in Conn, Connect(c) PROVE ConnectedIsTracked'
  BY <1>1 DEF Connect
<1>2. ASSUME NEW c \in Conn, Peer(c) PROVE ConnectedIsTracked'
  BY <1>2 DEF Peer, PeerSend, PeerFin, PeerReset, Alive
<1>3. ASSUME NEW c \in Conn, UserRelease(c) PROVE ConnectedIsTracked'
  BY <1>3 DEF UserRelease, Drop
<1>4. CASE Poll
  BY <1>4 DEF Poll, ReadyEvents, Ready
<1>5. ASSUME NEW ch \in Channel, HandleEvent(ch) PROVE ConnectedIsTracked'
  BY <1>5 DEF HandleEvent
<1>6. ASSUME NEW c \in Conn, HandleEventOfDead(c) PROVE ConnectedIsTracked'
  BY <1>6 DEF HandleEventOfDead
<1>7. ASSUME NEW c \in Conn, HandleReadData(c) PROVE ConnectedIsTracked'
  BY <1>7 DEF HandleReadData
<1>8. ASSUME NEW c \in Conn, HandleReadEnd(c) PROVE ConnectedIsTracked'
  <2>1. life[c] = "live"
    BY <1>8 DEF HandleReadEnd, Held
  <2> QED
    BY <1>8, <2>1 DEF HandleReadEnd, Disconnect, SubmitRemove, Pool!Put
<1>9. ASSUME NEW c \in Conn, HandleReadError(c) PROVE ConnectedIsTracked'
  <2>1. life[c] = "live"
    BY <1>9 DEF HandleReadError, Held
  <2> QED
    BY <1>9, <2>1 DEF HandleReadError, Disconnect, SubmitRemove, Pool!Put
<1>10. ASSUME NEW c \in Conn, HandleError(c) PROVE ConnectedIsTracked'
  <2>1. life[c] = "live"
    BY <1>10 DEF HandleError, Held
  <2> QED
    BY <1>10, <2>1 DEF HandleError, Disconnect, SubmitRemove, Pool!Put
<1>11. ASSUME NEW c \in Conn, EndEvent(c) PROVE ConnectedIsTracked'
  BY <1>11 DEF EndEvent, Drop
<1>12. ASSUME NEW c \in Conn, NEW f \in Fd, HandleAccept(c, f) PROVE ConnectedIsTracked'
  <2>1. state[c] = "connecting"
    BY <1>12 DEF HandleAccept, FreshInv
  <2> QED
    BY <1>12, <2>1 DEF HandleAccept
<1>13. ASSUME NEW c \in Conn, InsertConn(c) PROVE ConnectedIsTracked'
  <2>1. life[c] = "live" /\ fdOf[c] \in Fd
    BY <1>13 DEF InsertConn, Held, LiveOwnsFd
  <2>2. conns[fdOf[c]] \in {None, c}
    BY <2>1 DEF OneSocketPerFd, TableOwnsSockets
  <2> QED
    BY <1>13, <2>1, <2>2 DEF InsertConn
<1>14. ASSUME NEW c \in Conn, ConnectEstablished(c) PROVE ConnectedIsTracked'
  <2>1. conns[fdOf[c]] = c
    BY <1>14 DEF ConnectEstablished, FreshInv
  <2> QED
    BY <1>14, <2>1 DEF ConnectEstablished, Drop
<1>15. CASE EndAccept
  BY <1>15 DEF EndAccept
<1>16. ASSUME NEW w \in Worker, StartTask(w) PROVE ConnectedIsTracked'
  BY <1>16 DEF StartTask, Pool!Take
<1>17. ASSUME NEW w \in Worker, NEW c \in Conn, RemoveConn(w, c) PROVE ConnectedIsTracked'
  <2>1. life[c] = "live" /\ state[c] = "disconnected"
    BY <1>17 DEF RemoveConn, Held, DoomedIsDisconnected
  <2> QED
    BY <1>17, <2>1 DEF RemoveConn, OneSocketPerFd
<1>18. ASSUME NEW w \in Worker, NEW c \in Conn, EndRemove(w, c) PROVE ConnectedIsTracked'
  BY <1>18 DEF EndRemove, Pool!Retire, Drop
<1>19. CASE UNCHANGED vars
  BY <1>19
<1>20. ASSUME NEW c \in Conn, HandleWrite(c) PROVE ConnectedIsTracked'
  BY <1>20 DEF HandleWrite
<1>21. ASSUME NEW w \in Worker, NEW c \in Conn, RawStep(w, c) PROVE ConnectedIsTracked'
  BY <1>21, RawFrame
<1> QED
  BY <1>1, <1>2, <1>3, <1>4, <1>5, <1>6, <1>7, <1>8, <1>9, <1>10, <1>11,
    <1>12, <1>13, <1>14, <1>15, <1>16, <1>17, <1>18, <1>19, <1>20, <1>21
  DEF Next, LoopStep, WorkerStep, RunTask, Environment
-----------------------------------------------------------------------------
LEMMA InvInit == Init => Inv
<1> SUFFICES ASSUME Init PROVE Inv
  OBVIOUS
<1> USE ObjectsAreDistinct, CountModIsPositive, MaxDataIsNat DEF Init
<1>1. TypeOK
  <2>1. queue \in Seq(Task) /\ total \in 0 .. CountMod - 1
    OBVIOUS
  <2>2. /\ inq \in [Conn -> 0 .. MaxData]
        /\ fin \in [Conn -> BOOLEAN] /\ rst \in [Conn -> BOOLEAN] /\ err \in [Conn -> BOOLEAN]
    OBVIOUS
  <2>3. /\ life \in [Conn -> {"none", "backlog", "live", "dead"}]
        /\ fdOf \in [Conn -> Fd \cup {None}]
        /\ state \in [Conn -> {"connecting", "connected", "disconnected"}]
    OBVIOUS
  <2>4. /\ events \in [Conn -> SUBSET Interest] /\ armed \in [Conn -> SUBSET Interest]
        /\ conns \in [Fd -> Conn \cup {None}]
        /\ batch \in [Channel -> SUBSET EventMask]
        /\ running \in [Worker -> Task \cup {None}]
    OBVIOUS
  <2>5. /\ step \in [Worker -> {"start", "mask", "read", "ctl"}]
        /\ local \in [Worker -> SUBSET Interest]
        /\ late \in BOOLEAN
    OBVIOUS
  <2>6. posted \in 0 .. MaxPosts
    BY MaxPostsIsNat
  <2> QED
    BY <2>1, <2>2, <2>3, <2>4, <2>5, <2>6 DEF TypeOK
<1>2. \A c \in Conn : ~Held(c)
  BY DEF Held, Queued
<1>3. LifeInv
  BY <1>2 DEF LifeInv, HeldIsLive, LiveOwnsFd, OneSocketPerFd, TableOwnsSockets
<1>4. StateInv
  BY <1>2 DEF StateInv, DoomedIsDisconnected, FreshInv, ConnectedIsTracked, Held
<1> QED
  BY <1>1, <1>3, <1>4 DEF Inv

LEMMA InvStep == Inv /\ [Next]_vars => Inv'
BY TypeStep, HeldStep, FdStep, TableStep, DoomedStep, FreshStep, TrackedStep
DEF Inv, LifeInv, StateInv

LEMMA Invariance == Spec => []Inv
BY InvInit, InvStep, PTL DEF Spec
-----------------------------------------------------------------------------
(* Every variable of the server keeps its type; in particular the counter  *)
(* stays in the range of its 64 bits.                                      *)
THEOREM TypeCorrect == Spec => []TypeOK
<1>1. Inv => TypeOK
  BY DEF Inv
<1> QED
  BY <1>1, Invariance, PTL

(* An entry of conns_ is a live connection that owns its descriptor. *)
THEOREM TableOwnsSocketsAlways == Spec => []TableOwnsSockets
<1>1. Inv => TableOwnsSockets
  BY DEF Inv, LifeInv
<1> QED
  BY <1>1, Invariance, PTL

(* Two existing connections never share a descriptor. *)
THEOREM OneSocketPerFdAlways == Spec => []OneSocketPerFd
<1>1. Inv => OneSocketPerFd
  BY DEF Inv, LifeInv
<1> QED
  BY <1>1, Invariance, PTL

(* A connected connection is in conns_, whatever is erased late or twice. *)
THEOREM ConnectedIsTrackedAlways == Spec => []ConnectedIsTracked
<1>1. Inv => ConnectedIsTracked
  BY DEF Inv, StateInv
<1> QED
  BY <1>1, Invariance, PTL

(* The guard of handleEvent keeps the connection alive while it is handled. *)
THEOREM HandledIsLiveAlways == Spec => []HandledIsLive
<1>1. Inv => HandledIsLive
  BY DEF Inv, LifeInv, HeldIsLive, Held, HandledIsLive
<1> QED
  BY <1>1, Invariance, PTL

(* Only the task of a disconnected connection changes an entry of conns_,   *)
(* and only the entry of that connection.                                  *)
LEMMA ErasedStep ==
    Inv /\ [Next]_vars =>
        [\A f \in Fd : conns[f] # None /\ conns'[f] # conns[f] =>
            conns'[f] = None /\ state[conns[f]] = "disconnected"]_vars
<1> SUFFICES ASSUME Inv, Next, NEW f \in Fd, conns[f] # None, conns'[f] # conns[f]
             PROVE  conns'[f] = None /\ state[conns[f]] = "disconnected"
  OBVIOUS
<1>1. \/ \E c \in Conn : InsertConn(c)
      \/ \E w \in Worker, c \in Conn : RemoveConn(w, c)
      \/ conns' = conns
  <2>1. CASE LoopStep
    BY <2>1 DEF LoopStep, tableVars, Poll, HandleEvent, HandleEventOfDead, HandleReadData, HandleReadEnd,
       HandleReadError, HandleWrite, HandleError, EndEvent, HandleAccept, ConnectEstablished, EndAccept
  <2>2. ASSUME NEW w \in Worker, WorkerStep(w), ~ \E c \in Conn : RemoveConn(w, c) PROVE conns' = conns
    BY <2>2, RawFrame DEF Inv, WorkerStep, RunTask, StartTask, EndRemove, tableVars
  <2>3. CASE Environment
    BY <2>3 DEF Environment, Connect, Peer, UserRelease, tableVars
  <2> QED
    BY <2>1, <2>2, <2>3 DEF Next
<1>2. ASSUME NEW c \in Conn, InsertConn(c) PROVE FALSE
  <2>1. conns'[f] = IF f = fdOf[c] /\ conns[f] = None THEN c ELSE conns[f]
    BY <1>2 DEF InsertConn, Inv, TypeOK
  <2> QED
    BY <2>1
<1>3. ASSUME NEW w \in Worker, NEW c \in Conn, RemoveConn(w, c)
      PROVE  conns'[f] = None /\ state[conns[f]] = "disconnected"
  <2>1. f = fdOf[c] /\ conns'[f] = None
    BY <1>3 DEF RemoveConn, Inv, TypeOK
  <2>2. life[c] = "live" /\ state[c] = "disconnected"
    BY <1>3 DEF RemoveConn, Held, Inv, LifeInv, HeldIsLive, StateInv, DoomedIsDisconnected
  <2>3. conns[f] \in Conn /\ life[conns[f]] = "live" /\ fdOf[conns[f]] = f
    BY DEF Inv, TypeOK, LifeInv, TableOwnsSockets
  <2>4. conns[f] = c
    BY <2>1, <2>2, <2>3 DEF Inv, LifeInv, OneSocketPerFd
  <2> QED
    BY <2>1, <2>2, <2>4
<1> QED
  BY <1>1, <1>2, <1>3

THEOREM OnlyDisconnectedErasedAlways == Spec => OnlyDisconnectedErased
BY ErasedStep, Invariance, PTL DEF Spec, OnlyDisconnectedErased
-----------------------------------------------------------------------------
(***************************************************************************)
(* As long as no peer has reset a connection, and no task of send or        *)
(* shutdown has changed the events of a closed one, totalConnections_ is    *)
(* the size of conns_, and epoll_wait reports no Channel that is destroyed  *)
(* before its events are handled.                                          *)
(*                                                                         *)
(* Both rest on the fact that a connection is then disconnected only once.  *)
(* The events in the batch and those that are being handled belong to       *)
(* connections in state kConnected (Handled); so the handler that           *)
(* disconnects one is the last to be called for it, and gives removeConn    *)
(* the only task for it, whose entry of conns_ is still there when it runs  *)
(* (TaskOnce).                                                             *)
(***************************************************************************)
(* The phases of the loop thread; these hold with resets, too. *)
LoopInv ==
    /\ loopPc = "loop" => cur = None
    /\ cur \in Channel => batch[cur] = {}
    /\ loopPc = "insert" => conns[fdOf[fresh]] = None
    /\ \A c \in Conn : state[c] = "connected" => life[c] = "live"

(* What epoll reports of a connection, and which events are handled; a      *)
(* connection that handleRead has closed may have EPOLLOUT left to handle.  *)
Handled ==
    /\ \A c \in Conn : ~err[c]
    /\ \A ch \in Channel : batch[ch] \subseteq Interest
    /\ rev \subseteq Interest
    /\ \A c \in Conn : state[c] # "connected" =>
          events[c] = {} /\ armed[c] = {} /\ batch[c] = {} /\ (cur = c => "IN" \notin rev)

(* A connection has one task of removeConn, whose body finds its entry. *)
Pending(c) == Queued(c) \/ \E w \in Worker : running[w] = c /\ w \notin erased

TaskOnce ==
    /\ \A i, j \in DOMAIN queue : queue[i] = queue[j] /\ queue[i] \in Conn => i = j
    /\ \A w \in Worker, c \in Conn : running[w] = c => ~Queued(c)
    /\ \A w, v \in Worker : running[w] = running[v] /\ running[w] \in Conn => w = v
    /\ \A w \in erased : running[w] \in Conn
    /\ \A c \in Conn : Pending(c) => conns[fdOf[c]] = c

OrderlyInv == LoopInv /\ (Orderly => Handled /\ TaskOnce /\ TotalIsTableSize)
-----------------------------------------------------------------------------
LEMMA LoopInvStep == Inv /\ LoopInv /\ [Next]_vars => LoopInv'
<1> SUFFICES ASSUME Inv, LoopInv, [Next]_vars PROVE LoopInv'
  OBVIOUS
<1> USE ObjectsAreDistinct DEF Inv, TypeOK, LifeInv, HeldIsLive, StateInv, FreshInv, LoopInv, Channel,
                               vars, kernelVars, connVars, tableVars, loopVars, poolVars
<1>1. ASSUME NEW c \in Conn, Connect(c) PROVE LoopInv'
  BY <1>1 DEF Connect
<1>2. ASSUME NEW c \in Conn, Peer(c) PROVE LoopInv'
  BY <1>2 DEF Peer
<1>3. ASSUME NEW c \in Conn, UserRelease(c) PROVE LoopInv'
  <2>1. state[c] = "connected" => Held(c)'
    BY <1>3 DEF UserRelease, ConnectedIsTracked, LiveOwnsFd, Held
  <2> QED
    BY <1>3, <2>1 DEF UserRelease, Drop
<1>4. CASE Poll
  BY <1>4 DEF Poll
<1>5. ASSUME NEW ch \in Channel, HandleEvent(ch) PROVE LoopInv'
  BY <1>5 DEF HandleEvent
<1>6. ASSUME NEW c \in Conn, HandleEventOfDead(c) PROVE LoopInv'
  BY <1>6 DEF HandleEventOfDead
<1>7. ASSUME NEW c \in Conn, HandleReadData(c) PROVE LoopInv'
  BY <1>7 DEF HandleReadData
<1>8. ASSUME NEW c \in Conn, HandleReadEnd(c) PROVE LoopInv'
  BY <1>8 DEF HandleReadEnd, Disconnect
<1>9. ASSUME NEW c \in Conn, HandleReadError(c) PROVE LoopInv'
  BY <1>9 DEF HandleReadError, Disconnect
<1>10. ASSUME NEW c \in Conn, HandleError(c) PROVE LoopInv'
  BY <1>10 DEF HandleError, Disconnect
<1>11. ASSUME NEW c \in Conn, EndEvent(c) PROVE LoopInv'
  <2>1. life[c] = "live"
    BY <1>11 DEF EndEvent, Held
  <2>2. state[c] = "connected" => Held(c)'
    BY <1>11, <2>1 DEF EndEvent, ConnectedIsTracked, LiveOwnsFd, Held
  <2> QED
    BY <1>11, <2>2 DEF EndEvent, Drop
<1>12. ASSUME NEW c \in Conn, NEW f \in Fd, HandleAccept(c, f) PROVE LoopInv'
  <2>1. conns[f] = None
    BY <1>12 DEF HandleAccept, TableOwnsSockets
  <2> QED
    BY <1>12, <2>1 DEF HandleAccept
<1>13. ASSUME NEW c \in Conn, InsertConn(c) PROVE LoopInv'
  BY <1>13 DEF InsertConn
<1>14. ASSUME NEW c \in Conn, ConnectEstablished(c) PROVE LoopInv'
  <2>1. life[c] = "live" /\ conns[fdOf[c]] = c
    BY <1>14 DEF ConnectEstablished, Held
  <2>2. Held(c)'
    BY <1>14, <2>1 DEF ConnectEstablished, LiveOwnsFd, Held
  <2> QED
    BY <1>14, <2>1, <2>2 DEF ConnectEstablished, Drop
<1>15. CASE EndAccept
  BY <1>15 DEF EndAccept
<1>16. ASSUME NEW w \in Worker, StartTask(w) PROVE LoopInv'
  BY <1>16 DEF StartTask
<1>17. ASSUME NEW w \in Worker, NEW c \in Conn, RemoveConn(w, c) PROVE LoopInv'
  BY <1>17 DEF RemoveConn
<1>18. ASSUME NEW w \in Worker, NEW c \in Conn, EndRemove(w, c) PROVE LoopInv'
  <2>1. life[c] = "live" /\ state[c] = "disconnected"
    BY <1>18 DEF EndRemove, Held, DoomedIsDisconnected
  <2> QED
    BY <1>18, <2>1 DEF EndRemove, Drop
<1>19. CASE UNCHANGED vars
  BY <1>19
<1>20. ASSUME NEW c \in Conn, HandleWrite(c) PROVE LoopInv'
  BY <1>20 DEF HandleWrite
<1>21. ASSUME NEW w \in Worker, NEW c \in Conn, RawStep(w, c) PROVE LoopInv'
  BY <1>21, RawFrame
<1> QED
  BY <1>1, <1>2, <1>3, <1>4, <1>5, <1>6, <1>7, <1>8, <1>9, <1>10, <1>11,
    <1>12, <1>13, <1>14, <1>15, <1>16, <1>17, <1>18, <1>19, <1>20, <1>21
  DEF Next, LoopStep, WorkerStep, RunTask, Environment

(* No step takes back a reset, or what a task has done late. *)
LEMMA OrderlyBefore == TypeOK /\ [Next]_vars /\ Orderly' => Orderly
<1> SUFFICES ASSUME TypeOK, [Next]_vars, Orderly' PROVE Orderly
  OBVIOUS
<1>1. rst' = rst \/ \E c \in Conn : PeerReset(c)
  <2>1. CASE LoopStep
    BY <2>1 DEF LoopStep, Poll, HandleEvent, HandleEventOfDead, HandleReadData, HandleReadEnd, HandleReadError,
       HandleWrite, HandleError, EndEvent, HandleAccept, InsertConn, ConnectEstablished, EndAccept, kernelVars
  <2>2. ASSUME NEW w \in Worker, WorkerStep(w) PROVE rst' = rst
    BY <2>2, RawFrame DEF WorkerStep, RunTask, StartTask, RemoveConn, EndRemove, kernelVars
  <2>3. CASE Environment
    BY <2>3 DEF Environment, Connect, Peer, PeerSend, PeerFin, UserRelease, kernelVars
  <2>4. CASE UNCHANGED vars
    BY <2>4 DEF vars, kernelVars
  <2> QED
    BY <2>1, <2>2, <2>3, <2>4 DEF Next
<1>2. ~ \E c \in Conn : PeerReset(c)
  BY DEF PeerReset, Orderly, TypeOK
<1>3. late' = late \/ late' = TRUE
  <2>1. CASE LoopStep
    BY <2>1, DataFrame DEF LoopStep, Poll, HandleEvent, HandleEventOfDead, HandleReadEnd, HandleReadError,
       HandleWrite, HandleError, EndEvent, HandleAccept, InsertConn, ConnectEstablished, EndAccept,
       Disconnect, SubmitRemove, poolVars
  <2>2. ASSUME NEW w \in Worker, NEW c \in Conn, RawStep(w, c) PROVE late' = late \/ late' = TRUE
    <3>1. CASE SetMask(w, c) \/ UpdateChannel(w, c)
      BY <3>1 DEF SetMask, UpdateChannel, TypeOK
    <3> QED
      BY <2>2, <3>1 DEF RawStep, SendTask, ShutdownTask, ReloadMask, RawOfDead, ReadMask
  <2>3. ASSUME NEW w \in Worker, WorkerStep(w) PROVE late' = late \/ late' = TRUE
    BY <2>2, <2>3 DEF WorkerStep, RunTask, StartTask, RemoveConn, EndRemove
  <2>4. CASE Environment \/ UNCHANGED vars
    BY <2>4 DEF Environment, Connect, Peer, UserRelease, vars, poolVars
  <2> QED
    BY <2>1, <2>3, <2>4 DEF Next
<1> QED
  BY <1>1, <1>2, <1>3 DEF Orderly

(* As long as no task is late, the tasks leave the events of closed         *)
(* connections alone.                                                      *)
LEMMA RawOrderly ==
    ASSUME TypeOK, Orderly, Orderly', NEW w \in Worker, NEW c \in Conn, RawStep(w, c)
    PROVE  /\ err' = err
           /\ \A d \in Conn : state[d] # "connected" => events'[d] = events[d] /\ armed'[d] = armed[d]
<1>1. err' = err
  BY DEF RawStep, SendTask, ShutdownTask, SetMask, ReloadMask, UpdateChannel, RawOfDead, ReadMask,
         WriteFails, Orderly, kernelVars
<1>2. CASE SetMask(w, c)
  BY <1>1, <1>2 DEF SetMask, Orderly, TypeOK
<1>3. CASE UpdateChannel(w, c)
  BY <1>1, <1>3 DEF UpdateChannel, Orderly, TypeOK
<1>4. CASE ~SetMask(w, c) /\ ~UpdateChannel(w, c)
  BY <1>1, <1>4 DEF RawStep, SendTask, ShutdownTask, ReloadMask, RawOfDead, connVars
<1> QED
  BY <1>2, <1>3, <1>4

LEMMA HandledStep ==
    ASSUME Inv, LoopInv, Orderly, Orderly', Handled, [Next]_vars PROVE Handled'
<1> USE ObjectsAreDistinct DEF Inv, TypeOK, StateInv, FreshInv, LoopInv, Orderly, Handled, Channel, EventMask,
                               vars, kernelVars, connVars, tableVars, loopVars, poolVars
<1>1. ASSUME NEW c \in Conn, Connect(c) PROVE Handled'
  BY <1>1 DEF Connect
<1>2. ASSUME NEW c \in Conn, Peer(c) PROVE Handled'
  <2>1. err' = err
    BY <1>2 DEF Peer, PeerSend, PeerFin, PeerReset
  <2> QED
    BY <1>2, <2>1 DEF Peer
<1>3. ASSUME NEW c \in Conn, UserRelease(c) PROVE Handled'
  BY <1>3 DEF UserRelease, Drop
<1>4. CASE Poll
  <2>1. \A c \in Conn, room \in SUBSET Conn :
            /\ ReadyEvents(c, room) \subseteq Interest
            /\ state[c] # "connected" => ReadyEvents(c, room) = {}
    BY DEF ReadyEvents, Ready
  <2>2. \A room \in SUBSET Conn : ReadyEvents(Listener, room) \subseteq Interest
    BY DEF ReadyEvents, Interest
  <2>3. PICK room \in SUBSET Conn : batch' = [ch \in Channel |-> ReadyEvents(ch, room)]
    BY <1>4, PollRoom
  <2>4. /\ \A ch \in Channel : batch'[ch] \subseteq Interest
        /\ \A c \in Conn : state[c] # "connected" => batch'[c] = {}
    BY <2>1, <2>2, <2>3
  <2> QED
    BY <1>4, <2>4 DEF Poll
<1>5. ASSUME NEW ch \in Channel, HandleEvent(ch) PROVE Handled'
  BY <1>5 DEF HandleEvent
<1>6. ASSUME NEW c \in Conn, HandleEventOfDead(c) PROVE Handled'
  BY <1>6 DEF HandleEventOfDead
<1>7. ASSUME NEW c \in Conn, HandleReadData(c) PROVE Handled'
  <2>1. /\ err' = err /\ state[c] = "connected"
        /\ \A d \in Conn \ {c} : events'[d] = events[d] /\ armed'[d] = armed[d]
    BY <1>7 DEF HandleReadData, Send, Shutdown, SetEvents, WriteFails
  <2> QED
    BY <1>7, <2>1 DEF HandleReadData
<1>8. ASSUME NEW c \in Conn, HandleReadEnd(c) PROVE Handled'
  <2>1. "IN" \notin rev' /\ batch'[c] = {} /\ events'[c] = {} /\ armed'[c] = {}
    BY <1>8 DEF HandleReadEnd, Disconnect, SetEvents
  <2> QED
    BY <1>8, <2>1 DEF HandleReadEnd, Disconnect, SetEvents
<1>9. ASSUME NEW c \in Conn, HandleReadError(c) PROVE FALSE
  BY <1>9 DEF HandleReadError
<1>10. ASSUME NEW c \in Conn, HandleError(c) PROVE FALSE
  BY <1>10 DEF HandleError
<1>11. ASSUME NEW c \in Conn, EndEvent(c) PROVE Handled'
  BY <1>11 DEF EndEvent, Drop
<1>12. ASSUME NEW c \in Conn, NEW f \in Fd, HandleAccept(c, f) PROVE Handled'
  BY <1>12 DEF HandleAccept
<1>13. ASSUME NEW c \in Conn, InsertConn(c) PROVE Handled'
  BY <1>13 DEF InsertConn
<1>14. ASSUME NEW c \in Conn, ConnectEstablished(c) PROVE Handled'
  <2>1. \A d \in Conn : ~err'[d]
    BY <1>14, DropErrors DEF ConnectEstablished
  <2>2. state'[c] = "connected" /\ \A d \in Conn \ {c} : state'[d] = state[d]
    BY <1>14 DEF ConnectEstablished
  <2>3. \A d \in Conn \ {c} : events'[d] = events[d] /\ armed'[d] = armed[d]
    BY <1>14 DEF ConnectEstablished, SetEvents
  <2> QED
    BY <1>14, <2>1, <2>2, <2>3 DEF ConnectEstablished
<1>15. CASE EndAccept
  BY <1>15 DEF EndAccept
<1>16. ASSUME NEW w \in Worker, StartTask(w) PROVE Handled'
  BY <1>16 DEF StartTask
<1>17. ASSUME NEW w \in Worker, NEW c \in Conn, RemoveConn(w, c) PROVE Handled'
  BY <1>17 DEF RemoveConn
<1>18. ASSUME NEW w \in Worker, NEW c \in Conn, EndRemove(w, c) PROVE Handled'
  <2>1. \A d \in Conn : ~err'[d]
    BY <1>18, DropErrors DEF EndRemove
  <2> QED
    BY <1>18, <2>1 DEF EndRemove
<1>19. CASE UNCHANGED vars
  BY <1>19
<1>20. ASSUME NEW c \in Conn, HandleWrite(c) PROVE Handled'
  <2>1. err' = err /\ \A d \in Conn : state[d] # "connected" => events'[d] = {} /\ armed'[d] = {}
    BY <1>20 DEF HandleWrite, SetEvents, WriteFails
  <2> QED
    BY <1>20, <2>1 DEF HandleWrite
<1>21. ASSUME NEW w \in Worker, NEW c \in Conn, RawStep(w, c) PROVE Handled'
  BY <1>21, RawFrame, RawOrderly
<1> QED
  BY <1>1, <1>2, <1>3, <1>4, <1>5, <1>6, <1>7, <1>8, <1>9, <1>10, <1>11,
    <1>12, <1>13, <1>14, <1>15, <1>16, <1>17, <1>18, <1>19, <1>20, <1>21
  DEF Next, LoopStep, WorkerStep, RunTask, Environment

(* The connection of HandleReadEnd is connected and in the table, and has   *)
(* no task.                                                                *)
LEMMA FirstEnd ==
    ASSUME Inv, LoopInv, Handled, NEW c \in Conn, HandleReadEnd(c)
    PROVE  /\ conns[fdOf[c]] = c
           /\ ~Queued(c) /\ \A w \in Worker : running[w] # c
<1>1. state[c] = "connected" /\ life[c] = "live"
  BY DEF HandleReadEnd, Handled, LoopInv
<1> QED
  BY <1>1 DEF Inv, StateInv, ConnectedIsTracked, DoomedIsDisconnected

(* What TaskOnce says of the queue alone survives Append and Tail. *)
LEMMA PutOnce ==
    ASSUME queue \in Seq(Task), NEW t \in Task, t \in Conn => ~Queued(t), queue' = Append(queue, t),
           \A i, j \in DOMAIN queue : queue[i] = queue[j] /\ queue[i] \in Conn => i = j
    PROVE  \A i, j \in DOMAIN queue' : queue'[i] = queue'[j] /\ queue'[i] \in Conn => i = j
<1>1. /\ DOMAIN queue = 1 .. Len(queue) /\ Len(queue) \in Nat
      /\ DOMAIN queue' = 1 .. Len(queue) + 1
      /\ queue'[Len(queue) + 1] = t
      /\ \A i \in 1 .. Len(queue) : queue'[i] = queue[i]
  OBVIOUS
<1>2. t \in Conn => \A i \in 1 .. Len(queue) : queue'[i] # t
  BY <1>1 DEF Queued
<1>3. SUFFICES ASSUME NEW i \in 1 .. Len(queue) + 1, NEW j \in 1 .. Len(queue) + 1,
                      queue'[i] = queue'[j], queue'[i] \in Conn
               PROVE  i = j
  BY <1>1
<1>4. CASE i \in 1 .. Len(queue) /\ j \in 1 .. Len(queue)
  BY <1>1, <1>3, <1>4
<1>5. CASE i = Len(queue) + 1 \/ j = Len(queue) + 1
  BY <1>1, <1>2, <1>3, <1>5
<1> QED
  BY <1>1, <1>4, <1>5

LEMMA TakeOnce ==
    ASSUME queue \in Seq(Task), queue # <<>>, queue' = Tail(queue),
           \A i, j \in DOMAIN queue : queue[i] = queue[j] /\ queue[i] \in Conn => i = j
    PROVE  /\ \A i, j \in DOMAIN queue' : queue'[i] = queue'[j] /\ queue'[i] \in Conn => i = j
           /\ \A c \in Conn : c = Head(queue) => ~Queued(c)'
<1>1. /\ DOMAIN queue = 1 .. Len(queue) /\ Len(queue) \in Nat \ {0}
      /\ DOMAIN queue' = 1 .. Len(queue) - 1
      /\ Head(queue) = queue[1]
      /\ \A i \in 1 .. Len(queue) - 1 : queue'[i] = queue[i + 1]
  OBVIOUS
<1>2. \A i, j \in DOMAIN queue' : queue'[i] = queue'[j] /\ queue'[i] \in Conn => i = j
  <2> SUFFICES ASSUME NEW i \in DOMAIN queue', NEW j \in DOMAIN queue', queue'[i] = queue'[j],
                      queue'[i] \in Conn
               PROVE  i = j
    OBVIOUS
  <2>1. queue[i + 1] = queue[j + 1] /\ i + 1 \in DOMAIN queue /\ j + 1 \in DOMAIN queue
    BY <1>1
  <2> QED
    BY <1>1, <2>1
<1>3. ASSUME NEW c \in Conn, c = Head(queue), NEW i \in DOMAIN queue', queue'[i] = c PROVE FALSE
  <2>1. queue[i + 1] = queue[1] /\ i + 1 \in DOMAIN queue /\ 1 \in DOMAIN queue /\ i + 1 # 1
    BY <1>1, <1>3
  <2> QED
    BY <1>1, <1>3, <2>1
<1>4. \A c \in Conn : c = Head(queue) => ~Queued(c)'
  BY <1>3 DEF Queued
<1> QED
  BY <1>2, <1>4

LEMMA TaskStep ==
    ASSUME Inv, LoopInv, Handled, TaskOnce, [Next]_vars PROVE TaskOnce'
<1> USE ObjectsAreDistinct DEF Inv, TypeOK, TaskOnce, Pending,
                               vars, kernelVars, connVars, tableVars, loopVars, poolVars
<1>1. ASSUME NEW c \in Conn, Connect(c) PROVE TaskOnce'
  BY <1>1 DEF Connect, Queued
<1>2. ASSUME NEW c \in Conn, Peer(c) PROVE TaskOnce'
  BY <1>2 DEF Peer, Queued
<1>3. ASSUME NEW c \in Conn, UserRelease(c) PROVE TaskOnce'
  BY <1>3 DEF UserRelease, Queued
<1>4. CASE Poll
  BY <1>4 DEF Poll, Queued
<1>5. ASSUME NEW ch \in Channel, HandleEvent(ch) PROVE TaskOnce'
  BY <1>5 DEF HandleEvent, Queued
<1>6. ASSUME NEW c \in Conn, HandleEventOfDead(c) PROVE TaskOnce'
  BY <1>6 DEF HandleEventOfDead, Queued
<1>7. ASSUME NEW c \in Conn, HandleReadData(c) PROVE TaskOnce'
  <2>1. \A i, j \in DOMAIN queue' : queue'[i] = queue'[j] /\ queue'[i] \in Conn => i = j
    <3>1. CASE queue' = queue
      BY <3>1
    <3>2. ASSUME NEW t \in RawTask, queue' = Append(queue, t)
          PROVE  \A i, j \in DOMAIN queue' : queue'[i] = queue'[j] /\ queue'[i] \in Conn => i = j
      BY <3>2, PutOnce, TasksAreDistinct DEF Task
    <3> QED
      BY <1>7, <3>1, <3>2, DataFrame
  <2>2. /\ running' = running /\ erased' = erased
        /\ \A d \in Conn : Queued(d)' <=> Queued(d)
    BY <1>7, DataFrame
  <2>3. conns' = conns /\ fdOf' = fdOf
    BY <1>7 DEF HandleReadData
  <2> QED
    BY <2>1, <2>2, <2>3
<1>8. ASSUME NEW c \in Conn, HandleReadEnd(c) PROVE TaskOnce'
  <2>1. /\ queue' = Append(queue, c)
        /\ running' = running /\ erased' = erased /\ conns' = conns /\ fdOf' = fdOf
    BY <1>8 DEF HandleReadEnd, Disconnect, SubmitRemove, Pool!Put
  <2>2. conns[fdOf[c]] = c /\ ~Queued(c) /\ \A w \in Worker : running[w] # c
    BY <1>8, FirstEnd
  <2>3. \A d \in Conn : Queued(d)' <=> Queued(d) \/ d = c
    BY <2>1, PutQueued
  <2>4. \A i, j \in DOMAIN queue' : queue'[i] = queue'[j] /\ queue'[i] \in Conn => i = j
    BY <2>1, <2>2, PutOnce DEF Task
  <2> QED
    BY <2>1, <2>2, <2>3, <2>4
<1>9. ASSUME NEW c \in Conn, HandleReadError(c) PROVE FALSE
  BY <1>9 DEF HandleReadError, Handled
<1>10. ASSUME NEW c \in Conn, HandleError(c) PROVE FALSE
  BY <1>10 DEF HandleError, Handled
<1>11. ASSUME NEW c \in Conn, EndEvent(c) PROVE TaskOnce'
  BY <1>11 DEF EndEvent, Queued
<1>12. ASSUME NEW c \in Conn, NEW f \in Fd, HandleAccept(c, f) PROVE TaskOnce'
  <2>1. ~Pending(c)
    BY <1>12 DEF HandleAccept, LifeInv, HeldIsLive, Held
  <2>2. \A d \in Conn : Queued(d)' <=> Queued(d)
    BY <1>12 DEF HandleAccept, Queued
  <2> QED
    BY <1>12, <2>1, <2>2 DEF HandleAccept
<1>13. ASSUME NEW c \in Conn, InsertConn(c) PROVE TaskOnce'
  <2>1. \A d \in Conn : Queued(d)' <=> Queued(d)
    BY <1>13 DEF InsertConn, Queued
  <2>2. \A d \in Conn : Pending(d) => fdOf[d] \in Fd /\ conns[fdOf[d]] # None
    BY DEF LifeInv, HeldIsLive, Held, LiveOwnsFd
  <2> QED
    BY <1>13, <2>1, <2>2 DEF InsertConn
<1>14. ASSUME NEW c \in Conn, ConnectEstablished(c) PROVE TaskOnce'
  BY <1>14 DEF ConnectEstablished, Queued
<1>15. CASE EndAccept
  BY <1>15 DEF EndAccept, Queued
<1>16. ASSUME NEW w \in Worker, StartTask(w) PROVE TaskOnce'
  <2>1. /\ queue # <<>> /\ queue' = Tail(queue) /\ running[w] = None
        /\ running' = [running EXCEPT ![w] = Head(queue)]
        /\ erased' = erased /\ conns' = conns /\ fdOf' = fdOf
    BY <1>16 DEF StartTask, Pool!Take
  <2>2. /\ Head(queue) \in Task
        /\ \A d \in Conn : Queued(d) <=> Queued(d)' \/ d = Head(queue)
    BY <2>1, TakeQueued
  <2>3. /\ \A i, j \in DOMAIN queue' : queue'[i] = queue'[j] /\ queue'[i] \in Conn => i = j
        /\ \A d \in Conn : d = Head(queue) => ~Queued(d)'
    BY <2>1, TakeOnce
  <2>4. \A v \in Worker : Head(queue) \in Conn => running[v] # Head(queue)
    BY <2>2
  <2>5. w \notin erased
    BY <2>1
  <2>6. /\ \A v \in Worker, d \in Conn : running'[v] = d => ~Queued(d)'
        /\ \A v, u \in Worker : running'[v] = running'[u] /\ running'[v] \in Conn => v = u
    BY <2>1, <2>2, <2>3, <2>4
  <2>7. \A d \in Conn : Pending(d)' => Pending(d)
    BY <2>1, <2>2
  <2>8. \A v \in erased' : running'[v] \in Conn
    BY <2>1, <2>5
  <2>9. \A d \in Conn : Pending(d)' => conns'[fdOf'[d]] = d
    BY <2>1, <2>7
  <2> QED
    BY <2>3, <2>6, <2>8, <2>9
<1>17. ASSUME NEW w \in Worker, NEW c \in Conn, RemoveConn(w, c) PROVE TaskOnce'
  <2>1. \A d \in Conn : Queued(d)' <=> Queued(d)
    BY <1>17 DEF RemoveConn, Queued
  <2>2. conns[fdOf[c]] = c
    BY <1>17 DEF RemoveConn
  <2>3. \A d \in Conn : Pending(d)' => Pending(d) /\ d # c
    BY <1>17, <2>1 DEF RemoveConn
  <2>4. \A d \in Conn : Pending(d)' => conns'[fdOf'[d]] = d
    BY <1>17, <2>2, <2>3 DEF RemoveConn
  <2> QED
    BY <1>17, <2>1, <2>4 DEF RemoveConn
<1>18. ASSUME NEW w \in Worker, NEW c \in Conn, EndRemove(w, c) PROVE TaskOnce'
  <2>1. \A d \in Conn : Queued(d)' <=> Queued(d)
    BY <1>18 DEF EndRemove, Pool!Retire, Queued
  <2> QED
    BY <1>18, <2>1 DEF EndRemove, Pool!Retire
<1>19. CASE UNCHANGED vars
  BY <1>19 DEF Queued
<1>20. ASSUME NEW c \in Conn, HandleWrite(c) PROVE TaskOnce'
  BY <1>20 DEF HandleWrite, Queued
<1>21. ASSUME NEW w \in Worker, NEW c \in Conn, RawStep(w, c) PROVE TaskOnce'
  BY <1>21, RawFrame
<1> QED
  BY <1>1, <1>2, <1>3, <1>4, <1>5, <1>6, <1>7, <1>8, <1>9, <1>10, <1>11,
    <1>12, <1>13, <1>14, <1>15, <1>16, <1>17, <1>18, <1>19, <1>20, <1>21
  DEF Next, LoopStep, WorkerStep, RunTask, Environment
-----------------------------------------------------------------------------
(* The counter of 64 bits, where it does not wrap around. *)
LEMMA CountUp == ASSUME NEW n \in Nat, n + 1 < CountMod PROVE (n + 1) % CountMod = n + 1
BY CountModIsPositive

LEMMA CountDown ==
    ASSUME NEW n \in Nat, 0 < n, n < CountMod PROVE (n + CountMod - 1) % CountMod = n - 1
<1>1. n - 1 \in 0 .. CountMod - 1 /\ n + CountMod - 1 = (n - 1) + CountMod
  BY CountModIsPositive
<1>2. ((n - 1) + CountMod) % CountMod = n - 1
  BY <1>1, CountModIsPositive
<1> QED
  BY <1>1, <1>2

Entries == {f \in Fd : conns[f] # None}
Inserting == IF loopPc = "insert" THEN 1 ELSE 0

LEMMA EntriesAreFinite ==
    /\ IsFiniteSet(Entries) /\ Cardinality(Entries) \in Nat
    /\ \A f \in Fd \ Entries : Cardinality(Entries) + 1 < CountMod
<1> USE CountModIsEnough DEF Entries
<1>1. IsFiniteSet(Entries) /\ Cardinality(Entries) \in Nat
  BY FS_Subset, FS_CardinalityType
<1>2. ASSUME NEW f \in Fd \ Entries PROVE Cardinality(Entries) + 1 < CountMod
  <2>1. Cardinality(Entries \cup {f}) = Cardinality(Entries) + 1
    BY <1>1, FS_AddElement
  <2>2. Entries \cup {f} \in SUBSET Fd
    OBVIOUS
  <2>3. Cardinality(Entries \cup {f}) <= Cardinality(Fd) /\ Cardinality(Fd) \in Nat
    BY <2>2, FS_Subset, FS_CardinalityType
  <2> QED
    BY <1>1, <2>1, <2>3, CountModIsPositive
<1> QED
  BY <1>1, <1>2

LEMMA TotalStep ==
    ASSUME Inv, LoopInv, TaskOnce, TotalIsTableSize, [Next]_vars PROVE TotalIsTableSize'
<1>0. total = Cardinality(Entries) + Inserting
  BY DEF TotalIsTableSize, Entries, Inserting
<1> SUFFICES total' = Cardinality(Entries') + Inserting'
  BY DEF TotalIsTableSize, Entries, Inserting
<1>1. ASSUME NEW c \in Conn, NEW f \in Fd, HandleAccept(c, f)
      PROVE  total' = Cardinality(Entries') + Inserting'
  <2>1. f \in Fd \ Entries
    BY <1>1 DEF HandleAccept, Inv, LifeInv, TableOwnsSockets, Entries
  <2>2. total = Cardinality(Entries) /\ total + 1 < CountMod
    BY <1>0, <1>1, <2>1, EntriesAreFinite DEF HandleAccept, Inserting
  <2>3. total' = total + 1
    BY <1>1, <2>2, CountUp, EntriesAreFinite DEF HandleAccept
  <2>4. Entries' = Entries /\ Inserting' = 1
    BY <1>1 DEF HandleAccept, Entries, Inserting
  <2> QED
    BY <2>2, <2>3, <2>4
<1>2. ASSUME NEW c \in Conn, InsertConn(c)
      PROVE  total' = Cardinality(Entries') + Inserting'
  <2>1. fdOf[c] \in Fd /\ conns[fdOf[c]] = None
    BY <1>2 DEF InsertConn, Inv, TypeOK, LifeInv, HeldIsLive, Held, LiveOwnsFd, LoopInv
  <2>2. conns' = [conns EXCEPT ![fdOf[c]] = c]
    BY <1>2, <2>1 DEF InsertConn, Inv, TypeOK
  <2>3. Entries' = Entries \cup {fdOf[c]} /\ fdOf[c] \notin Entries
    BY <2>1, <2>2, ObjectsAreDistinct DEF Entries, Inv, TypeOK
  <2>4. Cardinality(Entries') = Cardinality(Entries) + 1
    BY <2>3, FS_AddElement, EntriesAreFinite
  <2>5. total' = total /\ Inserting = 1 /\ Inserting' = 0
    BY <1>2 DEF InsertConn, Inserting
  <2> QED
    BY <1>0, <2>4, <2>5, EntriesAreFinite
<1>3. ASSUME NEW w \in Worker, NEW c \in Conn, RemoveConn(w, c)
      PROVE  total' = Cardinality(Entries') + Inserting'
  <2>1. fdOf[c] \in Fd /\ conns[fdOf[c]] = c
    BY <1>3 DEF RemoveConn, TaskOnce, Pending, Inv, TypeOK, LifeInv, HeldIsLive, Held, LiveOwnsFd
  <2>2. Entries' = Entries \ {fdOf[c]} /\ fdOf[c] \in Entries
    BY <1>3, <2>1, ObjectsAreDistinct DEF RemoveConn, Entries, Inv, TypeOK
  <2>3. Cardinality(Entries') = Cardinality(Entries) - 1 /\ Cardinality(Entries) # 0
    BY <2>2, FS_RemoveElement, FS_EmptySet, EntriesAreFinite
  <2>4. Inserting' = Inserting /\ Inserting \in {0, 1}
    BY <1>3 DEF RemoveConn, loopVars, Inserting
  <2>5. total \in Nat /\ 0 < total /\ total < CountMod
    BY <1>0, <2>3, <2>4, EntriesAreFinite, CountModIsPositive DEF Inv, TypeOK
  <2>6. total' = total - 1
    BY <1>3, <2>5, CountDown DEF RemoveConn
  <2> QED
    BY <1>0, <2>3, <2>4, <2>5, <2>6, EntriesAreFinite
<1>4. CASE conns' = conns /\ total' = total /\ (loopPc' = "insert" <=> loopPc = "insert")
  BY <1>0, <1>4 DEF Entries, Inserting
<1>5. \/ \E c \in Conn, f \in Fd : HandleAccept(c, f)
      \/ \E c \in Conn : InsertConn(c)
      \/ \E w \in Worker, c \in Conn : RemoveConn(w, c)
      \/ conns' = conns /\ total' = total /\ (loopPc' = "insert" <=> loopPc = "insert")
  <2>1. ASSUME LoopStep, ~ \E c \in Conn, f \in Fd : HandleAccept(c, f), ~ \E c \in Conn : InsertConn(c)
        PROVE  conns' = conns /\ total' = total /\ (loopPc' = "insert" <=> loopPc = "insert")
    BY <2>1 DEF LoopStep, Poll, HandleEvent, HandleEventOfDead, HandleReadData, HandleReadEnd, HandleReadError,
       HandleWrite, HandleError, EndEvent, ConnectEstablished, EndAccept, tableVars
  <2>2. ASSUME NEW w \in Worker, WorkerStep(w), ~ \E c \in Conn : RemoveConn(w, c)
        PROVE  conns' = conns /\ total' = total /\ loopPc' = loopPc
    BY <2>2, RawFrame DEF Inv, WorkerStep, RunTask, StartTask, EndRemove, tableVars, loopVars
  <2>3. CASE Environment \/ UNCHANGED vars
    BY <2>3 DEF Environment, Connect, Peer, UserRelease, vars, tableVars, loopVars
  <2> QED
    BY <2>1, <2>2, <2>3 DEF Next
<1> QED
  BY <1>1, <1>2, <1>3, <1>4, <1>5
-----------------------------------------------------------------------------
LEMMA OrderlyInvInit == Init => OrderlyInv
<1> SUFFICES ASSUME Init PROVE OrderlyInv
  OBVIOUS
<1> USE ObjectsAreDistinct DEF Init
<1>1. LoopInv
  BY DEF LoopInv
<1>2. Handled
  BY DEF Handled, Channel
<1>3. TaskOnce
  BY DEF TaskOnce, Pending, Queued
<1>4. TotalIsTableSize
  <2>1. Entries = {}
    BY DEF Entries
  <2>2. Inserting = 0 /\ total = 0
    BY DEF Inserting
  <2>3. total = Cardinality(Entries) + Inserting
    BY <2>1, <2>2, FS_EmptySet
  <2> HIDE DEF Init
  <2> QED
    BY <2>3 DEF TotalIsTableSize, Entries, Inserting
<1> QED
  BY <1>1, <1>2, <1>3, <1>4 DEF OrderlyInv

LEMMA OrderlyInvStep == Inv /\ OrderlyInv /\ [Next]_vars => OrderlyInv'
<1> SUFFICES ASSUME Inv, OrderlyInv, [Next]_vars PROVE OrderlyInv'
  OBVIOUS
<1>1. LoopInv'
  BY LoopInvStep DEF OrderlyInv
<1>2. ASSUME Orderly' PROVE Handled' /\ TaskOnce' /\ TotalIsTableSize'
  <2>1. Orderly
    BY <1>2, OrderlyBefore DEF Inv
  <2>2. LoopInv /\ Handled /\ TaskOnce /\ TotalIsTableSize
    BY <2>1 DEF OrderlyInv
  <2> QED
    BY <1>2, <2>1, <2>2, HandledStep, TaskStep, TotalStep
<1> QED
  BY <1>1, <1>2 DEF OrderlyInv

LEMMA OrderlyInvariance == Spec => [](Inv /\ OrderlyInv)
BY InvInit, InvStep, OrderlyInvInit, OrderlyInvStep, PTL DEF Spec
-----------------------------------------------------------------------------
(* Until a peer resets a connection, or a task of send or shutdown changes  *)
(* the events of a closed one, totalConnections_ is the size of conns_, and *)
(* the one that onNewConn inserts: it does not wrap around, however         *)
(* removals, accepts and the tasks of open connections interleave.          *)
THEOREM OrderlyTotalIsExactAlways == Spec => []OrderlyTotalIsExact
<1>1. OrderlyInv => OrderlyTotalIsExact
  BY DEF OrderlyInv, OrderlyTotalIsExact
<1> QED
  BY <1>1, OrderlyInvariance, PTL

(* Nor is a Channel that epoll_wait reported destroyed before its events    *)
(* are handled.                                                            *)
THEOREM OrderlyBatchIsLiveAlways == Spec => []OrderlyBatchIsLive
<1>1. OrderlyInv => OrderlyBatchIsLive
  BY DEF OrderlyInv, LoopInv, Handled, OrderlyBatchIsLive, BatchIsLive
<1> QED
  BY <1>1, OrderlyInvariance, PTL
-----------------------------------------------------------------------------
(***************************************************************************)
(* Nobody is forgotten, and the life of a connection.  Both hold with       *)
(* resets, when a connection may be disconnected twice and its entry erased *)
(* late.  What makes it work is that a task erases its own entry or finds   *)
(* an empty slot or nothing (OnlyOwnEntry), and that the thread which drops *)
(* the last Ptr finds the connection out of conns_ already.                 *)
(***************************************************************************)
(* The facts that hold at every step, with resets or without. *)
AnyInv == Inv /\ LoopInv

(* A worker that has run the body of a task still holds it. *)
ErasedRuns == \A w \in erased : running[w] \in Conn

(* The parts of NobodyIsForgotten. *)
LiveIsHeld == \A c \in Conn : life[c] = "live" => Held(c)

ConnectingIsFresh ==
    \A c \in Conn : life[c] = "live" /\ state[c] = "connecting" => fresh = c

ConnectedListens ==
    \A c \in Conn : state[c] = "connected" => "IN" \in events[c] /\ "IN" \in armed[c]

(* A task of send or shutdown is given for a connection that is, or was,    *)
(* connected; and as long as it is, the task keeps EPOLLIN in the value it  *)
(* has read.                                                               *)
PostedIsEstablished ==
    \A c \in Conn : \A t \in {<<"send", c>>, <<"shutdown", c>>} :
        Queued(t) \/ (\E w \in Worker : running[w] = t) => state[c] # "connecting"

TasksListen ==
    /\ \A w \in Worker : step[w] # "start" => running[w] \in RawTask
    /\ \A w \in Worker, c \in Conn :
          RunsRaw(w, c) /\ step[w] # "start" /\ state[c] = "connected" => "IN" \in local[w]

EntryHasTask ==
    \A c \in Conn : life[c] = "live" /\ state[c] = "disconnected" /\ conns[fdOf[c]] = c => Pending(c)

(* The task of c erases the entry of c or none. *)
LEMMA OnlyOwnEntry ==
    ASSUME Inv, NEW w \in Worker, NEW c \in Conn, RemoveConn(w, c)
    PROVE  /\ life[c] = "live" /\ state[c] = "disconnected"
           /\ fdOf[c] \in Fd /\ conns'[fdOf[c]] = None
           /\ \A f \in Fd : conns'[f] # conns[f] => conns[f] = c
<1>1. life[c] = "live" /\ state[c] = "disconnected"
  BY DEF RemoveConn, Held, Inv, LifeInv, HeldIsLive, StateInv, DoomedIsDisconnected
<1>2. fdOf[c] \in Fd
  BY <1>1 DEF Inv, TypeOK, LifeInv, LiveOwnsFd
<1>3. conns[fdOf[c]] \in {None, c}
  BY <1>1, <1>2 DEF Inv, TypeOK, LifeInv, OneSocketPerFd, TableOwnsSockets
<1> QED
  BY <1>1, <1>2, <1>3 DEF RemoveConn, Inv, TypeOK

LEMMA DropHeld ==
    ASSUME TypeOK, LiveIsHeld, NEW c \in Conn, Drop(c),
           \A d \in Conn \ {c} : Held(d) => Held(d)'
    PROVE  LiveIsHeld'
<1>1. CASE Held(c)'
  BY <1>1 DEF Drop, LiveIsHeld
<1>2. CASE ~Held(c)'
  BY <1>2 DEF Drop, LiveIsHeld, TypeOK
<1> QED
  BY <1>1, <1>2

(* A connection loses a holder only to one who drops it. *)
LEMMA LiveIsHeldStep == AnyInv /\ LiveIsHeld /\ [Next]_vars => LiveIsHeld'
<1> SUFFICES ASSUME AnyInv, LiveIsHeld, [Next]_vars PROVE LiveIsHeld'
  OBVIOUS
<1> USE ObjectsAreDistinct DEF AnyInv, Inv, TypeOK, LoopInv, StateInv, FreshInv, LiveIsHeld, Held, Channel,
                               vars, kernelVars, connVars, tableVars, loopVars, poolVars
<1>1. ASSUME NEW c \in Conn, Connect(c) PROVE LiveIsHeld'
  BY <1>1 DEF Connect, Queued
<1>2. ASSUME NEW c \in Conn, Peer(c) PROVE LiveIsHeld'
  BY <1>2 DEF Peer, Queued
<1>3. ASSUME NEW c \in Conn, UserRelease(c) PROVE LiveIsHeld'
  BY <1>3 DEF UserRelease, Drop, Queued
<1>4. CASE Poll
  BY <1>4 DEF Poll, Queued
<1>5. ASSUME NEW ch \in Channel, HandleEvent(ch) PROVE LiveIsHeld'
  BY <1>5 DEF HandleEvent, Queued
<1>6. ASSUME NEW c \in Conn, HandleEventOfDead(c) PROVE LiveIsHeld'
  BY <1>6 DEF HandleEventOfDead, Queued
<1>7. ASSUME NEW c \in Conn, HandleReadData(c) PROVE LiveIsHeld'
  <2>1. /\ running' = running /\ erased' = erased
        /\ \A d \in Conn : Queued(d)' <=> Queued(d)
    BY <1>7, DataFrame
  <2>2. /\ conns' = conns /\ fresh' = fresh /\ cur' = cur /\ cur = c /\ life' = life
        /\ fdOf' = fdOf /\ state' = state /\ user \subseteq user' /\ user' \subseteq user \cup {c}
    BY <1>7 DEF HandleReadData
  <2>3. \A d \in Conn : Held(d) => Held(d)'
    BY <2>1, <2>2
  <2> QED
    BY <2>2, <2>3
<1>8. ASSUME NEW c \in Conn, HandleReadEnd(c) PROVE LiveIsHeld'
  <2>1. \A d \in Conn : Queued(d)' <=> Queued(d) \/ d = c
    BY <1>8, PutQueued DEF HandleReadEnd, Disconnect, SubmitRemove, Pool!Put
  <2> QED
    BY <1>8, <2>1 DEF HandleReadEnd, Disconnect, SubmitRemove, Pool!Put
<1>9. ASSUME NEW c \in Conn, HandleReadError(c) PROVE LiveIsHeld'
  <2>1. \A d \in Conn : Queued(d)' <=> Queued(d) \/ d = c
    BY <1>9, PutQueued DEF HandleReadError, Disconnect, SubmitRemove, Pool!Put
  <2> QED
    BY <1>9, <2>1 DEF HandleReadError, Disconnect, SubmitRemove, Pool!Put
<1>10. ASSUME NEW c \in Conn, HandleError(c) PROVE LiveIsHeld'
  <2>1. \A d \in Conn : Queued(d)' <=> Queued(d) \/ d = c
    BY <1>10, PutQueued DEF HandleError, Disconnect, SubmitRemove, Pool!Put
  <2> QED
    BY <1>10, <2>1 DEF HandleError, Disconnect, SubmitRemove, Pool!Put
<1>11. ASSUME NEW c \in Conn, EndEvent(c) PROVE LiveIsHeld'
  BY <1>11 DEF EndEvent, Drop, Queued
<1>12. ASSUME NEW c \in Conn, NEW f \in Fd, HandleAccept(c, f) PROVE LiveIsHeld'
  <2>1. fresh = None /\ fresh' = c /\ life' = [life EXCEPT ![c] = "live"]
    BY <1>12 DEF HandleAccept
  <2>2. \A d \in Conn : Held(d) => Held(d)'
    BY <1>12, <2>1 DEF HandleAccept, Queued
  <2>3. Held(c)'
    BY <2>1
  <2> QED
    BY <2>1, <2>2, <2>3
<1>13. ASSUME NEW c \in Conn, InsertConn(c) PROVE LiveIsHeld'
  <2>1. \A f \in Fd, d \in Conn : conns[f] = d => conns'[f] = d
    BY <1>13 DEF InsertConn
  <2> QED
    BY <1>13, <2>1 DEF InsertConn, Queued
<1>14. ASSUME NEW c \in Conn, ConnectEstablished(c) PROVE LiveIsHeld'
  <2>1. fresh = c /\ fresh' = None
    BY <1>14 DEF ConnectEstablished
  <2>2. \A d \in Conn \ {c} : Held(d) => Held(d)'
    BY <1>14, <2>1 DEF ConnectEstablished, Queued
  <2> QED
    BY <1>14, <2>2, DropHeld DEF ConnectEstablished
<1>15. CASE EndAccept
  BY <1>15 DEF EndAccept, Queued
<1>16. ASSUME NEW w \in Worker, StartTask(w) PROVE LiveIsHeld'
  <2>1. /\ queue # <<>> /\ queue' = Tail(queue)
        /\ running[w] = None /\ running' = [running EXCEPT ![w] = Head(queue)]
    BY <1>16 DEF StartTask, Pool!Take
  <2>2. /\ Head(queue) \in Task
        /\ \A d \in Conn : Queued(d) <=> Queued(d)' \/ d = Head(queue)
    BY <2>1, TakeQueued
  <2> QED
    BY <1>16, <2>1, <2>2 DEF StartTask
<1>17. ASSUME NEW w \in Worker, NEW c \in Conn, RemoveConn(w, c) PROVE LiveIsHeld'
  <2>1. \A f \in Fd : conns'[f] # conns[f] => conns[f] = c
    BY <1>17, OnlyOwnEntry
  <2>2. running'[w] = c
    BY <1>17 DEF RemoveConn
  <2> QED
    BY <1>17, <2>1, <2>2 DEF RemoveConn, Queued
<1>18. ASSUME NEW w \in Worker, NEW c \in Conn, EndRemove(w, c) PROVE LiveIsHeld'
  <2>1. running[w] = c /\ running' = [running EXCEPT ![w] = None]
    BY <1>18 DEF EndRemove, Pool!Retire
  <2>2. \A d \in Conn \ {c} : Held(d) => Held(d)'
    BY <1>18, <2>1 DEF EndRemove, Pool!Retire, Queued
  <2> QED
    BY <1>18, <2>2, DropHeld DEF EndRemove
<1>19. CASE UNCHANGED vars
  BY <1>19 DEF Queued
<1>20. ASSUME NEW c \in Conn, HandleWrite(c) PROVE LiveIsHeld'
  BY <1>20 DEF HandleWrite, Queued
<1>21. ASSUME NEW w \in Worker, NEW c \in Conn, RawStep(w, c) PROVE LiveIsHeld'
  BY <1>21, RawFrame
<1> QED
  BY <1>1, <1>2, <1>3, <1>4, <1>5, <1>6, <1>7, <1>8, <1>9, <1>10, <1>11,
    <1>12, <1>13, <1>14, <1>15, <1>16, <1>17, <1>18, <1>19, <1>20, <1>21
  DEF Next, LoopStep, WorkerStep, RunTask, Environment

Served ==
    /\ ErasedRuns /\ LiveIsHeld /\ ConnectingIsFresh /\ EntryHasTask
    /\ PostedIsEstablished /\ TasksListen /\ ConnectedListens

(* Of what the tasks of send and shutdown do step by step. *)
LEMMA RawWatched ==
    ASSUME TypeOK, PostedIsEstablished, TasksListen, ConnectedListens,
           NEW w \in Worker, NEW c \in Conn, RawStep(w, c)
    PROVE  (PostedIsEstablished /\ TasksListen /\ ConnectedListens)'
<1> USE ObjectsAreDistinct, TasksAreDistinct DEF TypeOK
<1>1. /\ queue' = queue /\ state' = state
      /\ running' = running \/ running' = [running EXCEPT ![w] = None]
      /\ running[w] \in RawTask /\ RunsRaw(w, c)
  BY RawFrame
<1>2. PostedIsEstablished'
  <2>1. \A t \in RawTask, v \in Worker : running'[v] = t => running[v] = t
    BY <1>1
  <2>2. \A d \in Conn : <<"send", d>> \in RawTask /\ <<"shutdown", d>> \in RawTask
    BY DEF RawTask
  <2>3. \A t : Queued(t)' <=> Queued(t)
    BY <1>1 DEF Queued
  <2>4. ASSUME NEW d \in Conn, NEW t \in {<<"send", d>>, <<"shutdown", d>>},
               Queued(t)' \/ \E v \in Worker : running'[v] = t
        PROVE  state'[d] # "connecting"
    <3>1. t \in RawTask
      BY <2>2
    <3>2. Queued(t) \/ \E v \in Worker : running[v] = t
      BY <2>1, <2>3, <2>4, <3>1
    <3> QED
      BY <1>1, <3>2 DEF PostedIsEstablished
  <2> QED
    BY <2>4 DEF PostedIsEstablished
<1>3. CASE running' = [running EXCEPT ![w] = None] /\ step' = [step EXCEPT ![w] = "start"]
           /\ local' = [local EXCEPT ![w] = {}]
  <2>1. None \notin RawTask
    OBVIOUS
  <2>2. \A v \in Worker : step'[v] # "start" => running'[v] \in RawTask
    BY <1>3 DEF TasksListen
  <2>3. ASSUME NEW v \in Worker, NEW d \in Conn, RunsRaw(v, d)', step'[v] # "start", state'[d] = "connected"
        PROVE  "IN" \in local'[v]
    <3>1. v # w
      BY <1>3, <2>3
    <3>2. RunsRaw(v, d) /\ step[v] # "start" /\ local'[v] = local[v]
      BY <1>3, <2>3, <3>1 DEF RunsRaw
    <3> QED
      BY <1>1, <2>3, <3>2 DEF TasksListen
  <2>4. TasksListen'
    BY <2>2, <2>3 DEF TasksListen
  <2>5. ConnectedListens'
    <3>1. CASE UpdateChannel(w, c)
      BY <1>1, <3>1 DEF UpdateChannel, ConnectedListens, TasksListen
    <3>2. CASE ~UpdateChannel(w, c)
      <4>1. events' = events /\ armed' = armed
        BY <1>3, <3>2 DEF RawStep, SendTask, ShutdownTask, SetMask, ReloadMask, RawOfDead, connVars
      <4> QED
        BY <1>1, <4>1 DEF ConnectedListens
    <3> QED
      BY <3>1, <3>2
  <2> QED
    BY <1>2, <2>4, <2>5
<1>4. ASSUME NEW mask, ReadMask(w, mask), events' = events, armed' = armed,
             state[c] = "connected" => "IN" \in mask
      PROVE  (TasksListen /\ ConnectedListens)'
  <2>1. running' = running /\ step' = [step EXCEPT ![w] = "mask"] /\ local' = [local EXCEPT ![w] = mask]
    BY <1>4 DEF ReadMask
  <2>2. \A d \in Conn : RunsRaw(w, d) => d = c
    BY <1>1 DEF RunsRaw
  <2> QED
    BY <1>1, <1>4, <2>1, <2>2 DEF TasksListen, ConnectedListens, RunsRaw
<1>5. CASE SendTask(w, c)
  <2>1. CASE ReadMask(w, events[c] \cup {"OUT"})
    BY <1>2, <1>4, <1>5, <2>1 DEF SendTask, connVars, ConnectedListens
  <2>2. CASE EndRaw(w)
    BY <1>3, <2>2 DEF EndRaw, Pool!Retire
  <2> QED
    BY <1>5, <2>1, <2>2 DEF SendTask
<1>6. CASE ShutdownTask(w, c)
  BY <1>2, <1>4, <1>6 DEF ShutdownTask, connVars, ConnectedListens
<1>7. CASE SetMask(w, c)
  <2>1. /\ running' = running /\ step' = [step EXCEPT ![w] = "read"] /\ local' = local /\ armed' = armed
        /\ events' = [events EXCEPT ![c] = local[w]] /\ step[w] # "start"
    BY <1>7 DEF SetMask
  <2> QED
    BY <1>1, <1>2, <2>1 DEF TasksListen, ConnectedListens, RunsRaw
<1>8. CASE ReloadMask(w, c)
  <2>1. /\ running' = running /\ step' = [step EXCEPT ![w] = "ctl"] /\ armed' = armed /\ events' = events
        /\ local' = [local EXCEPT ![w] = events[c]]
    BY <1>8 DEF ReloadMask, connVars
  <2>2. \A d \in Conn : RunsRaw(w, d) => d = c
    BY <1>1 DEF RunsRaw
  <2> QED
    BY <1>1, <1>2, <2>1, <2>2 DEF TasksListen, ConnectedListens, RunsRaw
<1>9. CASE UpdateChannel(w, c) \/ RawOfDead(w, c)
  BY <1>3, <1>9 DEF UpdateChannel, RawOfDead, EndRaw, Pool!Retire
<1> QED
  BY <1>5, <1>6, <1>7, <1>8, <1>9 DEF RawStep

(* Only the callback of a connected connection gives such a task, and no    *)
(* connection goes back to kConnecting.                                    *)
LEMMA TasksStep ==
    ASSUME AnyInv, PostedIsEstablished, TasksListen, ConnectedListens, [Next]_vars
    PROVE  (PostedIsEstablished /\ TasksListen)'
<1> USE ObjectsAreDistinct, TasksAreDistinct DEF AnyInv, Inv, TypeOK, PostedIsEstablished, TasksListen
<1>1. ASSUME NEW c \in Conn, HandleReadData(c) PROVE (PostedIsEstablished /\ TasksListen)'
  <2>1. /\ running' = running /\ step' = step /\ local' = local
        /\ state' = state
    BY <1>1, DataFrame DEF HandleReadData
  <2>2. ASSUME NEW t \in RawTask, queue' = Append(queue, t), state[c] = "connected",
               t \in {<<"send", c>>, <<"shutdown", c>>}
        PROVE  PostedIsEstablished'
    <3>1. \A u \in RawTask : Queued(u)' <=> Queued(u) \/ u = t
      <4>1. t \in Task /\ queue \in Seq(Task)
        BY DEF Task
      <4> QED
        BY <2>2, <4>1, PutTask
    <3>2. \A d \in Conn : <<"send", d>> \in RawTask /\ <<"shutdown", d>> \in RawTask
      BY DEF RawTask
    <3>3. \A d \in Conn : t \in {<<"send", d>>, <<"shutdown", d>>} => d = c
      BY <2>2
    <3> QED
      BY <2>1, <2>2, <3>1, <3>2, <3>3
  <2>3. CASE queue' = queue
    BY <2>1, <2>3 DEF Queued, RunsRaw
  <2>4. TasksListen'
    BY <2>1 DEF RunsRaw
  <2> QED
    BY <1>1, <2>2, <2>3, <2>4, DataFrame
<1>2. ASSUME NEW c \in Conn, Disconnect(c) PROVE (PostedIsEstablished /\ TasksListen)'
  <2>1. /\ running' = running /\ step' = step /\ local' = local
        /\ queue' = Append(queue, c) /\ state' = [state EXCEPT ![c] = "disconnected"]
    BY <1>2 DEF Disconnect, SubmitRemove, Pool!Put
  <2>2. \A u \in RawTask : Queued(u)' <=> Queued(u)
    BY <2>1, PutQueued
  <2>3. \A d \in Conn : <<"send", d>> \in RawTask /\ <<"shutdown", d>> \in RawTask
    BY DEF RawTask
  <2> QED
    BY <2>1, <2>2, <2>3 DEF RunsRaw
<1>3. ASSUME NEW c \in Conn, ConnectEstablished(c) PROVE (PostedIsEstablished /\ TasksListen)'
  <2>1. /\ running' = running /\ step' = step /\ local' = local /\ queue' = queue
        /\ state' = [state EXCEPT ![c] = "connected"]
    BY <1>3 DEF ConnectEstablished, poolVars
  <2>2. state[c] = "connecting"
    BY <1>3 DEF ConnectEstablished, StateInv, FreshInv
  <2>3. \A w \in Worker : ~RunsRaw(w, c)
    BY <2>2 DEF RunsRaw
  <2> QED
    BY <2>1, <2>3 DEF RunsRaw, Queued
<1>4. ASSUME NEW w \in Worker, StartTask(w) PROVE (PostedIsEstablished /\ TasksListen)'
  <2>1. /\ queue # <<>> /\ queue' = Tail(queue) /\ running[w] = None
        /\ running' = [running EXCEPT ![w] = Head(queue)]
        /\ step' = step /\ local' = local /\ state' = state
    BY <1>4 DEF StartTask, Pool!Take, connVars
  <2>2. \A u \in RawTask : Queued(u) <=> Queued(u)' \/ u = Head(queue)
    BY <2>1, TakeQueued
  <2>3. \A d \in Conn : <<"send", d>> \in RawTask /\ <<"shutdown", d>> \in RawTask
    BY DEF RawTask
  <2>4. step[w] = "start"
    BY <2>1
  <2>5. ASSUME NEW d \in Conn, NEW t \in {<<"send", d>>, <<"shutdown", d>>},
               Queued(t)' \/ \E v \in Worker : running'[v] = t
        PROVE  state'[d] # "connecting"
    <3>1. t \in RawTask
      BY <2>3
    <3>2. \A v \in Worker : running'[v] = t => running[v] = t \/ t = Head(queue)
      BY <2>1
    <3>3. Queued(t) \/ \E v \in Worker : running[v] = t
      BY <2>2, <2>5, <3>1, <3>2
    <3> QED
      BY <2>1, <3>3
  <2> QED
    BY <2>1, <2>4, <2>5 DEF RunsRaw
<1>5. ASSUME NEW w \in Worker, NEW c \in Conn, EndRemove(w, c) PROVE (PostedIsEstablished /\ TasksListen)'
  <2>1. /\ queue' = queue /\ running[w] = c /\ running' = [running EXCEPT ![w] = None]
        /\ step' = step /\ local' = local /\ state' = state
    BY <1>5 DEF EndRemove, Pool!Retire
  <2>2. step[w] = "start"
    BY <2>1
  <2>3. \A v \in Worker, t \in RawTask : running'[v] = t => running[v] = t
    BY <2>1
  <2>4. \A d \in Conn : <<"send", d>> \in RawTask /\ <<"shutdown", d>> \in RawTask
    BY DEF RawTask
  <2>5. \A t : Queued(t)' <=> Queued(t)
    BY <2>1 DEF Queued
  <2>6. ASSUME NEW d \in Conn, NEW t \in {<<"send", d>>, <<"shutdown", d>>},
               Queued(t)' \/ \E v \in Worker : running'[v] = t
        PROVE  state'[d] # "connecting"
    <3>1. t \in RawTask
      BY <2>4
    <3>2. Queued(t) \/ \E v \in Worker : running[v] = t
      BY <2>3, <2>5, <2>6, <3>1
    <3> QED
      BY <2>1, <3>2
  <2>7. \A v \in Worker, d \in Conn : RunsRaw(v, d)' => RunsRaw(v, d)
    BY <2>3, <2>4 DEF RunsRaw
  <2>8. TasksListen'
    BY <2>1, <2>2, <2>7
  <2> QED
    BY <2>6, <2>8
<1>6. ASSUME NEW w \in Worker, NEW c \in Conn, RawStep(w, c) PROVE (PostedIsEstablished /\ TasksListen)'
  BY <1>6, RawWatched
<1>7. CASE UNCHANGED <<queue, running, step, local, state>>
  BY <1>7 DEF Queued, RunsRaw
<1>8. \/ \E c \in Conn : HandleReadData(c) \/ Disconnect(c) \/ ConnectEstablished(c)
      \/ \E w \in Worker : StartTask(w) \/ \E c \in Conn : EndRemove(w, c) \/ RawStep(w, c)
      \/ UNCHANGED <<queue, running, step, local, state>>
  BY DEF Next, LoopStep, WorkerStep, RunTask, Environment, Connect, Peer, UserRelease, Poll, HandleEvent,
         HandleEventOfDead, HandleReadEnd, HandleReadError, HandleWrite, HandleError, EndEvent, HandleAccept,
         InsertConn, EndAccept, RemoveConn, vars, connVars, poolVars
<1> QED
  BY <1>1, <1>2, <1>3, <1>4, <1>5, <1>6, <1>7, <1>8

(* connectEstablished enables the events, and disabling them is left to the *)
(* handlers that disconnect.                                               *)
Watched == ErasedRuns /\ ConnectingIsFresh /\ PostedIsEstablished /\ TasksListen /\ ConnectedListens

Opened == ErasedRuns /\ ConnectingIsFresh /\ ConnectedListens

LEMMA OpenedStep == AnyInv /\ Watched /\ [Next]_vars => Opened'
<1> SUFFICES ASSUME AnyInv, Watched, [Next]_vars PROVE Opened'
  OBVIOUS
<1>0. ErasedRuns /\ ConnectingIsFresh /\ PostedIsEstablished /\ TasksListen /\ ConnectedListens
  BY DEF Watched
<1> USE <1>0 DEF Opened
<1> USE ObjectsAreDistinct DEF AnyInv, Inv, TypeOK, StateInv, FreshInv, ErasedRuns,
                               ConnectingIsFresh, ConnectedListens,
                               vars, kernelVars, connVars, tableVars, loopVars, poolVars
<1>1. ASSUME NEW c \in Conn, Connect(c) PROVE Opened'
  BY <1>1 DEF Connect
<1>2. ASSUME NEW c \in Conn, Peer(c) PROVE Opened'
  BY <1>2 DEF Peer
<1>3. ASSUME NEW c \in Conn, UserRelease(c) PROVE Opened'
  BY <1>3 DEF UserRelease, Drop
<1>4. CASE Poll
  BY <1>4 DEF Poll
<1>5. ASSUME NEW ch \in Channel, HandleEvent(ch) PROVE Opened'
  BY <1>5 DEF HandleEvent
<1>6. ASSUME NEW c \in Conn, HandleEventOfDead(c) PROVE Opened'
  BY <1>6 DEF HandleEventOfDead
<1>7. ASSUME NEW c \in Conn, HandleReadData(c) PROVE Opened'
  <2>1. running' = running /\ erased' = erased
    BY <1>7, DataFrame
  <2>2. \A d \in Conn : ("IN" \in events[d] => "IN" \in events'[d])
                      /\ (state[c] = "connected" /\ "IN" \in armed[d] => "IN" \in armed'[d])
    <3>1. CASE UNCHANGED <<events, armed>>
      BY <3>1
    <3>2. CASE state[c] = "connected" /\ SetEvents(c, events[c] \cup {"OUT"})
      BY <3>2 DEF SetEvents
    <3> QED
      BY <1>7, <3>1, <3>2 DEF HandleReadData, Send, Shutdown
  <2>3. state[c] # "connected" => armed' = armed
    BY <1>7 DEF HandleReadData
  <2> QED
    BY <1>7, <2>1, <2>2, <2>3 DEF HandleReadData
<1>8. ASSUME NEW c \in Conn, HandleReadEnd(c) PROVE Opened'
  BY <1>8 DEF HandleReadEnd, Disconnect, SetEvents, SubmitRemove, Pool!Put
<1>9. ASSUME NEW c \in Conn, HandleReadError(c) PROVE Opened'
  BY <1>9 DEF HandleReadError, Disconnect, SetEvents, SubmitRemove, Pool!Put
<1>10. ASSUME NEW c \in Conn, HandleError(c) PROVE Opened'
  BY <1>10 DEF HandleError, Disconnect, SetEvents, SubmitRemove, Pool!Put
<1>11. ASSUME NEW c \in Conn, EndEvent(c) PROVE Opened'
  BY <1>11 DEF EndEvent, Drop
<1>12. ASSUME NEW c \in Conn, NEW f \in Fd, HandleAccept(c, f) PROVE Opened'
  BY <1>12 DEF HandleAccept
<1>13. ASSUME NEW c \in Conn, InsertConn(c) PROVE Opened'
  BY <1>13 DEF InsertConn
<1>14. ASSUME NEW c \in Conn, ConnectEstablished(c) PROVE Opened'
  BY <1>14 DEF ConnectEstablished, SetEvents, Drop
<1>15. CASE EndAccept
  BY <1>15 DEF EndAccept
<1>16. ASSUME NEW w \in Worker, StartTask(w) PROVE Opened'
  BY <1>16, TakeQueued DEF StartTask, Pool!Take
<1>17. ASSUME NEW w \in Worker, NEW c \in Conn, RemoveConn(w, c) PROVE Opened'
  BY <1>17 DEF RemoveConn
<1>18. ASSUME NEW w \in Worker, NEW c \in Conn, EndRemove(w, c) PROVE Opened'
  BY <1>18 DEF EndRemove, Pool!Retire, Drop
<1>19. CASE UNCHANGED vars
  BY <1>19
<1>20. ASSUME NEW c \in Conn, HandleWrite(c) PROVE Opened'
  <2>1. CASE UNCHANGED <<events, armed>>
    BY <1>20, <2>1 DEF HandleWrite
  <2>2. CASE SetEvents(c, events[c] \ {"OUT"})
    <3>1. \A d \in Conn : "IN" \in events[d] => "IN" \in events'[d]
      BY <2>2 DEF SetEvents
    <3>2. \A d \in Conn : "IN" \in events[d] /\ "IN" \in armed[d] => "IN" \in armed'[d]
      BY <2>2 DEF SetEvents
    <3> QED
      BY <1>20, <3>1, <3>2 DEF HandleWrite
  <2> QED
    BY <1>20, <2>1, <2>2 DEF HandleWrite
<1>21. ASSUME NEW w \in Worker, NEW c \in Conn, RawStep(w, c) PROVE Opened'
  BY <1>21, RawFrame, RawWatched
<1> QED
  BY <1>1, <1>2, <1>3, <1>4, <1>5, <1>6, <1>7, <1>8, <1>9, <1>10, <1>11,
    <1>12, <1>13, <1>14, <1>15, <1>16, <1>17, <1>18, <1>19, <1>20, <1>21
  DEF Next, LoopStep, WorkerStep, RunTask, Environment

LEMMA WatchedStep == AnyInv /\ Watched /\ [Next]_vars => Watched'
BY OpenedStep, TasksStep DEF Watched, Opened

(* A disconnected connection in conns_ has a task that has not erased it    *)
(* yet: the handler that disconnects gives the task, and the task that ends *)
(* has erased the entry.                                                   *)
LEMMA EntryHasTaskStep == AnyInv /\ ErasedRuns /\ EntryHasTask /\ [Next]_vars => EntryHasTask'
<1> SUFFICES ASSUME AnyInv, ErasedRuns, EntryHasTask, [Next]_vars PROVE EntryHasTask'
  OBVIOUS
<1> USE ObjectsAreDistinct DEF AnyInv, Inv, TypeOK, StateInv, FreshInv, EntryHasTask, Pending,
                               vars, kernelVars, connVars, tableVars, loopVars, poolVars
<1>1. ASSUME NEW c \in Conn, Connect(c) PROVE EntryHasTask'
  BY <1>1 DEF Connect, Queued
<1>2. ASSUME NEW c \in Conn, Peer(c) PROVE EntryHasTask'
  BY <1>2 DEF Peer, Queued
<1>3. ASSUME NEW c \in Conn, UserRelease(c) PROVE EntryHasTask'
  <2>1. \A d \in Conn : Pending(d)' <=> Pending(d)
    BY <1>3 DEF UserRelease, Queued
  <2>2. \A d \in Conn : life'[d] = "live" => life[d] = "live"
    BY <1>3 DEF UserRelease, Drop
  <2> QED
    BY <1>3, <2>1, <2>2 DEF UserRelease
<1>4. CASE Poll
  BY <1>4 DEF Poll, Queued
<1>5. ASSUME NEW ch \in Channel, HandleEvent(ch) PROVE EntryHasTask'
  BY <1>5 DEF HandleEvent, Queued
<1>6. ASSUME NEW c \in Conn, HandleEventOfDead(c) PROVE EntryHasTask'
  BY <1>6 DEF HandleEventOfDead, Queued
<1>7. ASSUME NEW c \in Conn, HandleReadData(c) PROVE EntryHasTask'
  BY <1>7, DataFrame DEF HandleReadData
<1>8. ASSUME NEW c \in Conn, HandleReadEnd(c) PROVE EntryHasTask'
  <2>1. \A d \in Conn : Queued(d)' <=> Queued(d) \/ d = c
    BY <1>8, PutQueued DEF HandleReadEnd, Disconnect, SubmitRemove, Pool!Put
  <2> QED
    BY <1>8, <2>1 DEF HandleReadEnd, Disconnect, SubmitRemove, Pool!Put
<1>9. ASSUME NEW c \in Conn, HandleReadError(c) PROVE EntryHasTask'
  <2>1. \A d \in Conn : Queued(d)' <=> Queued(d) \/ d = c
    BY <1>9, PutQueued DEF HandleReadError, Disconnect, SubmitRemove, Pool!Put
  <2> QED
    BY <1>9, <2>1 DEF HandleReadError, Disconnect, SubmitRemove, Pool!Put
<1>10. ASSUME NEW c \in Conn, HandleError(c) PROVE EntryHasTask'
  <2>1. \A d \in Conn : Queued(d)' <=> Queued(d) \/ d = c
    BY <1>10, PutQueued DEF HandleError, Disconnect, SubmitRemove, Pool!Put
  <2> QED
    BY <1>10, <2>1 DEF HandleError, Disconnect, SubmitRemove, Pool!Put
<1>11. ASSUME NEW c \in Conn, EndEvent(c) PROVE EntryHasTask'
  <2>1. \A d \in Conn : Pending(d)' <=> Pending(d)
    BY <1>11 DEF EndEvent, Queued
  <2>2. \A d \in Conn : life'[d] = "live" => life[d] = "live"
    BY <1>11 DEF EndEvent, Drop
  <2> QED
    BY <1>11, <2>1, <2>2 DEF EndEvent
<1>12. ASSUME NEW c \in Conn, NEW f \in Fd, HandleAccept(c, f) PROVE EntryHasTask'
  BY <1>12 DEF HandleAccept, Queued
<1>13. ASSUME NEW c \in Conn, InsertConn(c) PROVE EntryHasTask'
  <2>1. state[c] = "connecting" /\ life[c] = "live"
    BY <1>13 DEF InsertConn, LifeInv, HeldIsLive, Held
  <2>2. \A d \in Conn : Queued(d)' <=> Queued(d)
    BY <1>13 DEF InsertConn, Queued
  <2>3. \A f \in Fd : conns'[f] # conns[f] => conns'[f] = c
    BY <1>13 DEF InsertConn
  <2>4. \A d \in Conn : life[d] = "live" => fdOf[d] \in Fd
    BY DEF LifeInv, LiveOwnsFd
  <2> QED
    BY <1>13, <2>1, <2>2, <2>3, <2>4 DEF InsertConn
<1>14. ASSUME NEW c \in Conn, ConnectEstablished(c) PROVE EntryHasTask'
  BY <1>14 DEF ConnectEstablished, Drop, Queued
<1>15. CASE EndAccept
  BY <1>15 DEF EndAccept, Queued
<1>16. ASSUME NEW w \in Worker, StartTask(w) PROVE EntryHasTask'
  <2>1. /\ queue # <<>> /\ queue' = Tail(queue)
        /\ running[w] = None /\ running' = [running EXCEPT ![w] = Head(queue)]
    BY <1>16 DEF StartTask, Pool!Take
  <2>2. /\ Head(queue) \in Task
        /\ \A d \in Conn : Queued(d) <=> Queued(d)' \/ d = Head(queue)
    BY <2>1, TakeQueued
  <2>3. w \notin erased
    BY <2>1 DEF ErasedRuns
  <2>4. \A d \in Conn : Pending(d) => Pending(d)'
    BY <1>16, <2>1, <2>2, <2>3 DEF StartTask
  <2> QED
    BY <1>16, <2>4 DEF StartTask
<1>17. ASSUME NEW w \in Worker, NEW c \in Conn, RemoveConn(w, c) PROVE EntryHasTask'
  <2>1. life[c] = "live" /\ conns'[fdOf[c]] = None /\ fdOf' = fdOf
    BY <1>17, OnlyOwnEntry DEF RemoveConn
  <2>2. \A d \in Conn \ {c} : Pending(d) => Pending(d)'
    BY <1>17 DEF RemoveConn, Queued
  <2>3. ASSUME NEW d \in Conn, life'[d] = "live", state'[d] = "disconnected", conns'[fdOf'[d]] = d
        PROVE  Pending(d)'
    <3>1. d # c
      BY <2>1, <2>3
    <3>2. fdOf[d] \in Fd /\ life[d] = "live" /\ state[d] = "disconnected"
      BY <1>17, <2>3 DEF RemoveConn, LifeInv, LiveOwnsFd
    <3>3. conns[fdOf[d]] = d
      BY <1>17, <2>1, <2>3, <3>2 DEF RemoveConn
    <3> QED
      BY <2>2, <3>1, <3>2, <3>3
  <2> QED
    BY <2>3
<1>18. ASSUME NEW w \in Worker, NEW c \in Conn, EndRemove(w, c) PROVE EntryHasTask'
  <2>1. \A d \in Conn : Pending(d) => Pending(d)'
    BY <1>18 DEF EndRemove, Pool!Retire, Queued
  <2>2. \A d \in Conn : life'[d] = "live" => life[d] = "live"
    BY <1>18 DEF EndRemove, Drop
  <2> QED
    BY <1>18, <2>1, <2>2 DEF EndRemove
<1>19. CASE UNCHANGED vars
  BY <1>19 DEF Queued
<1>20. ASSUME NEW c \in Conn, HandleWrite(c) PROVE EntryHasTask'
  BY <1>20 DEF HandleWrite, Queued
<1>21. ASSUME NEW w \in Worker, NEW c \in Conn, RawStep(w, c) PROVE EntryHasTask'
  <2>1. \A d \in Conn : Pending(d)' <=> Pending(d)
    BY <1>21, RawFrame
  <2> QED
    BY <1>21, <2>1, RawFrame
<1> QED
  BY <1>1, <1>2, <1>3, <1>4, <1>5, <1>6, <1>7, <1>8, <1>9, <1>10, <1>11,
    <1>12, <1>13, <1>14, <1>15, <1>16, <1>17, <1>18, <1>19, <1>20, <1>21
  DEF Next, LoopStep, WorkerStep, RunTask, Environment

LEMMA ServedInit == Init => Served
<1> SUFFICES ASSUME Init PROVE Served
  OBVIOUS
<1> QED
  BY ObjectsAreDistinct, TasksAreDistinct
   DEF Init, Served, ErasedRuns, LiveIsHeld, ConnectingIsFresh, ConnectedListens, EntryHasTask,
       PostedIsEstablished, TasksListen, Queued, RunsRaw, RawTask

LEMMA ServedStep == AnyInv /\ Served /\ [Next]_vars => Served'
BY LiveIsHeldStep, WatchedStep, EntryHasTaskStep DEF Served, Watched

LEMMA AnyInvariance == Spec => []AnyInv
<1>1. Inv /\ OrderlyInv => AnyInv
  BY DEF OrderlyInv, AnyInv
<1> QED
  BY <1>1, OrderlyInvariance, PTL

LEMMA ServedInvariance == Spec => []Served
BY AnyInvariance, ServedInit, ServedStep, PTL DEF Spec

(* No connection is lost by the server: each one that exists is held, each  *)
(* connected one is watched by epoll, and each disconnected one in conns_   *)
(* has the task that takes it out.                                         *)
THEOREM NobodyIsForgottenAlways == Spec => []NobodyIsForgotten
<1>1. Served => NobodyIsForgotten
  BY DEF Served, LiveIsHeld, ConnectingIsFresh, ConnectedListens, EntryHasTask, Pending, NobodyIsForgotten
<1> QED
  BY <1>1, ServedInvariance, PTL
-----------------------------------------------------------------------------
(* The server implements ConnLife. *)
Stages == [c \in Conn |-> Stage(c)]

LEMMA LifeStutter ==
    ASSUME \A d \in Conn : Stage(d)' = Stage(d), fdOf' = fdOf
    PROVE  UNCHANGED <<Stages, fdOf>>
BY DEF Stages

LEMMA LifeMove ==
    ASSUME NEW c \in Conn, NEW from, NEW to, Stage(c) = from, Stage(c)' = to,
           \A d \in Conn \ {c} : Stage(d)' = Stage(d), fdOf' = fdOf
    PROVE  Life!Move(c, from, to)
<1>1. Stages' = [Stages EXCEPT ![c] = to]
  BY DEF Stages
<1> QED
  BY <1>1 DEF Life!Move, Stages

(* The last Ptr is dropped when the connection is out of conns_. *)
LEMMA LifeDrop ==
    ASSUME AnyInv, NEW c \in Conn, life[c] = "live", Drop(c),
           fdOf' = fdOf, state' = state, conns' = conns, fresh' = fresh
    PROVE  [Life!Next]_<<Stages, fdOf>>
<1>1. CASE Held(c)'
  <2>1. \A d \in Conn : Stage(d)' = Stage(d)
    BY <1>1 DEF Drop, Stage
  <2> QED
    BY <2>1, LifeStutter
<1>2. CASE ~Held(c)'
  <2>1. life' = [life EXCEPT ![c] = "dead"]
    BY <1>2 DEF Drop
  <2>2. fresh # c /\ conns[fdOf[c]] # c
    BY <1>2 DEF Held, AnyInv, Inv, LifeInv, LiveOwnsFd, TypeOK
  <2>3. Stage(c) = "removed" /\ Stage(c)' = "destroyed"
    BY <2>1, <2>2 DEF Stage, AnyInv, Inv, TypeOK
  <2>4. \A d \in Conn \ {c} : Stage(d)' = Stage(d)
    BY <2>1 DEF Stage, AnyInv, Inv, TypeOK
  <2>5. Life!Destroy(c)
    BY <2>3, <2>4, LifeMove DEF Life!Destroy
  <2> QED
    BY <2>5 DEF Life!Next
<1> QED
  BY <1>1, <1>2

(* handleClose and handleError disconnect a connected connection, or find   *)
(* it disconnected, in conns_ or out of it.                                *)
LEMMA LifeEnd ==
    ASSUME AnyInv, ConnectingIsFresh, NEW c \in Conn, cur = c, loopPc = "event",
           Disconnect(c), conns' = conns, fresh' = fresh
    PROVE  [Life!Next]_<<Stages, fdOf>>
<1>1. life[c] = "live" /\ fresh # c /\ state[c] # "connecting"
  BY ObjectsAreDistinct DEF AnyInv, Inv, LifeInv, HeldIsLive, Held, StateInv, FreshInv, ConnectingIsFresh
<1>2. /\ life' = life /\ fdOf' = fdOf
      /\ state' = [state EXCEPT ![c] = "disconnected"]
  BY DEF Disconnect
<1>3. \A d \in Conn \ {c} : Stage(d)' = Stage(d)
  BY <1>2 DEF Stage, AnyInv, Inv, TypeOK
<1>4. CASE state[c] = "connected"
  <2>1. conns[fdOf[c]] = c
    BY <1>1, <1>4 DEF AnyInv, Inv, StateInv, ConnectedIsTracked
  <2>2. Stage(c) = "connected" /\ Stage(c)' = "disconnected"
    BY <1>1, <1>2, <1>4, <2>1 DEF Stage, AnyInv, Inv, TypeOK
  <2>3. Life!Disconnect(c)
    BY <1>2, <1>3, <2>2, LifeMove DEF Life!Disconnect
  <2> QED
    BY <2>3 DEF Life!Next
<1>5. CASE state[c] = "disconnected"
  <2>1. Stage(c)' = Stage(c)
    BY <1>1, <1>2, <1>5 DEF Stage, AnyInv, Inv, TypeOK
  <2> QED
    BY <1>2, <1>3, <2>1, LifeStutter
<1> QED
  BY <1>1, <1>4, <1>5 DEF AnyInv, Inv, TypeOK

LEMMA LifeStep ==
    ASSUME AnyInv, Served, [Next]_vars PROVE [Life!Next]_<<Stages, fdOf>>
<1> USE ObjectsAreDistinct DEF AnyInv, Inv, TypeOK, StateInv, FreshInv, LifeInv, HeldIsLive, Served,
                               vars, kernelVars, connVars, tableVars, loopVars, poolVars
<1>1. ASSUME NEW c \in Conn, Connect(c) PROVE [Life!Next]_<<Stages, fdOf>>
  <2>1. \A d \in Conn : Stage(d)' = Stage(d)
    BY <1>1 DEF Connect, Stage
  <2> QED
    BY <1>1, <2>1, LifeStutter DEF Connect
<1>2. ASSUME NEW c \in Conn, Peer(c) PROVE [Life!Next]_<<Stages, fdOf>>
  <2>1. \A d \in Conn : Stage(d)' = Stage(d)
    BY <1>2 DEF Peer, Stage
  <2> QED
    BY <1>2, <2>1, LifeStutter DEF Peer
<1>3. ASSUME NEW c \in Conn, UserRelease(c) PROVE [Life!Next]_<<Stages, fdOf>>
  <2>1. life[c] = "live" /\ Drop(c) /\ fdOf' = fdOf /\ state' = state /\ conns' = conns /\ fresh' = fresh
    BY <1>3 DEF UserRelease, Held
  <2> QED
    BY <2>1, LifeDrop
<1>4. CASE Poll
  <2>1. \A d \in Conn : Stage(d)' = Stage(d)
    BY <1>4 DEF Poll, Stage
  <2> QED
    BY <1>4, <2>1, LifeStutter DEF Poll
<1>5. ASSUME NEW ch \in Channel, HandleEvent(ch) PROVE [Life!Next]_<<Stages, fdOf>>
  <2>1. \A d \in Conn : Stage(d)' = Stage(d)
    BY <1>5 DEF HandleEvent, Stage
  <2> QED
    BY <1>5, <2>1, LifeStutter DEF HandleEvent
<1>6. ASSUME NEW c \in Conn, HandleEventOfDead(c) PROVE [Life!Next]_<<Stages, fdOf>>
  <2>1. \A d \in Conn : Stage(d)' = Stage(d)
    BY <1>6 DEF HandleEventOfDead, Stage
  <2> QED
    BY <1>6, <2>1, LifeStutter DEF HandleEventOfDead
<1>7. ASSUME NEW c \in Conn, HandleReadData(c) PROVE [Life!Next]_<<Stages, fdOf>>
  <2>1. \A d \in Conn : Stage(d)' = Stage(d)
    BY <1>7 DEF HandleReadData, Stage
  <2> QED
    BY <1>7, <2>1, LifeStutter DEF HandleReadData
<1>8. ASSUME NEW c \in Conn, HandleReadEnd(c) PROVE [Life!Next]_<<Stages, fdOf>>
  <2>1. cur = c /\ loopPc = "event" /\ Disconnect(c) /\ conns' = conns /\ fresh' = fresh
    BY <1>8 DEF HandleReadEnd
  <2> QED
    BY <2>1, LifeEnd
<1>9. ASSUME NEW c \in Conn, HandleReadError(c) PROVE [Life!Next]_<<Stages, fdOf>>
  <2>1. cur = c /\ loopPc = "event" /\ Disconnect(c) /\ conns' = conns /\ fresh' = fresh
    BY <1>9 DEF HandleReadError
  <2> QED
    BY <2>1, LifeEnd
<1>10. ASSUME NEW c \in Conn, HandleError(c) PROVE [Life!Next]_<<Stages, fdOf>>
  <2>1. cur = c /\ loopPc = "event" /\ Disconnect(c) /\ conns' = conns /\ fresh' = fresh
    BY <1>10 DEF HandleError
  <2> QED
    BY <2>1, LifeEnd
<1>11. ASSUME NEW c \in Conn, EndEvent(c) PROVE [Life!Next]_<<Stages, fdOf>>
  <2>1. life[c] = "live" /\ Drop(c) /\ fdOf' = fdOf /\ state' = state /\ conns' = conns /\ fresh' = fresh
    BY <1>11 DEF EndEvent, Held
  <2> QED
    BY <2>1, LifeDrop
<1>12. ASSUME NEW c \in Conn, NEW f \in Fd, HandleAccept(c, f) PROVE [Life!Next]_<<Stages, fdOf>>
  <2>1. fresh = None /\ fresh' = c /\ life[c] = "backlog"
    BY <1>12 DEF HandleAccept
  <2>2. Stage(c) = "pending" /\ Stage(c)' = "accepted"
    BY <1>12, <2>1 DEF HandleAccept, Stage
  <2>3. \A d \in Conn \ {c} : Stage(d)' = Stage(d)
    BY <1>12, <2>1 DEF HandleAccept, Stage
  <2>4. ASSUME NEW d \in Conn, Life!Exists(d) PROVE fdOf[d] # f
    <3>1. life[d] = "live"
      BY <2>4 DEF Life!Exists, Stage
    <3> QED
      BY <1>12, <3>1 DEF HandleAccept, LifeInv, LiveOwnsFd
  <2>5. Stages' = [Stages EXCEPT ![c] = "accepted"]
    BY <2>2, <2>3 DEF Stages
  <2>6. Life!Accept(c, f)
    BY <1>12, <2>2, <2>4, <2>5 DEF HandleAccept, Life!Accept, Stages
  <2> QED
    BY <2>6 DEF Life!Next
<1>13. ASSUME NEW c \in Conn, InsertConn(c) PROVE [Life!Next]_<<Stages, fdOf>>
  <2>1. life[c] = "live" /\ life' = life /\ fdOf' = fdOf /\ state' = state /\ fresh' = fresh
    BY <1>13 DEF InsertConn, LifeInv, HeldIsLive, Held
  <2>2. \A d \in Conn : life[d] = "live" => fdOf[d] \in Fd
    BY DEF LifeInv, LiveOwnsFd
  <2>3. ASSUME NEW d \in Conn \ {c}, life[d] = "live" PROVE conns'[fdOf[d]] = d <=> conns[fdOf[d]] = d
    BY <1>13, <2>1, <2>2, <2>3 DEF InsertConn, LifeInv, OneSocketPerFd
  <2>4. \A d \in Conn : Stage(d)' = Stage(d)
    BY <1>13, <2>1, <2>3 DEF InsertConn, Stage
  <2> QED
    BY <2>1, <2>4, LifeStutter
<1>14. ASSUME NEW c \in Conn, ConnectEstablished(c) PROVE [Life!Next]_<<Stages, fdOf>>
  <2>1. life[c] = "live" /\ fresh = c /\ fresh' = None /\ conns[fdOf[c]] = c /\ fdOf[c] \in Fd
    BY <1>14 DEF ConnectEstablished, LifeInv, HeldIsLive, Held, LiveOwnsFd
  <2>2. conns' = conns /\ fdOf' = fdOf /\ state' = [state EXCEPT ![c] = "connected"]
    BY <1>14 DEF ConnectEstablished
  <2>3. Held(c)'
    BY <2>1, <2>2 DEF Held
  <2>4. life' = life
    BY <1>14, <2>3 DEF ConnectEstablished, Drop
  <2>5. Stage(c) = "accepted" /\ Stage(c)' = "connected"
    BY <2>1, <2>2, <2>4 DEF Stage
  <2>6. \A d \in Conn \ {c} : Stage(d)' = Stage(d)
    BY <2>1, <2>2, <2>4 DEF Stage
  <2>7. Life!Establish(c)
    BY <2>2, <2>5, <2>6, LifeMove DEF Life!Establish
  <2> QED
    BY <2>7 DEF Life!Next
<1>15. CASE EndAccept
  <2>1. \A d \in Conn : Stage(d)' = Stage(d)
    BY <1>15 DEF EndAccept, Stage
  <2> QED
    BY <1>15, <2>1, LifeStutter DEF EndAccept
<1>16. ASSUME NEW w \in Worker, StartTask(w) PROVE [Life!Next]_<<Stages, fdOf>>
  <2>1. \A d \in Conn : Stage(d)' = Stage(d)
    BY <1>16 DEF StartTask, Stage
  <2> QED
    BY <1>16, <2>1, LifeStutter DEF StartTask
<1>17. ASSUME NEW w \in Worker, NEW c \in Conn, RemoveConn(w, c) PROVE [Life!Next]_<<Stages, fdOf>>
  <2>1. /\ life[c] = "live" /\ state[c] = "disconnected" /\ fresh # c /\ conns'[fdOf[c]] = None
        /\ life' = life /\ fdOf' = fdOf /\ state' = state /\ fresh' = fresh
    <3>1. life[c] = "live" /\ state[c] = "disconnected" /\ conns'[fdOf[c]] = None
      BY <1>17, OnlyOwnEntry
    <3>2. fresh # c
      BY <3>1
    <3> QED
      BY <1>17, <3>1, <3>2 DEF RemoveConn
  <2>2. \A d \in Conn : life[d] = "live" => fdOf[d] \in Fd
    BY DEF LifeInv, LiveOwnsFd
  <2>3. ASSUME NEW d \in Conn \ {c}, life[d] = "live" PROVE conns'[fdOf[d]] = d <=> conns[fdOf[d]] = d
    BY <1>17, <2>1, <2>2, <2>3 DEF RemoveConn, LifeInv, OneSocketPerFd
  <2>4. \A d \in Conn \ {c} : Stage(d)' = Stage(d)
    BY <2>1, <2>3 DEF Stage
  <2>5. Stage(c)' = "removed"
    BY <2>1 DEF Stage
  <2>6. CASE conns[fdOf[c]] = c
    <3>1. Stage(c) = "disconnected"
      BY <2>1, <2>6 DEF Stage
    <3>2. Life!Remove(c)
      BY <2>1, <2>4, <2>5, <3>1, LifeMove DEF Life!Remove
    <3> QED
      BY <3>2 DEF Life!Next
  <2>7. CASE conns[fdOf[c]] # c
    <3>1. Stage(c) = "removed"
      BY <2>1, <2>7 DEF Stage
    <3> QED
      BY <2>1, <2>4, <2>5, <3>1, LifeStutter
  <2> QED
    BY <2>6, <2>7
<1>18. ASSUME NEW w \in Worker, NEW c \in Conn, EndRemove(w, c) PROVE [Life!Next]_<<Stages, fdOf>>
  <2>1. life[c] = "live" /\ Drop(c) /\ fdOf' = fdOf /\ state' = state /\ conns' = conns /\ fresh' = fresh
    BY <1>18 DEF EndRemove, Held
  <2> QED
    BY <2>1, LifeDrop
<1>19. CASE UNCHANGED vars
  <2>1. \A d \in Conn : Stage(d)' = Stage(d)
    BY <1>19 DEF Stage
  <2> QED
    BY <1>19, <2>1, LifeStutter
<1>20. ASSUME NEW c \in Conn, HandleWrite(c) PROVE [Life!Next]_<<Stages, fdOf>>
  <2>1. \A d \in Conn : Stage(d)' = Stage(d)
    BY <1>20 DEF HandleWrite, Stage
  <2> QED
    BY <1>20, <2>1, LifeStutter DEF HandleWrite
<1>21. ASSUME NEW w \in Worker, NEW c \in Conn, RawStep(w, c) PROVE [Life!Next]_<<Stages, fdOf>>
  <2>1. \A d \in Conn : Stage(d)' = Stage(d)
    BY <1>21, RawFrame DEF Stage
  <2> QED
    BY <1>21, <2>1, RawFrame, LifeStutter
<1> QED
  BY <1>1, <1>2, <1>3, <1>4, <1>5, <1>6, <1>7, <1>8, <1>9, <1>10, <1>11,
    <1>12, <1>13, <1>14, <1>15, <1>16, <1>17, <1>18, <1>19, <1>20, <1>21
  DEF Next, LoopStep, WorkerStep, RunTask, Environment

LEMMA LifeInit == Init => Life!Init
<1> SUFFICES ASSUME Init PROVE Life!Init
  OBVIOUS
<1>1. \A c \in Conn : Stage(c) = "pending"
  BY DEF Init, Stage
<1> QED
  BY <1>1 DEF Init, Life!Init

(* Whatever the loop thread, the workers and the users do, each connection  *)
(* is accepted, established, disconnected, removed and destroyed once, in   *)
(* this order, with a descriptor of its own as long as it exists.          *)
THEOREM ServerImplementsConnLife == Spec => ImplementsConnLife
<1>1. AnyInv /\ Served /\ [Next]_vars => [Life!Next]_Life!vars
  BY LifeStep DEF Life!vars, Stages
<1> QED
  BY <1>1, LifeInit, AnyInvariance, ServedInvariance, PTL DEF Spec, ImplementsConnLife, Life!Spec
=============================================================================
