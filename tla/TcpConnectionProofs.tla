------------------------- MODULE TcpConnectionProofs -------------------------
(***************************************************************************)
(* What TcpConnection promises in a serial use: under start(), where the    *)
(* loop thread itself runs sendInLoop, or under startInThread() with a peer *)
(* that asks one thing at a time and ends its stream only when it has its   *)
(* answers.  For any sizes of answers and of the send buffer, any number of *)
(* messages and of workers.                                                *)
(*                                                                         *)
(* The core of the inductive invariant IInv is that then at most one call   *)
(* of sendInLoop is under way, in the queue or in a thread (Tasks), that    *)
(* the loop thread stays out of handleWrite meanwhile, because a message    *)
(* that is not answered completely keeps the peer from asking again         *)
(* (OneAtATime), and that the units lie in the order of their numbers in    *)
(* what the peer has, the send buffer, outBuf_ and the argument of          *)
(* sendInLoop (Order).                                                      *)
(***************************************************************************)
EXTENDS TcpConnection, QueueLemmas

(* shutdown() changes events_ in a worker, hence start() only, and a peer    *)
(* that does not end its stream.                                            *)
Serial ==
    /\ use.inline \/ (use.window = 1 /\ use.ends # "any")
    /\ use.shutdowns => use.inline /\ use.ends = "never"

(* The program counters; a message is accepted when it was read. *)
Control ==
    /\ pc \in [Thread -> LoopPc \cup SendPc \cup {"idle", "remove", "end"}]
    /\ accepted + inq <= asked

(* A worker without a task is in none. *)
Matched == \A w \in Worker : running[w] = Idle => pc[w] = "idle"

(* t is in sendInLoop; and some units were not written or stored yet. *)
Sending(t) == pc[t] \in SendPc
Unsent(t)  == pc[t] \in {"test", "write", "append", "appendArm"}
(* The queued tasks; Busy: a worker has a call of sendInLoop to make. *)
Sends(task)  == task \notin {ShutdownTask, RemoveTask}
Queued(task) == \E i \in DOMAIN queue : queue[i] = task
SendQueued == \E x \in Task : Sends(x) /\ Queued(x)
OneSend    == \A i, j \in DOMAIN queue : Sends(queue[i]) /\ Sends(queue[j]) => i = j
Busy       == SendQueued \/ \E w \in Worker : Sending(w)

Tasks ==
    /\ use.inline => ~Busy
    /\ ~use.inline => ~Sending(Loop)
    /\ OneSend
    /\ SendQueued => \A w \in Worker : ~Sending(w)
    /\ \A t, u \in Thread : Sending(t) /\ Sending(u) => t = u
    /\ \A x \in Task : Sends(x) /\ Queued(x) => x = SendTask(accepted)
    /\ Busy => rev = {} /\ pc[Loop] \in {"poll", "event", "callback"}
    /\ Queued(ShutdownTask) \/ (\E w \in Worker : pc[w] \in {"disarm", "disarmCtl"}) => closing
    /\ closing => use.shutdowns

(* Who keeps the connection alive. *)
Life ==
    /\ inTable \/ pc[Loop] # "poll" => alive
    /\ state = "connected" => inTable /\ ~Queued(RemoveTask) /\ \A w \in Worker : pc[w] # "remove"
    /\ state = "disconnected" => fin
    /\ pc[Loop] = "closeCtl" => state = "disconnected"
    /\ fin => use.ends # "never"

(* The units of s come right after the first k. *)
Numbers(s, k) == \A i \in 1..Len(s) : s[i] = k + i
(* Units accepted; units written to the socket; and those in outBuf_ too. *)
Due     == accepted * Size
Written == Len(got) + Len(wire) - n
Stored  == Written + Len(outBuf)

Order ==
    /\ Numbers(got, 0) /\ Numbers(wire, Len(got)) /\ Numbers(outBuf, Written)
    /\ \A t \in Thread : Unsent(t) => /\ arg[t] # <<>>
                                      /\ Numbers(arg[t], Stored)
                                      /\ Stored + Len(arg[t]) = Due
    /\ SendQueued => Stored + Size = Due
    /\ ~SendQueued /\ (\A t \in Thread : ~Unsent(t)) => Stored = Due
    /\ \A t \in Thread : /\ pc[t] \in {"write", "appendArm"} => outBuf = <<>>
                         /\ pc[t] \in {"append", "arm", "armCtl"} => outBuf # <<>>
    /\ pc[Loop] # "flushed" => n = 0
    /\ pc[Loop] = "flushed" => 0 < n /\ n <= Len(outBuf)
    /\ state = "connected" => accepted + inq = asked

(* The mask asks for EPOLLOUT when outBuf_ holds something, except between   *)
(* the steps that change them, or after a shutdown().                       *)
Balanced == armed = events /\ ("OUT" \in events <=> outBuf # <<>>)

Interest ==
    ~closing /\ state = "connected" =>
        /\ pc[Loop] \in {"poll", "event", "callback", "flushed"} /\ (\A w \in Worker : ~Sending(w)) => Balanced
        /\ \A t \in Thread :
              /\ Unsent(t) => Balanced
              /\ pc[t] = "arm" => armed = events /\ "OUT" \notin events
              /\ pc[t] = "armCtl" => "OUT" \in events /\ "OUT" \notin armed
        /\ pc[Loop] = "disarm" => armed = events /\ outBuf = <<>>
        /\ pc[Loop] = "disarmCtl" => "OUT" \notin events /\ outBuf = <<>>

(* Under startInThread(): who asks again, or ends, has everything. *)
OneAtATime ==
    ~use.inline =>
        /\ inq > 0 \/ fin => Len(got) = Due
        /\ inq <= 1 /\ (fin => inq = 0)
        /\ SendQueued \/ (\E w \in Worker : pc[w] = "test") => outBuf = <<>>
        /\ \A w \in Worker : pc[w] # "append"
        /\ ~({"IN", "OUT"} \subseteq rev)
        /\ "IN" \in rev => inq > 0 \/ fin
        /\ state = "disconnected" => events = {} /\ (pc[Loop] = "closeCtl" \/ armed = {})

-----------------------------------------------------------------------------
(* Sequences of units. *)

Unit    == 1..MaxMsg * Size
UnitSeq == Seq(Unit)

LEMMA NumbersConcat ==
    ASSUME NEW s \in UnitSeq, NEW t \in UnitSeq, NEW k \in Int,
           Numbers(s, k), Numbers(t, k + Len(s))
    PROVE  Numbers(s \o t, k) /\ s \o t \in UnitSeq /\ Len(s \o t) = Len(s) + Len(t)
<1>1. \A i \in 1..Len(s \o t) : i \in 1..Len(s) \/ (i - Len(s)) \in 1..Len(t)
  BY DEF UnitSeq
<1>2. \A i \in 1..Len(s) : (s \o t)[i] = k + i
  BY DEF Numbers, UnitSeq
<1>3. ASSUME NEW i \in 1..Len(s \o t), i - Len(s) \in 1..Len(t)
      PROVE  (s \o t)[i] = k + i
  <2>1. (s \o t)[i] = t[i - Len(s)]
    BY <1>3 DEF UnitSeq
  <2>2. t[i - Len(s)] = k + Len(s) + (i - Len(s))
    BY <1>3 DEF Numbers, UnitSeq
  <2> QED
    BY <1>3, <2>1, <2>2 DEF UnitSeq
<1>4. s \o t \in UnitSeq /\ Len(s \o t) = Len(s) + Len(t)
  BY DEF UnitSeq
<1> QED
  BY <1>1, <1>2, <1>3, <1>4 DEF Numbers

LEMMA NumbersPrefix ==
    ASSUME NEW s \in UnitSeq, NEW j \in 0..Len(s)
    PROVE  /\ SubSeq(s, 1, j) \in UnitSeq
           /\ Len(SubSeq(s, 1, j)) = j
           /\ \A k \in Int : Numbers(s, k) => Numbers(SubSeq(s, 1, j), k)
  BY DEF Numbers, UnitSeq

LEMMA NumbersSuffix ==
    ASSUME NEW s \in UnitSeq, NEW j \in 0..Len(s)
    PROVE  /\ SubSeq(s, j + 1, Len(s)) \in UnitSeq
           /\ Len(SubSeq(s, j + 1, Len(s))) = Len(s) - j
           /\ \A k \in Int : Numbers(s, k) => Numbers(SubSeq(s, j + 1, Len(s)), k + j)
  BY DEF Numbers, UnitSeq

(* The peer takes a unit. *)
LEMMA NumbersMove ==
    ASSUME NEW s \in UnitSeq, NEW t \in UnitSeq, t # <<>>, Numbers(s, 0), Numbers(t, Len(s))
    PROVE  /\ Numbers(Append(s, Head(t)), 0) /\ Numbers(Tail(t), Len(s) + 1)
           /\ Head(t) = Len(s) + 1
           /\ Len(Append(s, Head(t))) = Len(s) + 1 /\ Len(Tail(t)) = Len(t) - 1
<1>1. /\ Len(s) \in Nat /\ Len(t) \in Nat \ {0}
      /\ Head(t) = t[1] /\ t[1] = Len(s) + 1
      /\ Len(Append(s, Head(t))) = Len(s) + 1 /\ Len(Tail(t)) = Len(t) - 1
  BY DEF UnitSeq, Numbers
<1>2. /\ \A i \in 1..Len(s) : Append(s, Head(t))[i] = s[i] /\ s[i] = i
      /\ Append(s, Head(t))[Len(s) + 1] = Head(t)
      /\ \A i \in 1..(Len(t) - 1) : Tail(t)[i] = t[i + 1]
  BY DEF UnitSeq, Numbers
<1>3. \A i \in 1..(Len(t) - 1) : t[i + 1] = Len(s) + (i + 1)
  BY <1>1 DEF Numbers
<1>4. Numbers(Append(s, Head(t)), 0)
  BY <1>1, <1>2 DEF Numbers
<1>5. Numbers(Tail(t), Len(s) + 1)
  BY <1>1, <1>2, <1>3 DEF Numbers
<1> QED
  BY <1>1, <1>4, <1>5

LEMMA ConcatType ==
    ASSUME NEW S, NEW s \in Seq(S), NEW t \in Seq(S)
    PROVE  s \o t \in Seq(S) /\ Len(s \o t) = Len(s) + Len(t)
  OBVIOUS

LEMMA SuffixType ==
    ASSUME NEW S, NEW s \in Seq(S), NEW j \in Nat
    PROVE  SubSeq(s, j + 1, Len(s)) \in Seq(S)
  OBVIOUS

LEMMA UnitsAreNumbered ==
    ASSUME NEW m \in 1..MaxMsg
    PROVE  /\ Units(m) \in UnitSeq
           /\ Len(Units(m)) = Size
           /\ Units(m) # <<>>
           /\ \A a \in Nat : m = a + 1 => Numbers(Units(m), a * Size)
<1>1. Size \in Nat \ {0} /\ MaxMsg \in Nat /\ MaxMsg * Size \in Nat
  BY SizesAreNat
<1>2. ASSUME NEW i \in 1..Size PROVE (m - 1) * Size + i \in 1..MaxMsg * Size
  <2>1. (m - 1) * Size \in Nat /\ m * Size = (m - 1) * Size + Size
    BY <1>1
  <2>2. m * Size <= MaxMsg * Size
    BY <1>1
  <2> QED
    BY <1>1, <2>1, <2>2
<1>3. Units(m) \in [1..Size -> 1..MaxMsg * Size]
  BY <1>2 DEF Units
<1>4. Units(m) \in Seq(1..MaxMsg * Size) /\ Len(Units(m)) = Size
  BY <1>1, <1>3
<1>5. ASSUME NEW a \in Nat, m = a + 1 PROVE Numbers(Units(m), a * Size)
  BY <1>1, <1>4, <1>5 DEF Numbers, Units
<1> QED
  BY <1>1, <1>4, <1>5 DEF UnitSeq, Unit

LEMMA LeastIsOne ==
    ASSUME NEW a \in Nat, NEW b \in Nat
    PROVE  Least(a, b) \in 0..a /\ Least(a, b) \in 0..b
  BY DEF Least
-----------------------------------------------------------------------------
TypeInv == TypeOK /\ Control

LEMMA TypeInvInit == Init => TypeInv
<1> SUFFICES ASSUME Init PROVE TypeInv
  OBVIOUS
<1>1. Loop \in Thread /\ Worker \subseteq Thread /\ \A w \in Worker : w # Loop
  BY ThreadsAreDistinct DEF Thread
<1>2. /\ pc \in [Thread -> {"poll", "idle"}]
      /\ pc[Loop] = "poll" /\ \A w \in Worker : pc[w] = "idle"
  BY <1>1 DEF Init
<1>3. <<>> \in Seq(1..MaxMsg * Size) /\ <<>> \in Seq(Task) /\ Len(<<>>) = 0
  OBVIOUS
<1>4. {wire, got, outBuf} \subseteq Seq(1..MaxMsg * Size) /\ Len(wire) <= SndBuf
  BY <1>3, SizesAreNat DEF Init
<1>5. arg \in [Thread -> Seq(1..MaxMsg * Size)]
  BY <1>3 DEF Init
<1>6. queue \in Seq(Task) /\ running \in [Worker -> Task \cup {Idle}]
  BY <1>3 DEF Init
<1>7. asked \in 0..MaxMsg /\ inq \in 0..MaxMsg /\ accepted \in 0..MaxMsg /\ n \in 0..SndBuf
      /\ accepted + inq <= asked
  BY SizesAreNat DEF Init
<1>8. TypeOK
  BY <1>2, <1>4, <1>5, <1>6, <1>7 DEF Init, TypeOK, LoopPc
<1> QED
  BY <1>2, <1>7, <1>8 DEF TypeInv, Control, LoopPc

LEMMA TypeInvStep == TypeInv /\ [Next]_vars => TypeInv'
<1> SUFFICES ASSUME TypeInv, [Next]_vars PROVE TypeInv'
  OBVIOUS
<1> USE ThreadsAreDistinct, SizesAreNat, ScenarioIsUses
    DEF TypeInv, TypeOK, Control, Thread, LoopPc, SendPc, vars, peerVars, connVars, lifeVars, poolVars, Goto
<1> USE DEF UnitSeq, Unit
<1>1. CASE PeerAsk
  BY <1>1 DEF PeerAsk
<1>2. CASE PeerTake
  <2>1. got' \in UnitSeq /\ wire' \in UnitSeq /\ Len(wire') <= SndBuf
    BY <1>2 DEF PeerTake
  <2> QED
    BY <1>2, <2>1 DEF PeerTake
<1>3. CASE PeerFin
  BY <1>3 DEF PeerFin
<1>4. CASE Poll
  BY <1>4 DEF Poll, Report
<1>5. CASE HandleRead
  <2>0. inq > 0 /\ inq' = inq - 1 /\ Send(Message)
    BY <1>5 DEF HandleRead
  <2>1. Message \in 1..MaxMsg
    BY <2>0 DEF Message
  <2>2. SendTask(Message) \in Task
    BY <2>1 DEF Task
  <2>3. Units(Message) \in UnitSeq
    BY <2>1, UnitsAreNumbered
  <2>4. /\ arg' \in [Thread -> UnitSeq]
        /\ queue' \in Seq(Task)
        /\ running' = running
    <3>1. arg' = arg \/ arg' = [arg EXCEPT ![Loop] = Units(Message)]
      BY <2>0 DEF Send
    <3>2. /\ running' = running
          /\ queue' = queue \/ queue' = Append(queue, SendTask(Message))
      BY <2>0 DEF Send, Pool!Put
    <3>3. arg' \in [Thread -> UnitSeq]
      BY <2>3, <3>1
    <3>4. queue \in Seq(Task) /\ Append(queue, SendTask(Message)) \in Seq(Task)
      BY <2>2
    <3> QED
      BY <3>2, <3>3, <3>4
  <2>5. /\ pc' \in [Thread -> LoopPc \cup SendPc \cup {"idle", "remove", "end"}]
        /\ pc'[Loop] \in LoopPc \cup SendPc
        /\ \A w \in Worker : pc'[w] = pc[w]
    BY <2>0 DEF Send
  <2>6. accepted' \in 0..MaxMsg /\ accepted' + inq' <= asked /\ inq' \in 0..MaxMsg
    BY <2>0 DEF Send
  <2>7. UNCHANGED <<use, asked, fin, got, wire, state, outBuf, events, armed, inTable, alive, closing, n>>
        /\ rev' = rev \ {"IN"}
    BY <1>5 DEF HandleRead
  <2> QED
    BY <2>4, <2>5, <2>6, <2>7
<1>6. CASE Shutdown
  <2>1. queue' \in Seq(Task) /\ running' = running
    BY <1>6 DEF Shutdown, Pool!Put, Task
  <2> QED
    BY <1>6, <2>1 DEF Shutdown
<1>7. CASE EndCallback
  BY <1>7 DEF EndCallback
<1>8. CASE HandleClose
  BY <1>8 DEF HandleClose
<1>9. CASE CloseUpdate
  <2>1. queue' \in Seq(Task) /\ running' = running
    BY <1>9 DEF CloseUpdate, Pool!Put, Task
  <2> QED
    BY <1>9, <2>1 DEF CloseUpdate
<1>10. CASE HandleWrite
  <2>1. Room \in 0..SndBuf /\ Len(outBuf) \in Nat
    BY DEF Room
  <2>2. n' \in 0..Room /\ n' \in 0..Len(outBuf)
    BY <1>10, <2>1, LeastIsOne DEF HandleWrite
  <2>3. SubSeq(outBuf, 1, n') \in UnitSeq /\ Len(SubSeq(outBuf, 1, n')) = n'
    BY <2>2, NumbersPrefix
  <2>4. wire' \in UnitSeq /\ Len(wire') = Len(wire) + n'
    BY <1>10, <2>3 DEF HandleWrite
  <2>5. n' \in 0..SndBuf /\ Len(wire') <= SndBuf
    BY <2>1, <2>2, <2>4 DEF Room
  <2> QED
    BY <1>10, <2>4, <2>5 DEF HandleWrite
<1>11. CASE Erase
  <2>1. outBuf' = SubSeq(outBuf, n + 1, Len(outBuf)) /\ outBuf \in UnitSeq /\ n \in Nat
    BY <1>11 DEF Erase
  <2>2. outBuf' \in UnitSeq
    BY <2>1, SuffixType
  <2>3. \E where \in {"disarm", "event"} : Goto(Loop, where)
    BY <1>11 DEF Erase
  <2>4. n' = 0 /\ UNCHANGED <<peerVars, inq, wire, state, events, armed, lifeVars, accepted, closing, rev, arg, poolVars>>
    BY <1>11 DEF Erase
  <2> QED
    BY <2>2, <2>3, <2>4
<1>12. CASE EndEvent
  BY <1>12 DEF EndEvent
<1>13. ASSUME NEW t \in Thread, SendTest(t) PROVE TypeInv'
  BY <1>13 DEF SendTest
<1>14. ASSUME NEW t \in Thread, SendWrite(t) PROVE TypeInv'
  <2> DEFINE k == Least(Room, Len(arg[t]))
  <2>1. /\ wire' = wire \o SubSeq(arg[t], 1, k)
        /\ arg' = [arg EXCEPT ![t] = SubSeq(@, k + 1, Len(@))]
        /\ \E where \in {"callback", "end", "appendArm"} : (t = Loop => where # "end") /\ (t # Loop => where # "callback") /\ Goto(t, where)
        /\ UNCHANGED <<peerVars, inq, connVars, lifeVars, accepted, closing, rev, n, poolVars>>
    BY <1>14 DEF SendWrite, Return
  <2>2. Room \in 0..SndBuf /\ arg[t] \in UnitSeq /\ Len(arg[t]) \in Nat
    BY DEF Room
  <2>3. k \in 0..Room /\ k \in 0..Len(arg[t])
    BY <2>2, LeastIsOne
  <2> HIDE DEF k
  <2>4. SubSeq(arg[t], 1, k) \in UnitSeq /\ Len(SubSeq(arg[t], 1, k)) = k
    BY <2>2, <2>3, NumbersPrefix
  <2>5. SubSeq(arg[t], k + 1, Len(arg[t])) \in UnitSeq
    BY <2>2, <2>3, NumbersSuffix
  <2>6. wire' \in UnitSeq /\ Len(wire') <= SndBuf
    <3>1. wire' \in UnitSeq /\ Len(wire') = Len(wire) + k
      BY <2>1, <2>4, ConcatType
    <3> QED
      BY <2>3, <3>1 DEF Room
  <2>7. arg' \in [Thread -> UnitSeq]
    BY <2>1, <2>5
  <2>8. /\ pc' \in [Thread -> LoopPc \cup SendPc \cup {"idle", "remove", "end"}]
        /\ pc'[Loop] \in LoopPc \cup SendPc
        /\ \A w \in Worker : pc'[w] \in SendPc \cup {"idle", "disarm", "disarmCtl", "remove", "end"}
    BY <2>1
  <2>9. UNCHANGED <<peerVars, inq, connVars, lifeVars, accepted, closing, rev, n, poolVars>>
    BY <2>1
  <2> QED
    BY <2>6, <2>7, <2>8, <2>9
<1>15. ASSUME NEW t \in Thread, SendAppend(t) PROVE TypeInv'
  <2>1. /\ outBuf' = outBuf \o arg[t]
        /\ arg' = [arg EXCEPT ![t] = <<>>]
        /\ \E where \in {"callback", "end", "arm"} : (t = Loop => where # "end") /\ (t # Loop => where # "callback") /\ Goto(t, where)
        /\ UNCHANGED <<peerVars, inq, wire, state, events, armed, lifeVars, accepted, closing, rev, n, poolVars>>
    BY <1>15 DEF SendAppend, Return
  <2>2. outBuf' \in UnitSeq /\ arg' \in [Thread -> UnitSeq]
    BY <2>1
  <2> QED
    BY <2>1, <2>2
<1>16. ASSUME NEW t \in Thread, Arm(t) PROVE TypeInv'
  BY <1>16 DEF Arm
<1>17. ASSUME NEW t \in Thread, ArmUpdate(t) PROVE TypeInv'
  BY <1>17 DEF ArmUpdate, Return
<1>18. ASSUME NEW t \in Thread, Disarm(t) PROVE TypeInv'
  BY <1>18 DEF Disarm
<1>19. ASSUME NEW t \in Thread, DisarmUpdate(t) PROVE TypeInv'
  BY <1>19 DEF DisarmUpdate
<1>20. ASSUME NEW w \in Worker, StartTask(w) PROVE TypeInv'
  <2>1. Head(queue) \in Task /\ queue' \in Seq(Task) /\ running' \in [Worker -> Task \cup {Idle}]
    BY <1>20 DEF StartTask, Pool!Take
  <2>2. Head(queue)[1] = "send" => Head(queue)[2] \in 1..MaxMsg
    BY ONLY <2>1 DEF Task, SendTask, ShutdownTask, RemoveTask
  <2>3. arg' \in [Thread -> UnitSeq]
    <3>1. CASE Head(queue)[1] = "send"
      <4>1. arg' = [arg EXCEPT ![w] = Units(Head(queue)[2])]
        BY <1>20, <3>1 DEF StartTask
      <4>2. Units(Head(queue)[2]) \in UnitSeq
        BY <2>2, <3>1, UnitsAreNumbered
      <4>3. arg \in [Thread -> UnitSeq]
        OBVIOUS
      <4> HIDE DEF UnitSeq, TypeInv, TypeOK, Control, Thread, vars
      <4> QED
        BY <4>1, <4>2, <4>3
    <3>2. CASE Head(queue)[1] # "send"
      BY <1>20, <3>2 DEF StartTask
    <3> QED
      BY <3>1, <3>2
  <2>4. /\ pc' \in [Thread -> LoopPc \cup SendPc \cup {"idle", "remove", "end"}]
        /\ pc'[Loop] \in LoopPc \cup SendPc
        /\ \A v \in Worker : pc'[v] \in SendPc \cup {"idle", "disarm", "disarmCtl", "remove", "end"}
    BY <1>20 DEF StartTask
  <2>5. UNCHANGED <<peerVars, inq, wire, connVars, lifeVars, accepted, closing, rev, n>>
    BY <1>20 DEF StartTask
  <2> QED
    BY <2>1, <2>3, <2>4, <2>5
<1>21. ASSUME NEW w \in Worker, RemoveConn(w) PROVE TypeInv'
  BY <1>21 DEF RemoveConn
<1>22. ASSUME NEW w \in Worker, EndTask(w) PROVE TypeInv'
  <2>1. queue' = queue /\ running' \in [Worker -> Task \cup {Idle}]
    BY <1>22 DEF EndTask, Pool!Retire
  <2> QED
    BY <1>22, <2>1 DEF EndTask
<1>23. CASE UNCHANGED vars
  BY <1>23
<1> QED
  BY <1>1, <1>2, <1>3, <1>4, <1>5, <1>6, <1>7, <1>8, <1>9, <1>10, <1>11, <1>12, <1>13, <1>14, <1>15,
     <1>16, <1>17, <1>18, <1>19, <1>20, <1>21, <1>22, <1>23
     DEF Next, LoopStep, WorkerStep, SendInLoop
LEMMA MatchedStep == TypeInv /\ Matched /\ [Next]_vars => Matched'
<1> SUFFICES ASSUME TypeInv, Matched, [Next]_vars PROVE Matched'
  OBVIOUS
<1> USE ThreadsAreDistinct, IdleIsNoTask DEF TypeInv, TypeOK, Control, Thread, Matched, Goto, Return, SendPc
<1>1. ASSUME NEW w \in Worker, StartTask(w) PROVE Matched'
  <2>1. Head(queue) \in Task /\ running' = [running EXCEPT ![w] = Head(queue)]
    BY <1>1 DEF StartTask, Pool!Take
  <2>2. \A v \in Worker : v # w => pc'[v] = pc[v]
    BY <1>1 DEF StartTask
  <2> QED
    BY <2>1, <2>2
<1>2. ASSUME NEW w \in Worker, EndTask(w) PROVE Matched'
  BY <1>2 DEF EndTask, Pool!Retire
<1>3. ASSUME NEW t \in Thread, SendInLoop(t) \/ Disarm(t) \/ DisarmUpdate(t) PROVE Matched'
  <2>1. running' = running /\ pc[t] # "idle" /\ \A u \in Thread : u # t => pc'[u] = pc[u]
    BY <1>3 DEF SendInLoop, SendTest, SendWrite, SendAppend, Arm, ArmUpdate, Disarm, DisarmUpdate, poolVars
  <2> QED
    BY <2>1
<1>4. ASSUME NEW w \in Worker, RemoveConn(w) PROVE Matched'
  BY <1>4 DEF RemoveConn, poolVars
<1>5. CASE running' = running /\ \A w \in Worker : pc'[w] = pc[w]
  BY <1>5
<1>6. CASE PeerAsk \/ PeerTake \/ PeerFin \/ UNCHANGED vars
  BY <1>5, <1>6 DEF PeerAsk, PeerTake, PeerFin, poolVars, vars
<1>7. CASE Poll \/ HandleRead \/ Shutdown \/ EndCallback \/ HandleClose \/ CloseUpdate
  BY <1>5, <1>7 DEF Poll, HandleRead, Send, Shutdown, EndCallback, HandleClose, CloseUpdate, poolVars, Pool!Put
<1>8. CASE HandleWrite \/ Erase \/ EndEvent
  BY <1>5, <1>8 DEF HandleWrite, Erase, EndEvent, poolVars
<1> QED
  BY <1>1, <1>2, <1>3, <1>4, <1>6, <1>7, <1>8 DEF Next, LoopStep, WorkerStep
-----------------------------------------------------------------------------
(* The queue of the pool. *)

LEMMA QueueKept ==
    ASSUME queue' = queue
    PROVE  /\ \A x : Queued(x)' <=> Queued(x)
           /\ SendQueued' <=> SendQueued
           /\ OneSend' <=> OneSend
  BY DEF Queued, SendQueued, OneSend

LEMMA PutEffect ==
    ASSUME TypeInv, NEW task \in Task, Pool!Put(task)
    PROVE  /\ \A x : Queued(x)' <=> Queued(x) \/ x = task
           /\ SendQueued' <=> SendQueued \/ Sends(task)
           /\ OneSend /\ ~(SendQueued /\ Sends(task)) => OneSend'
<1>1. queue \in Seq(Task) /\ queue' = Append(queue, task)
  BY DEF TypeInv, TypeOK, Pool!Put
<1>2. ASSUME NEW x PROVE Queued(x)' <=> Queued(x) \/ x = task
  BY <1>1, AppendOccurs DEF Queued
<1>3. SendQueued' <=> SendQueued \/ Sends(task)
  BY <1>2 DEF SendQueued
<1>4. ASSUME OneSend, ~(SendQueued /\ Sends(task)) PROVE OneSend'
  <2>1. /\ DOMAIN queue = 1..Len(queue) /\ Len(queue) \in Nat
        /\ DOMAIN queue' = 1..(Len(queue) + 1)
        /\ queue'[Len(queue) + 1] = task
        /\ \A i \in 1..Len(queue) : queue'[i] = queue[i] /\ queue[i] \in Task
    BY <1>1
  <2>2. \A i \in 1..Len(queue) : Sends(queue[i]) => ~Sends(task)
    BY <1>4, <2>1 DEF SendQueued, Queued
  <2> QED
    BY <1>4, <2>1, <2>2 DEF OneSend
<1> QED
  BY <1>2, <1>3, <1>4

LEMMA TakeEffect ==
    ASSUME TypeInv, OneSend, NEW w \in Worker, Pool!Take(w)
    PROVE  /\ Head(queue) \in Task
           /\ Queued(Head(queue))
           /\ \A x : Queued(x) <=> Queued(x)' \/ x = Head(queue)
           /\ OneSend'
           /\ Sends(Head(queue)) => ~SendQueued'
<1>1. queue \in Seq(Task) /\ queue # <<>> /\ queue' = Tail(queue)
  BY DEF TypeInv, TypeOK, Pool!Take
<1>2. /\ DOMAIN queue = 1..Len(queue) /\ Len(queue) \in Nat \ {0}
      /\ DOMAIN queue' = 1..(Len(queue) - 1)
      /\ Head(queue) = queue[1] /\ Head(queue) \in Task
      /\ \A i \in 1..(Len(queue) - 1) : queue'[i] = queue[i + 1]
  BY <1>1
<1>3. ASSUME NEW x PROVE Queued(x) <=> Queued(x)' \/ x = Head(queue)
  BY <1>1, TailOccurs DEF Queued
<1>4. ASSUME NEW i \in DOMAIN queue' PROVE i + 1 \in DOMAIN queue /\ i + 1 # 1 /\ queue'[i] = queue[i + 1]
  BY <1>2
<1>5. OneSend'
  <2> SUFFICES ASSUME NEW i \in DOMAIN queue', NEW j \in DOMAIN queue', Sends(queue'[i]), Sends(queue'[j])
               PROVE  i = j
    BY DEF OneSend
  <2>1. i + 1 = j + 1
    BY <1>4 DEF OneSend
  <2> QED
    BY <1>2, <2>1
<1>6. ASSUME Sends(Head(queue)), NEW i \in DOMAIN queue' PROVE ~Sends(queue'[i])
  <2>1. 1 \in DOMAIN queue /\ Sends(queue[1])
    BY <1>2, <1>6
  <2> QED
    BY <1>4, <2>1 DEF OneSend
<1>7. Sends(Head(queue)) => ~SendQueued'
  BY <1>6 DEF SendQueued, Queued
<1> QED
  BY <1>2, <1>3, <1>5, <1>7-----------------------------------------------------------------------------
(* What holds between the steps of a serial use. *)
SerialInv == Tasks /\ Life /\ Order /\ Interest /\ OneAtATime

Before == TypeInv /\ Matched /\ Serial /\ Tasks /\ Life /\ Order /\ Interest /\ OneAtATime

IInv == TypeInv /\ Matched /\ (Serial => SerialInv)

LEMMA Lengths ==
    ASSUME Before
    PROVE  /\ Len(got) \in Nat /\ Len(wire) \in Nat /\ Len(outBuf) \in Nat /\ n \in Nat
           /\ n <= Len(outBuf)
           /\ Due \in Nat /\ Size \in Nat /\ Size > 0
           /\ Stored \in Nat /\ Stored <= Due
           /\ Len(got) + Len(wire) <= Stored
           /\ \A t \in Thread : Len(arg[t]) \in Nat /\ (arg[t] # <<>> => Len(arg[t]) > 0)
           /\ outBuf # <<>> => Len(outBuf) > 0
           /\ wire # <<>> => Len(wire) > 0
<1>1. /\ got \in Seq(1..MaxMsg * Size) /\ wire \in Seq(1..MaxMsg * Size) /\ outBuf \in Seq(1..MaxMsg * Size)
      /\ \A t \in Thread : arg[t] \in Seq(1..MaxMsg * Size)
      /\ accepted \in Nat /\ Size \in Nat \ {0} /\ n \in Nat
  BY SizesAreNat DEF Before, TypeInv, TypeOK
<1>2. n <= Len(outBuf)
  BY <1>1 DEF Before, Order
<1>3. Due \in Nat
  BY <1>1 DEF Due
<1>4. /\ Len(got) \in Nat /\ Len(wire) \in Nat /\ Len(outBuf) \in Nat
      /\ \A t \in Thread : Len(arg[t]) \in Nat /\ (arg[t] # <<>> => Len(arg[t]) > 0)
      /\ outBuf # <<>> => Len(outBuf) > 0
      /\ wire # <<>> => Len(wire) > 0
  BY <1>1
<1>5. Stored \in Nat /\ Len(got) + Len(wire) <= Stored
  BY <1>1, <1>2, <1>4 DEF Stored, Written
<1>6. Stored <= Due
  BY <1>1, <1>3, <1>4, <1>5 DEF Before, Order
<1> QED
  BY <1>1, <1>2, <1>3, <1>4, <1>5, <1>6

LEMMA BusyIsUndelivered ==
    ASSUME Before, ~use.inline, Busy
    PROVE  /\ Len(got) < Due /\ inq = 0 /\ ~fin
           /\ state = "connected" /\ ~closing /\ "OUT" \notin armed
<1>1. Loop \in Thread /\ Worker \subseteq Thread
  BY DEF Thread
<1>2. CASE SendQueued
  <2>1. Len(got) < Due
    BY <1>2, Lengths DEF Before, Order
  <2>2. inq = 0 /\ ~fin /\ state = "connected" /\ ~closing
    BY <2>1 DEF Before, OneAtATime, Life, Tasks, TypeInv, TypeOK, Serial
  <2>3. (\A w \in Worker : ~Sending(w)) /\ pc[Loop] \in {"poll", "event", "callback"} /\ outBuf = <<>>
    BY <1>2 DEF Before, Tasks, Busy, OneAtATime
  <2>4. "OUT" \notin armed
    BY <2>2, <2>3 DEF Before, Interest, Balanced
  <2> QED
    BY <2>1, <2>2, <2>4
<1>3. ASSUME NEW w \in Worker, Sending(w)
      PROVE  /\ Len(got) < Due /\ inq = 0 /\ ~fin
             /\ state = "connected" /\ ~closing /\ "OUT" \notin armed
  <2>1. w \in Thread /\ pc[w] \in SendPc
    BY <1>1, <1>3 DEF Sending
  <2>2. Unsent(w) \/ pc[w] \in {"arm", "armCtl"}
    BY <2>1 DEF SendPc, Unsent
  <2>3. Len(got) < Due
    <3>1. CASE Unsent(w)
      BY <2>1, <3>1, Lengths DEF Before, Order
    <3>2. CASE pc[w] \in {"arm", "armCtl"}
      <4>1. \A t \in Thread : ~Unsent(t)
        BY <1>3, <2>1, <3>2 DEF Before, Tasks, Unsent, Sending, SendPc
      <4>2. ~SendQueued
        BY <1>3 DEF Before, Tasks
      <4>3. Stored = Due /\ outBuf # <<>> /\ n = 0
        BY <2>1, <3>2, <4>1, <4>2, <1>3 DEF Before, Order, Tasks, Busy
      <4> QED
        BY <4>3, Lengths DEF Stored, Written
    <3> QED
      BY <2>2, <3>1, <3>2
  <2>4. inq = 0 /\ ~fin /\ state = "connected" /\ ~closing
    BY <2>3 DEF Before, OneAtATime, Life, Tasks, TypeInv, TypeOK, Serial
  <2>5. "OUT" \notin armed
    <3>1. Unsent(w) => Balanced /\ outBuf = <<>>
      BY <2>1, <2>4 DEF Before, Interest, Order, OneAtATime, Unsent
    <3>2. pc[w] \in {"arm", "armCtl"} => "OUT" \notin armed
      BY <2>1, <2>4 DEF Before, Interest
    <3> QED
      BY <2>2, <3>1, <3>2 DEF Balanced
  <2> QED
    BY <2>3, <2>4, <2>5
<1> QED
  BY <1>2, <1>3 DEF Busy-----------------------------------------------------------------------------
(* handleRead with a message, and the three ways its callback may go. *)
LEMMA ReadEffect ==
    ASSUME TypeInv, HandleRead
    PROVE  /\ Message = asked - inq + 1 /\ Message \in 1..MaxMsg
           /\ SendTask(Message) \in Task /\ Sends(SendTask(Message))
           /\ pc[Loop] = "event" /\ "IN" \in rev /\ rev' = rev \ {"IN"}
           /\ inq > 0 /\ inq' = inq - 1
           /\ \A w \in Worker : pc'[w] = pc[w]
           /\ UNCHANGED <<use, asked, fin, got, wire, state, outBuf, events, armed, inTable, alive, closing, n>>
           /\ \/ /\ state # "connected" /\ pc'[Loop] = "callback"
                 /\ UNCHANGED <<accepted, arg, queue, running>>
              \/ /\ state = "connected" /\ use.inline /\ pc'[Loop] = "test"
                 /\ accepted' = accepted + 1
                 /\ arg' = [arg EXCEPT ![Loop] = Units(Message)]
                 /\ UNCHANGED <<queue, running>>
              \/ /\ state = "connected" /\ ~use.inline /\ pc'[Loop] = "callback"
                 /\ accepted' = accepted + 1
                 /\ Pool!Put(SendTask(Message))
                 /\ UNCHANGED arg
<1>1. asked \in 0..MaxMsg /\ inq \in 0..MaxMsg /\ inq <= asked /\ MaxMsg \in Nat
  BY SizesAreNat DEF TypeInv, TypeOK, Control
<1>2. inq > 0 /\ Send(Message)
  BY DEF HandleRead
<1>3. Message = asked - inq + 1 /\ Message \in 1..MaxMsg
  BY <1>1, <1>2 DEF Message
<1>4. SendTask(Message) \in Task /\ Sends(SendTask(Message))
  BY <1>3 DEF Task, Sends, SendTask, ShutdownTask, RemoveTask
<1>5. pc \in [Thread -> LoopPc \cup SendPc \cup {"idle", "remove", "end"}] /\ Loop \in Thread
      /\ \A w \in Worker : w \in Thread /\ w # Loop
  BY ThreadsAreDistinct DEF TypeInv, Control, Thread
<1> QED
  BY <1>2, <1>3, <1>4, <1>5 DEF HandleRead, Send, Goto, peerVars, connVars, lifeVars, poolVars

LEMMA LifeStep == ASSUME Before, [Next]_vars PROVE Life'
<1> USE ThreadsAreDistinct
    DEF Before, TypeInv, TypeOK, Control, Thread, Life, vars, peerVars, connVars, lifeVars, poolVars, Goto
<1>1. CASE PeerAsk \/ PeerTake
  BY <1>1, QueueKept DEF PeerAsk, PeerTake
<1>2. CASE PeerFin
  BY <1>2, QueueKept DEF PeerFin
<1>3. CASE Poll
  BY <1>3, QueueKept DEF Poll
<1>4. CASE HandleRead
  <2>1. RemoveTask # SendTask(Message)
    BY DEF SendTask, RemoveTask
  <2>2. Queued(RemoveTask)' <=> Queued(RemoveTask)
    BY <1>4, <2>1, ReadEffect, QueueKept, PutEffect
  <2> QED
    BY <1>4, <2>2, ReadEffect
<1>5. CASE Shutdown
  <2>1. ShutdownTask \in Task /\ RemoveTask # ShutdownTask
    BY DEF Task, ShutdownTask, RemoveTask
  <2>2. Queued(RemoveTask)' <=> Queued(RemoveTask)
    BY <1>5, <2>1, PutEffect DEF Shutdown
  <2> QED
    BY <1>5, <2>2 DEF Shutdown
<1>6. CASE EndCallback
  BY <1>6, QueueKept DEF EndCallback
<1>7. CASE HandleClose
  BY <1>7, QueueKept DEF HandleClose
<1>8. CASE CloseUpdate
  BY <1>8 DEF CloseUpdate
<1>9. CASE HandleWrite
  BY <1>9, QueueKept DEF HandleWrite
<1>10. CASE Erase
  BY <1>10, QueueKept DEF Erase
<1>11. CASE EndEvent
  <2>1. inTable' => alive'
    BY <1>11 DEF EndEvent, Held
  <2> QED
    BY <1>11, <2>1, QueueKept DEF EndEvent
<1>12. ASSUME NEW t \in Thread, SendInLoop(t) \/ Disarm(t) \/ DisarmUpdate(t) PROVE Life'
  <2>1. /\ pc[t] # "poll" /\ pc'[t] \notin {"closeCtl", "remove"} /\ (pc'[t] # "poll")
        /\ \A u \in Thread : u # t => pc'[u] = pc[u]
    BY <1>12 DEF SendInLoop, SendTest, SendWrite, SendAppend, Arm, ArmUpdate, Disarm, DisarmUpdate, Return
  <2>2. UNCHANGED <<use, fin, inTable, alive, state, queue>>
    BY <1>12 DEF SendInLoop, SendTest, SendWrite, SendAppend, Arm, ArmUpdate, Disarm, DisarmUpdate
  <2> QED
    BY <2>1, <2>2, QueueKept
<1>13. ASSUME NEW w \in Worker, StartTask(w) PROVE Life'
  <2>1. Pool!Take(w)
    BY <1>13 DEF StartTask
  <2>2. Head(queue) \in Task /\ Queued(Head(queue)) /\ \A x : Queued(x)' => Queued(x)
    BY <2>1, TakeEffect DEF Tasks
  <2>3. pc'[w] = "remove" => Head(queue) = RemoveTask
    BY <1>13, <2>2 DEF StartTask, Task, SendTask, ShutdownTask, RemoveTask
  <2>4. pc'[Loop] = pc[Loop] /\ \A v \in Worker : v # w => pc'[v] = pc[v]
    BY <1>13 DEF StartTask
  <2>5. UNCHANGED <<use, fin, inTable, alive, state>>
    BY <1>13 DEF StartTask
  <2> QED
    BY <2>2, <2>3, <2>4, <2>5
<1>14. ASSUME NEW w \in Worker, RemoveConn(w) PROVE Life'
  BY <1>14, QueueKept DEF RemoveConn
<1>15. ASSUME NEW w \in Worker, EndTask(w) PROVE Life'
  <2>1. inTable' \/ pc'[Loop] # "poll" => alive'
    BY <1>15 DEF EndTask, Held
  <2>2. queue' = queue
    BY <1>15 DEF EndTask, Pool!Retire
  <2> QED
    BY <1>15, <2>1, <2>2, QueueKept DEF EndTask
<1>16. CASE UNCHANGED vars
  BY <1>16, QueueKept
<1> QED
  BY <1>1, <1>2, <1>3, <1>4, <1>5, <1>6, <1>7, <1>8, <1>9, <1>10, <1>11, <1>12, <1>13, <1>14, <1>15, <1>16
     DEF Next, LoopStep, WorkerStep
(* What a step of sendInLoop, or of a change of events_, does to the pc. *)
LEMMA SendMoves ==
    ASSUME TypeInv, NEW t \in Thread, SendInLoop(t) \/ Disarm(t) \/ DisarmUpdate(t)
    PROVE  /\ pc[t] \in SendPc \cup {"disarm", "disarmCtl"}
           /\ pc[t] \in SendPc => pc'[t] \in SendPc \cup {IF t = Loop THEN "callback" ELSE "end"}
           /\ pc[t] = "disarm" => pc'[t] = "disarmCtl"
           /\ pc[t] = "disarmCtl" => pc'[t] \in {"event", "end"}
           /\ t = Loop => pc'[t] # "end"
           /\ t # Loop => pc'[t] # "event"
           /\ \A u \in Thread : u # t => pc'[u] = pc[u]
           /\ UNCHANGED <<use, asked, inq, fin, got, state, inTable, alive, accepted, closing, rev, n, queue, running>>
<1> USE DEF TypeInv, TypeOK, Control, SendPc, Goto, Return, peerVars, connVars, lifeVars, poolVars
<1>1. CASE SendTest(t)
  BY <1>1 DEF SendTest
<1>2. CASE SendWrite(t)
  BY <1>2 DEF SendWrite
<1>3. CASE SendAppend(t)
  BY <1>3 DEF SendAppend
<1>4. CASE Arm(t) \/ ArmUpdate(t)
  BY <1>4 DEF Arm, ArmUpdate
<1>5. CASE Disarm(t) \/ DisarmUpdate(t)
  BY <1>5 DEF Disarm, DisarmUpdate
<1> QED
  BY <1>1, <1>2, <1>3, <1>4, <1>5 DEF SendInLoop

LEMMA TasksStep == ASSUME Before, [Next]_vars PROVE Tasks'
<1> USE ThreadsAreDistinct
    DEF Before, TypeInv, TypeOK, Control, Thread, Tasks, Busy, Sending, vars, peerVars, connVars, lifeVars, poolVars, Goto
<1>1. CASE PeerAsk \/ PeerTake \/ PeerFin
  BY <1>1, QueueKept DEF PeerAsk, PeerTake, PeerFin
<1>2. CASE Poll
  <2>1. ~Busy
    BY <1>2, BusyIsUndelivered DEF Poll, Report
  <2> QED
    BY <1>2, <2>1, QueueKept DEF Poll, SendPc
<1>3. CASE HandleRead
  <2>1. ~Busy /\ ~Sending(Loop) /\ ~SendQueued /\ \A w \in Worker : ~Sending(w)
    BY <1>3, ReadEffect DEF SendPc
  <2>2. /\ SendTask(Message) \in Task /\ Sends(SendTask(Message))
        /\ UNCHANGED <<use, closing>>
        /\ \A w \in Worker : pc'[w] = pc[w]
        /\ rev' \subseteq rev
    BY <1>3, ReadEffect
  <2>3. \A w \in Worker : ~Sending(w)'
    BY <2>1, <2>2
  <2>4. CASE queue' = queue /\ accepted' = accepted /\ pc'[Loop] = "callback"
    BY <2>1, <2>2, <2>3, <2>4, QueueKept DEF SendPc
  <2>5. CASE queue' = queue /\ use.inline /\ pc'[Loop] = "test"
    <3>1. ~SendQueued' /\ ~Busy'
      BY <2>1, <2>3, <2>5, QueueKept
    <3> QED
      BY <2>1, <2>2, <2>3, <2>5, <3>1, QueueKept DEF SendQueued
  <2>6. CASE /\ state = "connected" /\ ~use.inline /\ pc'[Loop] = "callback"
             /\ accepted' = accepted + 1 /\ Pool!Put(SendTask(Message))
    <3>1. Message = accepted'
      BY <1>3, <2>6, ReadEffect DEF Order
    <3>2. /\ \A x : Queued(x)' <=> Queued(x) \/ x = SendTask(Message)
          /\ OneSend'
      BY <2>1, <2>2, <2>6, PutEffect
    <3>3. rev' = {}
      BY <1>3, <2>6, ReadEffect DEF OneAtATime
    <3>4. \A x \in Task : Sends(x) /\ Queued(x)' => x = SendTask(accepted')
      BY <2>1, <3>1, <3>2 DEF SendQueued
    <3>5. ~Sending(Loop)'
      BY <2>6 DEF SendPc
    <3>6. Queued(ShutdownTask)' => Queued(ShutdownTask)
      BY <2>2, <3>2 DEF Sends
    <3> QED
      BY <2>2, <2>3, <2>6, <3>2, <3>3, <3>4, <3>5, <3>6
  <2> QED
    BY <1>3, <2>4, <2>5, <2>6, ReadEffect
<1>4. CASE Shutdown
  <2>1. ShutdownTask \in Task /\ ~Sends(ShutdownTask)
    BY DEF Task, Sends
  <2> QED
    BY <1>4, <2>1, PutEffect DEF Shutdown
<1>5. CASE EndCallback \/ EndEvent
  BY <1>5, QueueKept DEF EndCallback, EndEvent, SendPc
<1>6. CASE HandleClose \/ HandleWrite \/ Erase
  BY <1>6, QueueKept DEF HandleClose, HandleWrite, Erase, SendPc
<1>7. CASE CloseUpdate
  <2>1. RemoveTask \in Task /\ ~Sends(RemoveTask) /\ RemoveTask # ShutdownTask
    BY DEF Task, Sends, RemoveTask, ShutdownTask
  <2> QED
    BY <1>7, <2>1, PutEffect DEF CloseUpdate, SendPc
<1>8. ASSUME NEW t \in Thread, SendInLoop(t) \/ Disarm(t) \/ DisarmUpdate(t) PROVE Tasks'
  <2>1. UNCHANGED <<use, accepted, closing, rev, queue>>
    BY <1>8, SendMoves
  <2>2. /\ Sending(t)' => Sending(t)
        /\ pc'[t] \in {"disarm", "disarmCtl"} => pc[t] \in {"disarm", "disarmCtl"}
        /\ \A u \in Thread : u # t => pc'[u] = pc[u]
    BY <1>8, SendMoves DEF SendPc
  <2>3. Busy' => pc'[Loop] \in {"poll", "event", "callback"}
    BY <1>8, <2>1, <2>2, SendMoves, QueueKept DEF SendPc
  <2> QED
    BY <2>1, <2>2, <2>3, QueueKept
<1>9. ASSUME NEW w \in Worker, StartTask(w) PROVE Tasks'
  <2>1. Pool!Take(w) /\ pc[w] = "idle"
    BY <1>9 DEF StartTask, Pool!Take, Matched
  <2>2. Head(queue) \in Task /\ Queued(Head(queue)) /\ (\A x : Queued(x)' => Queued(x)) /\ OneSend'
        /\ (Sends(Head(queue)) => ~SendQueued')
    BY <2>1, TakeEffect
  <2>3. /\ Sends(Head(queue)) => pc'[w] = "test"
        /\ Head(queue) = ShutdownTask => pc'[w] = "disarm"
        /\ Head(queue) = RemoveTask => pc'[w] = "remove"
    BY <1>9, <2>2 DEF StartTask, Task, Sends, SendTask, ShutdownTask, RemoveTask
  <2>4. UNCHANGED <<use, accepted, closing, rev>> /\ \A u \in Thread : u # w => pc'[u] = pc[u]
    BY <1>9 DEF StartTask
  <2>5. SendQueued' => SendQueued
    BY <2>2 DEF SendQueued
  <2>6. CASE Sends(Head(queue))
    <3>1. SendQueued /\ ~SendQueued'
      BY <2>2, <2>6 DEF SendQueued
    <3>2. \A u \in Thread : ~Sending(u)
      BY <3>1
    <3> QED
      BY <2>2, <2>3, <2>4, <2>6, <3>1, <3>2 DEF SendPc
  <2>7. CASE ~Sends(Head(queue))
    BY <2>2, <2>3, <2>4, <2>5, <2>7 DEF SendPc, Sends
  <2> QED
    BY <2>6, <2>7
<1>10. ASSUME NEW w \in Worker, RemoveConn(w) PROVE Tasks'
  BY <1>10, QueueKept DEF RemoveConn, SendPc
<1>11. ASSUME NEW w \in Worker, EndTask(w) PROVE Tasks'
  <2>1. queue' = queue
    BY <1>11 DEF EndTask, Pool!Retire
  <2> QED
    BY <1>11, <2>1, QueueKept DEF EndTask, SendPc
<1>12. CASE UNCHANGED vars
  BY <1>12, QueueKept
<1> QED
  BY <1>1, <1>2, <1>3, <1>4, <1>5, <1>6, <1>7, <1>8, <1>9, <1>10, <1>11, <1>12 DEF Next, LoopStep, WorkerStep
LEMMA Typed ==
    ASSUME TypeInv
    PROVE  /\ got \in UnitSeq /\ wire \in UnitSeq /\ outBuf \in UnitSeq
           /\ arg \in [Thread -> UnitSeq]
           /\ Len(got) \in Nat /\ Len(wire) \in Nat /\ Len(outBuf) \in Nat
           /\ \A s \in UnitSeq : Len(s) \in Nat /\ (s = <<>> <=> Len(s) = 0)
           /\ pc \in [Thread -> LoopPc \cup SendPc \cup {"idle", "remove", "end"}]
           /\ asked \in Nat /\ inq \in Nat /\ accepted \in Nat /\ n \in Nat
           /\ Loop \in Thread /\ \A w \in Worker : w \in Thread /\ w # Loop
           /\ \A t \in Thread : t = Loop \/ t \in Worker
           /\ Due \in Nat /\ (accepted + 1) * Size = Due + Size /\ Size \in Nat \ {0}
           /\ Room \in Nat
<1>1. accepted \in Nat /\ Size \in Nat \ {0}
  BY SizesAreNat DEF TypeInv, TypeOK
<1>2. Due \in Nat /\ (accepted + 1) * Size = Due + Size
  BY <1>1 DEF Due
<1> QED
  <2>1. /\ got \in UnitSeq /\ wire \in UnitSeq /\ outBuf \in UnitSeq
        /\ arg \in [Thread -> UnitSeq]
    BY DEF TypeInv, TypeOK, UnitSeq, Unit
  <2>2. \A s \in UnitSeq : Len(s) \in Nat /\ (s = <<>> <=> Len(s) = 0)
    BY DEF UnitSeq
  <2>3. asked \in Nat /\ inq \in Nat /\ n \in Nat /\ SndBuf \in Nat /\ Len(wire) <= SndBuf
    BY SizesAreNat DEF TypeInv, TypeOK
  <2> QED
    BY <1>1, <1>2, <2>1, <2>2, <2>3, ThreadsAreDistinct DEF TypeInv, Control, Thread, Room

(* The steps that move no unit. *)
LEMMA OrderKept ==
    ASSUME Before, UNCHANGED <<got, wire, outBuf, n, accepted, arg>>,
           SendQueued' <=> SendQueued,
           \A t \in Thread : \/ pc'[t] = pc[t]
                             \/ /\ pc[t] \notin SendPc \cup {"flushed"}
                                /\ pc'[t] \notin SendPc \cup {"flushed"},
           state' = "connected" => state = "connected" /\ accepted + inq' = asked'
    PROVE  Order'
<1>1. Loop \in Thread
  BY DEF Thread
<1>2. \A t \in Thread : /\ Unsent(t)' <=> Unsent(t)
                        /\ (pc'[t] \in {"write", "appendArm"}) <=> (pc[t] \in {"write", "appendArm"})
                        /\ (pc'[t] \in {"append", "arm", "armCtl"}) <=> (pc[t] \in {"append", "arm", "armCtl"})
                        /\ (pc'[t] = "flushed") <=> (pc[t] = "flushed")
  BY DEF Unsent, SendPc
<1>3. Written' = Written /\ Stored' = Stored
  BY DEF Written, Stored
<1>5. Numbers(got, 0)' /\ Numbers(wire, Len(got))' /\ Numbers(outBuf, Written)'
  BY <1>3 DEF Before, Order, Numbers
<1>6. \A t \in Thread : Numbers(arg[t], Stored)' <=> Numbers(arg[t], Stored)
  BY <1>3 DEF Numbers
<1> QED
  BY <1>1, <1>2, <1>3, <1>5, <1>6 DEF Before, Order, Due

LEMMA OrderStep == ASSUME Before, [Next]_vars PROVE Order'
<1>0. TypeInv
  BY DEF Before
<1>a. accepted' = accepted => Due' = Due
  BY DEF Due
<1> USE <1>0, <1>a, Typed DEF Before, vars, peerVars, connVars, lifeVars, poolVars, Goto, SendPc
<1>1. CASE PeerAsk
  BY <1>1, QueueKept, OrderKept DEF Order, PeerAsk
<1>2. CASE PeerTake
  <2>1. got' = Append(got, Head(wire)) /\ wire' = Tail(wire) /\ wire # <<>>
        /\ UNCHANGED <<n, outBuf, arg, accepted, pc, queue, state, asked, inq>>
    BY <1>2 DEF PeerTake
  <2>2. /\ Numbers(got', 0) /\ Numbers(wire', Len(got) + 1)
        /\ Len(got') = Len(got) + 1 /\ Len(wire') = Len(wire) - 1
    BY <2>1, NumbersMove DEF Order
  <2>a. n' = n /\ outBuf' = outBuf
    BY <2>1
  <2>3. Written' = Written /\ Stored' = Stored
    <3>1. Len(got) \in Int /\ Len(wire) \in Int /\ Len(outBuf) \in Int /\ n \in Int
      OBVIOUS
    <3> HIDE <1>0, <1>a, Typed
    <3> QED
      BY <2>2, <2>a, <3>1 DEF Written, Stored
  <2>4. Numbers(got', 0) /\ Numbers(wire', Len(got'))
    BY <2>2
  <2>5. Numbers(outBuf', Written')
    BY <2>1, <2>3 DEF Order, Numbers
  <2>6. \A t \in Thread : Unsent(t)' => arg'[t] # <<>> /\ Numbers(arg'[t], Stored') /\ Stored' + Len(arg'[t]) = Due'
    BY <2>1, <2>3 DEF Order, Numbers, Unsent
  <2>7. SendQueued' <=> SendQueued
    BY <2>1, QueueKept
  <2> QED
    BY <2>1, <2>3, <2>4, <2>5, <2>6, <2>7 DEF Order, Unsent
<1>3. CASE PeerFin
  BY <1>3, QueueKept, OrderKept DEF Order, PeerFin
<1>4. CASE Poll
  BY <1>4, QueueKept, OrderKept DEF Order, Poll
<1>5. CASE HandleRead
  <2>1. /\ ~SendQueued /\ \A t \in Thread : pc[t] \notin SendPc
        /\ \A w \in Worker : pc'[w] = pc[w]
        /\ pc[Loop] = "event" /\ n = 0 /\ n' = n
    BY <1>5, ReadEffect DEF Tasks, Busy, Sending, Order
  <2>2. Stored = Due
    BY <2>1 DEF Order, Unsent
  <2>3. Stored' = Stored /\ Written' = Written
    BY <1>5, ReadEffect DEF Stored, Written
  <2>4. Numbers(got, 0)' /\ Numbers(wire, Len(got))' /\ Numbers(outBuf, Written)'
    BY <1>5, <2>3, ReadEffect DEF Order, Numbers
  <2>5. state' = "connected" => accepted' + inq' = asked'
    <3>1. state' = state /\ asked' = asked /\ inq' = inq - 1 /\ (state = "connected" => accepted' = accepted + 1)
      BY <1>5, ReadEffect
    <3> QED
      BY <3>1 DEF Order
  <2>6. CASE state # "connected"
    BY <1>5, <2>1, <2>6, ReadEffect, QueueKept, OrderKept DEF Order
  <2>7. CASE state = "connected"
    <3>1. Message = accepted + 1 /\ accepted' = accepted + 1
      BY <1>5, <2>7, ReadEffect DEF Order
    <3>2. Due' = Due + Size
      BY <3>1 DEF Due
    <3>3. CASE use.inline /\ pc'[Loop] = "test" /\ arg' = [arg EXCEPT ![Loop] = Units(Message)] /\ queue' = queue
      <4>1. ~SendQueued' /\ Unsent(Loop)' /\ \A w \in Worker : ~Unsent(w)'
        BY <2>1, <3>3, QueueKept DEF Unsent
      <4>2. arg'[Loop] # <<>> /\ Len(arg'[Loop]) = Size /\ Numbers(arg'[Loop], Stored')
        <5>1. Message \in 1..MaxMsg /\ arg'[Loop] = Units(Message)
          BY <1>5, <3>3, ReadEffect
        <5>2. accepted * Size = Stored'
          BY <2>2, <2>3 DEF Due
        <5> QED
          BY <3>1, <5>1, <5>2, UnitsAreNumbered
      <4> QED
        BY <2>1, <2>2, <2>3, <2>4, <2>5, <3>2, <3>3, <4>1, <4>2 DEF Order
    <3>4. CASE ~use.inline /\ pc'[Loop] = "callback" /\ Pool!Put(SendTask(Message)) /\ arg' = arg
      <4>1. SendQueued' /\ \A t \in Thread : ~Unsent(t)'
        BY <1>5, <2>1, <3>4, ReadEffect, PutEffect DEF Unsent
      <4> QED
        BY <2>1, <2>2, <2>3, <2>4, <2>5, <3>2, <3>4, <4>1 DEF Order
    <3> QED
      BY <1>5, <2>7, <3>3, <3>4, ReadEffect
  <2> QED
    BY <2>6, <2>7
<1>6. CASE Shutdown
  <2>1. ShutdownTask \in Task /\ ~Sends(ShutdownTask)
    BY DEF Task, Sends
  <2>2. SendQueued' <=> SendQueued
    BY <1>6, <2>1, PutEffect DEF Shutdown
  <2> QED
    BY <1>6, <2>2, OrderKept DEF Order, Shutdown
<1>7. CASE EndCallback
  BY <1>7, QueueKept, OrderKept DEF Order, EndCallback
<1>8. CASE HandleClose
  BY <1>8, QueueKept, OrderKept DEF Order, HandleClose
<1>9. CASE CloseUpdate
  <2>1. RemoveTask \in Task /\ ~Sends(RemoveTask)
    BY DEF Task, Sends
  <2>2. SendQueued' <=> SendQueued
    BY <1>9, <2>1, PutEffect DEF CloseUpdate
  <2> QED
    BY <1>9, <2>2, OrderKept DEF Order, CloseUpdate
<1>10. CASE HandleWrite
  <2>1. /\ ~SendQueued /\ \A t \in Thread : ~Unsent(t) /\ pc[t] \notin SendPc
        /\ n = 0
    BY <1>10 DEF HandleWrite, Tasks, Busy, Sending, Order, Unsent
  <2>2. n' = Least(Room, Len(outBuf)) /\ wire' = wire \o SubSeq(outBuf, 1, n')
        /\ pc' = [pc EXCEPT ![Loop] = IF n' > 0 THEN "flushed" ELSE "event"]
        /\ UNCHANGED <<got, outBuf, accepted, arg, queue, state, asked, inq>>
    BY <1>10 DEF HandleWrite
  <2>3. n' \in 0..Len(outBuf)
    BY <2>2, LeastIsOne DEF Room
  <2>4. SubSeq(outBuf, 1, n') \in UnitSeq /\ Len(SubSeq(outBuf, 1, n')) = n'
        /\ Numbers(SubSeq(outBuf, 1, n'), Written)
    <3>1. Written \in Int /\ Numbers(outBuf, Written)
      BY DEF Order, Written
    <3> QED
      BY <2>3, <3>1, NumbersPrefix
  <2>5. Written = Len(got) + Len(wire) /\ Len(got) \in Int
    BY <2>1 DEF Written
  <2>6. Numbers(wire', Len(got)) /\ Len(wire') = Len(wire) + n'
    <3> DEFINE u == SubSeq(outBuf, 1, n')
    <3>1. wire' = wire \o u
      BY <2>2
    <3>2. u \in UnitSeq /\ Len(u) = n' /\ Numbers(u, Len(got) + Len(wire))
      BY <2>4, <2>5
    <3> HIDE DEF u
    <3>3. Numbers(wire, Len(got)) /\ wire \in UnitSeq /\ Len(got) \in Int
      BY DEF Order
    <3> HIDE <1>0, <1>a, Typed
    <3> QED
      BY <3>1, <3>2, <3>3, NumbersConcat
  <2>7. Written' = Written /\ Stored' = Stored
    <3>1. got' = got /\ outBuf' = outBuf /\ n' \in Nat
      BY <2>2, <2>3
    <3>2. Len(got) \in Int /\ Len(wire) \in Int /\ Len(outBuf) \in Int
      OBVIOUS
    <3> HIDE <1>0, <1>a, Typed
    <3> QED
      BY <2>5, <2>6, <3>1, <3>2 DEF Written, Stored
  <2>8. Numbers(got', 0) /\ Numbers(wire', Len(got')) /\ Numbers(outBuf', Written')
    BY <2>2, <2>6, <2>7 DEF Order
  <2>9. ~SendQueued' /\ \A t \in Thread : ~Unsent(t)' /\ pc'[t] \notin SendPc
    BY <2>1, <2>2, QueueKept DEF Unsent
  <2>10. Stored' = Due'
    BY <2>1, <2>2, <2>7 DEF Order
  <2>11. (pc'[Loop] # "flushed" => n' = 0) /\ (pc'[Loop] = "flushed" => 0 < n' /\ n' <= Len(outBuf'))
    BY <2>2, <2>3
  <2>12. state' = "connected" => accepted' + inq' = asked'
    BY <2>2 DEF Order
  <2> QED
    BY <2>8, <2>9, <2>10, <2>11, <2>12 DEF Order
<1>11. CASE Erase
  <2>1. /\ ~SendQueued /\ \A t \in Thread : ~Unsent(t) /\ pc[t] \notin SendPc
        /\ 0 < n /\ n <= Len(outBuf)
    BY <1>11 DEF Erase, Tasks, Busy, Sending, Order, Unsent
  <2>2. outBuf' = SubSeq(outBuf, n + 1, Len(outBuf)) /\ n' = 0
        /\ \E where \in {"disarm", "event"} : pc' = [pc EXCEPT ![Loop] = where]
        /\ UNCHANGED <<got, wire, accepted, arg, queue, state, asked, inq>>
    BY <1>11 DEF Erase
  <2>3. n \in 0..Len(outBuf) /\ Written \in Int /\ Len(got) \in Nat /\ Len(wire) \in Nat
    BY <2>1 DEF Written
  <2>4. Len(outBuf') = Len(outBuf) - n /\ Numbers(outBuf', Written + n)
    BY <2>2, <2>3, NumbersSuffix DEF Order
  <2>5. Written' = Written + n /\ Stored' = Stored
    <3>1. got' = got /\ wire' = wire /\ n' = 0
      BY <2>2
    <3>2. Len(got) \in Int /\ Len(wire) \in Int /\ Len(outBuf) \in Int /\ n \in Int
      OBVIOUS
    <3>3. Len(outBuf') = Len(outBuf) - n
      BY <2>4
    <3> HIDE <1>0, <1>a, Typed
    <3> QED
      BY <3>1, <3>2, <3>3 DEF Written, Stored
  <2>6. Numbers(got', 0) /\ Numbers(wire', Len(got')) /\ Numbers(outBuf', Written')
    BY <2>2, <2>4, <2>5 DEF Order
  <2>7. ~SendQueued' /\ \A t \in Thread : ~Unsent(t)' /\ pc'[t] \notin SendPc
    BY <2>1, <2>2, QueueKept DEF Unsent
  <2>8. Stored' = Due'
    BY <2>1, <2>2, <2>5 DEF Order
  <2>9. pc'[Loop] # "flushed"
    BY <2>2
  <2>10. state' = "connected" => accepted' + inq' = asked'
    BY <2>2 DEF Order
  <2> QED
    BY <2>2, <2>6, <2>7, <2>8, <2>9, <2>10 DEF Order
<1>12. CASE EndEvent
  BY <1>12, QueueKept, OrderKept DEF Order, EndEvent
<1>13. ASSUME NEW t \in Thread, SendInLoop(t) PROVE Order'
  <2>1. /\ pc[t] \in SendPc /\ pc'[t] \in SendPc \cup {"callback", "end"}
        /\ \A u \in Thread : u # t => pc'[u] = pc[u]
        /\ UNCHANGED <<inq, asked, got, state, accepted, n, queue>>
    BY <1>13, SendMoves DEF SendInLoop, SendTest, SendWrite, SendAppend, Arm, ArmUpdate
  <2>2. ~SendQueued /\ ~SendQueued' /\ \A u \in Thread : u # t => pc[u] \notin SendPc /\ ~Unsent(u)
    <3>1. ~SendQueued
      BY <2>1 DEF Tasks, Sending, Busy
    <3> QED
      BY <2>1, <3>1, QueueKept DEF Tasks, Sending, Unsent
  <2>3. n = 0 /\ pc[Loop] # "flushed" /\ pc'[Loop] # "flushed"
    BY <2>1 DEF Tasks, Busy, Sending, Order
  <2>4. state' = "connected" => accepted' + inq' = asked'
    BY <2>1 DEF Order
  <2>5. \A u \in Thread : u # t => pc'[u] \notin SendPc /\ ~Unsent(u)'
    BY <2>1, <2>2 DEF Unsent
  <2>6. CASE SendTest(t)
    <3>1. /\ pc[t] = "test" /\ pc'[t] = IF outBuf = <<>> THEN "write" ELSE "append"
          /\ UNCHANGED <<wire, outBuf, arg>>
      BY <2>6 DEF SendTest
    <3>2. Written' = Written /\ Stored' = Stored
      BY <2>1, <3>1 DEF Written, Stored
    <3>3. Numbers(got', 0) /\ Numbers(wire', Len(got')) /\ Numbers(outBuf', Written') /\ Numbers(arg'[t], Stored')
          /\ arg'[t] # <<>> /\ Stored' + Len(arg'[t]) = Due' /\ Unsent(t)'
      BY <2>1, <3>1, <3>2 DEF Order, Unsent
    <3> QED
      BY <2>1, <2>2, <2>3, <2>4, <2>5, <3>1, <3>3 DEF Order
  <2>7. CASE SendWrite(t)
    <3> DEFINE k == Least(Room, Len(arg[t]))
    <3>1. /\ pc[t] = "write" /\ pc'[t] = IF k = Len(arg[t]) THEN (IF t = Loop THEN "callback" ELSE "end") ELSE "appendArm"
          /\ wire' = wire \o SubSeq(arg[t], 1, k)
          /\ arg' = [arg EXCEPT ![t] = SubSeq(@, k + 1, Len(@))]
          /\ outBuf' = outBuf
      BY <2>7 DEF SendWrite, Return
    <3>2. arg[t] \in UnitSeq /\ k \in 0..Len(arg[t]) /\ Len(arg[t]) \in Nat
      BY LeastIsOne DEF Room
    <3> HIDE DEF k
    <3>3. outBuf = <<>> /\ Len(outBuf) = 0 /\ Written \in Int /\ Stored = Written /\ Written = Len(got) + Len(wire) /\ Len(got) \in Int
      <4>1. pc[t] = "write" => outBuf = <<>>
        BY DEF Order
      <4>2. outBuf = <<>> /\ Len(outBuf) = 0
        BY <3>1, <4>1
      <4> QED
        BY <2>3, <4>2 DEF Stored, Written
    <3>4. Numbers(arg[t], Stored) /\ Stored + Len(arg[t]) = Due
      BY <3>1 DEF Order, Unsent
    <3>5. /\ SubSeq(arg[t], 1, k) \in UnitSeq /\ Len(SubSeq(arg[t], 1, k)) = k
          /\ Numbers(SubSeq(arg[t], 1, k), Stored)
      BY <3>2, <3>3, <3>4, NumbersPrefix
    <3>6. Numbers(wire', Len(got)) /\ Len(wire') = Len(wire) + k
      <4> DEFINE u == SubSeq(arg[t], 1, k)
      <4>1. wire' = wire \o u
        BY <3>1
      <4>2. u \in UnitSeq /\ Len(u) = k /\ Numbers(u, Len(got) + Len(wire))
        BY <3>3, <3>5
      <4> HIDE DEF u
      <4>3. Numbers(wire, Len(got)) /\ wire \in UnitSeq /\ Len(got) \in Int
        BY DEF Order
      <4> HIDE <1>0, <1>a, Typed
      <4> QED
        BY <4>1, <4>2, <4>3, NumbersConcat
    <3>7. Len(arg'[t]) = Len(arg[t]) - k /\ Numbers(arg'[t], Stored + k)
      BY <3>1, <3>2, <3>3, <3>4, NumbersSuffix
    <3>8. Written' = Written + k /\ Stored' = Stored + k
      <4>1. got' = got /\ outBuf' = outBuf /\ n' = n /\ k \in Nat
        BY <2>1, <3>1, <3>2
      <4>2. Len(got) \in Int /\ Len(wire) \in Int /\ Len(outBuf) \in Int /\ n \in Int
        OBVIOUS
      <4> HIDE <1>0, <1>a, Typed
      <4> QED
        BY <3>6, <4>1, <4>2 DEF Written, Stored
    <3>9. Numbers(got', 0) /\ Numbers(wire', Len(got')) /\ Numbers(outBuf', Written')
      <4>1. got' = got /\ Len(outBuf') = 0
        BY <2>1, <3>1, <3>3
      <4>2. Numbers(outBuf', Written')
        BY <4>1 DEF Numbers
      <4> QED
        BY <3>6, <4>1, <4>2 DEF Order
    <3>10. Stored' + Len(arg'[t]) = Due'
      BY <2>1, <3>2, <3>3, <3>4, <3>7, <3>8
    <3>11. CASE k = Len(arg[t])
      <4>1. ~Unsent(t)' /\ pc'[t] \notin SendPc
        BY <3>1, <3>11 DEF Unsent
      <4>2. Len(arg'[t]) = 0 /\ Stored' = Due'
        BY <3>2, <3>3, <3>7, <3>8, <3>10, <3>11
      <4> QED
        BY <2>1, <2>2, <2>3, <2>4, <2>5, <3>9, <4>1, <4>2 DEF Order
    <3>12. CASE k # Len(arg[t])
      <4>1. pc'[t] = "appendArm" /\ Unsent(t)'
        BY <3>1, <3>12 DEF Unsent
      <4>2. arg'[t] # <<>> /\ Numbers(arg'[t], Stored')
        <5>1. Len(arg'[t]) # 0
          <6>1. k \in 0..Len(arg[t]) /\ Len(arg[t]) \in Nat /\ Len(arg'[t]) = Len(arg[t]) - k
            BY <3>2, <3>7
          <6> HIDE <1>0, <1>a, Typed
          <6> QED
            BY <6>1, <3>12
        <5>2. Numbers(arg'[t], Stored + k) /\ Stored' = Stored + k
          BY <3>7, <3>8
        <5> HIDE <1>0, <1>a, Typed
        <5> QED
          BY <5>1, <5>2
      <4> QED
        BY <2>1, <2>2, <2>3, <2>4, <2>5, <3>1, <3>3, <3>9, <3>10, <4>1, <4>2 DEF Order
    <3> QED
      BY <3>11, <3>12
  <2>8. CASE SendAppend(t)
    <3>1. /\ pc[t] \in {"append", "appendArm"}
          /\ pc'[t] = IF pc[t] = "append" THEN (IF t = Loop THEN "callback" ELSE "end") ELSE "arm"
          /\ outBuf' = outBuf \o arg[t]
          /\ wire' = wire
      BY <2>8 DEF SendAppend, Return
    <3>2. Numbers(arg[t], Stored) /\ Stored + Len(arg[t]) = Due /\ arg[t] # <<>>
          /\ arg[t] \in UnitSeq
      BY <3>1 DEF Order, Unsent
    <3>3. Written \in Int /\ Stored = Written + Len(outBuf) /\ Numbers(outBuf, Written) /\ Written' = Written
      BY <2>1, <3>1 DEF Order, Stored, Written
    <3>4. Numbers(outBuf', Written) /\ Len(outBuf') = Len(outBuf) + Len(arg[t])
      BY <3>1, <3>2, <3>3, NumbersConcat
    <3>5. outBuf' # <<>> /\ Stored' = Stored + Len(arg[t])
      BY <3>2, <3>3, <3>4 DEF Stored
    <3>6. ~Unsent(t)' /\ pc'[t] \notin {"append", "armCtl", "write", "appendArm"}
      BY <3>1 DEF Unsent
    <3>7. Numbers(got', 0) /\ Numbers(wire', Len(got')) /\ Numbers(outBuf', Written') /\ Stored' = Due'
      BY <2>1, <3>1, <3>2, <3>3, <3>4, <3>5 DEF Order
    <3> QED
      BY <2>1, <2>2, <2>3, <2>4, <2>5, <3>5, <3>6, <3>7 DEF Order
  <2>9. CASE Arm(t) \/ ArmUpdate(t)
    <3>1. /\ pc[t] \in {"arm", "armCtl"}
          /\ pc'[t] \in {"armCtl", "callback", "end"}
          /\ UNCHANGED <<wire, outBuf, arg>>
      BY <2>9 DEF Arm, ArmUpdate, Return
    <3>2. Written' = Written /\ Stored' = Stored
      BY <2>1, <3>1 DEF Written, Stored
    <3>3. ~Unsent(t) /\ ~Unsent(t)' /\ pc'[t] \notin {"write", "append", "appendArm", "arm"}
      BY <3>1 DEF Unsent
    <3>4. Numbers(got', 0) /\ Numbers(wire', Len(got')) /\ Numbers(outBuf', Written') /\ Stored' = Due'
      BY <2>1, <2>2, <3>1, <3>2, <3>3 DEF Order
    <3>5. outBuf' # <<>>
      BY <3>1 DEF Order
    <3> QED
      BY <2>1, <2>2, <2>3, <2>4, <2>5, <3>3, <3>4, <3>5 DEF Order
  <2> QED
    BY <1>13, <2>6, <2>7, <2>8, <2>9 DEF SendInLoop
<1>14. ASSUME NEW t \in Thread, Disarm(t) \/ DisarmUpdate(t) PROVE Order'
  <2>1. pc[t] \in {"disarm", "disarmCtl"} /\ UNCHANGED <<wire, outBuf, arg>>
    BY <1>14 DEF Disarm, DisarmUpdate
  <2>2. pc'[t] \notin SendPc \cup {"flushed"} /\ \A u \in Thread : u # t => pc'[u] = pc[u]
    BY <1>14, <2>1, SendMoves
  <2> QED
    BY <1>14, <2>1, <2>2, SendMoves, QueueKept, OrderKept DEF Order
<1>15. ASSUME NEW w \in Worker, StartTask(w) PROVE Order'
  <2>1. Pool!Take(w) /\ pc[w] = "idle" /\ w \in Thread /\ w # Loop
    BY <1>15 DEF StartTask, Pool!Take, Matched
  <2>2. Head(queue) \in Task /\ Queued(Head(queue)) /\ (\A x : Queued(x) <=> Queued(x)' \/ x = Head(queue))
        /\ (Sends(Head(queue)) => ~SendQueued')
    BY <2>1, TakeEffect DEF Tasks
  <2>3. \A u \in Thread : u # w => pc'[u] = pc[u]
    BY <1>15 DEF StartTask
  <2>4. UNCHANGED <<got, wire, outBuf, n, accepted, state, inq, asked>>
    BY <1>15 DEF StartTask
  <2>5. Written' = Written /\ Stored' = Stored
    BY <2>4 DEF Written, Stored
  <2>6. CASE Sends(Head(queue))
    <3>1. Head(queue) = SendTask(accepted) /\ SendQueued /\ accepted \in 1..MaxMsg
      <4>1. Head(queue) = SendTask(accepted) /\ SendQueued
        BY <2>2, <2>6 DEF Tasks, SendQueued
      <4>2. \E m \in 1..MaxMsg : Head(queue) = SendTask(m)
        BY <2>2, <2>6 DEF Task, Sends
      <4> QED
        BY <4>1, <4>2 DEF SendTask
    <3>2. pc' = [pc EXCEPT ![w] = "test"] /\ arg' = [arg EXCEPT ![w] = Units(accepted)]
      BY <1>15, <3>1 DEF StartTask, SendTask
    <3>3. Stored + Size = Due
      BY <3>1 DEF Order
    <3>4. accepted - 1 \in Nat /\ accepted = (accepted - 1) + 1 /\ (accepted - 1) * Size = Stored
      <4>1. accepted - 1 \in Nat /\ accepted = (accepted - 1) + 1
        BY <3>1
      <4>2. accepted * Size = (accepted - 1) * Size + Size
        BY <4>1
      <4>4. Stored \in Nat /\ Size \in Nat
        BY Lengths
      <4> HIDE <1>0, <1>a, Typed
      <4>3. (accepted - 1) * Size \in Nat
        BY <4>1, <4>4
      <4> QED
        BY <3>3, <4>1, <4>2, <4>3, <4>4 DEF Due
    <3>5. Numbers(Units(accepted), Stored) /\ Len(Units(accepted)) = Size /\ Units(accepted) # <<>>
      BY <3>1, <3>4, UnitsAreNumbered
    <3>6. \A u \in Thread : pc[u] \notin SendPc
      BY <3>1 DEF Tasks, Sending, Busy
    <3>7. Unsent(w)' /\ \A u \in Thread : u # w => ~Unsent(u)'
      BY <2>1, <3>2, <3>6 DEF Unsent
    <3>8. Numbers(got', 0) /\ Numbers(wire', Len(got')) /\ Numbers(outBuf', Written')
      BY <2>4, <2>5 DEF Order
    <3>9. arg'[w] # <<>> /\ Numbers(arg'[w], Stored') /\ Stored' + Len(arg'[w]) = Due'
      BY <2>1, <2>4, <2>5, <3>2, <3>3, <3>5
    <3> QED
      BY <2>1, <2>2, <2>4, <2>6, <3>2, <3>6, <3>7, <3>8, <3>9 DEF Order
  <2>7. CASE ~Sends(Head(queue))
    <3>1. SendQueued' <=> SendQueued
      BY <2>2, <2>7 DEF SendQueued
    <3>2. pc'[w] \in {"disarm", "remove"} /\ arg' = arg
      BY <1>15, <2>7 DEF StartTask, Sends, ShutdownTask, RemoveTask
    <3> QED
      BY <2>1, <2>3, <2>4, <3>1, <3>2, OrderKept DEF Order
  <2> QED
    BY <2>6, <2>7
<1>16. ASSUME NEW w \in Worker, RemoveConn(w) PROVE Order'
  BY <1>16, QueueKept, OrderKept DEF Order, RemoveConn
<1>17. ASSUME NEW w \in Worker, EndTask(w) PROVE Order'
  <2>1. queue' = queue
    BY <1>17 DEF EndTask, Pool!Retire
  <2> QED
    BY <1>17, <2>1, QueueKept, OrderKept DEF Order, EndTask
<1>18. CASE UNCHANGED vars
  BY <1>18, QueueKept, OrderKept DEF Order
<1> QED
  BY <1>1, <1>2, <1>3, <1>4, <1>5, <1>6, <1>7, <1>8, <1>9, <1>10, <1>11, <1>12, <1>13, <1>14, <1>15, <1>16,
     <1>17, <1>18 DEF Next, LoopStep, WorkerStep
LEMMA InterestStep == ASSUME Before, [Next]_vars PROVE Interest'
<1>0. TypeInv
  BY DEF Before
<1> USE <1>0, Typed
    DEF Before, Interest, Balanced, Unsent, Sending, vars, peerVars, connVars, lifeVars, poolVars, Goto, SendPc
<1>1. CASE PeerAsk \/ PeerTake \/ PeerFin
  BY <1>1 DEF PeerAsk, PeerTake, PeerFin
<1>2. CASE Poll \/ EndCallback \/ EndEvent
  BY <1>2 DEF Poll, EndCallback, EndEvent
<1>3. CASE HandleRead
  <2>1. \A w \in Worker : ~Sending(w)
    BY <1>3, ReadEffect DEF Tasks, Busy
  <2>2. UNCHANGED <<state, outBuf, events, armed, closing>> /\ pc[Loop] = "event"
        /\ pc'[Loop] \in {"callback", "test"} /\ \A w \in Worker : pc'[w] = pc[w]
    BY <1>3, ReadEffect
  <2>3. ~closing' /\ state' = "connected" => Balanced'
    BY <2>1, <2>2
  <2>4. \A t \in Thread : pc'[t] \notin {"arm", "armCtl"}
    BY <2>1, <2>2
  <2>5. pc'[Loop] \notin {"disarm", "disarmCtl"}
    BY <2>2
  <2> QED
    BY <2>3, <2>4, <2>5
<1>4. CASE Shutdown \/ HandleClose
  BY <1>4 DEF Shutdown, HandleClose
<1>5. CASE CloseUpdate
  BY <1>5 DEF CloseUpdate, Life
<1>6. CASE HandleWrite
  BY <1>6 DEF HandleWrite
<1>7. CASE Erase
  <2>1. (\A w \in Worker : ~Sending(w)) /\ outBuf # <<>>
    BY <1>7 DEF Erase, Tasks, Busy, Order
  <2> QED
    BY <1>7, <2>1 DEF Erase
<1>8. ASSUME NEW t \in Thread, SendInLoop(t) PROVE Interest'
  <2>1. /\ pc[t] \in SendPc
        /\ \A u \in Thread : u # t => pc'[u] = pc[u] /\ pc[u] \notin SendPc
        /\ state' = state /\ closing' = closing
    BY <1>8, SendMoves DEF SendInLoop, SendTest, SendWrite, SendAppend, Arm, ArmUpdate, Tasks
  <2>2. pc[Loop] \notin {"disarm", "disarmCtl", "flushed"} /\ pc'[Loop] \notin {"disarm", "disarmCtl", "flushed"}
    BY <1>8, <2>1, SendMoves DEF Tasks, Busy
  <2>3. CASE SendTest(t)
    BY <2>1, <2>2, <2>3 DEF SendTest
  <2>4. CASE SendWrite(t)
    <3>1. pc[t] = "write" /\ pc'[t] \in {"callback", "end", "appendArm"} /\ UNCHANGED <<outBuf, events, armed>>
      BY <2>4 DEF SendWrite, Return
    <3>2. ~closing' /\ state' = "connected" => Balanced'
      BY <2>1, <3>1
    <3>3. \A u \in Thread : pc'[u] \notin {"arm", "armCtl"}
      BY <2>1, <3>1
    <3> HIDE <1>0, Typed DEF Balanced, Unsent, Sending
    <3> QED
      BY <2>2, <3>2, <3>3 DEF Interest
  <2>5. CASE SendAppend(t)
    <3>1. pc[t] = "append" => outBuf # <<>>
      BY DEF Order
    <3>2. pc[t] = "appendArm" => outBuf = <<>>
      BY DEF Order
    <3>3. outBuf' # <<>>
      <4>1. arg[t] # <<>> /\ arg[t] \in UnitSeq
        BY <2>5 DEF SendAppend, Order
      <4>2. outBuf' = outBuf \o arg[t]
        BY <2>5 DEF SendAppend
      <4> QED
        BY <4>1, <4>2 DEF UnitSeq
    <3> QED
      BY <2>1, <2>2, <2>5, <3>1, <3>2, <3>3 DEF SendAppend, Return
  <2>6. CASE Arm(t)
    BY <2>1, <2>2, <2>6 DEF Arm
  <2>7. CASE ArmUpdate(t)
    <3>1. outBuf # <<>>
      BY <2>7 DEF ArmUpdate, Order
    <3> QED
      BY <2>1, <2>2, <2>7, <3>1 DEF ArmUpdate, Return
  <2> QED
    BY <1>8, <2>3, <2>4, <2>5, <2>6, <2>7 DEF SendInLoop
<1>9. ASSUME NEW t \in Thread, Disarm(t) \/ DisarmUpdate(t) PROVE Interest'
  <2>1. CASE t # Loop
    <3>1. closing'
      BY <1>9, <2>1 DEF Disarm, DisarmUpdate, Tasks
    <3> QED
      BY <3>1
  <2>2. CASE t = Loop
    <3>1. \A u \in Thread : ~Sending(u)
      BY <1>9, <2>2 DEF Disarm, DisarmUpdate, Tasks, Busy
    <3> QED
      BY <1>9, <2>2, <3>1 DEF Disarm, DisarmUpdate
  <2> QED
    BY <2>1, <2>2
<1>10. ASSUME NEW w \in Worker, StartTask(w) PROVE Interest'
  <2>1. Pool!Take(w) /\ pc[w] = "idle"
    BY <1>10 DEF StartTask, Pool!Take, Matched
  <2>2. Head(queue) \in Task /\ Queued(Head(queue))
    BY <2>1, TakeEffect DEF Tasks
  <2>3. \A u \in Thread : u # w => pc'[u] = pc[u]
    BY <1>10 DEF StartTask
  <2>4. UNCHANGED <<events, armed, outBuf, state, closing>>
    BY <1>10 DEF StartTask
  <2>5. CASE Sends(Head(queue))
    <3>1. (\A u \in Worker : ~Sending(u)) /\ pc[Loop] \in {"poll", "event", "callback"}
      BY <2>2, <2>5 DEF Tasks, Busy, SendQueued
    <3>2. pc'[w] = "test"
      BY <1>10, <2>2, <2>5 DEF StartTask, Sends, Task, SendTask
    <3> QED
      BY <2>3, <2>4, <3>1, <3>2
  <2>6. CASE ~Sends(Head(queue))
    <3>1. pc'[w] \in {"disarm", "remove"}
      BY <1>10, <2>6 DEF StartTask, Sends, ShutdownTask, RemoveTask
    <3> QED
      BY <2>1, <2>3, <2>4, <3>1
  <2> QED
    BY <2>5, <2>6
<1>11. ASSUME NEW w \in Worker, RemoveConn(w) \/ EndTask(w) PROVE Interest'
  BY <1>11 DEF RemoveConn, EndTask
<1>12. CASE UNCHANGED vars
  BY <1>12
<1> QED
  BY <1>1, <1>2, <1>3, <1>4, <1>5, <1>6, <1>7, <1>8, <1>9, <1>10, <1>11, <1>12 DEF Next, LoopStep, WorkerStep

(* A peer that has its answers, counted in messages, has all of their units. *)
LEMMA AnsweredIsDelivered ==
    ASSUME Before
    PROVE  /\ Answered \in Nat /\ Answered <= accepted
           /\ Answered = accepted => Len(got) = Due
<1>1. Len(got) \in Nat /\ accepted \in Nat /\ Size \in Nat \ {0} /\ Len(got) <= accepted * Size
  BY Lengths, Typed DEF Before, Due
<1> QED
  BY <1>1 DEF Answered, Due

LEMMA OneAtATimeStep == ASSUME Before, [Next]_vars PROVE OneAtATime'
<1>0. TypeInv
  BY DEF Before
<1>a. accepted' = accepted => Due' = Due
  BY DEF Due
<1> SUFFICES ASSUME ~use.inline' PROVE OneAtATime'
  BY DEF OneAtATime
<1>b. use' = use /\ ~use.inline
  BY DEF Next, LoopStep, WorkerStep, SendInLoop, PeerAsk, PeerTake, PeerFin, Poll, HandleRead, Shutdown, EndCallback,
         HandleClose, CloseUpdate, HandleWrite, Erase, EndEvent, SendTest, SendWrite, SendAppend, Arm, ArmUpdate,
         Disarm, DisarmUpdate, StartTask, RemoveConn, EndTask, vars, peerVars
<1> USE <1>0, <1>a, <1>b, Typed
    DEF Before, OneAtATime, Sending, vars, peerVars, connVars, lifeVars, poolVars, Goto, SendPc
<1>1. CASE PeerAsk
  <2>1. state = "connected" /\ accepted + inq = asked
    BY <1>1 DEF PeerAsk, Life, Order, TypeInv, TypeOK
  <2>2. asked <= Answered
    <3>1. use.window = 1 /\ asked < Answered + use.window
      BY <1>1 DEF PeerAsk, Serial
    <3>2. Answered \in Nat
      BY AnsweredIsDelivered
    <3> QED
      BY <3>1, <3>2
  <2>3. inq = 0 /\ Len(got) = Due
    <3>1. inq \in Nat /\ accepted \in Nat
      OBVIOUS
    <3> HIDE <1>0, <1>a, <1>b, Typed
    <3> QED
      BY <2>1, <2>2, <3>1, AnsweredIsDelivered
  <2> QED
    BY <1>1, <2>3, QueueKept DEF PeerAsk
<1>2. CASE PeerTake
  <2>1. Len(got) < Due
    <3>1. wire # <<>>
      BY <1>2 DEF PeerTake
    <3> HIDE <1>0, <1>a, <1>b, Typed
    <3> QED
      BY <3>1, Lengths
  <2>2. inq = 0 /\ ~fin
    BY <2>1
  <2> QED
    BY <1>2, <2>2, QueueKept DEF PeerTake
<1>3. CASE PeerFin
  <2>1. state = "connected" /\ accepted + inq = asked
    BY <1>3 DEF PeerFin, Life, Order, TypeInv, TypeOK
  <2>2. asked = Answered
    BY <1>3 DEF PeerFin, Serial
  <2>3. inq = 0 /\ Len(got) = Due
    BY <2>1, <2>2, AnsweredIsDelivered
  <2> QED
    BY <1>3, <2>3, QueueKept DEF PeerFin
<1>4. CASE Poll
  <2>1. rev' \subseteq armed /\ ("IN" \in rev' => inq > 0 \/ fin)
    BY <1>4 DEF Poll, Report
  <2>2. ASSUME "IN" \in rev' PROVE "OUT" \notin rev'
    <3>1. Len(got) = Due
      BY <2>1, <2>2
    <3>2. outBuf = <<>>
      BY <1>4, <3>1, Lengths DEF Poll, Order, Stored, Written
    <3>3. ~Busy
      BY <3>1, BusyIsUndelivered, Lengths
    <3>4. state = "connected" => Balanced
      BY <1>4, <3>3 DEF Poll, Interest, Busy, Tasks, Serial
    <3>5. "OUT" \notin armed
      BY <1>4, <3>2, <3>4 DEF Poll, Balanced, TypeInv, TypeOK
    <3> QED
      BY <2>1, <3>5
  <2> QED
    BY <1>4, <2>1, <2>2, QueueKept DEF Poll
<1>5. CASE HandleRead
  <2>1. /\ inq' = 0 /\ ~fin' /\ state' = "connected"
        /\ "IN" \notin rev' /\ UNCHANGED <<events, armed, outBuf>> /\ n = 0 /\ Len(got) = Due
        /\ \A w \in Worker : pc'[w] = pc[w] /\ pc[w] \notin SendPc
    BY <1>5, ReadEffect DEF Tasks, Busy, Order, Life, TypeInv, TypeOK
  <2>2. outBuf = <<>>
    <3>1. Stored <= Due /\ Len(got) + Len(wire) + Len(outBuf) = Stored
      BY <2>1, Lengths DEF Stored, Written
    <3>2. Len(outBuf) = 0
      BY <2>1, <3>1
    <3> QED
      BY <3>2
  <2> QED
    BY <2>1, <2>2
<1>6. CASE Shutdown
  BY <1>6 DEF Shutdown, Serial
<1>7. CASE EndCallback
  BY <1>7, QueueKept DEF EndCallback
<1>8. CASE HandleClose
  <2>1. \A w \in Worker : pc[w] \notin SendPc
    BY <1>8 DEF HandleClose, Tasks, Busy
  <2> QED
    BY <1>8, <2>1, QueueKept DEF HandleClose
<1>9. CASE CloseUpdate
  <2>1. ~Busy
    BY <1>9 DEF CloseUpdate, Tasks
  <2>2. RemoveTask \in Task /\ ~Sends(RemoveTask)
    BY DEF Task, Sends
  <2>3. ~SendQueued'
    BY <1>9, <2>1, <2>2, PutEffect DEF CloseUpdate, Busy
  <2>4. state = "disconnected" /\ fin
    BY <1>9 DEF CloseUpdate, Life
  <2> QED
    BY <1>9, <2>1, <2>3, <2>4 DEF CloseUpdate, Busy
<1>10. CASE HandleWrite
  BY <1>10, QueueKept DEF HandleWrite
<1>11. CASE Erase
  <2>1. ~Busy
    BY <1>11 DEF Erase, Tasks
  <2> QED
    BY <1>11, <2>1, QueueKept DEF Erase, Busy
<1>12. CASE EndEvent
  BY <1>12, QueueKept DEF EndEvent
<1>13. ASSUME NEW t \in Thread, SendInLoop(t) PROVE OneAtATime'
  <2>1. pc[t] \in SendPc /\ t \in Worker
    BY <1>13 DEF SendInLoop, SendTest, SendWrite, SendAppend, Arm, ArmUpdate, Tasks
  <2>2. Busy /\ ~SendQueued /\ \A u \in Thread : u # t => pc[u] \notin SendPc
    BY <2>1 DEF Tasks, Busy
  <2>3. Len(got) < Due /\ inq = 0 /\ ~fin /\ state = "connected"
    BY <2>2, BusyIsUndelivered
  <2>4. UNCHANGED <<got, inq, fin, state, rev, accepted, queue>> /\ \A u \in Thread : u # t => pc'[u] = pc[u]
    BY <1>13, SendMoves
  <2>5. pc'[t] \notin {"test", "append"}
    BY <1>13, <2>1 DEF SendInLoop, SendTest, SendWrite, SendAppend, Arm, ArmUpdate, Return
  <2>6. ~SendQueued' /\ rev = {}
    BY <2>2, <2>4, QueueKept DEF Tasks
  <2>7. \A w \in Worker : pc'[w] \notin {"test", "append"}
    BY <2>2, <2>4, <2>5
  <2> QED
    BY <2>3, <2>4, <2>6, <2>7
<1>14. ASSUME NEW t \in Thread, Disarm(t) \/ DisarmUpdate(t) PROVE OneAtATime'
  <2>1. /\ UNCHANGED <<got, inq, fin, state, rev, accepted, queue, outBuf>>
        /\ pc[t] \in {"disarm", "disarmCtl"} /\ pc'[t] \notin SendPc
        /\ \A u \in Thread : u # t => pc'[u] = pc[u]
    BY <1>14, SendMoves DEF Disarm, DisarmUpdate
  <2>2. t = Loop
    BY <2>1 DEF Tasks, Serial
  <2>3. state = "disconnected" => events' = {} /\ armed' = {}
    BY <1>14, <2>1, <2>2 DEF Disarm, DisarmUpdate
  <2> QED
    BY <2>1, <2>2, <2>3, QueueKept
<1>15. ASSUME NEW w \in Worker, StartTask(w) PROVE OneAtATime'
  <2>1. Pool!Take(w)
    BY <1>15 DEF StartTask
  <2>2. Head(queue) \in Task /\ Queued(Head(queue)) /\ (\A x : Queued(x)' => Queued(x))
    BY <2>1, TakeEffect DEF Tasks
  <2>3. UNCHANGED <<got, inq, fin, state, rev, accepted, outBuf, events, armed>>
        /\ \A u \in Thread : u # w => pc'[u] = pc[u]
    BY <1>15 DEF StartTask
  <2>4. pc'[w] \in {"test", "disarm", "remove"} /\ (pc'[w] = "test" => Sends(Head(queue)))
    BY <1>15, <2>2 DEF StartTask, Sends, ShutdownTask, RemoveTask
  <2>5. (pc'[w] = "test" => SendQueued) /\ (SendQueued' => SendQueued)
    BY <2>2, <2>4 DEF SendQueued
  <2> QED
    BY <2>3, <2>4, <2>5
<1>16. ASSUME NEW w \in Worker, RemoveConn(w) PROVE OneAtATime'
  BY <1>16, QueueKept DEF RemoveConn
<1>17. ASSUME NEW w \in Worker, EndTask(w) PROVE OneAtATime'
  <2>1. queue' = queue
    BY <1>17 DEF EndTask, Pool!Retire
  <2> QED
    BY <1>17, <2>1, QueueKept DEF EndTask
<1>18. CASE UNCHANGED vars
  BY <1>18, QueueKept
<1> QED
  BY <1>1, <1>2, <1>3, <1>4, <1>5, <1>6, <1>7, <1>8, <1>9, <1>10, <1>11, <1>12, <1>13, <1>14, <1>15, <1>16,
     <1>17, <1>18 DEF Next, LoopStep, WorkerStep
-----------------------------------------------------------------------------
LEMMA IInvInit == Init => IInv
<1> SUFFICES ASSUME Init PROVE IInv
  OBVIOUS
<1>1. TypeInv
  BY TypeInvInit
<1>2. Loop \in Thread /\ pc[Loop] = "poll" /\ \A w \in Worker : w \in Thread /\ pc[w] = "idle"
  BY ThreadsAreDistinct DEF Init, Thread
<1>3. \A t \in Thread : pc[t] \in {"poll", "idle"}
  BY <1>2 DEF Init
<1>4. (\A x : ~Queued(x)) /\ ~SendQueued /\ OneSend
  BY DEF Init, Queued, SendQueued, OneSend
<1>5. Matched
  BY <1>2 DEF Matched
<1>6. Tasks
  BY <1>2, <1>3, <1>4 DEF Init, Tasks, Busy, Sending, SendPc
<1>7. Life
  BY <1>2, <1>4 DEF Init, Life
<1>8. Order
  <2>1. Size \in Nat /\ Due = 0 /\ Written = 0 /\ Stored = 0
    BY SizesAreNat DEF Init, Due, Written, Stored
  <2>2. Numbers(got, 0) /\ Numbers(wire, Len(got)) /\ Numbers(outBuf, Written)
    BY DEF Init, Numbers
  <2> QED
    BY <1>2, <1>3, <1>4, <2>1, <2>2 DEF Init, Order, Unsent
<1>9. Interest
  BY <1>2, <1>3 DEF Init, Interest, Balanced, Unsent
<1>10. OneAtATime
  <2>1. Due = 0
    BY SizesAreNat DEF Init, Due
  <2> QED
    BY <1>2, <1>4, <2>1 DEF Init, OneAtATime
<1> QED
  BY <1>1, <1>5, <1>6, <1>7, <1>8, <1>9, <1>10 DEF IInv, SerialInv

LEMMA UseIsKept == [Next]_vars => use' = use
BY DEF Next, LoopStep, WorkerStep, SendInLoop, PeerAsk, PeerTake, PeerFin, Poll, HandleRead, Shutdown, EndCallback,
       HandleClose, CloseUpdate, HandleWrite, Erase, EndEvent, SendTest, SendWrite, SendAppend, Arm, ArmUpdate,
       Disarm, DisarmUpdate, StartTask, RemoveConn, EndTask, vars, peerVars

LEMMA IInvStep == IInv /\ [Next]_vars => IInv'
<1> SUFFICES ASSUME IInv, [Next]_vars PROVE IInv'
  OBVIOUS
<1>1. TypeInv' /\ Matched'
  BY TypeInvStep, MatchedStep DEF IInv
<1>2. ASSUME Serial' PROVE SerialInv'
  <2>1. Serial
    BY <1>2, UseIsKept DEF Serial
  <2>2. Before
    BY <2>1 DEF IInv, SerialInv, Before
  <2> QED
    BY <2>2, TasksStep, LifeStep, OrderStep, InterestStep, OneAtATimeStep DEF SerialInv
<1> QED
  BY <1>1, <1>2 DEF IInv

LEMMA Invariance == Spec => []IInv
BY IInvInit, IInvStep, PTL DEF Spec
-----------------------------------------------------------------------------
(* Every variable keeps its type, in every use of a connection. *)
THEOREM TypeCorrect == Spec => []TypeOK
<1>1. IInv => TypeOK
  BY DEF IInv, TypeInv
<1> QED
  BY <1>1, Invariance, PTL

(* In a serial use no two threads are at outBuf_, or at the mask of events,  *)
(* with one of them about to change it, although neither has a lock.        *)
THEOREM SerialNoRace == Spec => [](Serial => NoRace)
<1>1. ASSUME IInv, Serial PROVE NoRace
  <2> DEFINE Access(t) == ReadsOutBuf(t) \/ WritesOutBuf(t) \/ ReadsEvents(t) \/ WritesEvents(t)
  <2>1. Tasks /\ Loop \in Thread /\ \A t \in Thread : t = Loop \/ t \in Worker
    BY <1>1 DEF IInv, SerialInv, Thread
  <2>2. pc[Loop] \in LoopPc \cup SendPc
        /\ \A w \in Worker : pc[w] \in SendPc \cup {"idle", "disarm", "disarmCtl", "remove", "end"}
    BY <1>1 DEF IInv, TypeInv, TypeOK
  <2>3. ASSUME ~closing, NEW w \in Worker, Access(w) PROVE Sending(w) /\ Busy
    <3>1. pc[w] \notin {"disarm", "disarmCtl", "closeCtl", "event", "flushed"}
      BY <2>1, <2>2, <2>3 DEF Tasks, SendPc
    <3>2. w # Loop
      BY ThreadsAreDistinct
    <3> QED
      BY <2>3, <3>1, <3>2 DEF ReadsOutBuf, WritesOutBuf, ReadsEvents, WritesEvents, Sending, Busy, SendPc
  <2>4. ASSUME Busy PROVE ~Access(Loop)
    BY <2>1, <2>4 DEF Tasks, ReadsOutBuf, WritesOutBuf, ReadsEvents, WritesEvents
  <2>5. ASSUME ~closing, NEW t \in Thread, NEW u \in Thread, t # u, Access(t) PROVE ~Access(u)
    <3>1. CASE t \in Worker
      BY <2>1, <2>3, <2>4, <2>5, <3>1 DEF Tasks
    <3>2. CASE t = Loop
      BY <2>1, <2>3, <2>4, <2>5, <3>2
    <3> QED
      BY <2>1, <3>1, <3>2
  <2> QED
    BY <2>5 DEF NoRace
<1> QED
  BY <1>1, Invariance, PTL

(* In a serial use, and until shutdown(), epoll watches for writability      *)
(* between the operations exactly when outBuf_ holds something.             *)
THEOREM SerialInterest == Spec => [](Serial => InterestMatchesBuffer)
<1>1. ASSUME IInv, Serial PROVE InterestMatchesBuffer
  <2> SUFFICES ASSUME Quiet, state = "connected", ~closing PROVE ("OUT" \in armed) <=> (outBuf # <<>>)
    BY DEF InterestMatchesBuffer
  <2>1. \A w \in Worker : ~Sending(w)
    BY <1>1 DEF Quiet, IInv, Matched, Sending, SendPc
  <2> QED
    BY <1>1, <2>1 DEF Quiet, IInv, SerialInv, Interest, Balanced
<1> QED
  BY <1>1, Invariance, PTL

(* A peer that ends its stream when it has its answers has all their units. *)
EndedIsAnswered == fin /\ use.ends = "answered" => asked * Size <= Len(got)

LEMMA EndedIsAnsweredStep == ASSUME TypeInv, EndedIsAnswered, [Next]_vars PROVE EndedIsAnswered'
<1>0. asked \in Nat /\ Size \in Nat \ {0} /\ got \in UnitSeq /\ Len(got) \in Nat /\ use' = use
  BY SizesAreNat, UseIsKept DEF TypeInv, TypeOK, UnitSeq, Unit
<1>1. CASE PeerAsk
  BY <1>1 DEF PeerAsk, EndedIsAnswered
<1>2. CASE PeerTake
  <2>1. wire \in UnitSeq /\ wire # <<>> /\ got' = Append(got, Head(wire)) /\ UNCHANGED <<asked, fin>>
    BY <1>2 DEF PeerTake, TypeInv, TypeOK, UnitSeq, Unit
  <2>2. Len(got') = Len(got) + 1
    BY <1>0, <2>1 DEF UnitSeq
  <2>3. asked * Size \in Nat
    BY <1>0
  <2> QED
    BY <1>0, <2>1, <2>2, <2>3 DEF EndedIsAnswered
<1>3. CASE PeerFin
  <2>1. use.ends = "answered" => Len(got) \div Size = asked
    BY <1>3 DEF PeerFin, Answered
  <2>2. Len(got) \div Size = asked => asked * Size <= Len(got)
    BY <1>0
  <2> QED
    BY <1>0, <1>3, <2>1, <2>2 DEF PeerFin, EndedIsAnswered
<1>4. CASE UNCHANGED <<asked, fin, got>>
  BY <1>0, <1>4 DEF EndedIsAnswered
<1>5. PeerAsk \/ PeerTake \/ PeerFin \/ UNCHANGED <<asked, fin, got>>
  BY DEF Next, LoopStep, WorkerStep, SendInLoop, Poll, HandleRead, Shutdown, EndCallback,
         HandleClose, CloseUpdate, HandleWrite, Erase, EndEvent, SendTest, SendWrite, SendAppend, Arm, ArmUpdate,
         Disarm, DisarmUpdate, StartTask, RemoveConn, EndTask, vars, peerVars
<1> QED
  BY <1>1, <1>2, <1>3, <1>4, <1>5

(* In a serial use nothing is stranded: until the peer has its units, or     *)
(* they are cut off, some step of the peer or of the server is still due    *)
(* that brings them nearer.  It is what the liveness of Stream rests on.    *)
THEOREM SerialNothingStranded == Spec => [](Serial => NothingStranded)
<1>1. ASSUME IInv, EndedIsAnswered, Serial PROVE NothingStranded
  <2> SUFFICES ASSUME ~Cut, Len(got) < Due, wire = <<>>,
                      \A i \in DOMAIN queue : queue[i] \in {ShutdownTask, RemoveTask},
                      \A t \in Thread : pc[t] \notin SendPc,
                      pc[Loop] # "flushed"
               PROVE  "OUT" \in armed /\ Room > 0
    BY DEF NothingStranded, Due
  <2>0. Before /\ Loop \in Thread /\ pc[Loop] \in LoopPc
    BY <1>1 DEF IInv, SerialInv, Before, Thread, TypeInv, TypeOK
  <2>1. Room > 0
    BY SizesAreNat DEF Room
  <2>2. outBuf # <<>>
    <3>1. ~SendQueued /\ n = 0 /\ \A t \in Thread : ~Unsent(t)
      BY <2>0 DEF Before, SendQueued, Queued, Sends, Unsent, SendPc, Order
    <3>2. Stored = Due /\ Stored = Len(got) + Len(outBuf)
      BY <2>0, <3>1, Typed DEF Before, Order, Stored, Written
    <3> QED
      BY <2>0, <3>2, Typed DEF Before
  <2>3. state = "connected"
    <3> SUFFICES ASSUME state = "disconnected" PROVE FALSE
      BY <2>0 DEF Before, TypeInv, TypeOK
    <3>1. fin /\ use.ends = "answered"
      BY <2>0, ScenarioIsUses DEF Before, Life, Cut, TypeInv, TypeOK, Uses
    <3>2. asked * Size <= Len(got)
      BY <1>1, <3>1 DEF EndedIsAnswered
    <3>3. asked \in Nat /\ accepted \in Nat /\ accepted <= asked /\ Size \in Nat /\ Len(got) \in Nat
      BY <2>0, SizesAreNat, Typed DEF Before, TypeInv, TypeOK, Control
    <3>4. accepted * Size <= asked * Size
      BY <3>3
    <3> QED
      BY <3>2, <3>3, <3>4 DEF Due
  <2>4. ~closing /\ \A w \in Worker : ~Sending(w)
    BY DEF Cut, Sending, Thread
  <2>5. pc[Loop] \in {"poll", "event", "callback"}
    BY <2>0, <2>2, <2>3, <2>4 DEF Before, Interest, Life, LoopPc
  <2> QED
    BY <2>0, <2>1, <2>2, <2>3, <2>4, <2>5 DEF Before, Interest, Balanced
<1>2. Init => EndedIsAnswered
  BY DEF Init, EndedIsAnswered
<1>3. IInv /\ EndedIsAnswered /\ [Next]_vars => EndedIsAnswered'
  BY EndedIsAnsweredStep DEF IInv
<1> QED
  BY <1>1, <1>2, <1>3, Invariance, PTL DEF Spec

(* In a serial use the raw this of a queued task is used only while the      *)
(* connection exists.                                                       *)
THEOREM SerialUsedIsLive == Spec => [](Serial => UsedIsLive)
<1>1. ASSUME IInv, Serial PROVE UsedIsLive
  <2> SUFFICES ASSUME NEW t \in Thread, pc[t] \in SendPc \cup {"disarm", "disarmCtl"} PROVE alive
    BY DEF UsedIsLive
  <2>0. Before
    BY <1>1 DEF IInv, SerialInv, Before
  <2>1. CASE t = Loop
    BY <2>0, <2>1 DEF Before, Life, SendPc
  <2>2. CASE t \in Worker /\ Sending(t)
    <3>1. ~use.inline /\ Busy
      BY <2>0, <2>2 DEF Before, Tasks, Busy
    <3>2. state = "connected"
      BY <2>0, <3>1, BusyIsUndelivered
    <3> QED
      BY <2>0, <3>2 DEF Before, Life
  <2>3. CASE t \in Worker /\ pc[t] \in {"disarm", "disarmCtl"}
    <3>1. use.ends = "never"
      BY <2>0, <2>3 DEF Before, Tasks, Serial
    <3>2. state = "connected"
      BY <2>0, <3>1 DEF Before, Life, TypeInv, TypeOK
    <3> QED
      BY <2>0, <3>2 DEF Before, Life
  <2> QED
    BY <2>1, <2>2, <2>3 DEF Thread, Sending
<1> QED
  BY <1>1, Invariance, PTL

(* In a serial use the peer receives the units of the accepted messages in   *)
(* the order of the calls of send, none twice, none left out: the safety     *)
(* part of OutputStream.                                                    *)
THEOREM SerialIsOutputStream == Spec /\ Serial => Stream!SafeSpec
<1>1. Init => Stream!Init
  BY DEF Init, Stream!Init
<1>2. ASSUME IInv, Serial, [Next]_vars PROVE [Stream!Accept \/ Stream!Deliver]_(Stream!vars)
  <2>0. Before
    BY <1>2 DEF IInv, SerialInv, Before
  <2>1. CASE PeerTake
    <3>1. got' = Append(got, Head(wire)) /\ wire # <<>> /\ accepted' = accepted
      BY <2>1 DEF PeerTake
    <3>2. Head(wire) = Len(got) + 1
      BY <2>0, <3>1, Typed, NumbersMove DEF Before, Order
    <3>3. Len(got) < accepted * Size
      BY <2>0, <3>1, Lengths DEF Due
    <3> QED
      BY <3>1, <3>2, <3>3 DEF Stream!Deliver
  <2>2. CASE HandleRead
    BY <2>0, <2>2, ReadEffect DEF Before, Stream!Accept, Stream!vars
  <2>3. CASE UNCHANGED <<got, accepted>>
    BY <2>3 DEF Stream!vars
  <2>4. PeerTake \/ HandleRead \/ UNCHANGED <<got, accepted>>
    BY <1>2
       DEF Next, LoopStep, WorkerStep, SendInLoop, PeerAsk, PeerFin, Poll, Shutdown, EndCallback,
           HandleClose, CloseUpdate, HandleWrite, Erase, EndEvent, SendTest, SendWrite, SendAppend, Arm, ArmUpdate,
           Disarm, DisarmUpdate, StartTask, RemoveConn, EndTask, vars, peerVars
  <2> QED
    BY <2>1, <2>2, <2>3, <2>4
<1>3. Serial /\ [Next]_vars => Serial'
  BY UseIsKept DEF Serial
<1> QED
  BY <1>1, <1>2, <1>3, Invariance, PTL DEF Spec, Stream!SafeSpec
=============================================================================
