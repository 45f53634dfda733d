------------------------- MODULE RfPacketSocketProofs -------------------------
(***************************************************************************)
(* Theorems about RfPacketSocket for any number of senders, calls and      *)
(* interrupts.                                                             *)
(***************************************************************************)
EXTENDS RfPacketSocket, TLAPS

-----------------------------------------------------------------------------
(* Queues. *)

LEMMA AppendFacts ==
    ASSUME NEW S, NEW q \in Seq(S), NEW e \in S
    PROVE  /\ Append(q, e) \in Seq(S)
           /\ Len(q) \in Nat /\ Len(Append(q, e)) = Len(q) + 1
           /\ DOMAIN q = 1 .. Len(q) /\ DOMAIN Append(q, e) = 1 .. Len(q) + 1
           /\ \A i \in 1 .. Len(q) : Append(q, e)[i] = q[i]
           /\ Append(q, e)[Len(q) + 1] = e
OBVIOUS

LEMMA TailFacts ==
    ASSUME NEW S, NEW q \in Seq(S), q # <<>>
    PROVE  /\ Head(q) \in S /\ Head(q) = q[1] /\ 1 \in DOMAIN q
           /\ Tail(q) \in Seq(S)
           /\ Len(q) \in Nat \ {0} /\ Len(Tail(q)) = Len(q) - 1
           /\ DOMAIN q = 1 .. Len(q) /\ DOMAIN Tail(q) = 1 .. Len(q) - 1
           /\ \A i \in 1 .. Len(q) - 1 : Tail(q)[i] = q[i + 1]
OBVIOUS

-----------------------------------------------------------------------------
(* Types. *)

LEMMA TaskType ==
    /\ Task("read", FALSE) \in Tasks /\ Task("quit", FALSE) \in Tasks
    /\ \A own \in BOOLEAN : Task("deliver", own) \in Tasks
BY DEF Task, Tasks

LEMMA AppendTask ==
    ASSUME NEW q \in Seq(Tasks)
    PROVE  /\ Append(q, Task("read", FALSE)) \in Seq(Tasks)
           /\ Append(q, Task("quit", FALSE)) \in Seq(Tasks)
           /\ \A own \in BOOLEAN : Append(q, Task("deliver", own)) \in Seq(Tasks)
BY TaskType, AppendFacts

LEMMA SendType == \A s \in Senders, own \in BOOLEAN : [op |-> "send", sender |-> s, own |-> own] \in Tasks
BY DEF Tasks

LEMMA ResolveType ==
    ASSUME TypeOK, NEW result \in {"true", "false", "exception"}, Resolve(result)
    PROVE  future' \in [Senders -> {"none", "pending", "true", "false", "exception"}]
BY DEF TypeOK, Resolve

LEMMA InitType == Init => TypeOK
<1> SUFFICES ASSUME Init PROVE TypeOK
  OBVIOUS
<1>1. task \in Tasks
  BY TaskType DEF Init
<1>2. mRunning \in BOOLEAN /\ deviceCallback \in BOOLEAN /\ networkCallback \in BOOLEAN
  BY DEF Init
<1>3. mQueue \in Seq(Tasks) /\ mReceivedQueue \in Seq({"packet", "close"})
  BY DEF Init
<1>4. sends \in [Senders -> 0 .. MaxSends] /\ interrupts \in 0 .. MaxInterrupts
  BY RfPacketSocketAssumption DEF Init
<1> QED
  BY <1>1, <1>2, <1>3, <1>4 DEF Init, TypeOK

\* The steps of the context by what they do to their task.
LEMMA ContextType ==
    ASSUME TypeOK, Context
    PROVE  TypeOK'
<1> USE DEF TypeOK, ContextStep, callbacks, counters
<1>1. ASSUME NEW from, NEW result \in {"true", "false", "exception"}, ContextStep(from), Finish(result)
      PROVE  TypeOK'
  BY <1>1, ResolveType DEF Finish
<1>2. ASSUME NEW from,
             NEW to \in {"callDevice", "network", "callNetwork", "push", "transmit", "ended"},
             ContextStep(from), GoTo(to)
      PROVE  TypeOK'
  BY <1>2 DEF GoTo
<1>3. CASE Pop
  <2>1. Head(mQueue) \in Tasks /\ Tail(mQueue) \in Seq(Tasks)
    BY <1>3, TailFacts DEF Pop
  <2>2. Head(mQueue).op \in {"send", "read", "deliver", "quit"}
    BY <2>1 DEF Tasks
  <2>3. step' \in {"network", "transmit", "device", "read", "quit"}
    BY <1>3, <2>2 DEF Pop
  <2> QED
    BY <1>3, <2>1, <2>3 DEF Pop
<1>4. CASE Read
  <2>1. mQueue' \in Seq(Tasks)
    BY <1>4, AppendTask DEF Read
  <2> QED
    BY <1>4, <2>1 DEF Read
<1>5. CASE TestDeviceCallback
  BY <1>5, <1>1, <1>2 DEF TestDeviceCallback
<1>6. CASE CallDeviceCallback
  BY <1>6, <1>1, <1>2 DEF CallDeviceCallback, Throw
<1>7. CASE TestNetworkCallback
  BY <1>7, <1>1, <1>2 DEF TestNetworkCallback
<1>8. CASE CallNetworkCallback
  BY <1>8, <1>1, <1>2 DEF CallNetworkCallback, Throw
<1>9. CASE OnPacketReceived
  BY <1>9, ResolveType, AppendFacts DEF OnPacketReceived
<1>10. CASE SendInternal
  BY <1>10, <1>1 DEF SendInternal
<1>11. CASE Quit
  BY <1>11 DEF Quit
<1>12. CASE EndRun
  BY <1>12, <1>2 DEF EndRun
<1> QED
  BY <1>3, <1>4, <1>5, <1>6, <1>7, <1>8, <1>9, <1>10, <1>11, <1>12 DEF Context

\* The steps of all other threads.
LEMMA OthersType ==
    ASSUME TypeOK, [Next]_vars, ~Context
    PROVE  TypeOK'
<1> USE RfPacketSocketAssumption
        DEF TypeOK, context, callbacks, counters, MainStep
<1>0. interrupts \in Nat /\ MaxInterrupts \in Nat /\ interrupts <= MaxInterrupts
  OBVIOUS
<1>1. ASSUME NEW s \in Senders, NEW own \in BOOLEAN, Send(s, own) PROVE TypeOK'
  BY <1>1, AppendFacts, SendType DEF Send
<1>2. ASSUME NEW s \in Senders, Get(s) PROVE TypeOK'
  BY <1>2 DEF Get
<1>3. CASE Interrupt
  <2>1. mQueue' \in Seq(Tasks)
    BY <1>3, AppendTask DEF Interrupt
  <2>2. interrupts' \in 0 .. MaxInterrupts
    BY <1>3, <1>0 DEF Interrupt
  <2> QED
    BY <1>3, <2>1, <2>2 DEF Interrupt
<1>4. CASE TestRunning
  BY <1>4 DEF TestRunning
<1>5. CASE Receive
  BY <1>5, TailFacts DEF Receive
<1>6. CASE Stop
  BY <1>6 DEF Stop
<1>7. CASE StopDevice
  <2>1. mQueue' \in Seq(Tasks)
    BY <1>7, AppendTask DEF StopDevice
  <2>2. interrupts' \in 0 .. MaxInterrupts
    BY <1>7, <1>0 DEF StopDevice
  <2> QED
    BY <1>7, <2>1, <2>2 DEF StopDevice
<1>8. CASE EmptyDeviceCallback("network")
  BY <1>8 DEF EmptyDeviceCallback
<1>9. CASE EmptyNetworkCallback("network", "push")
  BY <1>9 DEF EmptyNetworkCallback
<1>10. CASE Release("push", "closed")
  BY <1>10, AppendFacts DEF Release
<1>11. CASE Destroy
  BY <1>11, AppendTask DEF Destroy
<1>12. CASE Join
  BY <1>12 DEF Join
<1>13. CASE UNCHANGED vars
  BY <1>13 DEF vars
<1> QED
  BY <1>1, <1>2, <1>3, <1>4, <1>5, <1>6, <1>7, <1>8, <1>9, <1>10, <1>11, <1>12, <1>13
     DEF Next, Close

(* Every queue, place and counter is of its type.                          *)
THEOREM TypeCorrect == Spec => []TypeOK
BY InitType, ContextType, OthersType, PTL DEF Spec, Next

-----------------------------------------------------------------------------
(* The packets that tasks refer to. *)

QueuedIn(q, s) == {i \in DOMAIN q : q[i].op = "send" /\ q[i].sender = s}

AtMostOne(S) == \A i, j \in S : i = j

LEMMA QueuedAppend ==
    ASSUME NEW q \in Seq(Tasks), NEW e \in Tasks, NEW s
    PROVE  QueuedIn(Append(q, e), s)
             = IF e.op = "send" /\ e.sender = s THEN QueuedIn(q, s) \cup {Len(q) + 1}
               ELSE QueuedIn(q, s)
<1>1. /\ Len(q) \in Nat
      /\ DOMAIN q = 1 .. Len(q) /\ DOMAIN Append(q, e) = 1 .. Len(q) + 1
      /\ \A i \in 1 .. Len(q) : Append(q, e)[i] = q[i]
      /\ Append(q, e)[Len(q) + 1] = e
  BY AppendFacts
<1>2. /\ DOMAIN Append(q, e) = DOMAIN q \cup {Len(q) + 1}
      /\ Len(q) + 1 \notin DOMAIN q
  BY <1>1
<1>3. /\ \A i \in DOMAIN q : Append(q, e)[i] = q[i]
      /\ Append(q, e)[Len(q) + 1] = e
  BY <1>1
<1>4. QueuedIn(Append(q, e), s) \subseteq QueuedIn(q, s) \cup {Len(q) + 1}
  BY <1>2, <1>3 DEF QueuedIn
<1>5. QueuedIn(q, s) \subseteq QueuedIn(Append(q, e), s)
  BY <1>2, <1>3 DEF QueuedIn
<1>6. Len(q) + 1 \in QueuedIn(Append(q, e), s) <=> e.op = "send" /\ e.sender = s
  BY <1>2, <1>3 DEF QueuedIn
<1>7. CASE e.op = "send" /\ e.sender = s
  BY <1>4, <1>5, <1>6, <1>7
<1>8. CASE ~(e.op = "send" /\ e.sender = s)
  <2>1. QueuedIn(Append(q, e), s) = QueuedIn(q, s)
    BY <1>4, <1>5, <1>6, <1>8
  <2> QED
    BY <1>8, <2>1
<1> QED
  BY <1>7, <1>8

LEMMA QueuedTail ==
    ASSUME NEW q \in Seq(Tasks), q # <<>>, NEW s, AtMostOne(QueuedIn(q, s))
    PROVE  /\ AtMostOne(QueuedIn(Tail(q), s))
           /\ QueuedIn(Tail(q), s) # {} => QueuedIn(q, s) # {}
           /\ Head(q).op = "send" /\ Head(q).sender = s =>
                 QueuedIn(q, s) # {} /\ QueuedIn(Tail(q), s) = {}
<1>1. \A i \in QueuedIn(Tail(q), s) : i \in Nat \ {0} /\ i + 1 \in QueuedIn(q, s)
  BY TailFacts DEF QueuedIn
<1>2. Head(q).op = "send" /\ Head(q).sender = s => 1 \in QueuedIn(q, s)
  BY TailFacts DEF QueuedIn
<1> QED
  BY <1>1, <1>2 DEF AtMostOne

\* Of one sender: the property, and what its parts are.
PacketIsAlive(s) ==
    /\ QueuedIn(mQueue, s) # {} \/ Sending(s) => future[s] = "pending" /\ Open
    /\ AtMostOne(QueuedIn(mQueue, s))
    /\ ~(QueuedIn(mQueue, s) # {} /\ Sending(s))

LEMMA AllAlive == CapturedPacketIsAlive <=> \A s \in Senders : PacketIsAlive(s)
BY DEF CapturedPacketIsAlive, PacketIsAlive, Queued, QueuedIn, AtMostOne

LEMMA InitAlive == ASSUME Init, NEW s \in Senders PROVE PacketIsAlive(s)
<1>1. QueuedIn(mQueue, s) = {}
  BY DEF Init, QueuedIn
<1> QED
  BY <1>1 DEF Init, PacketIsAlive, AtMostOne, Sending

\* Nothing changes for a sender if none of its tasks comes, goes or begins.
LEMMA KeepsAlive ==
    ASSUME NEW s \in Senders, PacketIsAlive(s),
           QueuedIn(mQueue', s) = QueuedIn(mQueue, s),
           future'[s] = future[s], Open' = Open,
           Sending(s)' => Sending(s)
    PROVE  PacketIsAlive(s)'
BY DEF PacketIsAlive

LEMMA OtherTask ==
    ASSUME TypeOK, NEW s \in Senders, NEW op \in {"read", "deliver", "quit"}, NEW own \in BOOLEAN,
           mQueue' = Append(mQueue, Task(op, own))
    PROVE  QueuedIn(mQueue', s) = QueuedIn(mQueue, s)
<1>1. Task(op, own) \in Tasks /\ Task(op, own).op # "send"
  BY DEF Task, Tasks
<1> QED
  BY <1>1, QueuedAppend DEF TypeOK

\* The end of a task answers its sender and forgets the packet.
LEMMA FinishAlive ==
    ASSUME TypeOK, NEW s \in Senders, PacketIsAlive(s),
           step \notin {"idle", "ended"}, step' = "idle",
           NEW result, Resolve(result), UNCHANGED <<mQueue, task, main>>
    PROVE  PacketIsAlive(s)'
<1>1. ~Sending(s)'
  BY DEF Sending
<1>2. CASE Sending(s)
  BY <1>1, <1>2 DEF PacketIsAlive
<1>3. CASE ~Sending(s)
  <2>1. future'[s] = future[s]
    BY <1>3 DEF Sending, Resolve, TypeOK
  <2> QED
    BY <1>1, <2>1 DEF PacketIsAlive, Open
<1> QED
  BY <1>2, <1>3

LEMMA ContextAlive ==
    ASSUME TypeOK, Context, NEW s \in Senders, PacketIsAlive(s)
    PROVE  PacketIsAlive(s)'
<1> USE DEF ContextStep
<1>1. ASSUME NEW from \in {"device", "callDevice", "network", "callNetwork", "transmit"},
             NEW result, ContextStep(from), Finish(result)
      PROVE  PacketIsAlive(s)'
  BY <1>1, FinishAlive DEF Finish
<1>2. ASSUME NEW from, from \notin {"idle", "ended"}, NEW to, ContextStep(from), GoTo(to)
      PROVE  PacketIsAlive(s)'
  BY <1>2, KeepsAlive DEF GoTo, Open, Sending
<1>3. CASE Pop
  <2>1. mQueue \in Seq(Tasks) /\ mQueue # <<>> /\ mQueue' = Tail(mQueue) /\ task' = Head(mQueue)
    BY <1>3 DEF Pop, TypeOK
  <2>2. ~Sending(s) /\ future'[s] = future[s] /\ Open' = Open
    BY <1>3 DEF Pop, Sending, Open
  <2>3. /\ AtMostOne(QueuedIn(mQueue', s))
        /\ QueuedIn(mQueue', s) # {} => QueuedIn(mQueue, s) # {}
        /\ task'.op = "send" /\ task'.sender = s =>
              QueuedIn(mQueue, s) # {} /\ QueuedIn(mQueue', s) = {}
    BY <2>1, QueuedTail DEF PacketIsAlive
  <2> QED
    BY <2>2, <2>3 DEF PacketIsAlive, Sending
<1>4. CASE Read
  <2>1. QueuedIn(mQueue', s) = QueuedIn(mQueue, s)
    BY <1>4, OtherTask DEF Read
  <2> QED
    BY <1>4, <2>1, KeepsAlive DEF Read, Open, Sending
<1>5. CASE TestDeviceCallback
  BY <1>5, <1>1, <1>2 DEF TestDeviceCallback
<1>6. CASE CallDeviceCallback
  BY <1>6, <1>1, <1>2 DEF CallDeviceCallback, Throw
<1>7. CASE TestNetworkCallback
  BY <1>7, <1>1, <1>2 DEF TestNetworkCallback
<1>8. CASE CallNetworkCallback
  BY <1>8, <1>1, <1>2 DEF CallNetworkCallback, Throw
<1>9. CASE OnPacketReceived
  BY <1>9, FinishAlive DEF OnPacketReceived
<1>10. CASE SendInternal
  BY <1>10, <1>1 DEF SendInternal
<1>11. CASE Quit
  BY <1>11, KeepsAlive DEF Quit, Open, Sending
<1>12. CASE EndRun
  BY <1>12, KeepsAlive DEF EndRun, GoTo, Open, Sending
<1> QED
  BY <1>3, <1>4, <1>5, <1>6, <1>7, <1>8, <1>9, <1>10, <1>11, <1>12 DEF Context

LEMMA OthersAlive ==
    ASSUME TypeOK, CapturedPacketIsAlive, [Next]_vars, ~Context, NEW s \in Senders
    PROVE  PacketIsAlive(s)'
<1> USE DEF context, callbacks, counters, MainStep, Open, Sending
<1>0. PacketIsAlive(s)
  BY AllAlive
<1>1. ASSUME NEW r \in Senders, NEW own \in BOOLEAN, Send(r, own) PROVE PacketIsAlive(s)'
  <2> DEFINE e == [op |-> "send", sender |-> r, own |-> own]
  <2>1. mQueue' = Append(mQueue, e) /\ e \in Tasks /\ e.op = "send" /\ e.sender = r
    BY <1>1, SendType DEF Send
  <2>2. QueuedIn(mQueue', s) = IF r = s THEN QueuedIn(mQueue, s) \cup {Len(mQueue) + 1}
                               ELSE QueuedIn(mQueue, s)
    BY <2>1, QueuedAppend DEF TypeOK
  <2>3. CASE r = s
    <3>1. QueuedIn(mQueue, s) = {} /\ ~Sending(s) /\ Open
      BY <1>0, <1>1, <2>3 DEF Send, PacketIsAlive
    <3>2. future'[s] = "pending" /\ Open' /\ ~Sending(s)'
      BY <1>1, <2>3, <3>1 DEF Send, TypeOK
    <3> QED
      BY <2>2, <2>3, <3>1, <3>2 DEF PacketIsAlive, AtMostOne
  <2>4. CASE r # s
    <3>1. future'[s] = future[s]
      BY <1>1, <2>4 DEF Send, TypeOK
    <3> QED
      BY <1>0, <1>1, <2>2, <2>4, <3>1, KeepsAlive DEF Send
  <2> QED
    BY <2>3, <2>4
<1>2. ASSUME NEW r \in Senders, Get(r) PROVE PacketIsAlive(s)'
  BY <1>0, <1>2 DEF Get, PacketIsAlive, TypeOK
<1>3. CASE Interrupt
  <2>1. QueuedIn(mQueue', s) = QueuedIn(mQueue, s)
    BY <1>3, OtherTask DEF Interrupt
  <2> QED
    BY <1>0, <1>3, <2>1, KeepsAlive DEF Interrupt
<1>4. CASE TestRunning \/ Receive
  BY <1>0, <1>4, KeepsAlive DEF TestRunning, Receive
<1>5. CASE Stop
  BY <1>0, <1>5, KeepsAlive DEF Stop
<1>6. CASE StopDevice
  <2>1. QueuedIn(mQueue', s) = QueuedIn(mQueue, s)
    BY <1>6, OtherTask DEF StopDevice
  <2> QED
    BY <1>0, <1>6, <2>1, KeepsAlive DEF StopDevice
<1>7. CASE EmptyDeviceCallback("network") \/ EmptyNetworkCallback("network", "push")
  BY <1>0, <1>7, KeepsAlive DEF EmptyDeviceCallback, EmptyNetworkCallback
<1>8. CASE Release("push", "closed")
  BY <1>0, <1>8, KeepsAlive DEF Release
<1>9. CASE Destroy
  <2>1. QueuedIn(mQueue', s) = QueuedIn(mQueue, s)
    BY <1>9, OtherTask DEF Destroy
  <2>2. QueuedIn(mQueue, s) = {} /\ ~Sending(s)
    BY <1>0, <1>9 DEF Destroy, PacketIsAlive
  <2> QED
    BY <1>9, <2>1, <2>2 DEF Destroy, PacketIsAlive, AtMostOne
<1>10. CASE Join
  BY <1>0, <1>10 DEF Join, PacketIsAlive
<1>11. CASE UNCHANGED vars
  BY <1>0, <1>11, KeepsAlive DEF vars
<1> QED
  BY <1>1, <1>2, <1>3, <1>4, <1>5, <1>6, <1>7, <1>8, <1>9, <1>10, <1>11 DEF Next, Close

(* The packet on the sender's stack that a task refers to outlives the     *)
(* task: its sender waits, with the one call, and the socket exists.       *)
THEOREM CapturedPacketIsAlwaysAlive == Spec => []CapturedPacketIsAlive
<1>1. Init => CapturedPacketIsAlive
  BY InitAlive, AllAlive
<1>2. TypeOK /\ CapturedPacketIsAlive /\ [Next]_vars => CapturedPacketIsAlive'
  <2> SUFFICES ASSUME TypeOK, CapturedPacketIsAlive, [Next]_vars PROVE CapturedPacketIsAlive'
    OBVIOUS
  <2>1. \A s \in Senders : PacketIsAlive(s)'
    BY AllAlive, ContextAlive, OthersAlive
  <2>2. CapturedPacketIsAlive' <=> \A s \in Senders : PacketIsAlive(s)'
    BY DEF CapturedPacketIsAlive, PacketIsAlive, Queued, QueuedIn, AtMostOne
  <2> QED
    BY <2>1, <2>2
<1> QED
  BY TypeCorrect, <1>1, <1>2, PTL DEF Spec

-----------------------------------------------------------------------------
(* What comes after the close. *)

Closed == main \in {"closed", "joining", "down"}

\* No packet is handed over once the callback is empty ...
CallbackIsEmpty == main = "push" \/ Closed => ~networkCallback

\* ... but for the one that the context is about to push.
OnlyOneIsLeft ==
    \A i \in DOMAIN mReceivedQueue :
        mReceivedQueue[i] = "close" =>
            Closed /\ Len(mReceivedQueue) - i <= IF step = "push" THEN 0 ELSE 1

CloseInv == CallbackIsEmpty /\ OnlyOneIsLeft

LEMMA InitClose == Init => CloseInv
BY DEF Init, CloseInv, CallbackIsEmpty, OnlyOneIsLeft, Closed

\* A step of a thread that does not touch the queue of packets.
LEMMA KeepsOne ==
    ASSUME OnlyOneIsLeft, UNCHANGED mReceivedQueue, Closed => Closed',
           step' = "push" => step = "push"
    PROVE  OnlyOneIsLeft'
BY DEF OnlyOneIsLeft

LEMMA ContextClose == ASSUME TypeOK, CloseInv, Context PROVE CloseInv'
<1>1. UNCHANGED <<main, networkCallback>>
  BY DEF Context, ContextStep, callbacks, Pop, Read, TestDeviceCallback, CallDeviceCallback,
         TestNetworkCallback, CallNetworkCallback, OnPacketReceived, SendInternal, Quit, EndRun
<1>2. CallbackIsEmpty' /\ Closed' = Closed
  BY <1>1 DEF CloseInv, CallbackIsEmpty, Closed
<1> USE DEF ContextStep, CloseInv
<1>3. CASE Pop
  <2>1. step' # "push" /\ UNCHANGED mReceivedQueue
    <3>1. Head(mQueue).op \in {"send", "read", "deliver", "quit"}
      <4>1. Head(mQueue) \in Tasks
        BY <1>3, TailFacts DEF Pop, TypeOK
      <4> QED
        BY <4>1 DEF Tasks
    <3> QED
      BY <1>3, <3>1 DEF Pop
  <2> QED
    BY <1>2, <2>1, KeepsOne
<1>4. CASE Read
  BY <1>2, <1>4, KeepsOne DEF Read
<1>5. CASE TestDeviceCallback \/ CallDeviceCallback \/ TestNetworkCallback
  <2>1. step' # "push" /\ UNCHANGED mReceivedQueue
    BY <1>5 DEF TestDeviceCallback, CallDeviceCallback, TestNetworkCallback, Throw, Finish, GoTo
  <2> QED
    BY <1>2, <2>1, KeepsOne
<1>6. CASE CallNetworkCallback
  <2>1. UNCHANGED mReceivedQueue
    BY <1>6 DEF CallNetworkCallback, Throw, Finish, GoTo
  <2>2. CASE ~networkCallback
    <3>1. step' # "push"
      BY <1>6, <2>2 DEF CallNetworkCallback, Throw, Finish, GoTo
    <3> QED
      BY <1>2, <2>1, <3>1, KeepsOne
  <2>3. CASE networkCallback
    <3>1. \A i \in DOMAIN mReceivedQueue : mReceivedQueue[i] # "close"
      BY <2>3 DEF CallbackIsEmpty, OnlyOneIsLeft
    <3>2. OnlyOneIsLeft'
      BY <2>1, <3>1 DEF OnlyOneIsLeft
    <3> QED
      BY <1>2, <3>2
  <2> QED
    BY <2>2, <2>3
<1>7. CASE OnPacketReceived
  <2>1. /\ step = "push" /\ step' = "idle"
        /\ mReceivedQueue' = Append(mReceivedQueue, "packet")
    BY <1>7 DEF OnPacketReceived
  <2>2. /\ Len(mReceivedQueue) \in Nat /\ Len(mReceivedQueue') = Len(mReceivedQueue) + 1
        /\ \A i \in DOMAIN mReceivedQueue' :
              mReceivedQueue'[i] = "close" =>
                  i \in DOMAIN mReceivedQueue /\ mReceivedQueue[i] = "close" /\ i \in Nat
    <3>1. mReceivedQueue \in Seq({"packet", "close"}) /\ "packet" \in {"packet", "close"}
      BY DEF TypeOK
    <3>2. /\ Len(mReceivedQueue) \in Nat /\ Len(mReceivedQueue') = Len(mReceivedQueue) + 1
          /\ DOMAIN mReceivedQueue = 1 .. Len(mReceivedQueue)
          /\ DOMAIN mReceivedQueue' = 1 .. Len(mReceivedQueue) + 1
          /\ \A i \in 1 .. Len(mReceivedQueue) : mReceivedQueue'[i] = mReceivedQueue[i]
          /\ mReceivedQueue'[Len(mReceivedQueue) + 1] = "packet"
      BY <2>1, <3>1, AppendFacts
    <3> QED
      BY <3>2
  <2>3. OnlyOneIsLeft'
    BY <1>2, <2>1, <2>2 DEF OnlyOneIsLeft
  <2> QED
    BY <1>2, <2>3
<1>8. CASE SendInternal \/ Quit \/ EndRun
  <2>1. step' # "push" /\ UNCHANGED mReceivedQueue
    BY <1>8 DEF SendInternal, Quit, EndRun, Finish, GoTo
  <2> QED
    BY <1>2, <2>1, KeepsOne
<1> QED
  BY <1>3, <1>4, <1>5, <1>6, <1>7, <1>8 DEF Context

LEMMA OthersClose == ASSUME TypeOK, CloseInv, [Next]_vars, ~Context PROVE CloseInv'
<1> USE DEF context, callbacks, MainStep, CloseInv
<1>1. ASSUME UNCHANGED <<mReceivedQueue, step, main, networkCallback>> PROVE CloseInv'
  <2>1. CallbackIsEmpty' /\ Closed' = Closed
    BY <1>1 DEF CallbackIsEmpty, Closed
  <2> QED
    BY <1>1, <2>1, KeepsOne
<1>2. ASSUME NEW s \in Senders, NEW own \in BOOLEAN, Get(s) \/ Send(s, own) PROVE CloseInv'
  BY <1>1, <1>2 DEF Get, Send
<1>3. CASE Interrupt \/ TestRunning \/ UNCHANGED vars
  BY <1>1, <1>3 DEF Interrupt, TestRunning, vars
<1>4. CASE Receive
  <2>1. /\ UNCHANGED <<main, networkCallback, step>>
        /\ mReceivedQueue # <<>> /\ mReceivedQueue' = Tail(mReceivedQueue)
    BY <1>4 DEF Receive
  <2>2. CallbackIsEmpty' /\ Closed' = Closed
    BY <2>1 DEF CallbackIsEmpty, Closed
  <2>3. /\ Len(mReceivedQueue) \in Nat /\ Len(mReceivedQueue') = Len(mReceivedQueue) - 1
        /\ DOMAIN mReceivedQueue = 1 .. Len(mReceivedQueue)
        /\ DOMAIN mReceivedQueue' = 1 .. Len(mReceivedQueue) - 1
        /\ \A i \in 1 .. Len(mReceivedQueue) - 1 : mReceivedQueue'[i] = mReceivedQueue[i + 1]
    BY <2>1, TailFacts DEF TypeOK
  <2>4. OnlyOneIsLeft'
    BY <2>1, <2>2, <2>3 DEF OnlyOneIsLeft
  <2> QED
    BY <2>2, <2>4
<1>5. CASE Stop \/ StopDevice \/ EmptyDeviceCallback("network")
  <2>1. /\ main' \in {"stopped", "device", "network"} /\ main \in {"open", "stopped", "device"}
        /\ UNCHANGED <<mReceivedQueue, step>>
    BY <1>5 DEF Stop, StopDevice, EmptyDeviceCallback
  <2>2. CallbackIsEmpty' /\ ~Closed
    BY <2>1 DEF CallbackIsEmpty, Closed
  <2> QED
    BY <2>1, <2>2, KeepsOne
<1>6. CASE EmptyNetworkCallback("network", "push")
  <2>1. /\ main = "network" /\ ~networkCallback' /\ UNCHANGED <<mReceivedQueue, step>>
    BY <1>6 DEF EmptyNetworkCallback
  <2>2. CallbackIsEmpty' /\ ~Closed
    BY <2>1 DEF CallbackIsEmpty, Closed
  <2> QED
    BY <2>1, <2>2, KeepsOne
<1>7. CASE Release("push", "closed")
  <2>1. /\ main = "push" /\ main' = "closed" /\ UNCHANGED <<networkCallback, step>>
        /\ mReceivedQueue' = Append(mReceivedQueue, "close")
    BY <1>7 DEF Release
  <2>2. CallbackIsEmpty' /\ Closed' /\ ~Closed
    BY <2>1 DEF CallbackIsEmpty, Closed
  <2>3. \A i \in DOMAIN mReceivedQueue : mReceivedQueue[i] # "close"
    BY <2>2 DEF OnlyOneIsLeft
  <2>4. /\ Len(mReceivedQueue) \in Nat /\ Len(mReceivedQueue') = Len(mReceivedQueue) + 1
        /\ DOMAIN mReceivedQueue = 1 .. Len(mReceivedQueue)
        /\ DOMAIN mReceivedQueue' = 1 .. Len(mReceivedQueue) + 1
        /\ \A i \in 1 .. Len(mReceivedQueue) : mReceivedQueue'[i] = mReceivedQueue[i]
    <3>1. mReceivedQueue \in Seq({"packet", "close"}) /\ "close" \in {"packet", "close"}
      BY DEF TypeOK
    <3> QED
      BY <2>1, <3>1, AppendFacts
  <2>5. \A i \in DOMAIN mReceivedQueue' : mReceivedQueue'[i] = "close" => i = Len(mReceivedQueue')
    BY <2>3, <2>4
  <2>6. OnlyOneIsLeft'
    BY <2>2, <2>4, <2>5 DEF OnlyOneIsLeft
  <2> QED
    BY <2>2, <2>6
<1>8. CASE Destroy \/ Join
  <2>1. /\ Closed /\ Closed' /\ UNCHANGED <<mReceivedQueue, step, networkCallback>>
    BY <1>8 DEF Destroy, Join, Closed
  <2>2. CallbackIsEmpty'
    BY <2>1 DEF CallbackIsEmpty
  <2> QED
    BY <2>1, <2>2, KeepsOne
<1> QED
  BY <1>2, <1>3, <1>4, <1>5, <1>6, <1>7, <1>8 DEF Next, Close

LEMMA CloseIsOnlyOne == TypeOK /\ CloseInv => OnlyOneAfterClose
<1> SUFFICES ASSUME TypeOK, CloseInv, NEW i \in DOMAIN mReceivedQueue, mReceivedQueue[i] = "close"
             PROVE  Len(mReceivedQueue) - i <= 1
  BY DEF OnlyOneAfterClose
<1>1. Len(mReceivedQueue) \in Nat /\ i \in Nat
  BY DEF TypeOK
<1> QED
  BY <1>1 DEF CloseInv, OnlyOneIsLeft

(* The receiver gets at most one packet after the item of close().         *)
THEOREM AtMostOneAfterClose == Spec => []OnlyOneAfterClose
<1>1. TypeOK /\ CloseInv /\ [Next]_vars => CloseInv'
  BY ContextClose, OthersClose
<1> QED
  BY TypeCorrect, InitClose, <1>1, CloseIsOnlyOne, PTL DEF Spec
=============================================================================
