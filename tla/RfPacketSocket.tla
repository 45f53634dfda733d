---------------------------- MODULE RfPacketSocket ----------------------------
(***************************************************************************)
(* Bt::Rf24::RfPacketSocket on its Bt::Concurrency::ExecutionContext: the  *)
(* socket the gateway sends and receives with, up to its destruction by    *)
(* RfPacketSocketFactory's wrapper.                                        *)
(*                                                                         *)
(* Threads: the senders (connections), which wait for the future of a task *)
(* of the context; the context; the receiver (the gateway's loop); main,   *)
(* which closes and destroys; the interrupt thread.  The two callbacks on  *)
(* the way of a packet are std::function members that main empties while   *)
(* the context tests and calls them, without a lock: the test, the call    *)
(* (of an empty one: bad_function_call) and what is called are steps.      *)
(* The network below is module RfNetwork, the queues are FifoQueue.        *)
(***************************************************************************)
EXTENDS Naturals, Sequences

CONSTANTS
    Senders,        \* the threads that call send
    None,           \* no sender
    MaxSends,       \* bound: calls of each sender
    MaxInterrupts   \* bound: interrupts (or a read without), of at most one packet each

ASSUME RfPacketSocketAssumption ==
    /\ None \notin Senders
    /\ {MaxSends, MaxInterrupts} \subseteq Nat

VARIABLES
    mQueue, mRunning,       \* the execution context
    task, step,             \* the task it runs, and where it is
    future,                 \* of each sender's call, "none" outside of one
    deviceCallback, networkCallback,    \* whether these are set
    mReceivedQueue,         \* of Item: of a packet, or of the close
    receiver, main,         \* where these threads are
    sends, interrupts       \* counters

context == <<mQueue, mRunning, task, step>>
callbacks == <<deviceCallback, networkCallback>>
counters == <<sends, interrupts>>
vars == <<context, future, callbacks, mReceivedQueue, receiver, main, counters>>

\* own: the packet is for this node.  It matters to "send" and "deliver" only.
Tasks == [op : {"send", "read", "deliver", "quit"}, sender : Senders \cup {None},
          own : BOOLEAN]
Task(op, own) == [op |-> op, sender |-> None, own |-> own]

\* The socket exists, and the gateway may use it.
Open == main \notin {"joining", "down"}

\* The constructors: listening has started.
Init ==
    /\ mQueue = <<>> /\ mRunning = TRUE
    /\ task = Task("quit", FALSE) /\ step = "idle"
    /\ future = [s \in Senders |-> "none"]
    /\ deviceCallback = TRUE /\ networkCallback = TRUE
    /\ mReceivedQueue = <<>>
    /\ receiver = "test" /\ main = "open"
    /\ sends = [s \in Senders |-> 0] /\ interrupts = 0

-----------------------------------------------------------------------------
(* send: the task refers to the packet on the sender's stack.              *)

Send(s, own) ==
    /\ Open /\ future[s] = "none"
    /\ sends[s] < MaxSends
    /\ sends' = [sends EXCEPT ![s] = @ + 1]
    /\ future' = [future EXCEPT ![s] = "pending"]
    /\ mQueue' = Append(mQueue, [op |-> "send", sender |-> s, own |-> own])
    /\ UNCHANGED <<mRunning, task, step, callbacks, mReceivedQueue, receiver, main, interrupts>>

\* Mutant: the sender waits for some time only.
GetOrTimeOut(s) ==
    /\ future[s] # "none"
    /\ future' = [future EXCEPT ![s] = "none"]
    /\ UNCHANGED <<context, callbacks, mReceivedQueue, receiver, main, counters>>

Get(s) ==
    /\ future[s] \in {"true", "false", "exception"}
    /\ future' = [future EXCEPT ![s] = "none"]
    /\ UNCHANGED <<context, callbacks, mReceivedQueue, receiver, main, counters>>

-----------------------------------------------------------------------------
(* The execution context. *)

ContextStep(from) ==
    /\ step = from
    /\ UNCHANGED <<callbacks, receiver, main, counters>>

GoTo(to) ==
    /\ step' = to
    /\ UNCHANGED <<mQueue, mRunning, task, future, mReceivedQueue>>

\* invokeTaskInternal fulfils the promise of a send; other tasks have none.
Resolve(result) ==
    future' = IF task.op = "send" THEN [future EXCEPT ![task.sender] = result] ELSE future

Finish(result) ==
    /\ step' = "idle"
    /\ Resolve(result)
    /\ UNCHANGED <<mQueue, mRunning, task, mReceivedQueue>>

\* Mutant: workcycle does not catch what a task throws.
ThrowUncaught ==
    /\ step' = IF task.op = "send" THEN "idle" ELSE "ended"
    /\ Resolve("exception")
    /\ UNCHANGED <<mQueue, mRunning, task, mReceivedQueue>>

\* Caught by invokeTaskInternal, which hands it to the sender, or by workcycle.
Throw == Finish("exception")

Pop ==
    /\ ContextStep("idle")
    /\ mRunning /\ mQueue # <<>>
    /\ task' = Head(mQueue) /\ mQueue' = Tail(mQueue)
    /\ step' = CASE Head(mQueue).op = "send" -> IF Head(mQueue).own THEN "network" ELSE "transmit"
                 [] Head(mQueue).op = "deliver" -> "device"
                 [] OTHER -> Head(mQueue).op
    /\ UNCHANGED <<mRunning, future, mReceivedQueue>>

\* readReceiveData finds a packet, for this node or another, or an empty FIFO.
Read ==
    /\ ContextStep("read")
    /\ step' = "idle"
    /\ \/ UNCHANGED mQueue
       \/ \E own \in BOOLEAN : mQueue' = Append(mQueue, Task("deliver", own))
    /\ UNCHANGED <<mRunning, task, future, mReceivedQueue>>

\* handleReceiveData.
TestDeviceCallback ==
    /\ ContextStep("device")
    /\ IF deviceCallback THEN GoTo("callDevice") ELSE Finish("true")

\* onPacketReceived of the network socket: deliver or forward.
CallDeviceCallback ==
    /\ ContextStep("callDevice")
    /\ \/ ~deviceCallback /\ Throw
       \/ deviceCallback /\ GoTo(IF task.own THEN "network" ELSE "transmit")

\* receiveInternal; a send to the own node returns true whatever becomes of it.
TestNetworkCallback ==
    /\ ContextStep("network")
    /\ IF networkCallback THEN GoTo("callNetwork") ELSE Finish("true")

CallNetworkCallback ==
    /\ ContextStep("callNetwork")
    /\ \/ ~networkCallback /\ Throw
       \/ networkCallback /\ GoTo("push")

OnPacketReceived ==
    /\ ContextStep("push")
    /\ mReceivedQueue' = Append(mReceivedQueue, "packet")
    /\ step' = "idle"
    /\ Resolve("true")
    /\ UNCHANGED <<mQueue, mRunning, task>>

\* sendInternal, with all its retries.
SendInternal ==
    /\ ContextStep("transmit")
    /\ \E result \in {"true", "false"} : Finish(result)

Quit ==
    /\ ContextStep("quit")
    /\ mRunning' = FALSE
    /\ step' = "idle"
    /\ UNCHANGED <<mQueue, task, future, mReceivedQueue>>

EndRun ==
    /\ ContextStep("idle")
    /\ ~mRunning
    /\ GoTo("ended")

Context ==
    \/ Pop \/ Read \/ TestDeviceCallback \/ CallDeviceCallback \/ TestNetworkCallback
    \/ CallNetworkCallback \/ OnPacketReceived \/ SendInternal \/ Quit \/ EndRun

\* onInterrupt.  A write that is under way when the socket is closed lets the
\* device listen again, so that there may be interrupts until the end.
Interrupt ==
    /\ main # "down"
    /\ interrupts < MaxInterrupts
    /\ interrupts' = interrupts + 1
    /\ mQueue' = Append(mQueue, Task("read", FALSE))
    /\ UNCHANGED <<mRunning, task, step, future, callbacks, mReceivedQueue, receiver, main, sends>>

-----------------------------------------------------------------------------
(* The gateway's loop, which ends when it has been stopped. *)

TestRunning ==
    /\ receiver = "test"
    /\ receiver' = IF main = "open" THEN "receive" ELSE "ended"
    /\ UNCHANGED <<context, future, callbacks, mReceivedQueue, main, counters>>

Receive ==
    /\ receiver = "receive"
    /\ mReceivedQueue # <<>>
    /\ mReceivedQueue' = Tail(mReceivedQueue)
    /\ receiver' = "test"
    /\ UNCHANGED <<context, future, callbacks, main, counters>>

-----------------------------------------------------------------------------
(* Main: stop() of the gateway, close(), and the destruction. *)

MainStep(from, to) ==
    /\ main = from
    /\ main' = to
    /\ UNCHANGED <<mRunning, task, step, future, receiver, sends>>

Stop ==
    /\ MainStep("open", "stopped")
    /\ UNCHANGED <<mQueue, callbacks, mReceivedQueue, interrupts>>

\* ToStandbyI may find the IRQ set and read a packet, in this thread.
StopDevice ==
    /\ MainStep("stopped", "device")
    /\ \/ UNCHANGED <<mQueue, interrupts>>
       \/ /\ interrupts < MaxInterrupts
          /\ interrupts' = interrupts + 1
          /\ \E own \in BOOLEAN : mQueue' = Append(mQueue, Task("deliver", own))
    /\ UNCHANGED <<callbacks, mReceivedQueue>>

EmptyDeviceCallback(to) ==
    /\ MainStep("device", to)
    /\ deviceCallback' = FALSE
    /\ UNCHANGED <<mQueue, networkCallback, mReceivedQueue, interrupts>>

EmptyNetworkCallback(from, to) ==
    /\ MainStep(from, to)
    /\ networkCallback' = FALSE
    /\ UNCHANGED <<mQueue, deviceCallback, mReceivedQueue, interrupts>>

Release(from, to) ==
    /\ MainStep(from, to)
    /\ mReceivedQueue' = Append(mReceivedQueue, "close")
    /\ UNCHANGED <<mQueue, callbacks, interrupts>>

\* Mutants: the item is pushed before the callback is emptied; none is pushed.
CloseEarly ==
    \/ StopDevice \/ EmptyDeviceCallback("push")
    \/ Release("push", "network") \/ EmptyNetworkCallback("network", "closed")

CloseSilently ==
    StopDevice \/ EmptyDeviceCallback("network") \/ EmptyNetworkCallback("network", "closed")

\* stopListening of the controller, of the network socket, and the item.
Close ==
    \/ StopDevice \/ EmptyDeviceCallback("network")
    \/ EmptyNetworkCallback("network", "push") \/ Release("push", "closed")

\* Loop and connections are joined before the members go, the context last:
\* what its queue still holds runs on members that are gone and heard by none.
Destroy ==
    /\ MainStep("closed", "joining")
    /\ receiver = "ended" /\ \A s \in Senders : future[s] = "none"
    /\ mQueue' = Append(mQueue, Task("quit", FALSE))
    /\ UNCHANGED <<callbacks, mReceivedQueue, interrupts>>

Join ==
    /\ MainStep("joining", "down")
    /\ step = "ended"
    /\ UNCHANGED <<mQueue, callbacks, mReceivedQueue, interrupts>>

-----------------------------------------------------------------------------
Next ==
    \/ \E s \in Senders : Get(s) \/ \E own \in BOOLEAN : Send(s, own)
    \/ Context \/ Interrupt
    \/ TestRunning \/ Receive
    \/ Stop \/ Close \/ Destroy \/ Join

Spec == Init /\ [][Next]_vars

\* Every thread is scheduled; nobody has to send, interrupt or stop.
FairSpec ==
    /\ Spec
    /\ WF_vars(Context) /\ WF_vars(TestRunning \/ Receive)
    /\ WF_vars(Close \/ Destroy \/ Join)
    /\ \A s \in Senders : WF_vars(Get(s))

-----------------------------------------------------------------------------
(* Properties. *)

TypeOK ==
    /\ mQueue \in Seq(Tasks) /\ mRunning \in BOOLEAN /\ task \in Tasks
    /\ step \in {"idle", "read", "device", "callDevice", "network", "callNetwork", "push",
                 "transmit", "quit", "ended"}
    /\ future \in [Senders -> {"none", "pending", "true", "false", "exception"}]
    /\ deviceCallback \in BOOLEAN /\ networkCallback \in BOOLEAN
    /\ mReceivedQueue \in Seq({"packet", "close"})
    /\ receiver \in {"test", "receive", "ended"}
    /\ main \in {"open", "stopped", "device", "network", "push", "closed", "joining", "down"}
    /\ sends \in [Senders -> 0 .. MaxSends] /\ interrupts \in 0 .. MaxInterrupts

\* The calls of send that the context still has to answer.
Queued(s) == {i \in DOMAIN mQueue : mQueue[i].op = "send" /\ mQueue[i].sender = s}
Sending(s) == step \notin {"idle", "ended"} /\ task.op = "send" /\ task.sender = s

(* The lambda of a send refers to a packet on the stack of its sender: as  *)
(* long as it is queued or runs, that sender waits in send, and it has no  *)
(* second call there.  Nothing runs it once the socket is destroyed.       *)
CapturedPacketIsAlive ==
    \A s \in Senders :
        /\ Queued(s) # {} \/ Sending(s) => future[s] = "pending" /\ Open
        /\ \A i, j \in Queued(s) : i = j
        /\ ~(Queued(s) # {} /\ Sending(s))

(* After close() the application can still get one packet, which was in    *)
(* the context's hands when the callbacks were emptied, and never more.    *)
OnlyOneAfterClose ==
    \A i \in DOMAIN mReceivedQueue :
        mReceivedQueue[i] = "close" => Len(mReceivedQueue) - i <= 1

(* A call of send returns, whatever another task does or throws meanwhile  *)
(* and whether or not the socket is being closed.                          *)
SendReturns == \A s \in Senders : future[s] = "pending" ~> future[s] = "none"

(* A stop ends: close() releases the receiver, pending sends are answered, *)
(* and the destructor joins the context.                                   *)
StopEnds == main = "stopped" ~> main = "down"
=============================================================================
