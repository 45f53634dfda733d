---------------------------- MODULE BlockingQueue ----------------------------
(***************************************************************************)
(* Bt::Concurrency::BlockingQueue: a std::queue behind a mutex, and a      *)
(* condition variable the consumers of an empty queue wait on.  Its users  *)
(* are the mailbox of GatewayConnection, the tasks of ExecutionContext and *)
(* the packets of RfPacketSocket.                                          *)
(***************************************************************************)
EXTENDS Naturals, Sequences, FiniteSets

CONSTANTS
    Threads,        \* the threads that share the queue
    Values,         \* what they put into it
    NoThread,       \* the owner of a free mutex
    MaxLength       \* bound: no push is begun on a queue of this length

ASSUME BlockingQueueAssumption ==
    /\ IsFiniteSet(Threads)
    /\ NoThread \notin Threads

VARIABLES
    mQueue, mMutex,
    pc,             \* where each thread is in its call
    call,           \* the method it called, and with what
    expired,        \* its wait_for returned because of the time
    oValue          \* what its last pop brought

vars == <<mQueue, mMutex, pc, call, expired, oValue>>

\* The calls and results of the abstract queue.
Fifo == INSTANCE FifoQueue WITH
    queue <- mQueue,
    call <- [t \in Threads |->
                IF pc[t] \in {"notify", "unlock"} THEN [op |-> "none"] ELSE call[t]],
    result <- oValue

In(place) == {t \in Threads : pc[t] = place}
Waiting == In("waiting")

-----------------------------------------------------------------------------
Init ==
    /\ mQueue = <<>>
    /\ mMutex = NoThread
    /\ pc = [t \in Threads |-> "idle"]
    /\ call = [t \in Threads |-> Fifo!Nothing]
    /\ expired = [t \in Threads |-> FALSE]
    /\ oValue = [t \in Threads |-> Fifo!Failed]

Goto(t, place) == pc' = [pc EXCEPT ![t] = place]

Call(t, c) ==
    /\ pc[t] = "idle"
    /\ c \in Fifo!Pushes => Len(mQueue) < MaxLength
    /\ call' = [call EXCEPT ![t] = c]
    /\ expired' = [expired EXCEPT ![t] = FALSE]
    /\ Goto(t, "lock")
    /\ UNCHANGED <<mQueue, mMutex, oValue>>

\* The lock at the start of a call, and the one a wait takes again at its end.
Lock(t) ==
    /\ pc[t] = "lock"
    /\ mMutex = NoThread
    /\ mMutex' = t
    /\ Goto(t, "locked")
    /\ UNCHANGED <<mQueue, call, expired, oValue>>

Push(t) ==
    /\ pc[t] = "locked"
    /\ call[t].op = "push"
    /\ mQueue' = Append(mQueue, call[t].value)
    /\ Goto(t, "notify")
    /\ UNCHANGED <<mMutex, call, expired, oValue>>

\* Mutant: the consumers are woken only when the queue was empty.
NotifyIfItWasEmpty(t) ==
    /\ pc[t] = "notify"
    /\ IF Waiting = {} \/ Len(mQueue) # 1
       THEN Goto(t, "unlock")
       ELSE \E w \in Waiting : pc' = [pc EXCEPT ![t] = "unlock", ![w] = "lock"]
    /\ UNCHANGED <<mQueue, mMutex, call, expired, oValue>>

\* notify_one wakes one of the waiting threads, if there is one.
Notify(t) ==
    /\ pc[t] = "notify"
    /\ IF Waiting = {}
       THEN Goto(t, "unlock")
       ELSE \E w \in Waiting : pc' = [pc EXCEPT ![t] = "unlock", ![w] = "lock"]
    /\ UNCHANGED <<mQueue, mMutex, call, expired, oValue>>

Take(t) ==
    /\ pc[t] = "locked"
    /\ call[t] \in Fifo!Pops
    /\ mQueue # <<>>
    /\ oValue' = [oValue EXCEPT ![t] = Fifo!Brought(Head(mQueue))]
    /\ mQueue' = Tail(mQueue)
    /\ Goto(t, "unlock")
    /\ UNCHANGED <<mMutex, call, expired>>

\* Mutant: the mutex is kept while waiting.
WaitHoldingTheMutex(t) ==
    /\ pc[t] = "locked"
    /\ call[t].op \in {"pop", "tryPopFor"}
    /\ mQueue = <<>>
    /\ ~expired[t]
    /\ Goto(t, "waiting")
    /\ UNCHANGED <<mQueue, mMutex, call, expired, oValue>>

\* wait and wait_for: the mutex is released and the wait begun in one step.
Wait(t) ==
    /\ pc[t] = "locked"
    /\ call[t].op \in {"pop", "tryPopFor"}
    /\ mQueue = <<>>
    /\ ~expired[t]
    /\ mMutex' = NoThread
    /\ Goto(t, "waiting")
    /\ UNCHANGED <<mQueue, call, expired, oValue>>

\* A condition variable may wake a thread for no reason.
WakeSpuriously(t) ==
    /\ pc[t] = "waiting"
    /\ Goto(t, "lock")
    /\ UNCHANGED <<mQueue, mMutex, call, expired, oValue>>

Expire(t) ==
    /\ pc[t] = "waiting"
    /\ call[t].op = "tryPopFor"
    /\ expired' = [expired EXCEPT ![t] = TRUE]
    /\ Goto(t, "lock")
    /\ UNCHANGED <<mQueue, mMutex, call, oValue>>

\* Mutant: after the timeout the queue is not looked at again.
GiveUpAtTimeout(t) ==
    /\ pc[t] = "locked"
    /\ \/ call[t].op = "tryPop" /\ mQueue = <<>>
       \/ call[t].op = "tryPopFor" /\ expired[t]
    /\ oValue' = [oValue EXCEPT ![t] = Fifo!Failed]
    /\ Goto(t, "unlock")
    /\ UNCHANGED <<mQueue, mMutex, call, expired>>

\* wait_for asks its predicate once more after the timeout.
GiveUp(t) ==
    /\ pc[t] = "locked"
    /\ mQueue = <<>>
    /\ call[t].op = "tryPop" \/ (call[t].op = "tryPopFor" /\ expired[t])
    /\ oValue' = [oValue EXCEPT ![t] = Fifo!Failed]
    /\ Goto(t, "unlock")
    /\ UNCHANGED <<mQueue, mMutex, call, expired>>

\* The guard goes out of scope and the call returns.
Unlock(t) ==
    /\ pc[t] = "unlock"
    /\ mMutex' = NoThread
    /\ call' = [call EXCEPT ![t] = Fifo!Nothing]
    /\ Goto(t, "idle")
    /\ UNCHANGED <<mQueue, expired, oValue>>

Next ==
    \E t \in Threads :
        \/ \E c \in Fifo!Pushes \cup Fifo!Pops : Call(t, c)
        \/ Lock(t) \/ Unlock(t)
        \/ Push(t) \/ Notify(t)
        \/ Take(t) \/ GiveUp(t)
        \/ Wait(t) \/ WakeSpuriously(t) \/ Expire(t)

Spec == Init /\ [][Next]_vars

-----------------------------------------------------------------------------
(* Properties. *)

(* The types; and the mutex belongs to the thread that is between its lock *)
(* and its unlock, so no two are there.                                    *)
TypeOK ==
    /\ mQueue \in Seq(Values)
    /\ mMutex \in Threads \cup {NoThread}
    /\ pc \in [Threads -> {"idle", "lock", "locked", "notify", "waiting", "unlock"}]
    /\ call \in [Threads -> Fifo!Pushes \cup Fifo!Pops \cup {Fifo!Nothing}]
    /\ expired \in [Threads -> BOOLEAN]
    /\ oValue \in [Threads -> {Fifo!Brought(v) : v \in Values} \cup {Fifo!Failed}]
    /\ \A t \in Threads : pc[t] \in {"locked", "notify", "unlock"} <=> mMutex = t

\* Consumers that will look at the queue, and producers about to wake one.
Awake == {t \in Threads : pc[t] \in {"lock", "locked"} /\ call[t] \in Fifo!Pops}
             \cup In("notify")

(* No wake-up is lost: while a consumer waits, there are as many others    *)
(* awake, or about to be woken, as there are values to take.               *)
NoLostWakeup == Waiting # {} => Len(mQueue) <= Cardinality(Awake)

(* The queue is a FIFO queue whose calls take effect at one moment each,   *)
(* and a timed pop fails only when there is nothing at that moment.        *)
Implements == Fifo!Spec
=============================================================================
