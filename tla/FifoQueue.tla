------------------------------ MODULE FifoQueue ------------------------------
(***************************************************************************)
(* What Bt::Concurrency::BlockingQueue promises to the threads that share  *)
(* it: every call takes effect at one moment, values leave in the order    *)
(* they came, and a call gives up only at a moment when there is nothing.  *)
(***************************************************************************)
EXTENDS Naturals, Sequences

CONSTANTS
    Threads,        \* the threads that share the queue
    Values          \* what they put into it

VARIABLES
    queue,
    call,       \* what each thread waits for: nothing, to push a value, to pop
    result      \* what its last pop brought: a value, or nothing

vars == <<queue, call, result>>

Nothing == [op |-> "none"]
Pushes == [op : {"push"}, value : Values]
Pops == [op : {"pop", "tryPop", "tryPopFor"}]

Brought(value) == [value |-> value]
Failed == [value |-> "nothing"]

Init ==
    /\ queue = <<>>
    /\ call = [t \in Threads |-> Nothing]
    /\ result = [t \in Threads |-> Failed]

Call(t, c) ==
    /\ call[t] = Nothing
    /\ call' = [call EXCEPT ![t] = c]
    /\ UNCHANGED <<queue, result>>

Push(t) ==
    /\ call[t].op = "push"
    /\ queue' = Append(queue, call[t].value)
    /\ call' = [call EXCEPT ![t] = Nothing]
    /\ UNCHANGED result

Pop(t) ==
    /\ call[t] \in Pops
    /\ queue # <<>>
    /\ result' = [result EXCEPT ![t] = Brought(Head(queue))]
    /\ queue' = Tail(queue)
    /\ call' = [call EXCEPT ![t] = Nothing]

GiveUp(t) ==
    /\ call[t] \in Pops
    /\ call[t].op # "pop"
    /\ queue = <<>>
    /\ result' = [result EXCEPT ![t] = Failed]
    /\ call' = [call EXCEPT ![t] = Nothing]
    /\ UNCHANGED queue

Next ==
    \E t \in Threads :
        \/ \E c \in Pushes \cup Pops : Call(t, c)
        \/ Push(t) \/ Pop(t) \/ GiveUp(t)

Spec == Init /\ [][Next]_vars
=============================================================================
