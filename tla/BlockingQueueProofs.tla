------------------------- MODULE BlockingQueueProofs -------------------------
(***************************************************************************)
(* Proofs about BlockingQueue, for any finite set of threads, any values   *)
(* and any length of the queue.                                            *)
(***************************************************************************)
EXTENDS BlockingQueue, FiniteSetTheorems, TLAPS

Critical == {"locked", "notify", "unlock"}

TypesOK ==
    /\ mQueue \in Seq(Values)
    /\ mMutex \in Threads \cup {NoThread}
    /\ pc \in [Threads -> {"idle", "lock", "locked", "notify", "waiting", "unlock"}]
    /\ call \in [Threads -> Fifo!Pushes \cup Fifo!Pops \cup {Fifo!Nothing}]
    /\ expired \in [Threads -> BOOLEAN]
    /\ oValue \in [Threads -> {Fifo!Brought(v) : v \in Values} \cup {Fifo!Failed}]

Exclusive == \A t \in Threads : pc[t] \in Critical <=> mMutex = t

(* Only pops wait, only pushes notify, and a thread outside of a call has  *)
(* none.                                                                   *)
CallsMatch ==
    \A t \in Threads :
        /\ pc[t] = "idle" => call[t] = Fifo!Nothing
        /\ pc[t] = "waiting" => call[t] \in Fifo!Pops
        /\ pc[t] = "notify" => call[t] \in Fifo!Pushes
        /\ pc[t] # "idle" => call[t] # Fifo!Nothing

IInv == TypesOK /\ Exclusive /\ CallsMatch

LEMMA TypeOKParts == TypeOK <=> TypesOK /\ Exclusive
  BY DEF TypeOK, TypesOK, Exclusive, Critical

(* The three kinds of calls are told apart by their op.                    *)
LEMMA Ops ==
    /\ \A c \in Fifo!Pushes : c.op = "push" /\ c.value \in Values /\ c # Fifo!Nothing
    /\ \A c \in Fifo!Pops : c.op \in {"pop", "tryPop", "tryPopFor"} /\ c # Fifo!Nothing
    /\ Fifo!Nothing.op = "none"
    /\ Fifo!Pushes \cap Fifo!Pops = {}
  BY DEF Fifo!Pushes, Fifo!Pops, Fifo!Nothing

LEMMA OpSets ==
    ASSUME NEW c \in Fifo!Pushes \cup Fifo!Pops \cup {Fifo!Nothing}
    PROVE  /\ c.op = "push" => c \in Fifo!Pushes
           /\ c.op \in {"pop", "tryPop", "tryPopFor"} => c \in Fifo!Pops
  BY Ops

(* The queue stays a sequence of values.                                   *)
LEMMA Sequence ==
    ASSUME NEW s \in Seq(Values)
    PROVE  /\ \A v \in Values : /\ Append(s, v) \in Seq(Values)
                                /\ Len(Append(s, v)) = Len(s) + 1
           /\ Len(s) \in Nat
           /\ s = <<>> => Len(s) = 0
           /\ s # <<>> => /\ Head(s) \in Values
                          /\ Tail(s) \in Seq(Values)
                          /\ Len(Tail(s)) = Len(s) - 1
  OBVIOUS

-----------------------------------------------------------------------------
LEMMA InvInit == Init => IInv
  BY BlockingQueueAssumption, Ops DEF Init, IInv, TypesOK, Exclusive, CallsMatch, Critical

(* The step of a thread t keeps the types.                                 *)
LEMMA TypesStep == IInv /\ [Next]_vars => TypesOK'
<1> SUFFICES ASSUME IInv, [Next]_vars PROVE TypesOK'
  OBVIOUS
<1> USE DEF IInv, TypesOK, Goto
<1>1. CASE UNCHANGED vars
  BY <1>1 DEF vars
<1>2. ASSUME NEW t \in Threads, NEW c \in Fifo!Pushes \cup Fifo!Pops, Call(t, c)
      PROVE  TypesOK'
  BY <1>2 DEF Call
<1>3. ASSUME NEW t \in Threads, Lock(t) \/ Unlock(t)
      PROVE  TypesOK'
  BY <1>3 DEF Lock, Unlock
<1>4. ASSUME NEW t \in Threads, Push(t)
      PROVE  TypesOK'
  <2>1. call[t].value \in Values
    BY <1>4, Ops, OpSets DEF Push
  <2> QED
    BY <1>4, <2>1, Sequence DEF Push
<1>5. ASSUME NEW t \in Threads, Notify(t)
      PROVE  TypesOK'
  BY <1>5 DEF Notify, Waiting, In
<1>6. ASSUME NEW t \in Threads, Take(t)
      PROVE  TypesOK'
  BY <1>6, Sequence DEF Take
<1>7. ASSUME NEW t \in Threads, GiveUp(t)
      PROVE  TypesOK'
  BY <1>7 DEF GiveUp
<1>8. ASSUME NEW t \in Threads, Wait(t) \/ WakeSpuriously(t) \/ Expire(t)
      PROVE  TypesOK'
  BY <1>8 DEF Wait, WakeSpuriously, Expire
<1> QED
  BY <1>1, <1>2, <1>3, <1>4, <1>5, <1>6, <1>7, <1>8 DEF Next

LEMMA ExclusiveStep == IInv /\ [Next]_vars => Exclusive'
<1> SUFFICES ASSUME IInv, [Next]_vars PROVE Exclusive'
  OBVIOUS
<1> USE BlockingQueueAssumption DEF IInv, TypesOK, Exclusive, Critical, Goto
<1>1. CASE UNCHANGED vars
  BY <1>1 DEF vars
<1>2. ASSUME NEW t \in Threads, NEW c \in Fifo!Pushes \cup Fifo!Pops, Call(t, c)
      PROVE  Exclusive'
  BY <1>2 DEF Call
<1>3. ASSUME NEW t \in Threads, Lock(t) \/ Unlock(t)
      PROVE  Exclusive'
  BY <1>3 DEF Lock, Unlock
<1>4. ASSUME NEW t \in Threads, Push(t) \/ Take(t) \/ GiveUp(t)
      PROVE  Exclusive'
  BY <1>4 DEF Push, Take, GiveUp
<1>5. ASSUME NEW t \in Threads, Notify(t)
      PROVE  Exclusive'
  BY <1>5 DEF Notify, Waiting, In
<1>6. ASSUME NEW t \in Threads, Wait(t) \/ WakeSpuriously(t) \/ Expire(t)
      PROVE  Exclusive'
  BY <1>6 DEF Wait, WakeSpuriously, Expire
<1> QED
  BY <1>1, <1>2, <1>3, <1>4, <1>5, <1>6 DEF Next

LEMMA CallsStep == IInv /\ [Next]_vars => CallsMatch'
<1> SUFFICES ASSUME IInv, [Next]_vars PROVE CallsMatch'
  OBVIOUS
<1> USE DEF IInv, TypesOK, CallsMatch, Goto
<1>1. CASE UNCHANGED vars
  BY <1>1 DEF vars
<1>2. ASSUME NEW t \in Threads, NEW c \in Fifo!Pushes \cup Fifo!Pops, Call(t, c)
      PROVE  CallsMatch'
  BY <1>2, Ops DEF Call
<1>3. ASSUME NEW t \in Threads, Lock(t) \/ Unlock(t)
      PROVE  CallsMatch'
  BY <1>3 DEF Lock, Unlock
<1>4. ASSUME NEW t \in Threads, Push(t)
      PROVE  CallsMatch'
  <2>1. call[t] \in Fifo!Pushes
    BY <1>4, OpSets DEF Push
  <2> QED
    BY <1>4, <2>1 DEF Push
<1>5. ASSUME NEW t \in Threads, Take(t) \/ GiveUp(t)
      PROVE  CallsMatch'
  BY <1>5 DEF Take, GiveUp
<1>6. ASSUME NEW t \in Threads, Notify(t)
      PROVE  CallsMatch'
  BY <1>6 DEF Notify, Waiting, In
<1>7. ASSUME NEW t \in Threads, Wait(t)
      PROVE  CallsMatch'
  <2>1. call[t] \in Fifo!Pops
    BY <1>7, OpSets DEF Wait
  <2> QED
    BY <1>7, <2>1 DEF Wait
<1>8. ASSUME NEW t \in Threads, WakeSpuriously(t) \/ Expire(t)
      PROVE  CallsMatch'
  BY <1>8 DEF WakeSpuriously, Expire
<1> QED
  BY <1>1, <1>2, <1>3, <1>4, <1>5, <1>6, <1>7, <1>8 DEF Next

LEMMA InvStep == IInv /\ [Next]_vars => IInv'
  BY TypesStep, ExclusiveStep, CallsStep DEF IInv

LEMMA Invariant == Spec => []IInv
  BY InvInit, InvStep, PTL DEF Spec

(* The types hold, and at most one thread is between a lock and its unlock *)
(* in any of push, pop and the two tryPop.                                 *)
THEOREM TypeCorrect == Spec => []TypeOK
<1>1. IInv => TypeOK
  BY TypeOKParts DEF IInv
<1> QED
  BY Invariant, <1>1, PTL

-----------------------------------------------------------------------------
(***************************************************************************)
(* No wake-up is lost.  Each action is looked at for what it does to the   *)
(* length of the queue and to the threads that are awake.                  *)
(***************************************************************************)
LEMMA AwakeCounts ==
    /\ IsFiniteSet(Awake)
    /\ Cardinality(Awake) \in Nat
    /\ \A t : t \notin Awake => Cardinality(Awake \cup {t}) = Cardinality(Awake) + 1
    /\ \A t \in Awake : Cardinality(Awake \ {t}) = Cardinality(Awake) - 1
<1>1. Awake \in SUBSET Threads
  BY DEF Awake, In
<1>2. IsFiniteSet(Awake)
  BY <1>1, FS_Subset, BlockingQueueAssumption
<1> QED
  BY <1>2, FS_CardinalityType, FS_AddElement, FS_RemoveElement

LEMMA WakeupInit == Init => NoLostWakeup
  BY DEF Init, NoLostWakeup, Waiting, In

LEMMA WakeupStep == IInv /\ NoLostWakeup /\ [Next]_vars => NoLostWakeup'
<1> SUFFICES ASSUME IInv, NoLostWakeup, [Next]_vars, Waiting' # {}
             PROVE  Len(mQueue') <= Cardinality(Awake')
  BY DEF NoLostWakeup
<1> USE DEF IInv, TypesOK
<1>q. /\ Len(mQueue) \in Nat
      /\ Cardinality(Awake) \in Nat
      /\ mQueue = <<>> => Len(mQueue) = 0
  BY Sequence, AwakeCounts
<1>1. CASE UNCHANGED vars
  BY <1>1 DEF vars, NoLostWakeup, Waiting, Awake, In
<1>2. ASSUME NEW t \in Threads, NEW c \in Fifo!Pushes \cup Fifo!Pops, Call(t, c)
      PROVE  Len(mQueue') <= Cardinality(Awake')
  <2>1. Waiting' = Waiting /\ Len(mQueue') = Len(mQueue)
    BY <1>2 DEF Call, Goto, Waiting, In
  <2>2. t \notin Awake /\ (Awake' = Awake \/ Awake' = Awake \cup {t})
    BY <1>2 DEF Call, Goto, Awake, In
  <2> QED
    BY <2>1, <2>2, <1>q, AwakeCounts DEF NoLostWakeup
<1>3. ASSUME NEW t \in Threads, Lock(t) \/ Unlock(t)
      PROVE  Len(mQueue') <= Cardinality(Awake')
  <2>1. Waiting' = Waiting /\ Len(mQueue') = Len(mQueue)
    BY <1>3 DEF Lock, Unlock, Goto, Waiting, In
  <2>2. Awake' = Awake
    BY <1>3 DEF Lock, Unlock, Goto, Awake, In
  <2> QED
    BY <2>1, <2>2 DEF NoLostWakeup
<1>4. ASSUME NEW t \in Threads, Push(t)
      PROVE  Len(mQueue') <= Cardinality(Awake')
  <2>1. call[t] \in Fifo!Pushes /\ call[t].value \in Values
    BY <1>4, Ops, OpSets DEF Push
  <2>2. Waiting' = Waiting /\ Len(mQueue') = Len(mQueue) + 1
    <3>1. Len(mQueue') = Len(mQueue) + 1
      BY <1>4, <2>1, Sequence DEF Push
    <3> QED
      BY <1>4, <3>1 DEF Push, Goto, Waiting, In
  <2>3. t \notin Awake /\ Awake' = Awake \cup {t}
    BY <1>4, <2>1, Ops DEF Push, Goto, Awake, In
  <2> QED
    BY <2>2, <2>3, <1>q, AwakeCounts DEF NoLostWakeup
<1>5. ASSUME NEW t \in Threads, Notify(t)
      PROVE  Len(mQueue') <= Cardinality(Awake')
  <2>1. Waiting # {}
    BY <1>5 DEF Notify, Goto, Waiting, In
  <2>2. PICK w \in Waiting : pc' = [pc EXCEPT ![t] = "unlock", ![w] = "lock"]
    BY <1>5, <2>1 DEF Notify
  <2>3. w \in Threads /\ w # t /\ pc[w] = "waiting" /\ pc[t] = "notify" /\ call[w] \in Fifo!Pops
    BY <1>5, <2>2 DEF Notify, Waiting, In, CallsMatch
  <2>4. t \in Awake /\ w \notin Awake /\ call[t] \notin Fifo!Pops
    BY <2>3, Ops DEF Awake, In, CallsMatch
  <2>5. Awake' = (Awake \ {t}) \cup {w}
    BY <1>5, <2>2, <2>3, <2>4 DEF Notify, Awake, In
  <2>6. IsFiniteSet(Awake \ {t}) /\ Cardinality(Awake \ {t}) = Cardinality(Awake) - 1
    BY <2>4, AwakeCounts, FS_RemoveElement
  <2>7. w \notin Awake \ {t}
    BY <2>4
  <2>8. Cardinality(Awake') = Cardinality(Awake)
    <3>1. Cardinality((Awake \ {t}) \cup {w}) = Cardinality(Awake \ {t}) + 1
      BY <2>6, <2>7, FS_AddElement
    <3> QED
      BY <2>5, <2>6, <3>1, <1>q
  <2>9. Len(mQueue') = Len(mQueue)
    BY <1>5 DEF Notify
  <2> QED
    BY <2>1, <2>8, <2>9 DEF NoLostWakeup
<1>6. ASSUME NEW t \in Threads, Take(t)
      PROVE  Len(mQueue') <= Cardinality(Awake')
  <2>1. Waiting' = Waiting
    BY <1>6 DEF Take, Goto, Waiting, In
  <2>2. Len(mQueue') = Len(mQueue) - 1
    BY <1>6, Sequence DEF Take
  <2>3. t \in Awake /\ Awake' = Awake \ {t}
    BY <1>6 DEF Take, Goto, Awake, In
  <2> QED
    BY <2>1, <2>2, <2>3, <1>q, AwakeCounts DEF NoLostWakeup
<1>7. ASSUME NEW t \in Threads, GiveUp(t) \/ Wait(t)
      PROVE  Len(mQueue') <= Cardinality(Awake')
  <2>1. mQueue' = <<>>
    BY <1>7 DEF GiveUp, Wait
  <2>2. Len(mQueue') = 0
    BY <2>1
  <2>3. IInv'
    BY InvStep
  <2>4. Cardinality(Awake') \in Nat
    <3>1. Awake' \in SUBSET Threads
      BY DEF Awake, In
    <3> QED
      BY <3>1, FS_Subset, FS_CardinalityType, BlockingQueueAssumption
  <2> QED
    BY <2>2, <2>4
<1>8. ASSUME NEW t \in Threads, WakeSpuriously(t) \/ Expire(t)
      PROVE  Len(mQueue') <= Cardinality(Awake')
  <2>1. Waiting # {} /\ Len(mQueue') = Len(mQueue)
    BY <1>8 DEF WakeSpuriously, Expire, Waiting, In
  <2>2. t \notin Awake /\ Awake' = Awake \cup {t}
    BY <1>8 DEF WakeSpuriously, Expire, Goto, Awake, In, CallsMatch
  <2> QED
    BY <2>1, <2>2, <1>q, AwakeCounts DEF NoLostWakeup
<1> QED
  BY <1>1, <1>2, <1>3, <1>4, <1>5, <1>6, <1>7, <1>8 DEF Next

(* notify_one at every push is enough: a consumer never sleeps while there *)
(* are more values than threads on their way to them.                      *)
THEOREM WakeupsAreNotLost == Spec => []NoLostWakeup
  BY Invariant, WakeupInit, WakeupStep, PTL DEF Spec

-----------------------------------------------------------------------------
(***************************************************************************)
(* The refinement.  A call takes effect while its thread holds the mutex:  *)
(* a push when it appends, a pop when it takes or gives up.                *)
(***************************************************************************)
Mapped ==
    [t \in Threads |->
        IF pc[t] \in {"notify", "unlock"} THEN [op |-> "none"] ELSE call[t]]

LEMMA MappedInit == Init => Fifo!Init
<1> SUFFICES ASSUME Init PROVE Fifo!Init
  OBVIOUS
<1>1. Mapped = [t \in Threads |-> Fifo!Nothing]
  BY DEF Init, Mapped, Fifo!Nothing
<1> QED
  BY <1>1 DEF Init, Mapped, Fifo!Init

LEMMA MappedStep == IInv /\ [Next]_vars => [Fifo!Next]_(Fifo!vars)
<1> SUFFICES ASSUME IInv, [Next]_vars PROVE [Fifo!Next]_(Fifo!vars)
  OBVIOUS
<1> USE DEF IInv, TypesOK, Goto
<1>s. ASSUME mQueue' = mQueue, oValue' = oValue, Mapped' = Mapped
      PROVE  UNCHANGED Fifo!vars
  BY <1>s DEF Fifo!vars, Mapped
<1>1. CASE UNCHANGED vars
  <2>1. Mapped' = Mapped
    BY <1>1 DEF vars, Mapped
  <2> QED
    BY <1>1, <1>s, <2>1 DEF vars
<1>2. ASSUME NEW t \in Threads, NEW c \in Fifo!Pushes \cup Fifo!Pops, Call(t, c)
      PROVE  Fifo!Call(t, c)
  <2>1. Mapped[t] = Fifo!Nothing
    BY <1>2 DEF Call, Mapped, CallsMatch
  <2>2. Mapped' = [Mapped EXCEPT ![t] = c]
    BY <1>2 DEF Call, Mapped
  <2> QED
    BY <1>2, <2>1, <2>2 DEF Call, Mapped, Fifo!Call
<1>3. ASSUME NEW t \in Threads, Lock(t) \/ Wait(t) \/ WakeSpuriously(t) \/ Expire(t)
      PROVE  UNCHANGED Fifo!vars
  <2>1. Mapped' = Mapped
    BY <1>3 DEF Lock, Wait, WakeSpuriously, Expire, Mapped
  <2> QED
    BY <1>3, <1>s, <2>1 DEF Lock, Wait, WakeSpuriously, Expire
<1>4. ASSUME NEW t \in Threads, Unlock(t)
      PROVE  UNCHANGED Fifo!vars
  <2>1. Mapped' = Mapped
    BY <1>4 DEF Unlock, Mapped, Fifo!Nothing
  <2> QED
    BY <1>4, <1>s, <2>1 DEF Unlock
<1>5. ASSUME NEW t \in Threads, Notify(t)
      PROVE  UNCHANGED Fifo!vars
  <2>1. Mapped' = Mapped
    BY <1>5 DEF Notify, Waiting, In, Mapped
  <2> QED
    BY <1>5, <1>s, <2>1 DEF Notify
<1>6. ASSUME NEW t \in Threads, Push(t)
      PROVE  Fifo!Push(t)
  <2>1. Mapped[t] = call[t]
    BY <1>6 DEF Push, Mapped
  <2>2. Mapped' = [Mapped EXCEPT ![t] = Fifo!Nothing]
    BY <1>6 DEF Push, Mapped, Fifo!Nothing
  <2> QED
    BY <1>6, <2>1, <2>2 DEF Push, Mapped, Fifo!Push
<1>7. ASSUME NEW t \in Threads, Take(t)
      PROVE  Fifo!Pop(t)
  <2>1. Mapped[t] = call[t]
    BY <1>7 DEF Take, Mapped
  <2>2. Mapped' = [Mapped EXCEPT ![t] = Fifo!Nothing]
    BY <1>7 DEF Take, Mapped, Fifo!Nothing
  <2> QED
    BY <1>7, <2>1, <2>2 DEF Take, Mapped, Fifo!Pop
<1>8. ASSUME NEW t \in Threads, GiveUp(t)
      PROVE  Fifo!GiveUp(t)
  <2>1. Mapped[t] = call[t] /\ call[t] \in Fifo!Pops /\ call[t].op # "pop"
    BY <1>8, OpSets DEF GiveUp, Mapped
  <2>2. Mapped' = [Mapped EXCEPT ![t] = Fifo!Nothing]
    BY <1>8 DEF GiveUp, Mapped, Fifo!Nothing
  <2> QED
    BY <1>8, <2>1, <2>2 DEF GiveUp, Mapped, Fifo!GiveUp
<1> QED
  BY <1>1, <1>2, <1>3, <1>4, <1>5, <1>6, <1>7, <1>8 DEF Next, Fifo!Next

(* The mutex, the condition variable and the timed waits implement the     *)
(* plain FIFO queue that the users of the class reason with.               *)
THEOREM RefinesFifo == Spec => Implements
  BY Invariant, MappedInit, MappedStep, PTL DEF Spec, Implements, Fifo!Spec
=============================================================================
