------------------------- MODULE Rf24ControllerProofs -------------------------
(***************************************************************************)
(* Proofs about Rf24Controller, for every limit of empty reads and any     *)
(* number of writes, packets and tasks.                                    *)
(***************************************************************************)
EXTENDS Rf24Controller, SequenceTheorems, TLAPS

Task == [op : {"send"}, nr : 1 .. MaxSends]
            \cup [op : {"read"}, nr : {0}]
            \cup [op : {"handle"}, nr : 1 .. MaxArrivals]
Packet == [nr : 1 .. MaxArrivals, valid : BOOLEAN]

\* The steps that only a write takes, and all others.
Write == {"prepare", "load", "restore"}
Other == {"ToPowerDown", "ToStandbyI", "ToRxMode", "ToTxMode"}
            \cup {"PowerDown", "StandbyI", "RxMode", "TxMode", "Ignore", "Rx", "Tx"}
            \cup {"powerUp", "powerDown", "chipEnable", "chipDisable", "receiveMode",
                  "transmitMode", "clear", "clearIfSet", "flush", "flushTransmitFifo"}
            \cup {"setCallback", "configureDevice", "enablePin", "disablePin", "joinPin",
                  "drainIfSet", "readReceiveData", "read", "transmitIfLoaded",
                  "wait", "evaluate"}

TodoType == todo \in [Threads -> Seq(Other \cup Write)]

QueueTypes ==
    /\ tasks \in Seq(Task) /\ rxFifo \in Seq(Packet) /\ txFifo \in Seq(1 .. MaxSends)
    /\ sends \in 0 .. MaxSends /\ writing \in 0 .. MaxSends /\ arrived \in 0 .. MaxArrivals

\* What is on the air is still in the FIFO.
OnAirIsLoaded == onAir => txFifo # <<>>

\* A payload is loaded only in a write, that is before the write ends.
LoadIsInWrite ==
    /\ \A i \in DOMAIN todo["main"] : todo["main"][i] \notin Write
    /\ \A i \in DOMAIN todo["context"] : todo["context"][i] = "load" => writing # 0
    /\ \A i, j \in DOMAIN todo["context"] :
          todo["context"][i] = "restore" /\ todo["context"][j] = "load" => j < i

TypeInv == TypeOK /\ TodoType /\ QueueTypes /\ OnAirIsLoaded /\ LoadIsInWrite

-----------------------------------------------------------------------------
(***************************************************************************)
(* Sequences of steps without those of a write.                            *)
(***************************************************************************)
Plain == Seq(Other)

LEMMA PlainConcat ==
    ASSUME NEW s \in Plain, NEW r \in Plain
    PROVE  s \o r \in Plain
  BY DEF Plain

LEMMA PlainCalls ==
    /\ <<"ToPowerDown">> \in Plain /\ <<"ToStandbyI">> \in Plain
    /\ <<"ToRxMode">> \in Plain /\ <<"ToTxMode">> \in Plain
    /\ <<"transmitIfLoaded">> \in Plain /\ <<"setCallback", "ToRxMode">> \in Plain
    /\ <<"joinPin">> \in Plain /\ <<"readReceiveData", "clear">> \in Plain
    /\ <<"read">> \in Plain /\ <<"clear", "read">> \in Plain
    /\ <<"flushTransmitFifo">> \in Plain /\ <<"readReceiveData">> \in Plain
  BY DEF Plain, Other

LEMMA PlainSteps ==
    /\ <<>> \in Plain /\ Boot \in Plain /\ Listen \in Plain /\ StopListen \in Plain
    /\ Transmit \in Plain /\ StopTransmit \in Plain /\ Shutdown \in Plain
    /\ \A state \in States : ApplyTo[state] \in Plain
<1>1. <<>> \in Plain /\ Boot \in Plain /\ Listen \in Plain
  BY DEF Plain, Other, Boot, Listen
<1>2. StopListen \in Plain /\ Transmit \in Plain /\ StopTransmit \in Plain /\ Shutdown \in Plain
  BY DEF Plain, Other, StopListen, Transmit, StopTransmit, Shutdown
<1>3. \A state \in States : ApplyTo[state] \in Plain
  BY PlainCalls DEF States, ApplyTo
<1> QED
  BY <1>1, <1>2, <1>3

LEMMA PlainTransition ==
    ASSUME NEW state \in States, NEW call \in DOMAIN Transition.PowerDown
    PROVE  Transition[state][call] \in Plain
<1>1. call \in {"ToPowerDown", "ToStandbyI", "ToRxMode", "ToTxMode"}
  BY DEF Transition
<1>2. CASE state = "PowerDown"
  <2>1. /\ Transition["PowerDown"]["ToPowerDown"] = <<>>
        /\ Transition["PowerDown"]["ToStandbyI"] = Boot
        /\ Transition["PowerDown"]["ToRxMode"] = Boot \o <<"ToRxMode">>
        /\ Transition["PowerDown"]["ToTxMode"] = Boot \o <<"ToTxMode">>
    BY DEF Transition
  <2>2. Boot \o <<"ToRxMode">> \in Plain /\ Boot \o <<"ToTxMode">> \in Plain
    BY PlainSteps, PlainCalls, PlainConcat
  <2> QED
    BY <1>1, <1>2, <2>1, <2>2, PlainSteps
<1>3. CASE state = "StandbyI"
  BY <1>1, <1>3, PlainSteps, PlainCalls DEF Transition
<1>4. CASE state = "RxMode"
  <2>1. /\ Transition["RxMode"]["ToPowerDown"] = StopListen \o <<"ToPowerDown">>
        /\ Transition["RxMode"]["ToStandbyI"] = StopListen
        /\ Transition["RxMode"]["ToRxMode"] = <<>>
        /\ Transition["RxMode"]["ToTxMode"] = StopListen \o <<"ToTxMode">>
    BY DEF Transition
  <2>2. StopListen \o <<"ToPowerDown">> \in Plain /\ StopListen \o <<"ToTxMode">> \in Plain
    BY PlainSteps, PlainCalls, PlainConcat
  <2> QED
    BY <1>1, <1>4, <2>1, <2>2, PlainSteps
<1>5. CASE state = "TxMode"
  <2>1. /\ Transition["TxMode"]["ToPowerDown"] = StopTransmit \o <<"ToPowerDown">>
        /\ Transition["TxMode"]["ToStandbyI"] = StopTransmit
        /\ Transition["TxMode"]["ToRxMode"] = StopTransmit \o <<"ToRxMode">>
        /\ Transition["TxMode"]["ToTxMode"] = <<>>
    BY DEF Transition
  <2>2. StopTransmit \o <<"ToPowerDown">> \in Plain /\ StopTransmit \o <<"ToRxMode">> \in Plain
    BY PlainSteps, PlainCalls, PlainConcat
  <2> QED
    BY <1>1, <1>5, <2>1, <2>2, PlainSteps
<1> QED
  BY <1>2, <1>3, <1>4, <1>5 DEF States

LEMMA PlainReboot ==
    ASSUME NEW state \in States
    PROVE  Reboot(state) \in Plain /\ Configure(state) \in Plain
  BY PlainSteps, PlainCalls, PlainConcat DEF Reboot, Configure

(* Every step of a thread is replaced by others, none of them a step of a  *)
(* write, or the thread's work is abandoned.                               *)
LEMMA StepContinues ==
    ASSUME TypeOK, NEW t \in Threads, Step(t)
    PROVE  /\ todo[t] # <<>>
           /\ (\E s \in Plain : Continue(t, s)) \/ todo' = [todo EXCEPT ![t] = <<>>]
<1>1. mCurrentState \in States
  BY DEF TypeOK
<1>2. CASE Call(t)
  BY <1>1, <1>2, PlainTransition DEF Call
<1>3. CASE \/ Enter(t) \/ SetInterruptState(t) \/ SetCallback(t) \/ SetMode(t) \/ Clear(t)
           \/ Flush(t) \/ ConfigureDevice(t) \/ JoinPin(t) \/ Prepare(t) \/ Load(t)
           \/ Wait(t) \/ Restore(t)
  BY <1>3, PlainSteps DEF Enter, SetInterruptState, SetCallback, SetMode, Clear, Flush,
        ConfigureDevice, JoinPin, Prepare, Load, Wait, Restore, Reached
<1>4. CASE EnablePin(t) \/ DisablePin(t)
  BY <1>4, PlainSteps, PlainCalls DEF EnablePin, DisablePin, Reached
<1>5. CASE DrainIfSet(t) \/ ReadReceiveData(t) \/ Read(t) \/ Evaluate(t)
  BY <1>5, PlainSteps, PlainCalls DEF DrainIfSet, ReadReceiveData, Read, Evaluate, Reached
<1>6. CASE ReadEnds(t)
  BY <1>1, <1>6, PlainSteps, PlainReboot DEF ReadEnds, Reached
<1>7. CASE TransmitIfLoaded(t)
  BY <1>7, PlainSteps DEF TransmitIfLoaded, Reached
<1> QED
  BY <1>2, <1>3, <1>4, <1>5, <1>6, <1>7 DEF Step

(* The steps of a write that are left after a step keep their order.       *)
LEMMA ContinuedSteps ==
    ASSUME NEW q \in Seq(Other \cup Write), q # <<>>, NEW s \in Plain
    PROVE  /\ s \o Tail(q) \in Seq(Other \cup Write)
           /\ \A i \in DOMAIN (s \o Tail(q)) :
                 (s \o Tail(q))[i] \in Write
                    => /\ i - Len(s) + 1 \in DOMAIN q
                       /\ i - Len(s) + 1 > 1
                       /\ (s \o Tail(q))[i] = q[i - Len(s) + 1]
<1> DEFINE r == Tail(q)
<1>1. s \in Seq(Other \cup Write) /\ r \in Seq(Other \cup Write) /\ Len(r) = Len(q) - 1
  BY DEF Plain
<1>2. \A k \in 1 .. Len(r) : r[k] = q[k + 1]
  OBVIOUS
<1> HIDE DEF r
<1>3. ASSUME NEW i \in DOMAIN (s \o r), (s \o r)[i] \in Write
      PROVE  /\ i - Len(s) + 1 \in DOMAIN q /\ i - Len(s) + 1 > 1
             /\ (s \o r)[i] = q[i - Len(s) + 1]
  <2>1. i \in 1 .. Len(s) + Len(r)
    BY <1>1
  <2>2. i > Len(s)
    <3> SUFFICES ASSUME i <= Len(s) PROVE FALSE
      BY <1>1, <2>1
    <3>1. (s \o r)[i] = s[i] /\ s[i] \in Other
      BY <1>1, <2>1 DEF Plain
    <3> QED
      BY <1>3, <3>1 DEF Other, Write
  <2>3. i - Len(s) \in 1 .. Len(r) /\ (s \o r)[i] = r[i - Len(s)]
    BY <1>1, <2>1, <2>2
  <2>4. Len(s) \in Nat /\ Len(r) \in Nat /\ Len(q) = Len(r) + 1 /\ DOMAIN q = 1 .. Len(q)
    BY <1>1
  <2>5. i - Len(s) + 1 \in DOMAIN q /\ i - Len(s) + 1 > 1
    BY <2>1, <2>3, <2>4
  <2>6. r[i - Len(s)] = q[i - Len(s) + 1]
    BY <1>2, <2>3
  <2> QED
    BY <2>3, <2>5, <2>6
<1>4. s \o r \in Seq(Other \cup Write)
  BY <1>1
<1> QED
  BY <1>3, <1>4 DEF r

-----------------------------------------------------------------------------
(***************************************************************************)
(* Types.                                                                  *)
(***************************************************************************)
LEMMA TypeInit == Init => TypeInv
<1> SUFFICES ASSUME Init PROVE TypeInv
  OBVIOUS
<1>1. todo = [context |-> <<>>, main |-> Configure("PowerDown") \o StartListening]
  BY DEF Init
<1>2. Configure("PowerDown") \o StartListening \in Plain
  BY PlainReboot, PlainCalls, PlainConcat DEF StartListening, States
<1> DEFINE steps == Configure("PowerDown") \o StartListening
<1> HIDE DEF steps
<1>3. /\ steps \in Seq(Other \cup Write)
      /\ \A i \in DOMAIN steps : steps[i] \notin Write
  <2>1. steps \in Seq(Other)
    BY <1>2 DEF Plain, steps
  <2>2. \A x \in Other : x \notin Write
    BY DEF Other, Write
  <2> QED
    BY <2>1, <2>2
<1>4. TodoType /\ LoadIsInWrite
  <2>1. todo["main"] = steps /\ todo["context"] = <<>>
    BY <1>1 DEF steps
  <2>2. TodoType
    <3>1. todo = [t \in Threads |-> IF t = "main" THEN steps ELSE <<>>]
      BY <1>1 DEF Threads, steps
    <3> QED
      BY <1>3, <3>1 DEF TodoType
  <2> QED
    BY <1>3, <2>1, <2>2 DEF LoadIsInWrite
<1>5. TypeOK
  BY Rf24ControllerAssumption DEF Init, TypeOK, States
<1>6. QueueTypes /\ OnAirIsLoaded
  BY Rf24ControllerAssumption DEF Init, QueueTypes, OnAirIsLoaded
<1> QED
  BY <1>4, <1>5, <1>6 DEF TypeInv

LEMMA HeadOfSteps ==
    ASSUME TodoType, NEW t \in Threads, NEW step, Reached(t, step)
    PROVE  1 \in DOMAIN todo[t] /\ todo[t][1] = step
  BY DEF TodoType, Reached

(* Writing ends where no payload is left to be loaded.                     *)
LEMMA LoadStep ==
    ASSUME TypeInv, NEW t \in Threads, Step(t)
    PROVE  TodoType' /\ LoadIsInWrite'
<1> DEFINE q == todo[t]
<1>1. q \in Seq(Other \cup Write) /\ q # <<>>
  BY StepContinues DEF TypeInv, TodoType
<1>2. CASE todo' = [todo EXCEPT ![t] = <<>>] /\ writing' = writing
  BY <1>2 DEF TypeInv, TodoType, LoadIsInWrite, Threads
<1>3. ASSUME NEW s \in Plain, Continue(t, s)
      PROVE  TodoType' /\ LoadIsInWrite'
  <2>1. todo' = [todo EXCEPT ![t] = s \o Tail(q)]
    BY <1>3 DEF Continue
  <2> DEFINE r == s \o Tail(q)
  <2>2. /\ r \in Seq(Other \cup Write)
        /\ \A i \in DOMAIN r :
              r[i] \in Write => /\ i - Len(s) + 1 \in DOMAIN q /\ i - Len(s) + 1 > 1
                                /\ r[i] = q[i - Len(s) + 1]
    BY <1>1, ContinuedSteps
  <2> HIDE DEF r
  <2>3. TodoType'
    BY <2>1, <2>2 DEF r, TypeInv, TodoType
  <2>4. todo'[t] = r /\ \A u \in Threads \ {t} : todo'[u] = todo[u]
    BY <2>1 DEF r, TypeInv, TodoType
  <2>5. CASE t = "main"
    <3>1. \A i \in DOMAIN r : r[i] \notin Write
      BY <2>2, <2>5 DEF TypeInv, LoadIsInWrite
    <3>2. ~Restore(t)
      BY <1>1, <2>5, HeadOfSteps DEF Restore, TypeInv, LoadIsInWrite, Write
    <3>3. writing' = writing
      BY <3>2 DEF Step, Call, Enter, SetInterruptState, SetCallback, SetMode, Clear, Flush,
           ConfigureDevice, EnablePin, DisablePin, JoinPin, DrainIfSet, ReadReceiveData, Read,
           ReadEnds, Prepare, Load, TransmitIfLoaded, Wait, Evaluate, history
    <3> QED
      BY <2>3, <2>4, <2>5, <3>1, <3>3 DEF TypeInv, LoadIsInWrite, Threads
  <2>6. CASE t = "context"
    <3>1. todo'["main"] = todo["main"] /\ todo'["context"] = r
      BY <2>4, <2>6 DEF Threads
    <3>2. \A i \in DOMAIN r : r[i] = "load" => writing' # 0
      <4>1. CASE Restore(t)
        <5>1. 1 \in DOMAIN q /\ q[1] = "restore"
          BY <4>1, HeadOfSteps DEF Restore, TypeInv
        <5>2. \A j \in DOMAIN q : q[j] = "load" => j < 1
          BY <2>6, <5>1 DEF TypeInv, LoadIsInWrite
        <5> QED
          BY <1>1, <2>2, <5>2 DEF Write
      <4>2. CASE ~Restore(t)
        <5>1. writing' = writing
          BY <4>2 DEF Step, Call, Enter, SetInterruptState, SetCallback, SetMode, Clear, Flush,
               ConfigureDevice, EnablePin, DisablePin, JoinPin, DrainIfSet, ReadReceiveData, Read,
               ReadEnds, Prepare, Load, TransmitIfLoaded, Wait, Evaluate, history
        <5> QED
          BY <2>2, <2>6, <5>1 DEF TypeInv, LoadIsInWrite, Write
      <4> QED
        BY <4>1, <4>2
    <3>3. ASSUME NEW i \in DOMAIN r, NEW j \in DOMAIN r, r[i] = "restore", r[j] = "load"
          PROVE  j < i
      <4>1. Len(s) \in Nat /\ i \in Nat /\ j \in Nat
        BY <2>2 DEF Plain
      <4>2. /\ i - Len(s) + 1 \in DOMAIN q /\ q[i - Len(s) + 1] = "restore"
            /\ j - Len(s) + 1 \in DOMAIN q /\ q[j - Len(s) + 1] = "load"
        BY <2>2, <3>3 DEF Write
      <4>3. j - Len(s) + 1 < i - Len(s) + 1
        BY <2>6, <4>2 DEF TypeInv, LoadIsInWrite
      <4> QED
        BY <4>1, <4>3
    <3> QED
      BY <2>3, <3>1, <3>2, <3>3 DEF TypeInv, LoadIsInWrite
  <2> QED
    BY <2>5, <2>6 DEF Threads
<1>4. CASE todo' = [todo EXCEPT ![t] = <<>>] /\ writing' # writing
  <2>1. Restore(t)
    BY <1>4 DEF Step, Call, Enter, SetInterruptState, SetCallback, SetMode, Clear, Flush,
         ConfigureDevice, EnablePin, DisablePin, JoinPin, DrainIfSet, ReadReceiveData, Read,
         ReadEnds, Prepare, Load, TransmitIfLoaded, Wait, Evaluate, history
  <2>2. Continue(t, <<>>)
    BY <2>1 DEF Restore
  <2> QED
    BY <1>3, <2>2, PlainSteps
<1> QED
  BY <1>2, <1>3, <1>4, StepContinues DEF TypeInv

LEMMA FollowedByPlain ==
    ASSUME NEW w \in Seq(Other \cup Write), NEW p \in Plain
    PROVE  /\ w \o p \in Seq(Other \cup Write)
           /\ \A i \in DOMAIN (w \o p) :
                 (w \o p)[i] \in Write => i \in DOMAIN w /\ (w \o p)[i] = w[i]
<1>1. p \in Seq(Other) /\ p \in Seq(Other \cup Write) /\ w \o p \in Seq(Other \cup Write)
  BY DEF Plain
<1>2. ASSUME NEW i \in DOMAIN (w \o p), (w \o p)[i] \in Write
      PROVE  i \in DOMAIN w /\ (w \o p)[i] = w[i]
  <2>1. i \in 1 .. Len(w) + Len(p)
    BY <1>1
  <2>2. i <= Len(w)
    <3> SUFFICES ASSUME i > Len(w) PROVE FALSE
      BY <1>1, <2>1
    <3>1. i - Len(w) \in DOMAIN p /\ (w \o p)[i] = p[i - Len(w)]
      BY <1>1, <2>1
    <3>2. p[i - Len(w)] \in Other
      BY <1>1, <3>1
    <3> QED
      BY <1>2, <3>1, <3>2 DEF Other, Write
  <2> QED
    BY <1>1, <2>1, <2>2
<1> QED
  BY <1>1, <1>2

LEMMA Bounds == MaxEmpty \in Nat /\ MaxSends \in Nat /\ MaxArrivals \in Nat
  BY Rf24ControllerAssumption

LEMMA TypesStay ==
    ASSUME TypeInv,
           UNCHANGED <<mCurrentState, mInterruptState, mEmptyReceiveCounter, delivered, poll,
                       acknowledged>>,
           UNCHANGED <<tasks, rxFifo, txFifo, sends, writing, arrived, onAir>>
    PROVE  TypeOK' /\ QueueTypes' /\ OnAirIsLoaded'
  BY DEF TypeInv, TypeOK, QueueTypes, OnAirIsLoaded

LEMMA TypeOfStep ==
    ASSUME TypeInv, NEW t \in Threads, Step(t)
    PROVE  TypeOK' /\ QueueTypes' /\ OnAirIsLoaded'
<1> USE DEF controller, locals, pin, modes, fifos, device, history
<1>1. CASE Call(t) \/ SetCallback(t)
  BY <1>1, TypesStay DEF Call, SetCallback
<1>2. CASE Clear(t) \/ ConfigureDevice(t)
  <2>1. CASE Clear(t)
    BY <2>1, TypesStay DEF Clear
  <2>2. CASE ConfigureDevice(t)
    BY <2>2, TypesStay DEF ConfigureDevice
  <2> QED
    BY <1>2, <2>1, <2>2
<1>3. CASE DrainIfSet(t) \/ ReadReceiveData(t) \/ DisablePin(t)
  BY <1>3, TypesStay DEF DrainIfSet, ReadReceiveData, DisablePin
<1>4. CASE Prepare(t) \/ TransmitIfLoaded(t) \/ Wait(t)
  BY <1>4, TypesStay DEF Prepare, TransmitIfLoaded, Wait
<1>5. CASE Evaluate(t)
  BY <1>5, TypesStay DEF Evaluate
<1>6. CASE Enter(t) \/ SetInterruptState(t)
  <2>1. mCurrentState' \in States /\ mInterruptState' \in {"Ignore", "Rx", "Tx"}
    BY <1>6 DEF Enter, SetInterruptState, TypeInv, TypeOK
  <2>2. UNCHANGED <<mEmptyReceiveCounter, delivered, poll, acknowledged,
                    tasks, rxFifo, txFifo, sends, writing, arrived, onAir>>
    BY <1>6 DEF Enter, SetInterruptState
  <2> QED
    BY <2>1, <2>2 DEF TypeInv, TypeOK, QueueTypes, OnAirIsLoaded
<1>7. CASE SetMode(t)
  <2>1. onAir' => onAir
    BY <1>7 DEF SetMode
  <2> QED
    BY <1>7, <2>1 DEF SetMode, TypeInv, TypeOK, QueueTypes, OnAirIsLoaded
<1>8. CASE Flush(t)
  <2>1. rxFifo' \in {rxFifo, <<>>} /\ txFifo' = <<>> /\ onAir' = FALSE
    BY <1>8 DEF Flush
  <2> QED
    BY <1>8, <2>1 DEF Flush, TypeInv, TypeOK, QueueTypes, OnAirIsLoaded
<1>9. CASE EnablePin(t) \/ JoinPin(t)
  <2>1. poll' \in {"off", "waiting", "handling", "ended"}
    BY <1>9 DEF EnablePin, JoinPin, TypeInv, TypeOK
  <2>2. UNCHANGED <<mCurrentState, mInterruptState, mEmptyReceiveCounter, delivered, acknowledged,
                    tasks, rxFifo, txFifo, sends, writing, arrived, onAir>>
    BY <1>9 DEF EnablePin, JoinPin
  <2> QED
    BY <2>1, <2>2 DEF TypeInv, TypeOK, QueueTypes, OnAirIsLoaded
<1>10. CASE Read(t)
  <2>1. Head(rxFifo) \in Packet /\ Tail(rxFifo) \in Seq(Packet) /\ Len(Tail(rxFifo)) <= 3
    BY <1>10 DEF Read, TypeInv, TypeOK, QueueTypes
  <2>2. [op |-> "handle", nr |-> Head(rxFifo).nr] \in Task
    BY <2>1 DEF Packet, Task
  <2> DEFINE task == [op |-> "handle", nr |-> Head(rxFifo).nr]
  <2> HIDE DEF task
  <2>3. tasks' \in {tasks, Append(tasks, task)} /\ rxFifo' \in {Tail(rxFifo), <<>>}
    BY <1>10 DEF Read, task
  <2>4. tasks' \in Seq(Task) /\ rxFifo' \in Seq(Packet) /\ Len(rxFifo') <= 3
    <3>1. Append(tasks, task) \in Seq(Task)
      BY <2>2 DEF task, TypeInv, QueueTypes
    <3>2. tasks' \in Seq(Task)
      BY <2>3, <3>1 DEF TypeInv, QueueTypes
    <3>3. CASE rxFifo' = Tail(rxFifo)
      BY <2>1, <3>2, <3>3
    <3>4. CASE rxFifo' = <<>>
      BY <3>2, <3>4
    <3> QED
      BY <2>3, <3>3, <3>4
  <2> QED
    BY <1>10, <2>4 DEF Read, TypeInv, TypeOK, QueueTypes, OnAirIsLoaded
<1>11. CASE ReadEnds(t)
  <2>1. mEmptyReceiveCounter' \in 0 .. MaxEmpty
    BY <1>11, Rf24ControllerAssumption DEF ReadEnds, TypeInv, TypeOK
  <2>2. UNCHANGED <<mCurrentState, mInterruptState, delivered, poll, acknowledged,
                    tasks, rxFifo, txFifo, sends, writing, arrived, onAir>>
    BY <1>11 DEF ReadEnds
  <2> QED
    BY <2>1, <2>2 DEF TypeInv, TypeOK, QueueTypes, OnAirIsLoaded
<1>12. CASE Load(t)
  <2>1. 1 \in DOMAIN todo[t] /\ todo[t][1] = "load"
    BY <1>12, HeadOfSteps DEF Load, TypeInv
  <2>2. writing # 0
    BY <2>1 DEF TypeInv, LoadIsInWrite, Write, Threads
  <2>3. writing \in 1 .. MaxSends /\ txFifo \in Seq(1 .. MaxSends)
    BY <2>2 DEF TypeInv, QueueTypes
  <2>4. txFifo' \in Seq(1 .. MaxSends) /\ Len(txFifo') <= 3 /\ (txFifo # <<>> => txFifo' # <<>>)
    <3>1. CASE Len(txFifo) < 3
      BY <1>12, <2>3, <3>1 DEF Load
    <3>2. CASE ~(Len(txFifo) < 3)
      BY <1>12, <2>3, <3>2 DEF Load, TypeInv, TypeOK
    <3> QED
      BY <3>1, <3>2
  <2> QED
    BY <1>12, <2>4 DEF Load, TypeInv, TypeOK, QueueTypes, OnAirIsLoaded
<1>13. CASE Restore(t)
  BY <1>13, Rf24ControllerAssumption DEF Restore, TypeInv, TypeOK, QueueTypes, OnAirIsLoaded
<1> QED
  BY <1>1, <1>2, <1>3, <1>4, <1>5, <1>6, <1>7, <1>8, <1>9, <1>10, <1>11, <1>12, <1>13 DEF Step

(* A write gives the context the whole of its steps.                       *)
LEMMA TypeOfWrite ==
    ASSUME TypeInv, NEW nr \in 1 .. MaxSends, StartWrite(nr)
    PROVE  TodoType' /\ LoadIsInWrite' /\ writing' \in 1 .. MaxSends
<1> DEFINE first == <<"ToStandbyI", "prepare", "load", "ToTxMode", "wait", "ToStandbyI",
                      "evaluate", "restore">>
           all == TransmitPacket(mCurrentState)
<1>1. todo' = [todo EXCEPT !["context"] = all] /\ writing' = nr
  BY DEF StartWrite
<1>2. writing' \in 1 .. MaxSends /\ writing' # 0
  BY <1>1, Bounds
<1>3. /\ all \in Seq(Other \cup Write)
      /\ \A i \in DOMAIN all : all[i] = "load" => i <= 3
      /\ \A i \in DOMAIN all : all[i] = "restore" => i > 3
  <2>1. first \in Seq(Other \cup Write) /\ Len(first) = 8
    BY DEF Other, Write
  <2>2. \A i \in DOMAIN first : /\ first[i] = "load" => i <= 3
                                /\ first[i] = "restore" => i > 3
    OBVIOUS
  <2>3. ApplyTo[mCurrentState] \in Plain
    BY PlainSteps DEF TypeInv, TypeOK
  <2>4. all = first \o ApplyTo[mCurrentState]
    BY DEF TransmitPacket
  <2> HIDE DEF first, all
  <2>5. /\ all \in Seq(Other \cup Write)
        /\ \A i \in DOMAIN all : all[i] \in Write => i \in DOMAIN first /\ all[i] = first[i]
    BY <2>1, <2>3, <2>4, FollowedByPlain
  <2> QED
    BY <2>2, <2>5 DEF Write
<1> HIDE DEF all
<1>4. TodoType' /\ todo'["main"] = todo["main"] /\ todo'["context"] = all
  BY <1>1, <1>3 DEF TypeInv, TodoType, Threads
<1>5. \A i, j \in DOMAIN all : all[i] = "restore" /\ all[j] = "load" => j < i
  BY <1>3
<1>6. LoadIsInWrite'
  BY <1>2, <1>4, <1>5 DEF TypeInv, LoadIsInWrite
<1> QED
  BY <1>2, <1>4, <1>6

(* A task is a write, a reading, or a packet that is kept.                 *)
LEMMA TaskTaken ==
    ASSUME TypeInv, TakeTask
    PROVE  /\ \/ \E nr \in 1 .. MaxSends : StartWrite(nr)
              \/ /\ todo' \in {todo, [todo EXCEPT !["context"] = <<"readReceiveData">>]}
                 /\ UNCHANGED <<writing, early>>
           /\ sends' \in 0 .. MaxSends /\ delivered' \in Seq(1 .. MaxArrivals)
<1>1. /\ Head(tasks) \in Task /\ sends \in 0 .. MaxSends /\ MaxSends \in Nat
      /\ delivered \in Seq(1 .. MaxArrivals)
  BY Bounds DEF TakeTask, TypeInv, TypeOK, QueueTypes
<1>2. CASE Head(tasks).op = "send"
  <2>1. Head(tasks).nr \in 1 .. MaxSends
    BY <1>1, <1>2 DEF Task
  <2>2. StartWrite(Head(tasks).nr) /\ UNCHANGED <<sends, delivered>>
    BY <1>2 DEF TakeTask
  <2> QED
    BY <1>1, <2>1, <2>2
<1>3. CASE Head(tasks).op = "read"
  BY <1>1, <1>3 DEF TakeTask
<1>4. CASE Head(tasks).op = "handle"
  <2>1. HandleReceiveData(Head(tasks).nr)
    BY <1>4 DEF TakeTask
  <2>2. Head(tasks).nr \in 1 .. MaxArrivals
    BY <1>1, <1>4 DEF Task
  <2>3. delivered' \in Seq(1 .. MaxArrivals)
    <3>1. Append(delivered, Head(tasks).nr) \in Seq(1 .. MaxArrivals)
      BY <1>1, <2>2
    <3>2. delivered' = delivered \/ delivered' = Append(delivered, Head(tasks).nr)
      BY <2>1 DEF HandleReceiveData
    <3> QED
      BY <1>1, <3>1, <3>2
  <2>4. \/ UNCHANGED <<todo, sends, writing, early>>
        \/ sends < MaxSends /\ sends' = sends + 1 /\ StartWrite(sends + 1)
    BY <2>1 DEF HandleReceiveData
  <2>5. sends < MaxSends => sends + 1 \in 1 .. MaxSends
    BY <1>1
  <2> QED
    BY <1>1, <2>3, <2>4, <2>5
<1> QED
  BY <1>1, <1>2, <1>3, <1>4 DEF Task

LEMMA TypeOfTakeTask == ASSUME TypeInv, TakeTask PROVE TypeInv'
<1>1. Tail(tasks) \in Seq(Task) /\ sends' \in 0 .. MaxSends /\ delivered' \in Seq(1 .. MaxArrivals)
  BY TaskTaken DEF TakeTask, TypeInv, QueueTypes
<1>2. TodoType' /\ LoadIsInWrite' /\ writing' \in 0 .. MaxSends
  <2>1. CASE \E nr \in 1 .. MaxSends : StartWrite(nr)
    <3>1. TodoType' /\ LoadIsInWrite' /\ writing' \in 1 .. MaxSends
      BY <2>1, TypeOfWrite
    <3> QED
      BY <3>1, Bounds
  <2>2. CASE /\ todo' \in {todo, [todo EXCEPT !["context"] = <<"readReceiveData">>]}
             /\ UNCHANGED <<writing, early>>
    <3>1. writing' \in 0 .. MaxSends
      BY <2>2 DEF TypeInv, QueueTypes
    <3>2. CASE todo' = todo
      BY <2>2, <3>1, <3>2 DEF TypeInv, TodoType, LoadIsInWrite
    <3>3. CASE todo' = [todo EXCEPT !["context"] = <<"readReceiveData">>]
      BY <2>2, <3>1, <3>3 DEF TypeInv, TodoType, LoadIsInWrite, Other, Write, Threads
    <3> QED
      BY <2>2, <3>2, <3>3
  <2> QED
    BY <2>1, <2>2, TaskTaken
<1>3. TypeOK' /\ QueueTypes' /\ OnAirIsLoaded'
  BY <1>1, <1>2 DEF TakeTask, TypeInv, TypeOK, QueueTypes, OnAirIsLoaded, controller,
     locals, pin, modes, fifos, device
<1> QED
  BY <1>2, <1>3 DEF TypeInv

LEMMA TypeOfOthers ==
    ASSUME TypeInv,
           \/ Send \/ PollWakes \/ OnInterrupt \/ PollEnds
           \/ \E valid \in BOOLEAN : Arrive(valid)
           \/ Transmits \/ DataSent \/ RetransmitsExceeded
    PROVE  TypeInv'
<1>1. TodoType' /\ LoadIsInWrite'
  <2>1. UNCHANGED <<todo, writing>>
    BY DEF Send, PollWakes, OnInterrupt, PollEnds, Arrive, Transmits, DataSent,
       RetransmitsExceeded, history
  <2> QED
    BY <2>1 DEF TypeInv, TodoType, LoadIsInWrite
<1>2. CASE Send
  <2>1. tasks' \in Seq(Task) /\ sends' \in 0 .. MaxSends
    BY <1>2, Bounds DEF Send, Task, TypeInv, QueueTypes
  <2>2. TypeOK' /\ QueueTypes' /\ OnAirIsLoaded'
    BY <1>2, <2>1 DEF Send, TypeInv, TypeOK, QueueTypes, OnAirIsLoaded, controller, pin, modes,
       fifos, device
  <2> QED
    BY <1>1, <2>2 DEF TypeInv
<1>3. CASE PollWakes \/ PollEnds
  <2>1. /\ poll' \in {"off", "waiting", "handling", "ended"}
        /\ UNCHANGED <<controller, tasks, device, history>>
    BY <1>3 DEF PollWakes, PollEnds
  <2>2. TypeOK' /\ QueueTypes' /\ OnAirIsLoaded'
    BY <2>1 DEF TypeInv, TypeOK, QueueTypes, OnAirIsLoaded, controller, modes, fifos, device, history
  <2> QED
    BY <1>1, <2>2 DEF TypeInv
<1>4. CASE OnInterrupt
  <2>1. Append(tasks, [op |-> "read", nr |-> 0]) \in Seq(Task)
    BY DEF TypeInv, QueueTypes, Task
  <2>2. tasks' \in Seq(Task)
    BY <1>4, <2>1 DEF OnInterrupt, TypeInv, QueueTypes
  <2>3. TypeOK' /\ QueueTypes' /\ OnAirIsLoaded'
    BY <1>4, <2>2 DEF OnInterrupt, TypeInv, TypeOK, QueueTypes, OnAirIsLoaded, controller, modes,
       fifos, device, history
  <2> QED
    BY <1>1, <2>3 DEF TypeInv
<1>5. ASSUME NEW valid \in BOOLEAN, Arrive(valid)
      PROVE  TypeInv'
  <2>1. arrived' \in 1 .. MaxArrivals /\ [nr |-> arrived + 1, valid |-> valid] \in Packet
    BY <1>5, Bounds DEF Arrive, Packet, TypeInv, QueueTypes
  <2>2. rxFifo' \in Seq(Packet) /\ Len(rxFifo') <= 3
    BY <1>5, <2>1 DEF Arrive, TypeInv, QueueTypes
  <2>3. TypeOK' /\ QueueTypes' /\ OnAirIsLoaded'
    BY <1>5, <2>1, <2>2 DEF Arrive, Raise, TypeInv, TypeOK, QueueTypes, OnAirIsLoaded, controller
  <2> QED
    BY <1>1, <2>3 DEF TypeInv
<1>6. CASE Transmits \/ RetransmitsExceeded
  <2>1. /\ UNCHANGED <<controller, tasks, poll, rxFifo, txFifo, history>>
        /\ onAir' => txFifo # <<>>
    BY <1>6 DEF Transmits, RetransmitsExceeded, pin
  <2>2. TypeOK' /\ QueueTypes' /\ OnAirIsLoaded'
    BY <2>1 DEF TypeInv, TypeOK, QueueTypes, OnAirIsLoaded, controller, history
  <2> QED
    BY <1>1, <2>2 DEF TypeInv
<1>7. CASE DataSent
  <2>1. /\ Head(txFifo) \in 1 .. MaxSends /\ Tail(txFifo) \in Seq(1 .. MaxSends)
        /\ Len(Tail(txFifo)) <= 3
    BY <1>7, Bounds DEF DataSent, TypeInv, TypeOK, QueueTypes, OnAirIsLoaded
  <2>2. TypeOK' /\ QueueTypes' /\ OnAirIsLoaded'
    BY <1>7, <2>1 DEF DataSent, Raise, TypeInv, TypeOK, QueueTypes, OnAirIsLoaded, controller
  <2> QED
    BY <1>1, <2>2 DEF TypeInv
<1> QED
  BY <1>2, <1>3, <1>4, <1>5, <1>6, <1>7

LEMMA TypeStep == TypeInv /\ [Next]_vars => TypeInv'
<1> SUFFICES ASSUME TypeInv, [Next]_vars PROVE TypeInv'
  OBVIOUS
<1>1. CASE \E t \in Threads : Step(t)
  BY <1>1, LoadStep, TypeOfStep DEF TypeInv
<1>2. CASE UNCHANGED vars
  BY <1>2 DEF vars, controller, locals, pin, modes, fifos, device, history, TypeInv, TypeOK,
     TodoType, QueueTypes, OnAirIsLoaded, LoadIsInWrite
<1> QED
  BY <1>1, <1>2, TypeOfTakeTask, TypeOfOthers DEF Next

(* Modes, counters and queues have their types, the counter of empty reads *)
(* stays within its limit, and only packets that were written are ever     *)
(* acknowledged, although the steps of the threads interleave at will.     *)
THEOREM TypeCorrect == Spec => []TypeOK
<1>1. TypeInv => TypeOK
  BY DEF TypeInv
<1> QED
  BY <1>1, TypeInit, TypeStep, PTL DEF Spec

-----------------------------------------------------------------------------
(***************************************************************************)
(* Order: the numbers of the packets are those of their arrival, and so    *)
(* below the next one.                                                     *)
(***************************************************************************)
HasArrived ==
    /\ \A d \in DOMAIN delivered : delivered[d] <= arrived
    /\ \A h \in Handles : tasks[h].nr <= arrived
    /\ \A f \in DOMAIN rxFifo : rxFifo[f].nr <= arrived

OrderInv == DeliveredInOrder /\ HasArrived

LEMMA OrderInit == Init => OrderInv
  BY DEF Init, OrderInv, DeliveredInOrder, HasArrived, InOrder, Handles

LEMMA OrderStays ==
    ASSUME OrderInv, UNCHANGED <<tasks, rxFifo, delivered, arrived>>
    PROVE  OrderInv'
  BY DEF OrderInv, DeliveredInOrder, HasArrived, InOrder, Handles

(* A task that is no packet changes nothing.                               *)
LEMMA OrderOfOtherTask ==
    ASSUME TypeInv, OrderInv, NEW task, task.op # "handle",
           tasks' = Append(tasks, task), UNCHANGED <<rxFifo, delivered, arrived>>
    PROVE  OrderInv'
<1>1. tasks \in Seq(Task)
  BY DEF TypeInv, QueueTypes
<1>2. Handles' = Handles /\ \A h \in Handles : tasks'[h] = tasks[h]
  BY <1>1 DEF Handles
<1> QED
  BY <1>2 DEF OrderInv, DeliveredInOrder, HasArrived, InOrder

(* The first packet of the FIFO becomes the last of the tasks.             *)
LEMMA OrderOfRead ==
    ASSUME TypeInv, OrderInv, NEW t \in Threads, Read(t)
    PROVE  OrderInv'
<1>1. /\ tasks \in Seq(Task) /\ rxFifo \in Seq(Packet) /\ rxFifo # <<>>
      /\ UNCHANGED <<delivered, arrived>>
  BY DEF Read, TypeInv, QueueTypes, history
<1>2. CASE rxFifo' = <<>> /\ UNCHANGED tasks
  BY <1>1, <1>2 DEF OrderInv, DeliveredInOrder, HasArrived, InOrder, Handles
<1>3. CASE /\ tasks' = Append(tasks, [op |-> "handle", nr |-> Head(rxFifo).nr])
           /\ rxFifo' = Tail(rxFifo)
  <2> DEFINE n == Len(tasks) + 1
             first == rxFifo[1].nr
  <2>1. first \in Nat /\ 1 \in DOMAIN rxFifo /\ n \in Nat
    <3>1. 1 \in DOMAIN rxFifo /\ rxFifo[1] \in Packet
      BY <1>1
    <3> QED
      BY <1>1, <3>1 DEF Packet
  <2>2. /\ Handles' = Handles \cup {n}
        /\ \A h \in Handles : h < n /\ h \in Nat /\ tasks'[h] = tasks[h]
        /\ tasks'[n].nr = first
    BY <1>1, <1>3 DEF Handles
  <2>3. \A f \in DOMAIN rxFifo' : /\ f \in Nat /\ f + 1 \in DOMAIN rxFifo /\ f + 1 # 1
                                  /\ rxFifo'[f] = rxFifo[f + 1]
    BY <1>1, <1>3
  <2> HIDE DEF n
  <2>4. \A f \in DOMAIN rxFifo : f # 1 => first < rxFifo[f].nr
    BY <1>1, <2>1 DEF OrderInv, DeliveredInOrder, InOrder
  <2>5. \A f \in DOMAIN rxFifo' : first < rxFifo'[f].nr
    BY <2>3, <2>4
  <2>6. InOrder(rxFifo, DOMAIN rxFifo)'
    BY <2>3 DEF OrderInv, DeliveredInOrder, InOrder
  <2>7. InOrder(tasks, Handles)'
    BY <2>1, <2>2 DEF OrderInv, DeliveredInOrder, InOrder
  <2>8. \A d \in DOMAIN delivered, h \in Handles' : delivered[d] < tasks'[h].nr
    BY <2>1, <2>2 DEF OrderInv, DeliveredInOrder
  <2>9. \A d \in DOMAIN delivered, f \in DOMAIN rxFifo' : delivered[d] < rxFifo'[f].nr
    BY <2>3 DEF OrderInv, DeliveredInOrder
  <2>10. \A h \in Handles', f \in DOMAIN rxFifo' : tasks'[h].nr < rxFifo'[f].nr
    BY <2>2, <2>3, <2>5 DEF OrderInv, DeliveredInOrder
  <2>11. HasArrived'
    BY <1>1, <2>1, <2>2, <2>3 DEF OrderInv, HasArrived
  <2> QED
    BY <1>1, <2>6, <2>7, <2>8, <2>9, <2>10, <2>11 DEF OrderInv, DeliveredInOrder
<1> QED
  BY <1>2, <1>3 DEF Read

(* The first of the tasks becomes the last that was handed over.           *)
LEMMA OrderOfTakeTask ==
    ASSUME TypeInv, OrderInv, TakeTask
    PROVE  OrderInv'
<1>1. /\ tasks \in Seq(Task) /\ tasks # <<>> /\ tasks' = Tail(tasks)
      /\ delivered \in Seq(1 .. MaxArrivals)
      /\ UNCHANGED <<rxFifo, arrived>>
  BY DEF TakeTask, TypeInv, TypeOK, QueueTypes, device, fifos
<1>2. \A h \in Handles' : h \in Nat /\ h + 1 \in Handles /\ tasks'[h] = tasks[h + 1] /\ h + 1 # 1
  BY <1>1 DEF Handles
<1>3. InOrder(tasks, Handles)'
  BY <1>2 DEF OrderInv, DeliveredInOrder, InOrder
<1>4. InOrder(rxFifo, DOMAIN rxFifo)'
  BY <1>1 DEF OrderInv, DeliveredInOrder, InOrder
<1>5. \A h \in Handles', f \in DOMAIN rxFifo : tasks'[h].nr < rxFifo[f].nr
  BY <1>2 DEF OrderInv, DeliveredInOrder
<1>6. CASE delivered' = delivered
  <2>1. HasArrived'
    BY <1>1, <1>2, <1>6 DEF OrderInv, HasArrived
  <2>2. \A d \in DOMAIN delivered, h \in Handles' : delivered[d] < tasks'[h].nr
    BY <1>2 DEF OrderInv, DeliveredInOrder
  <2> QED
    BY <1>1, <1>3, <1>4, <1>5, <1>6, <2>1, <2>2 DEF OrderInv, DeliveredInOrder
<1>7. CASE Head(tasks).op = "handle" /\ delivered' = Append(delivered, Head(tasks).nr)
  <2> DEFINE n == Len(delivered) + 1
             first == tasks[1].nr
  <2>1. 1 \in Handles /\ first \in Nat /\ n \in Nat
    <3>1. tasks[1] \in Task /\ 1 \in DOMAIN tasks /\ tasks[1].op = "handle"
      BY <1>1, <1>7
    <3> QED
      BY <1>1, <3>1 DEF Handles, Task
  <2>2. /\ DOMAIN delivered' = DOMAIN delivered \cup {n} /\ delivered'[n] = first
        /\ \A d \in DOMAIN delivered : d < n /\ d \in Nat /\ delivered'[d] = delivered[d]
    BY <1>1, <1>7
  <2> HIDE DEF n
  <2>3. \A h \in Handles' : first < tasks'[h].nr
    BY <1>2, <2>1 DEF OrderInv, DeliveredInOrder, InOrder
  <2>4. \A i, j \in DOMAIN delivered' : i < j => delivered'[i] < delivered'[j]
    BY <2>1, <2>2 DEF OrderInv, DeliveredInOrder
  <2>5. \A d \in DOMAIN delivered', h \in Handles' : delivered'[d] < tasks'[h].nr
    BY <1>2, <2>2, <2>3 DEF OrderInv, DeliveredInOrder
  <2>6. \A d \in DOMAIN delivered', f \in DOMAIN rxFifo : delivered'[d] < rxFifo[f].nr
    BY <2>1, <2>2 DEF OrderInv, DeliveredInOrder
  <2>7. HasArrived'
    BY <1>1, <1>2, <2>1, <2>2 DEF OrderInv, HasArrived
  <2> QED
    BY <1>1, <1>3, <1>4, <1>5, <2>4, <2>5, <2>6, <2>7 DEF OrderInv, DeliveredInOrder
<1>8. \/ delivered' = delivered
      \/ Head(tasks).op = "handle" /\ delivered' = Append(delivered, Head(tasks).nr)
  BY DEF TakeTask, HandleReceiveData
<1> QED
  BY <1>6, <1>7, <1>8

LEMMA TypeOfElement ==
    ASSUME NEW S, NEW q \in Seq(S), NEW i \in DOMAIN q
    PROVE  q[i] \in S
  OBVIOUS

LEMMA OrderOfArrive ==
    ASSUME TypeInv, OrderInv, NEW valid \in BOOLEAN, Arrive(valid)
    PROVE  OrderInv'
<1> DEFINE n == Len(rxFifo) + 1
<1>1. /\ rxFifo \in Seq(Packet) /\ arrived \in Nat
      /\ UNCHANGED <<tasks, delivered>> /\ arrived' = arrived + 1
      /\ rxFifo' = Append(rxFifo, [nr |-> arrived + 1, valid |-> valid])
      /\ \A d \in DOMAIN delivered : delivered[d] \in Nat
      /\ \A h \in Handles : tasks[h].nr \in Nat
  <2>1. /\ rxFifo \in Seq(Packet) /\ arrived \in Nat
        /\ UNCHANGED <<tasks, delivered>> /\ arrived' = arrived + 1
        /\ rxFifo' = Append(rxFifo, [nr |-> arrived + 1, valid |-> valid])
    BY Bounds DEF Arrive, TypeInv, QueueTypes
  <2>2. ASSUME NEW d \in DOMAIN delivered PROVE delivered[d] \in Nat
    <3>1. delivered \in Seq(1 .. MaxArrivals)
      BY DEF TypeInv, TypeOK
    <3>2. delivered[d] \in 1 .. MaxArrivals
      BY <3>1, TypeOfElement
    <3> QED
      BY <3>2
  <2>3. ASSUME NEW h \in Handles PROVE tasks[h].nr \in Nat
    <3>1. tasks[h] \in Task
      BY DEF TypeInv, QueueTypes, Handles
    <3> QED
      BY <3>1, Bounds DEF Task
  <2> QED
    BY <2>1, <2>2, <2>3
<1>2. /\ DOMAIN rxFifo' = DOMAIN rxFifo \cup {n} /\ rxFifo'[n].nr = arrived + 1
      /\ \A f \in DOMAIN rxFifo : /\ f \in Nat /\ f < n /\ rxFifo'[f] = rxFifo[f]
                                  /\ rxFifo[f].nr \in Nat
  <2> DEFINE packet == [nr |-> arrived + 1, valid |-> valid]
  <2>1. packet.nr = arrived + 1
    OBVIOUS
  <2> HIDE DEF packet
  <2>2. rxFifo' = Append(rxFifo, packet)
    BY <1>1 DEF packet
  <2>3. ASSUME NEW f \in DOMAIN rxFifo PROVE rxFifo[f].nr \in Nat
    <3>1. rxFifo[f] \in Packet
      BY <1>1
    <3> QED
      BY <3>1 DEF Packet
  <2>4. /\ DOMAIN rxFifo' = DOMAIN rxFifo \cup {n} /\ rxFifo'[n] = packet
        /\ \A f \in DOMAIN rxFifo : f \in Nat /\ f < n /\ rxFifo'[f] = rxFifo[f]
    BY <1>1, <2>2
  <2> QED
    BY <2>1, <2>3, <2>4
<1>3. n \in Nat
  BY <1>1
<1> HIDE DEF n
<1>4. Handles' = Handles
  BY <1>1 DEF Handles
<1>5. InOrder(rxFifo, DOMAIN rxFifo)'
  BY <1>1, <1>2, <1>3 DEF OrderInv, DeliveredInOrder, InOrder, HasArrived
<1>6. \A d \in DOMAIN delivered, f \in DOMAIN rxFifo' : delivered[d] < rxFifo'[f].nr
  BY <1>1, <1>2 DEF OrderInv, DeliveredInOrder, HasArrived
<1>7. \A h \in Handles, f \in DOMAIN rxFifo' : tasks[h].nr < rxFifo'[f].nr
  BY <1>1, <1>2 DEF OrderInv, DeliveredInOrder, HasArrived
<1>8. HasArrived'
  BY <1>1, <1>2, <1>4 DEF OrderInv, HasArrived
<1> QED
  BY <1>1, <1>4, <1>5, <1>6, <1>7, <1>8 DEF OrderInv, DeliveredInOrder, InOrder

LEMMA OrderStep == TypeInv /\ OrderInv /\ [Next]_vars => OrderInv'
<1> SUFFICES ASSUME TypeInv, OrderInv, [Next]_vars PROVE OrderInv'
  OBVIOUS
<1>1. ASSUME NEW t \in Threads, Step(t), ~Read(t), ~Flush(t)
      PROVE  OrderInv'
  <2>1. UNCHANGED <<tasks, rxFifo, delivered, arrived>>
    BY <1>1 DEF Step, Call, Enter, SetInterruptState, SetCallback, SetMode, Clear,
       ConfigureDevice, EnablePin, DisablePin, JoinPin, DrainIfSet, ReadReceiveData,
       ReadEnds, Prepare, Load, TransmitIfLoaded, Wait, Evaluate, Restore, modes, fifos, device,
       history
  <2> QED
    BY <2>1, OrderStays
<1>2. ASSUME NEW t \in Threads, Flush(t)
      PROVE  OrderInv'
  <2>1. rxFifo' \in {<<>>, rxFifo} /\ UNCHANGED <<tasks, delivered, arrived>>
    BY <1>2 DEF Flush, history
  <2>2. CASE rxFifo' = <<>>
    BY <2>1, <2>2 DEF OrderInv, DeliveredInOrder, HasArrived, InOrder, Handles
  <2> QED
    BY <2>1, <2>2, OrderStays
<1>3. CASE Send
  BY <1>3, OrderOfOtherTask DEF Send, device, fifos
<1>4. CASE OnInterrupt
  <2>1. UNCHANGED <<rxFifo, delivered, arrived>>
    BY <1>4 DEF OnInterrupt, device, fifos, history
  <2> QED
    BY <1>4, <2>1, OrderOfOtherTask, OrderStays DEF OnInterrupt
<1>5. CASE PollWakes \/ PollEnds \/ Transmits \/ DataSent \/ RetransmitsExceeded
  <2>1. UNCHANGED <<tasks, rxFifo, delivered, arrived>>
    BY <1>5 DEF PollWakes, PollEnds, Transmits, DataSent, RetransmitsExceeded, device, fifos, history
  <2> QED
    BY <2>1, OrderStays
<1>6. CASE UNCHANGED vars
  BY <1>6, OrderStays DEF vars, device, fifos, history
<1> QED
  BY <1>1, <1>2, <1>3, <1>4, <1>5, <1>6, OrderOfRead, OrderOfTakeTask, OrderOfArrive DEF Next

(* No packet is handed over twice or before one that came earlier, whether *)
(* it is read in the task of an interrupt, in the transition that starts a *)
(* write or while a reboot is under way.                                   *)
THEOREM AlwaysDeliveredInOrder == Spec => []DeliveredInOrder
<1>1. OrderInv => DeliveredInOrder
  BY DEF OrderInv
<1> QED
  BY <1>1, TypeInit, TypeStep, OrderInit, OrderStep, PTL DEF Spec

-----------------------------------------------------------------------------
(***************************************************************************)
(* What a thread still has to do, step by step.  The step it is at and the *)
(* next one tell where in the methods it is: each step has its successors  *)
(* (Follows), and before each step something holds of the device (Holds).  *)
(* Reading reboots only in the mode RxMode, so what holds before a step    *)
(* does not depend on how many reboots are under way.                      *)
(***************************************************************************)
At(q, i) == IF i \in DOMAIN q THEN q[i] ELSE "end"

\* In transitions.
FollowsCall(t, l, n) ==
    /\ l = "ToPowerDown" => IF t = "main" THEN n \in {"ToPowerDown", "setCallback"}
                            ELSE n = "ToRxMode"
    /\ l = "ToRxMode" => n \in {"end", "clear"}
    /\ l = "ToStandbyI" => t = "context" /\ n \in {"prepare", "evaluate"}
    /\ l = "ToTxMode" => t = "context" /\ n = "wait"
    /\ l = "PowerDown" => n = "ToRxMode"
    /\ l = "StandbyI" => IF t = "main" THEN n = "ToRxMode"
                         ELSE n \in {"prepare", "evaluate", "ToPowerDown", "ToRxMode"}
    /\ l = "RxMode" => n \in {"end", "clear"}
    /\ l = "TxMode" => n = "wait"

FollowsMode(l, n) ==
    /\ l = "chipDisable" => n \in {"transmitMode", "StandbyI"}
    /\ l = "transmitMode" => n \in {"Ignore", "chipEnable"}
    /\ l = "chipEnable" => n \in {"RxMode", "TxMode"}
    /\ l = "receiveMode" => n = "chipEnable"
    /\ l = "powerUp" => n = "StandbyI"
    /\ l = "powerDown" => n = "disablePin"
    /\ l = "Ignore" => n = "drainIfSet"
    /\ l = "Rx" => n = "receiveMode"
    /\ l = "Tx" => n = "transmitMode"
    /\ l = "disablePin" => n = "PowerDown"
    /\ l = "joinPin" => n = "PowerDown"
    /\ l = "flush" => n = "configureDevice"
    /\ l = "configureDevice" => n = "enablePin"
    /\ l = "enablePin" => n = "powerUp"

FollowsRead(t, l, n) ==
    /\ l = "drainIfSet" => t = "context" /\ n = "StandbyI"
    /\ l \in {"readReceiveData", "read"} => t = "context" /\ n \in {"end", "clear"}
    /\ l = "clear" => n \in {"read", "Rx", "StandbyI"}

FollowsWrite(l, n) ==
    /\ l = "setCallback" => n = "ToRxMode"
    /\ l = "prepare" => n = "load"
    /\ l = "load" => n = "ToTxMode"
    /\ l = "transmitIfLoaded" => n = "wait"
    /\ l = "clearIfSet" => n = "Tx"
    /\ l = "wait" => n = "ToStandbyI"
    /\ l = "evaluate" => n = "restore"
    /\ l = "flushTransmitFifo" => n = "restore"
    /\ l = "restore" => n = "ToRxMode"

Follows(t, l, n) ==
    FollowsCall(t, l, n) /\ FollowsMode(l, n) /\ FollowsRead(t, l, n) /\ FollowsWrite(l, n)

\* Two steps tell a transition from another.
Continues(l, n, m) ==
    /\ l = "chipDisable" /\ n = "transmitMode" => m = "Ignore"
    /\ l = "chipDisable" /\ n = "StandbyI" => m = "evaluate"
    /\ l = "Tx" => m = "chipEnable"
    /\ l = "transmitMode" /\ n = "chipEnable" => m = "TxMode"
    /\ l = "receiveMode" => m = "RxMode"
    /\ l = "wait" => m = "evaluate"
    /\ l = "powerUp" => m = "ToRxMode"
    /\ l \in {"drainIfSet", "clear"} /\ n = "StandbyI" => m # "evaluate"

\* What waits below a call is not in the middle of reading or of Listen.
Linked(t, q) ==
    /\ \A i \in DOMAIN q : Follows(t, q[i], At(q, i + 1))
    /\ \A i \in DOMAIN q : i > 1 /\ q[i] = "clear" => At(q, i + 1) = "StandbyI"
    /\ \A i \in DOMAIN q : Continues(q[i], At(q, i + 1), At(q, i + 2))

On == power /\ mEnabled
Settled == On /\ mCurrentState = "RxMode" /\ Receiving /\ mInterruptState = "Rx"

HoldsCall(l, n) ==
    /\ l = "end" => Settled
    /\ l = "ToPowerDown" =>
          IF n = "ToRxMode" THEN On /\ mCurrentState \in {"RxMode", "StandbyI"}
          ELSE mCurrentState = "PowerDown" /\ ~mEnabled
    /\ l = "ToRxMode" => \/ mCurrentState = "PowerDown" /\ ~mEnabled
                         \/ mCurrentState = "StandbyI" /\ On
    /\ l = "ToStandbyI" => /\ On
                           /\ n = "prepare" => mCurrentState = "RxMode"
                           /\ n = "evaluate" => mCurrentState \in {"StandbyI", "TxMode"}
    /\ l = "PowerDown" => ~mEnabled
    /\ l = "StandbyI" => On
    /\ l = "RxMode" => On /\ Receiving /\ mInterruptState = "Rx"

HoldsMode(l, n) ==
    /\ l = "chipDisable" => /\ On
                            /\ n = "transmitMode" => mCurrentState = "RxMode"
                            /\ n = "StandbyI" => mCurrentState = "TxMode"
    /\ l = "transmitMode" => /\ On
                             /\ n = "Ignore" => mCurrentState = "RxMode"
                             /\ n = "chipEnable" => mCurrentState = "StandbyI"
    /\ l = "Ignore" => On /\ mCurrentState = "RxMode"
    /\ l = "Rx" => On /\ mCurrentState = "StandbyI"
    /\ l = "receiveMode" => On /\ mCurrentState = "StandbyI" /\ mInterruptState = "Rx"
    /\ l = "chipEnable" => /\ On /\ mCurrentState = "StandbyI"
                           /\ n = "RxMode" => mode = "receive" /\ mInterruptState = "Rx"
    /\ l \in {"powerDown", "disablePin", "powerUp"} => mEnabled
    /\ l = "joinPin" => ~mEnabled
    /\ l \in {"flush", "configureDevice", "enablePin"} => mCurrentState = "PowerDown" /\ ~mEnabled
    /\ l = "enablePin" => pipe0 = "own"

HoldsRead(l, n, m) ==
    /\ l = "drainIfSet" => On /\ mCurrentState = "RxMode"
    /\ l \in {"readReceiveData", "read"} =>
          On /\ mCurrentState = "RxMode" /\ (n = "end" => Settled)
    /\ l = "clear" => /\ On
                      /\ n = "Rx" => mCurrentState = "StandbyI"
                      /\ n = "read" => mCurrentState = "RxMode" /\ (m = "end" => Settled)

HoldsWrite(l) ==
    /\ l = "setCallback" => mCurrentState = "PowerDown" /\ ~mEnabled
    /\ l \in {"prepare", "load", "ToTxMode", "transmitIfLoaded", "clearIfSet", "Tx", "TxMode",
              "evaluate", "flushTransmitFifo", "restore"} => On /\ mCurrentState = "StandbyI"
    /\ l = "wait" => On /\ mCurrentState \in {"StandbyI", "TxMode"}

Holds(l, n, m) == HoldsCall(l, n) /\ HoldsMode(l, n) /\ HoldsRead(l, n, m) /\ HoldsWrite(l)
HoldsBefore(q) == Holds(At(q, 1), At(q, 2), At(q, 3))

\* As long as the context began no write and no reboot while main was starting
\* (~early), it only read during the start.
OnlyReads ==
    todo["context"] \in {<<>>, <<"readReceiveData">>, <<"read">>, <<"clear", "read">>}

Driver == IF Idle("main") THEN "context" ELSE "main"

StepsInv ==
    /\ \A t \in Threads : Linked(t, todo[t])
    /\ HoldsBefore(todo[Driver])
    /\ ~Idle("main") => OnlyReads

\* Nothing is written while main starts the device.
StartInv ==
    ~Idle("main") => writing = 0 /\ txFifo = <<>> /\ (mEnabled => pipe0 = "own")

\* A write's own steps are below all that it calls.
Ahead(step) == \E i \in DOMAIN todo["context"] : todo["context"][i] = step

WriteInv ==
    LET q == todo["context"]
    IN  /\ Ahead("restore") <=> writing # 0
        /\ Ahead("prepare") => writing # 0
        /\ \A i, j \in DOMAIN q : q[i] = q[j] /\ q[i] \in Write => i = j
        /\ \A i, j \in DOMAIN q : q[i] = "restore" /\ q[j] = "prepare" => j < i

\* Pipe 0 has another address only from prepare to restore.
PipeInv ==
    /\ Idle("main") => pipe0 = "own" \/ (writing # 0 /\ ~Ahead("prepare"))
    /\ writing # 0 => Ahead("prepare") \/ backupPipe0 = "own"
-----------------------------------------------------------------------------
(* Steps in front of what is left. *)
Steps == Other \cup Write

LEMMA Pushed ==
    ASSUME NEW q \in Seq(Steps), q # <<>>, NEW s \in Seq(Steps)
    PROVE  /\ s \o Tail(q) \in Seq(Steps) /\ Len(s \o Tail(q)) = Len(s) + Len(q) - 1
           /\ \A i \in 1 .. Len(s) : (s \o Tail(q))[i] = s[i]
           /\ \A i \in 1 .. Len(s) + Len(q) - 1 :
                 i > Len(s) => /\ i - Len(s) + 1 \in 2 .. Len(q)
                               /\ (s \o Tail(q))[i] = q[i - Len(s) + 1]
<1> DEFINE r == Tail(q)
<1>1. r \in Seq(Steps) /\ Len(r) = Len(q) - 1 /\ \A k \in 1 .. Len(r) : r[k] = q[k + 1]
  OBVIOUS
<1> HIDE DEF r
<1>0. r \in Seq(Steps)
  BY <1>1
<1>2. s \o r \in Seq(Steps) /\ Len(s \o r) = Len(s) + Len(r)
  BY <1>0
<1>3. \A i \in 1 .. Len(s) : (s \o r)[i] = s[i]
  BY <1>1
<1>4. ASSUME NEW i \in 1 .. Len(s) + Len(q) - 1, i > Len(s)
      PROVE  i - Len(s) + 1 \in 2 .. Len(q) /\ (s \o r)[i] = q[i - Len(s) + 1]
  <2>1. i - Len(s) \in 1 .. Len(r) /\ (s \o r)[i] = r[i - Len(s)]
    BY <1>1, <1>4
  <2>2. i - Len(s) + 1 \in 2 .. Len(q)
    BY <1>1, <2>1
  <2> QED
    BY <1>1, <2>1, <2>2
<1> QED
  BY <1>1, <1>2, <1>3, <1>4 DEF r

\* What follows the i-th of the steps s when n comes after them.
Joint(s, n, i) == IF i < Len(s) THEN s[i + 1] ELSE n

\* And the one after that.
Beyond(s, n, m, i) ==
    IF i + 1 < Len(s) THEN s[i + 2] ELSE IF i + 1 = Len(s) THEN n ELSE m

Fits(t, s, n, m) ==
    /\ \A i \in 1 .. Len(s) : Follows(t, s[i], Joint(s, n, i))
    /\ \A i \in 2 .. Len(s) : s[i] = "clear" => Joint(s, n, i) = "StandbyI"
    /\ \A i \in 1 .. Len(s) : Continues(s[i], Joint(s, n, i), Beyond(s, n, m, i))

LEMMA AtPushed ==
    ASSUME NEW q \in Seq(Steps), q # <<>>, NEW s \in Seq(Steps), NEW i \in Nat \ {0}
    PROVE  At(s \o Tail(q), i) = IF i <= Len(s) THEN s[i] ELSE At(q, i - Len(s) + 1)
<1>1. Len(s) \in Nat /\ Len(q) \in Nat /\ Len(q) > 0 /\ DOMAIN q = 1 .. Len(q)
  OBVIOUS
<1>2. DOMAIN (s \o Tail(q)) = 1 .. Len(s) + Len(q) - 1
  BY Pushed
<1>3. CASE i <= Len(s)
  <2>1. i \in 1 .. Len(s) /\ i \in 1 .. Len(s) + Len(q) - 1
    BY <1>1, <1>3
  <2> QED
    BY <1>2, <1>3, <2>1, Pushed DEF At
<1>4. CASE i > Len(s) /\ i \in 1 .. Len(s) + Len(q) - 1
  <2>1. i - Len(s) + 1 \in DOMAIN q /\ ~(i <= Len(s))
    BY <1>1, <1>4, Pushed
  <2> QED
    BY <1>2, <1>4, <2>1, Pushed DEF At
<1>5. CASE i > Len(s) /\ i \notin 1 .. Len(s) + Len(q) - 1
  <2>1. i - Len(s) + 1 \notin DOMAIN q /\ ~(i <= Len(s))
    BY <1>1, <1>5
  <2> QED
    BY <1>2, <1>5, <2>1 DEF At
<1> QED
  BY <1>1, <1>3, <1>4, <1>5

LEMMA LinkedPushed ==
    ASSUME NEW t, NEW q \in Seq(Steps), q # <<>>, NEW s \in Seq(Steps),
           Linked(t, q), Fits(t, s, At(q, 2), At(q, 3))
    PROVE  Linked(t, s \o Tail(q))
<1> DEFINE r == s \o Tail(q)
<1>0. Len(s) \in Nat /\ Len(q) \in Nat /\ Len(q) > 0 /\ DOMAIN q = 1 .. Len(q)
  OBVIOUS
<1>1. DOMAIN r = 1 .. Len(s) + Len(q) - 1
  BY Pushed
<1> HIDE DEF r
<1>2. ASSUME NEW i \in DOMAIN r, i <= Len(s)
      PROVE  /\ Follows(t, r[i], At(r, i + 1))
             /\ i > 1 /\ r[i] = "clear" => At(r, i + 1) = "StandbyI"
             /\ Continues(r[i], At(r, i + 1), At(r, i + 2))
  <2>1. i \in 1 .. Len(s) /\ i + 1 \in Nat \ {0} /\ i \in Nat
    BY <1>0, <1>1, <1>2
  <2>2. At(r, i + 1) = Joint(s, At(q, 2), i)
    <3>1. CASE i < Len(s)
      <4>1. i + 1 <= Len(s)
        BY <1>0, <2>1, <3>1
      <4> QED
        BY <2>1, <3>1, <4>1, AtPushed DEF r, Joint
    <3>2. CASE i = Len(s)
      <4>1. ~(i + 1 <= Len(s)) /\ ~(i < Len(s)) /\ i + 1 - Len(s) + 1 = 2
        BY <1>0, <2>1, <3>2
      <4> QED
        BY <2>1, <4>1, AtPushed DEF r, Joint
    <3> QED
      BY <1>0, <1>2, <2>1, <3>1, <3>2
  <2>3. r[i] = s[i]
    BY <2>1, Pushed DEF r
  <2>4. i > 1 => i \in 2 .. Len(s)
    BY <2>1
  <2>5. At(r, i + 2) = Beyond(s, At(q, 2), At(q, 3), i)
    <3>0. i + 2 \in Nat \ {0}
      BY <2>1
    <3>1. CASE i + 1 < Len(s)
      <4>1. i + 2 <= Len(s)
        BY <1>0, <2>1, <3>1
      <4> QED
        BY <3>0, <3>1, <4>1, AtPushed DEF r, Beyond
    <3>2. CASE i + 1 = Len(s)
      <4>1. ~(i + 1 < Len(s)) /\ ~(i + 2 <= Len(s)) /\ i + 2 - Len(s) + 1 = 2
        BY <1>0, <2>1, <3>2
      <4> QED
        BY <3>0, <3>2, <4>1, AtPushed DEF r, Beyond
    <3>3. CASE i = Len(s)
      <4>1. ~(i + 1 < Len(s)) /\ i + 1 # Len(s) /\ ~(i + 2 <= Len(s)) /\ i + 2 - Len(s) + 1 = 3
        BY <1>0, <2>1, <3>3
      <4> QED
        BY <3>0, <4>1, AtPushed DEF r, Beyond
    <3> QED
      BY <1>0, <1>2, <2>1, <3>1, <3>2, <3>3
  <2> QED
    BY <2>1, <2>2, <2>3, <2>4, <2>5 DEF Fits
<1>3. ASSUME NEW i \in DOMAIN r, i > Len(s)
      PROVE  /\ Follows(t, r[i], At(r, i + 1))
             /\ i > 1 /\ r[i] = "clear" => At(r, i + 1) = "StandbyI"
             /\ Continues(r[i], At(r, i + 1), At(r, i + 2))
  <2>1. PICK k : k = i - Len(s) + 1
    OBVIOUS
  <2>2. k \in 2 .. Len(q) /\ r[i] = q[k]
    BY <1>1, <1>3, <2>1, Pushed DEF r
  <2>3. i + 1 \in Nat \ {0} /\ ~(i + 1 <= Len(s)) /\ i + 1 - Len(s) + 1 = k + 1
    BY <1>0, <1>1, <1>3, <2>1
  <2>4. At(r, i + 1) = At(q, k + 1)
    BY <2>3, AtPushed DEF r
  <2>6. i + 2 \in Nat \ {0} /\ ~(i + 2 <= Len(s)) /\ i + 2 - Len(s) + 1 = k + 2
    BY <1>0, <1>1, <1>3, <2>1
  <2>7. At(r, i + 2) = At(q, k + 2)
    BY <2>6, AtPushed DEF r
  <2>5. k \in DOMAIN q /\ k > 1
    BY <1>0, <2>2
  <2> QED
    BY <2>2, <2>4, <2>5, <2>7 DEF Linked
<1>4. \A i \in DOMAIN r : i <= Len(s) \/ i > Len(s)
  BY <1>0, <1>1
<1>5. Linked(t, r)
  BY <1>2, <1>3, <1>4 DEF Linked
<1> QED
  BY <1>5 DEF r
-----------------------------------------------------------------------------
(* The steps of each transition fit together. *)
LEMMA Elements ==
    /\ Len(Boot) = 5 /\ Boot[1] = "flush" /\ Boot[2] = "configureDevice"
    /\ Boot[3] = "enablePin" /\ Boot[4] = "powerUp" /\ Boot[5] = "StandbyI"
    /\ Len(Listen) = 5 /\ Listen[1] = "clear" /\ Listen[2] = "Rx"
    /\ Listen[3] = "receiveMode" /\ Listen[4] = "chipEnable" /\ Listen[5] = "RxMode"
    /\ Len(StopListen) = 5 /\ StopListen[1] = "chipDisable" /\ StopListen[2] = "transmitMode"
    /\ StopListen[3] = "Ignore" /\ StopListen[4] = "drainIfSet" /\ StopListen[5] = "StandbyI"
    /\ Len(Transmit) = 5 /\ Transmit[1] = "clearIfSet" /\ Transmit[2] = "Tx"
    /\ Transmit[3] = "transmitMode" /\ Transmit[4] = "chipEnable" /\ Transmit[5] = "TxMode"
    /\ Len(StopTransmit) = 2 /\ StopTransmit[1] = "chipDisable" /\ StopTransmit[2] = "StandbyI"
    /\ Len(Shutdown) = 3 /\ Shutdown[1] = "powerDown" /\ Shutdown[2] = "disablePin"
    /\ Shutdown[3] = "PowerDown"
  BY DEF Boot, Listen, StopListen, Transmit, StopTransmit, Shutdown

LEMMA FitsAlone ==
    /\ \A t, n, m : Fits(t, <<>>, n, m)
    /\ \A t, n, m, l : Follows(t, l, n) /\ Continues(l, n, m) => Fits(t, <<l>>, n, m)
    /\ \A t, n, m, k, l :
          /\ Follows(t, k, l) /\ Continues(k, l, n)
          /\ Follows(t, l, n) /\ Continues(l, n, m)
          /\ l = "clear" => n = "StandbyI"
          => Fits(t, <<k, l>>, n, m)
<1>1. \A t, n, m : Fits(t, <<>>, n, m)
  BY DEF Fits
<1>2. ASSUME NEW t, NEW n, NEW m, NEW l, Follows(t, l, n), Continues(l, n, m)
      PROVE  Fits(t, <<l>>, n, m)
  BY <1>2 DEF Fits, Joint, Beyond
<1>3. ASSUME NEW t, NEW n, NEW m, NEW k, NEW l, Follows(t, k, l), Follows(t, l, n),
             l = "clear" => n = "StandbyI", Continues(k, l, n), Continues(l, n, m)
      PROVE  Fits(t, <<k, l>>, n, m)
  <2> DEFINE s == <<k, l>>
  <2>1. Len(s) = 2 /\ s[1] = k /\ s[2] = l
    OBVIOUS
  <2> HIDE DEF s
  <2>2. /\ Joint(s, n, 1) = l /\ Joint(s, n, 2) = n
        /\ Beyond(s, n, m, 1) = n /\ Beyond(s, n, m, 2) = m
    BY <2>1 DEF Joint, Beyond
  <2> QED
    BY <1>3, <2>1, <2>2 DEF Fits, s
<1> QED
  BY <1>1, <1>2, <1>3

LEMMA FitsFive ==
    ASSUME NEW t, NEW n, NEW m, NEW s, Len(s) = 5,
           Follows(t, s[1], s[2]), Follows(t, s[2], s[3]), Follows(t, s[3], s[4]),
           Follows(t, s[4], s[5]), Follows(t, s[5], n),
           Continues(s[1], s[2], s[3]), Continues(s[2], s[3], s[4]), Continues(s[3], s[4], s[5]),
           Continues(s[4], s[5], n), Continues(s[5], n, m),
           \A i \in 2 .. 5 : s[i] # "clear"
    PROVE  Fits(t, s, n, m)
<1>1. /\ Joint(s, n, 1) = s[2] /\ Joint(s, n, 2) = s[3] /\ Joint(s, n, 3) = s[4]
      /\ Joint(s, n, 4) = s[5] /\ Joint(s, n, 5) = n
      /\ Beyond(s, n, m, 1) = s[3] /\ Beyond(s, n, m, 2) = s[4] /\ Beyond(s, n, m, 3) = s[5]
      /\ Beyond(s, n, m, 4) = n /\ Beyond(s, n, m, 5) = m
  BY DEF Joint, Beyond
<1>2. \A i \in 1 .. 5 : i = 1 \/ i = 2 \/ i = 3 \/ i = 4 \/ i = 5
  OBVIOUS
<1> QED
  BY <1>1, <1>2 DEF Fits

LEMMA FitsThree ==
    ASSUME NEW t, NEW n, NEW m, NEW s, Len(s) = 3,
           Follows(t, s[1], s[2]), Follows(t, s[2], s[3]), Follows(t, s[3], n),
           Continues(s[1], s[2], s[3]), Continues(s[2], s[3], n), Continues(s[3], n, m),
           \A i \in 2 .. 3 : s[i] # "clear"
    PROVE  Fits(t, s, n, m)
<1>1. /\ Joint(s, n, 1) = s[2] /\ Joint(s, n, 2) = s[3] /\ Joint(s, n, 3) = n
      /\ Beyond(s, n, m, 1) = s[3] /\ Beyond(s, n, m, 2) = n /\ Beyond(s, n, m, 3) = m
  BY DEF Joint, Beyond
<1>2. \A i \in 1 .. 3 : i = 1 \/ i = 2 \/ i = 3
  OBVIOUS
<1> QED
  BY <1>1, <1>2 DEF Fits

\* A call after the steps of a transition.
LEMMA FitsThenCall ==
    ASSUME NEW t, NEW n, NEW m, NEW s \in Seq(Steps), NEW l \in Steps, l # "clear", s # <<>>,
           Fits(t, s, l, n), Follows(t, l, n), Continues(l, n, m)
    PROVE  Fits(t, s \o <<l>>, n, m)
<1> DEFINE r == s \o <<l>>
<1>0. Len(s) \in Nat /\ Len(s) > 0
  OBVIOUS
<1>1. Len(r) = Len(s) + 1 /\ r[Len(s) + 1] = l /\ \A i \in 1 .. Len(s) : r[i] = s[i]
  OBVIOUS
<1> HIDE DEF r
<1>2. ASSUME NEW i \in 1 .. Len(s) PROVE Joint(r, n, i) = Joint(s, l, i)
  <2>1. i < Len(r)
    BY <1>0, <1>1
  <2>2. CASE i < Len(s)
    <3>1. i + 1 \in 1 .. Len(s)
      BY <1>0, <2>2
    <3> QED
      BY <1>1, <2>1, <2>2, <3>1 DEF Joint
  <2>3. CASE i = Len(s)
    <3>1. ~(i < Len(s))
      BY <1>0, <2>3
    <3> QED
      BY <1>1, <2>1, <2>3, <3>1 DEF Joint
  <2> QED
    BY <1>0, <2>2, <2>3
<1>3. Joint(r, n, Len(s) + 1) = n /\ Beyond(r, n, m, Len(s) + 1) = m
  BY <1>0, <1>1 DEF Joint, Beyond
<1>6. ASSUME NEW i \in 1 .. Len(s) PROVE Beyond(r, n, m, i) = Beyond(s, l, n, i)
  <2>1. CASE i + 1 < Len(s)
    <3>1. i + 2 \in 1 .. Len(s) /\ i + 1 < Len(r)
      BY <1>0, <1>1, <2>1
    <3> QED
      BY <1>1, <2>1, <3>1 DEF Beyond
  <2>2. CASE i + 1 = Len(s)
    <3>1. i + 2 = Len(s) + 1 /\ i + 1 < Len(r) /\ ~(i + 1 < Len(s))
      BY <1>0, <1>1, <2>2
    <3> QED
      BY <1>1, <2>2, <3>1 DEF Beyond
  <2>3. CASE i = Len(s)
    <3>1. i + 1 = Len(r) /\ ~(i + 1 < Len(r)) /\ ~(i + 1 < Len(s)) /\ i + 1 # Len(s)
      BY <1>0, <1>1, <2>3
    <3> QED
      BY <3>1 DEF Beyond
  <2> QED
    BY <1>0, <2>1, <2>2, <2>3
<1>4. \A i \in 1 .. Len(s) + 1 : i \in 1 .. Len(s) \/ i = Len(s) + 1
  BY <1>0
<1>5. \A i \in 2 .. Len(s) + 1 : (i \in 2 .. Len(s) /\ i \in 1 .. Len(s)) \/ i = Len(s) + 1
  BY <1>0
<1>7. Fits(t, r, n, m)
  BY <1>1, <1>2, <1>3, <1>4, <1>5, <1>6 DEF Fits
<1> QED
  BY <1>7 DEF r

LEMMA FitsTransitions ==
    ASSUME NEW t \in Threads
    PROVE  \A m :
             /\ \A n : n \in {"end", "clear"} =>
                   Fits(t, Boot \o <<"ToRxMode">>, n, m) /\ Fits(t, Listen, n, m)
             /\ \A n : t = "context" /\ Follows(t, "StandbyI", n) /\ n # "evaluate"
                   => Fits(t, StopListen, n, m)
             /\ t = "context" => Fits(t, StopListen \o <<"ToPowerDown">>, "ToRxMode", m)
             /\ Fits(t, Transmit, "wait", m) /\ Fits(t, Shutdown, "ToRxMode", m)
             /\ t = "context" => Fits(t, StopTransmit, "evaluate", m)
<1> SUFFICES ASSUME NEW m
    PROVE  /\ \A n : n \in {"end", "clear"} =>
                 Fits(t, Boot \o <<"ToRxMode">>, n, m) /\ Fits(t, Listen, n, m)
           /\ \A n : t = "context" /\ Follows(t, "StandbyI", n) /\ n # "evaluate"
                 => Fits(t, StopListen, n, m)
           /\ t = "context" => Fits(t, StopListen \o <<"ToPowerDown">>, "ToRxMode", m)
           /\ Fits(t, Transmit, "wait", m) /\ Fits(t, Shutdown, "ToRxMode", m)
           /\ t = "context" => Fits(t, StopTransmit, "evaluate", m)
  OBVIOUS
<1> USE DEF Continues, Follows, FollowsCall, FollowsMode, FollowsRead, FollowsWrite
<1>0. \A i \in 2 .. 5 : i = 2 \/ i = 3 \/ i = 4 \/ i = 5
  OBVIOUS
<1>1. ASSUME NEW n, n \in {"end", "clear"} PROVE Fits(t, Boot \o <<"ToRxMode">>, n, m)
  <2>1. Fits(t, Boot, "ToRxMode", n)
    BY <1>0, Elements, FitsFive DEF Threads
  <2>2. Boot \in Seq(Steps) /\ Boot # <<>> /\ "ToRxMode" \in Steps
    BY PlainSteps, Elements DEF Plain, Steps, Other
  <2> QED
    BY <1>1, <2>1, <2>2, FitsThenCall
<1>2. ASSUME NEW n, n \in {"end", "clear"} PROVE Fits(t, Listen, n, m)
  BY <1>0, <1>2, Elements, FitsFive
<1>3. ASSUME NEW n, t = "context", Follows(t, "StandbyI", n), n # "evaluate" PROVE Fits(t, StopListen, n, m)
  BY <1>0, <1>3, Elements, FitsFive
<1>4. ASSUME t = "context" PROVE Fits(t, StopListen \o <<"ToPowerDown">>, "ToRxMode", m)
  <2>1. Fits(t, StopListen, "ToPowerDown", "ToRxMode")
    BY <1>0, <1>4, Elements, FitsFive
  <2>2. StopListen \in Seq(Steps) /\ StopListen # <<>> /\ "ToPowerDown" \in Steps
    BY PlainSteps, Elements DEF Plain, Steps, Other
  <2> QED
    BY <1>4, <2>1, <2>2, FitsThenCall
<1>5. Fits(t, Transmit, "wait", m)
  BY <1>0, Elements, FitsFive
<1>6. Fits(t, Shutdown, "ToRxMode", m)
  <2>1. \A i \in 2 .. 3 : i = 2 \/ i = 3
    OBVIOUS
  <2> QED
    BY <2>1, Elements, FitsThree
<1>7. ASSUME t = "context" PROVE Fits(t, StopTransmit, "evaluate", m)
  <2>1. StopTransmit = <<"chipDisable", "StandbyI">>
    BY DEF StopTransmit
  <2>2. Fits(t, <<"chipDisable", "StandbyI">>, "evaluate", m)
    BY <1>7, FitsAlone
  <2> QED
    BY <2>1, <2>2
<1> QED
  BY <1>1, <1>2, <1>3, <1>4, <1>5, <1>6, <1>7

-----------------------------------------------------------------------------
(* The driver's step.  l, n and m are its step and the next two. *)
First(s, n) == IF s = <<>> THEN n ELSE s[1]
Second(s, n, m) == IF s = <<>> THEN m ELSE Joint(s, n, 1)

LEMMA ConcatFacts ==
    ASSUME NEW S, NEW s \in Seq(S), NEW r \in Seq(S)
    PROVE  Len(s \o r) = Len(s) + Len(r) /\ \A i \in 1 .. Len(s) : (s \o r)[i] = s[i]
  OBVIOUS

LEMMA FiveAndOne ==
    ASSUME NEW S, NEW s \in Seq(S), NEW r \in Seq(S), Len(s) = 5, Len(r) = 1
    PROVE  Len(s \o r) = 6 /\ (s \o r)[1] = s[1] /\ (s \o r)[2] = s[2]
<1>1. Len(s \o r) = Len(s) + Len(r) /\ \A i \in 1 .. Len(s) : (s \o r)[i] = s[i]
  BY ConcatFacts
<1> QED
  BY <1>1

LEMMA FirstTwo ==
    ASSUME NEW n, NEW m
    PROVE  /\ First(<<>>, n) = n /\ Second(<<>>, n, m) = m
           /\ \A l : First(<<l>>, n) = l /\ Second(<<l>>, n, m) = n
           /\ \A k, l : First(<<k, l>>, n) = k /\ Second(<<k, l>>, n, m) = l
           /\ First(Listen, n) = "clear" /\ Second(Listen, n, m) = "Rx"
           /\ First(StopListen, n) = "chipDisable" /\ Second(StopListen, n, m) = "transmitMode"
           /\ First(Transmit, n) = "clearIfSet" /\ Second(Transmit, n, m) = "Tx"
           /\ First(StopTransmit, n) = "chipDisable" /\ Second(StopTransmit, n, m) = "StandbyI"
           /\ First(Shutdown, n) = "powerDown" /\ Second(Shutdown, n, m) = "disablePin"
           /\ First(Boot \o <<"ToRxMode">>, n) = "flush"
           /\ Second(Boot \o <<"ToRxMode">>, n, m) = "configureDevice"
           /\ First(StopListen \o <<"ToPowerDown">>, n) = "chipDisable"
           /\ Second(StopListen \o <<"ToPowerDown">>, n, m) = "transmitMode"
<1>1. ASSUME NEW s, Len(s) \in Nat, Len(s) > 1, s # <<>>
      PROVE  First(s, n) = s[1] /\ Second(s, n, m) = s[2]
  BY <1>1 DEF First, Second, Joint
<1>2. ASSUME NEW s \in Seq(Steps), NEW l \in Steps, Len(s) = 5
      PROVE  First(s \o <<l>>, n) = s[1] /\ Second(s \o <<l>>, n, m) = s[2]
  <2>1. PICK r \in Seq(Steps) : r = <<l>> /\ Len(r) = 1
    <3>1. <<l>> \in Seq(Steps) /\ Len(<<l>>) = 1
      OBVIOUS
    <3> QED
      BY <3>1
  <2>2. r \in Seq(Steps) /\ Len(r) = 1
    BY <2>1
  <2> DEFINE w == s \o r
  <2>3. Len(w) = 6 /\ w[1] = s[1] /\ w[2] = s[2]
    BY <1>2, <2>2, FiveAndOne
  <2>4. w # <<>>
    BY <2>3
  <2> HIDE DEF w
  <2>5. First(w, n) = s[1] /\ Second(w, n, m) = s[2]
    BY <2>3, <2>4 DEF First, Second, Joint
  <2> QED
    BY <2>1, <2>5 DEF w
<1>3. /\ First(<<>>, n) = n /\ Second(<<>>, n, m) = m
      /\ \A l : First(<<l>>, n) = l /\ Second(<<l>>, n, m) = n
  BY DEF First, Second, Joint
<1>4. \A k, l : First(<<k, l>>, n) = k /\ Second(<<k, l>>, n, m) = l
  BY DEF First, Second, Joint
<1>5. /\ Boot \in Seq(Steps) /\ StopListen \in Seq(Steps) /\ "ToRxMode" \in Steps /\ "ToPowerDown" \in Steps
  BY PlainSteps DEF Plain, Steps, Other
<1>6. /\ Listen # <<>> /\ StopListen # <<>> /\ Transmit # <<>> /\ StopTransmit # <<>> /\ Shutdown # <<>>
  BY Elements
<1>7. /\ First(Listen, n) = "clear" /\ Second(Listen, n, m) = "Rx"
      /\ First(StopListen, n) = "chipDisable" /\ Second(StopListen, n, m) = "transmitMode"
      /\ First(Transmit, n) = "clearIfSet" /\ Second(Transmit, n, m) = "Tx"
      /\ First(StopTransmit, n) = "chipDisable" /\ Second(StopTransmit, n, m) = "StandbyI"
      /\ First(Shutdown, n) = "powerDown" /\ Second(Shutdown, n, m) = "disablePin"
  BY <1>1, <1>6, Elements
<1>8. /\ First(Boot \o <<"ToRxMode">>, n) = "flush"
      /\ Second(Boot \o <<"ToRxMode">>, n, m) = "configureDevice"
      /\ First(StopListen \o <<"ToPowerDown">>, n) = "chipDisable"
      /\ Second(StopListen \o <<"ToPowerDown">>, n, m) = "transmitMode"
  BY <1>2, <1>5, Elements
<1> QED
  BY <1>3, <1>4, <1>7, <1>8

\* Before a step of the driver: l, n and m are its step and the next two.
Before(t, l, n, m) ==
    /\ Reached(t, l)
    /\ Follows(t, l, n)
    /\ n # "end" => Follows(t, n, m)
    /\ n = "clear" => m = "StandbyI"
    /\ Continues(l, n, m)
    /\ Holds(l, n, m)

LEMMA CallGoesOn ==
    ASSUME TypeOK, NEW t \in Threads, NEW l, NEW n, NEW m, Before(t, l, n, m), Call(t)
    PROVE  \E s \in Plain : /\ Continue(t, s) /\ Fits(t, s, n, m)
                            /\ \A k : Holds(First(s, n), Second(s, n, m), k)'
<1> USE FirstTwo DEF Before
<1>1. /\ l = Head(todo[t]) /\ l \in {"ToPowerDown", "ToStandbyI", "ToRxMode", "ToTxMode"}
      /\ Continue(t, Transition[mCurrentState][l])
      /\ UNCHANGED <<mCurrentState, mInterruptState, power, chipEnable, mode, mEnabled, pipe0>>
  BY DEF Call, Transition, Reached, controller, pin, device, modes
<1>u. /\ \A x, y, z : HoldsCall(x, y)' <=> HoldsCall(x, y)
      /\ \A x, y, z : HoldsMode(x, y)' <=> HoldsMode(x, y)
      /\ \A x, y, z : HoldsRead(x, y, z)' <=> HoldsRead(x, y, z)
      /\ \A x : HoldsWrite(x)' <=> HoldsWrite(x)
  BY <1>1 DEF HoldsCall, HoldsMode, HoldsRead, HoldsWrite, On, Settled, Receiving
<1>v. \A x, y, z : Holds(x, y, z)' <=> Holds(x, y, z)
  BY <1>u DEF Holds
<1>2. CASE l = "ToPowerDown" /\ n = "ToRxMode"
  <2>1. t = "context" /\ On /\ mCurrentState \in {"RxMode", "StandbyI"}
    BY <1>2 DEF Follows, FollowsCall, Holds, HoldsCall, Threads
  <2>2. CASE mCurrentState = "RxMode"
    <3>1. Transition[mCurrentState][l] = StopListen \o <<"ToPowerDown">>
      BY <1>2, <2>2 DEF Transition
    <3>2. StopListen \o <<"ToPowerDown">> \in Plain
      BY PlainSteps, PlainCalls, PlainConcat
    <3>3. \A k : Holds("chipDisable", "transmitMode", k)
      BY <2>1, <2>2 DEF Holds, HoldsCall, HoldsMode, HoldsRead, HoldsWrite
    <3>4. Fits(t, StopListen \o <<"ToPowerDown">>, n, m)
      BY <1>2, <2>1, FitsTransitions
    <3> QED
      BY <1>1, <1>v, <3>1, <3>2, <3>3, <3>4
  <2>3. CASE mCurrentState = "StandbyI"
    <3>1. Transition[mCurrentState][l] = Shutdown
      BY <1>2, <2>3 DEF Transition
    <3>2. \A k : Holds("powerDown", "disablePin", k)
      BY <2>1 DEF On, Holds, HoldsCall, HoldsMode, HoldsRead, HoldsWrite
    <3>3. Fits(t, Shutdown, n, m)
      BY <1>2, FitsTransitions
    <3> QED
      BY <1>1, <1>v, <3>1, <3>2, <3>3, PlainSteps
  <2> QED
    BY <2>1, <2>2, <2>3
<1>3. CASE l = "ToPowerDown" /\ n # "ToRxMode"
  <2>1. /\ t = "main" /\ n \in {"ToPowerDown", "setCallback"}
        /\ mCurrentState = "PowerDown" /\ ~mEnabled
    BY <1>3 DEF Follows, FollowsCall, Holds, HoldsCall, Threads
  <2>2. Transition[mCurrentState][l] = <<>>
    BY <1>3, <2>1 DEF Transition
  <2>3. n = "ToPowerDown" => m # "ToRxMode"
    BY <2>1 DEF Follows, FollowsCall
  <2>4. \A k : Holds(n, m, k)
    BY <2>1, <2>3 DEF Holds, HoldsCall, HoldsMode, HoldsRead, HoldsWrite
  <2> QED
    BY <1>1, <1>v, <2>2, <2>4, PlainSteps, FitsAlone
<1>4. CASE l = "ToRxMode"
  <2>1. /\ n \in {"end", "clear"}
        /\ \/ mCurrentState = "PowerDown" /\ ~mEnabled
           \/ mCurrentState = "StandbyI" /\ On
    <3>1. n \in {"end", "clear"}
      BY <1>4 DEF Follows, FollowsCall
    <3>2. HoldsCall("ToRxMode", n)
      BY <1>4 DEF Holds
    <3> QED
      BY <3>1, <3>2 DEF HoldsCall
  <2>2. CASE mCurrentState = "PowerDown"
    <3>1. Transition[mCurrentState][l] = Boot \o <<"ToRxMode">>
      BY <1>4, <2>2 DEF Transition
    <3>2. Boot \o <<"ToRxMode">> \in Plain
      BY PlainSteps, PlainCalls, PlainConcat
    <3>3. \A k : Holds("flush", "configureDevice", k)
      BY <2>1, <2>2 DEF Holds, HoldsCall, HoldsMode, HoldsRead, HoldsWrite
    <3>4. Fits(t, Boot \o <<"ToRxMode">>, n, m)
      BY <2>1, FitsTransitions
    <3> QED
      BY <1>1, <1>v, <3>1, <3>2, <3>3, <3>4
  <2>3. CASE mCurrentState = "StandbyI"
    <3>1. Transition[mCurrentState][l] = Listen
      BY <1>4, <2>3 DEF Transition
    <3>2. \A k : Holds("clear", "Rx", k)
      BY <2>1, <2>3 DEF Holds, HoldsCall, HoldsMode, HoldsRead, HoldsWrite
    <3>3. Fits(t, Listen, n, m)
      BY <2>1, FitsTransitions
    <3> QED
      BY <1>1, <1>v, <3>1, <3>2, <3>3, PlainSteps
  <2> QED
    BY <2>1, <2>2, <2>3
<1>5. CASE l = "ToStandbyI"
  <2>1. /\ t = "context" /\ On
        /\ \/ n = "prepare" /\ mCurrentState = "RxMode"
           \/ n = "evaluate" /\ mCurrentState \in {"StandbyI", "TxMode"}
    BY <1>5 DEF Follows, FollowsCall, Holds, HoldsCall, Threads
  <2>2. CASE mCurrentState = "RxMode"
    <3>1. Transition[mCurrentState][l] = StopListen
      BY <1>5, <2>2 DEF Transition
    <3>2. \A k : Holds("chipDisable", "transmitMode", k)
      BY <2>1, <2>2 DEF Holds, HoldsCall, HoldsMode, HoldsRead, HoldsWrite
    <3>3. Fits(t, StopListen, n, m)
      <4>1. Follows(t, "StandbyI", n)
        BY <2>1 DEF Follows, FollowsCall, FollowsMode, FollowsRead, FollowsWrite
      <4>2. n # "evaluate"
        BY <2>1, <2>2
      <4> QED
        BY <2>1, <4>1, <4>2, FitsTransitions
    <3> QED
      BY <1>1, <1>v, <3>1, <3>2, <3>3, PlainSteps
  <2>3. CASE mCurrentState = "StandbyI"
    <3>1. Transition[mCurrentState][l] = <<>> /\ n = "evaluate"
      BY <1>5, <2>1, <2>3 DEF Transition
    <3>2. \A k : Holds(n, m, k)
      BY <2>1, <2>3, <3>1 DEF Holds, HoldsCall, HoldsMode, HoldsRead, HoldsWrite
    <3> QED
      BY <1>1, <1>v, <3>1, <3>2, PlainSteps, FitsAlone
  <2>4. CASE mCurrentState = "TxMode"
    <3>1. Transition[mCurrentState][l] = StopTransmit /\ n = "evaluate"
      BY <1>5, <2>1, <2>4 DEF Transition
    <3>2. \A k : Holds("chipDisable", "StandbyI", k)
      BY <2>1, <2>4 DEF Holds, HoldsCall, HoldsMode, HoldsRead, HoldsWrite
    <3>3. Fits(t, StopTransmit, n, m)
      BY <2>1, <3>1, FitsTransitions
    <3> QED
      BY <1>1, <1>v, <3>1, <3>2, <3>3, PlainSteps
  <2> QED
    BY <2>1, <2>2, <2>3, <2>4
<1>6. CASE l = "ToTxMode"
  <2>1. t = "context" /\ n = "wait" /\ On /\ mCurrentState = "StandbyI"
    BY <1>6 DEF Follows, FollowsCall, Holds, HoldsWrite
  <2>2. Transition[mCurrentState][l] = <<"transmitIfLoaded">>
    BY <1>6, <2>1 DEF Transition
  <2>3. \A k : Holds("transmitIfLoaded", n, k)
    BY <2>1 DEF Holds, HoldsCall, HoldsMode, HoldsRead, HoldsWrite
  <2>4. Fits(t, <<"transmitIfLoaded">>, n, m)
    BY <2>1, FitsAlone DEF Continues, Follows, FollowsCall, FollowsMode, FollowsRead, FollowsWrite
  <2> DEFINE s == <<"transmitIfLoaded">>
  <2>5. s \in Plain /\ First(s, n) = "transmitIfLoaded" /\ Second(s, n, m) = n
    <3>1. s \in Plain
      BY PlainCalls
    <3>2. First(s, n) = "transmitIfLoaded" /\ Second(s, n, m) = n
      BY DEF First, Second, Joint
    <3> QED
      BY <3>1, <3>2
  <2>6. Continue(t, s)
    BY <1>1, <2>2
  <2> HIDE DEF s
  <2>7. \A k : Holds(First(s, n), Second(s, n, m), k)'
    BY <1>v, <2>3, <2>5
  <2> QED
    BY <2>4, <2>5, <2>6, <2>7 DEF s
<1> QED
  BY <1>1, <1>2, <1>3, <1>4, <1>5, <1>6

\* The step is done, and the next one comes.
LEMMA DoneGoesOn ==
    ASSUME NEW t \in Threads, NEW n, NEW m, Continue(t, <<>>), \A k : Holds(n, m, k)'
    PROVE  \E s \in Plain : /\ Continue(t, s) /\ Fits(t, s, n, m)
                            /\ \A k : Holds(First(s, n), Second(s, n, m), k)'
  BY FirstTwo, FitsAlone, PlainSteps

LEMMA ModeGoesOn ==
    ASSUME NEW t \in Threads, NEW l, NEW n, NEW m, Before(t, l, n, m),
           Enter(t) \/ SetInterruptState(t) \/ SetMode(t)
    PROVE  Continue(t, <<>>) /\ \A k : Holds(n, m, k)'
<1>h. l = Head(todo[t]) /\ Continue(t, <<>>)
  BY DEF Before, Reached, Enter, SetInterruptState, SetMode
<1> SUFFICES \A k : Holds(n, m, k)'
  BY <1>h
<1> USE DEF Before, Holds, On, Settled, Receiving
<1>1. CASE Enter(t)
  <2>1. /\ l \in States /\ mCurrentState' = l
        /\ UNCHANGED <<mInterruptState, mEnabled, power, chipEnable, mode>>
    BY <1>1, <1>h DEF Enter, pin, device, modes
  <2>2. CASE l = "PowerDown"
    <3>1. n = "ToRxMode" /\ ~mEnabled
      BY <2>2 DEF Follows, FollowsCall, HoldsCall
    <3> QED
      BY <2>1, <2>2, <3>1 DEF HoldsCall, HoldsMode, HoldsRead, HoldsWrite
  <2>3. CASE l = "StandbyI"
    <3>1. /\ power /\ mEnabled /\ n \in {"prepare", "evaluate", "ToPowerDown", "ToRxMode"}
          /\ n = "ToPowerDown" => m = "ToRxMode"
      BY <2>3 DEF Follows, FollowsCall, HoldsCall
    <3> QED
      BY <2>1, <2>3, <3>1 DEF HoldsCall, HoldsMode, HoldsRead, HoldsWrite
  <2>4. CASE l = "RxMode"
    <3>1. /\ power /\ mEnabled /\ chipEnable /\ mode = "receive" /\ mInterruptState = "Rx"
          /\ n \in {"end", "clear"} /\ (n = "clear" => m = "StandbyI")
      BY <2>4 DEF Follows, FollowsCall, HoldsCall
    <3> QED
      BY <2>1, <2>4, <3>1 DEF HoldsCall, HoldsMode, HoldsRead, HoldsWrite
  <2>5. CASE l = "TxMode"
    <3>1. power /\ mEnabled /\ n = "wait"
      BY <2>5 DEF Follows, FollowsCall, HoldsWrite
    <3> QED
      BY <2>1, <2>5, <3>1 DEF HoldsCall, HoldsMode, HoldsRead, HoldsWrite
  <2> QED
    BY <1>h, <2>1, <2>2, <2>3, <2>4, <2>5 DEF States
<1>2. CASE SetInterruptState(t)
  <2>1. /\ l \in {"Ignore", "Rx", "Tx"} /\ mInterruptState' = l
        /\ UNCHANGED <<mCurrentState, mEnabled, power, chipEnable, mode>>
    BY <1>2, <1>h DEF SetInterruptState, pin, device, modes
  <2>2. CASE l = "Ignore"
    <3>1. power /\ mEnabled /\ n = "drainIfSet" /\ mCurrentState = "RxMode"
      BY <2>2 DEF Follows, FollowsMode, HoldsMode
    <3> QED
      BY <2>1, <2>2, <3>1 DEF HoldsCall, HoldsMode, HoldsRead, HoldsWrite
  <2>3. CASE l = "Rx"
    <3>1. power /\ mEnabled /\ n = "receiveMode" /\ mCurrentState = "StandbyI"
      BY <2>3 DEF Follows, FollowsMode, HoldsMode
    <3> QED
      BY <2>1, <2>3, <3>1 DEF HoldsCall, HoldsMode, HoldsRead, HoldsWrite
  <2>4. CASE l = "Tx"
    <3>1. power /\ mEnabled /\ n = "transmitMode" /\ m = "chipEnable" /\ mCurrentState = "StandbyI"
      BY <2>4 DEF Follows, FollowsMode, HoldsWrite, Continues
    <3> QED
      BY <2>1, <2>4, <3>1 DEF HoldsCall, HoldsMode, HoldsRead, HoldsWrite
  <2> QED
    BY <1>h, <2>1, <2>2, <2>3, <2>4
<1>3. CASE SetMode(t)
  <2>1. /\ l \in {"powerUp", "powerDown", "chipEnable", "chipDisable", "receiveMode", "transmitMode"}
        /\ power' = IF l \in {"powerUp", "powerDown"} THEN l = "powerUp" ELSE power
        /\ chipEnable' = IF l \in {"chipEnable", "chipDisable"} THEN l = "chipEnable" ELSE chipEnable
        /\ mode' = CASE l = "receiveMode" -> "receive"
                     [] l = "transmitMode" -> "transmit"
                     [] OTHER -> mode
        /\ UNCHANGED <<mCurrentState, mInterruptState, mEnabled>>
    BY <1>3, <1>h DEF SetMode, pin, controller
  <2>u. UNCHANGED <<mCurrentState, mInterruptState, mEnabled>>
    BY <2>1
  <2>2. CASE l = "powerUp"
    <3>1. mEnabled /\ n = "StandbyI"
      BY <2>2 DEF Follows, FollowsMode, HoldsMode
    <3>2. power'
      BY <2>1, <2>2
    <3> QED
      BY <2>1, <3>1, <3>2 DEF HoldsCall, HoldsMode, HoldsRead, HoldsWrite
  <2>3. CASE l = "powerDown"
    <3>1. mEnabled /\ n = "disablePin"
      BY <2>3 DEF Follows, FollowsMode, HoldsMode
    <3> QED
      BY <2>1, <3>1 DEF HoldsCall, HoldsMode, HoldsRead, HoldsWrite
  <2>4. CASE l = "chipEnable"
    <3>1. /\ power /\ mEnabled /\ mCurrentState = "StandbyI" /\ n \in {"RxMode", "TxMode"}
          /\ n = "RxMode" => mode = "receive" /\ mInterruptState = "Rx"
      BY <2>4 DEF Follows, FollowsMode, HoldsMode
    <3>2. chipEnable' /\ UNCHANGED <<power, mode>>
      BY <2>1, <2>4
    <3> QED
      BY <2>u, <3>1, <3>2 DEF HoldsCall, HoldsMode, HoldsRead, HoldsWrite
  <2>5. CASE l = "chipDisable"
    <3>1. /\ power /\ mEnabled
          /\ \/ n = "transmitMode" /\ m = "Ignore" /\ mCurrentState = "RxMode"
             \/ n = "StandbyI"
      BY <2>5 DEF Follows, FollowsMode, HoldsMode, Continues
    <3>2. UNCHANGED <<power, mode>>
      BY <2>1, <2>5
    <3> QED
      BY <2>u, <3>1, <3>2 DEF HoldsCall, HoldsMode, HoldsRead, HoldsWrite
  <2>6. CASE l = "receiveMode"
    <3>1. power /\ mEnabled /\ mCurrentState = "StandbyI" /\ n = "chipEnable" /\ mInterruptState = "Rx"
      BY <2>6 DEF Follows, FollowsMode, HoldsMode
    <3>2. UNCHANGED power /\ mode' = "receive"
      BY <2>1, <2>6
    <3> QED
      BY <2>u, <3>1, <3>2 DEF HoldsCall, HoldsMode, HoldsRead, HoldsWrite
  <2>7. CASE l = "transmitMode"
    <3>1. /\ power /\ mEnabled
          /\ \/ n = "Ignore" /\ mCurrentState = "RxMode"
             \/ n = "chipEnable" /\ m = "TxMode" /\ mCurrentState = "StandbyI"
      BY <2>7 DEF Follows, FollowsMode, HoldsMode, Continues
    <3>2. UNCHANGED power
      BY <2>1, <2>7
    <3> QED
      BY <2>u, <3>1, <3>2 DEF HoldsCall, HoldsMode, HoldsRead, HoldsWrite
  <2> QED
    BY <1>h, <2>1, <2>2, <2>3, <2>4, <2>5, <2>6, <2>7
<1> QED
  BY <1>1, <1>2, <1>3

LEMMA DeviceGoesOn ==
    ASSUME NEW t \in Threads, NEW l, NEW n, NEW m, Before(t, l, n, m),
           \/ SetCallback(t) \/ Clear(t) \/ Flush(t) \/ ConfigureDevice(t)
           \/ EnablePin(t) \/ JoinPin(t) \/ Prepare(t) \/ Load(t) \/ Wait(t) \/ Restore(t)
    PROVE  Continue(t, <<>>) /\ \A k : Holds(n, m, k)'
<1> USE DEF Before, Holds, On, Settled, Receiving
<1>h. l = Head(todo[t])
  BY DEF Reached
<1>s. /\ l \in {"setCallback", "clear", "clearIfSet", "flush", "flushTransmitFifo", "configureDevice",
                "enablePin", "joinPin", "prepare", "load", "wait", "restore"}
      /\ UNCHANGED <<mCurrentState, mInterruptState, power, chipEnable, mode>>
  BY <1>h DEF SetCallback, Clear, Flush, ConfigureDevice, EnablePin, JoinPin, Prepare, Load, Wait,
     Restore, Reached, controller, device, modes
<1>1. CASE EnablePin(t)
  <2>1. l = "enablePin" /\ n = "powerUp" /\ ~mEnabled
    BY <1>1, <1>h DEF EnablePin, Reached, Follows, FollowsMode, HoldsMode
  <2>2. mEnabled' /\ Continue(t, <<>>)
    BY <1>1, <2>1 DEF EnablePin
  <2> QED
    BY <1>s, <2>1, <2>2 DEF HoldsCall, HoldsMode, HoldsRead, HoldsWrite
<1>2. CASE ~EnablePin(t)
  <2>1. UNCHANGED mEnabled /\ Continue(t, <<>>)
    BY <1>2 DEF SetCallback, Clear, Flush, ConfigureDevice, JoinPin, Prepare, Load, Wait,
       Restore, pin
  <2>e. l # "enablePin"
    BY <1>2, <1>h DEF SetCallback, Clear, Flush, ConfigureDevice, JoinPin, Prepare, Load, Wait,
       Restore, Reached
  <2>2. CASE l \in {"setCallback", "flush", "configureDevice", "joinPin"}
    <3>1. /\ l # "joinPin" => mCurrentState = "PowerDown" /\ ~mEnabled
          /\ l = "joinPin" => ~mEnabled
      BY <2>2 DEF HoldsMode, HoldsWrite
    <3>2. /\ l = "setCallback" => n = "ToRxMode"
          /\ l = "flush" => n = "configureDevice"
          /\ l = "configureDevice" => n = "enablePin"
          /\ l = "joinPin" => n = "PowerDown"
      BY DEF Follows, FollowsMode, FollowsWrite
    <3>3. l = "configureDevice" => pipe0' = "own"
      BY <1>h, <1>2 DEF SetCallback, Clear, Flush, ConfigureDevice, JoinPin, Prepare, Load, Wait,
         Restore, Reached
    <3> QED
      BY <1>s, <2>1, <2>2, <3>1, <3>2, <3>3 DEF HoldsCall, HoldsMode, HoldsRead, HoldsWrite
  <2>3. CASE l = "clear"
    <3>1. power /\ mEnabled
      BY <2>3 DEF HoldsRead
    <3>2. \/ n = "Rx" /\ mCurrentState = "StandbyI"
          \/ n = "read" /\ mCurrentState = "RxMode" /\ (m = "end" => Settled)
          \/ n = "StandbyI"
      BY <2>3 DEF HoldsRead, Follows, FollowsRead
    <3> QED
      BY <1>s, <2>1, <2>3, <3>1, <3>2 DEF HoldsCall, HoldsMode, HoldsRead, HoldsWrite
  <2>4. CASE l = "wait"
    <3>1. power /\ mEnabled /\ mCurrentState \in {"StandbyI", "TxMode"} /\ n = "ToStandbyI" /\ m = "evaluate"
      BY <2>4 DEF HoldsWrite, Follows, FollowsWrite, Continues
    <3> QED
      BY <1>s, <2>1, <2>4, <3>1 DEF HoldsCall, HoldsMode, HoldsRead, HoldsWrite
  <2>5. CASE l \in {"clearIfSet", "flushTransmitFifo", "prepare", "load", "restore"}
    <3>1. power /\ mEnabled /\ mCurrentState = "StandbyI"
      BY <2>5 DEF HoldsWrite
    <3>2. /\ l = "clearIfSet" => n = "Tx"
          /\ l = "flushTransmitFifo" => n = "restore"
          /\ l = "prepare" => n = "load"
          /\ l = "load" => n = "ToTxMode"
          /\ l = "restore" => n = "ToRxMode"
      BY DEF Follows, FollowsMode, FollowsWrite
    <3> QED
      BY <1>s, <2>1, <2>5, <3>1, <3>2 DEF HoldsCall, HoldsMode, HoldsRead, HoldsWrite
  <2> QED
    BY <1>s, <2>e, <2>2, <2>3, <2>4, <2>5
<1> QED
  BY <1>1, <1>2

LEMMA PairOfSteps ==
    ASSUME NEW k, NEW l
    PROVE  <<k>> \o <<l>> = <<k, l>>
<1> DEFINE s == <<k>> \o <<l>>
           r == <<k, l>>
<1>1. /\ <<k>> \in Seq({k, l}) /\ Len(<<k>>) = 1 /\ <<k>>[1] = k
      /\ <<l>> \in Seq({k, l}) /\ Len(<<l>>) = 1 /\ <<l>>[1] = l
      /\ r \in Seq({k, l}) /\ Len(r) = 2 /\ r[1] = k /\ r[2] = l
  OBVIOUS
<1>2. s \in Seq({k, l}) /\ Len(s) = 2 /\ s[1] = k /\ s[2] = l
  BY <1>1, ConcatProperties
<1>0. r \in Seq({k, l}) /\ Len(r) = 2 /\ r[1] = k /\ r[2] = l
  BY <1>1
<1> HIDE DEF s, r
<1>3. s = r
  <2>1. \A i \in 1 .. Len(s) : s[i] = r[i]
    BY <1>0, <1>2
  <2> QED
    BY <1>0, <1>2, <2>1, SeqEqual
<1> QED
  BY <1>3 DEF s, r

\* The steps of reading.
LEMMA ReadGoesOn ==
    ASSUME NEW t \in Threads, NEW l, NEW n, NEW m, Before(t, l, n, m),
           DrainIfSet(t) \/ ReadReceiveData(t)
    PROVE  \E s \in Plain : /\ Continue(t, s) /\ Fits(t, s, n, m)
                            /\ \A k : Holds(First(s, n), Second(s, n, m), k)'
<1> USE FirstTwo DEF Before
<1>1. /\ l = Head(todo[t])
      /\ UNCHANGED <<mCurrentState, mInterruptState, power, chipEnable, mode, mEnabled>>
  BY DEF DrainIfSet, ReadReceiveData, Reached, controller, pin, device, modes
<1>2. CASE DrainIfSet(t)
  <2>1. l = "drainIfSet" /\ n = "StandbyI" /\ t = "context" /\ power /\ mEnabled /\ mCurrentState = "RxMode"
    BY <1>1, <1>2 DEF DrainIfSet, Reached, Follows, FollowsRead, Holds, HoldsRead, On
  <2>2. CASE PinHigh
    <3>1. Continue(t, <<>>)
      BY <1>2, <2>2 DEF DrainIfSet
    <3>2. \A k : Holds(n, m, k)'
      BY <1>1, <2>1 DEF Holds, HoldsCall, HoldsMode, HoldsRead, HoldsWrite, On
    <3> QED
      BY <3>1, <3>2, DoneGoesOn
  <2>3. CASE ~PinHigh
    <3> DEFINE s == <<"readReceiveData", "clear">>
    <3>1. Continue(t, s) /\ s \in Plain
      BY <1>2, <2>3, PlainCalls DEF DrainIfSet
    <3>2. First(s, n) = "readReceiveData" /\ Second(s, n, m) = "clear"
      BY DEF First, Second, Joint
    <3>3. Fits(t, s, n, m)
      BY <2>1, FitsAlone DEF Follows, FollowsCall, FollowsMode, FollowsRead, FollowsWrite, Continues
    <3> HIDE DEF s
    <3>4. \A k : Holds("readReceiveData", "clear", k)'
      BY <1>1, <2>1 DEF Holds, HoldsCall, HoldsMode, HoldsRead, HoldsWrite, On
    <3> QED
      BY <3>1, <3>2, <3>3, <3>4
  <2> QED
    BY <2>2, <2>3
<1>3. CASE ReadReceiveData(t)
  <2>1. /\ l = "readReceiveData" /\ n \in {"end", "clear"} /\ t = "context"
        /\ power /\ mEnabled /\ mCurrentState = "RxMode" /\ (n = "end" => Settled)
    BY <1>1, <1>3 DEF ReadReceiveData, Reached, Follows, FollowsRead, Holds, HoldsRead, On
  <2> DEFINE s == <<"read">>
  <2>2. Continue(t, s) /\ s \in Plain
    BY <1>3, PlainCalls DEF ReadReceiveData
  <2>3. First(s, n) = "read" /\ Second(s, n, m) = n
    BY DEF First, Second, Joint
  <2>4. Fits(t, s, n, m)
    BY <2>1, FitsAlone DEF Follows, FollowsCall, FollowsMode, FollowsRead, FollowsWrite, Continues
  <2> HIDE DEF s
  <2>5. \A k : Holds("read", n, k)'
    BY <1>1, <2>1 DEF Holds, HoldsCall, HoldsMode, HoldsRead, HoldsWrite, On, Settled, Receiving
  <2> QED
    BY <2>2, <2>3, <2>4, <2>5
<1> QED
  BY <1>2, <1>3

\* A round of the loop comes back to where it was.
LEMMA RoundGoesOn ==
    ASSUME NEW t \in Threads, NEW l, NEW n, NEW m, Before(t, l, n, m), Read(t)
    PROVE  \E s \in Plain : /\ Continue(t, s) /\ Fits(t, s, n, m) /\ Len(s) = 2
                            /\ Holds(First(s, n), Second(s, n, m), n)'
<1> USE FirstTwo DEF Before
<1>1. /\ l = "read" /\ n \in {"end", "clear"} /\ t = "context"
      /\ power /\ mEnabled /\ mCurrentState = "RxMode" /\ (n = "end" => Settled)
      /\ UNCHANGED <<mCurrentState, mInterruptState, power, chipEnable, mode, mEnabled>>
  BY DEF Read, Reached, Follows, FollowsRead, Holds, HoldsRead, On, controller, pin, modes
<1> DEFINE s == <<"clear", "read">>
<1>2. Continue(t, s) /\ s \in Plain /\ Len(s) = 2
  BY PlainCalls DEF Read
<1>3. First(s, n) = "clear" /\ Second(s, n, m) = "read"
  BY DEF First, Second, Joint
<1>4. Fits(t, s, n, m)
  BY <1>1, FitsAlone DEF Follows, FollowsCall, FollowsMode, FollowsRead, FollowsWrite, Continues
<1> HIDE DEF s
<1>5. Holds("clear", "read", n)'
  BY <1>1 DEF Holds, HoldsCall, HoldsMode, HoldsRead, HoldsWrite, On, Settled, Receiving
<1> QED
  BY <1>2, <1>3, <1>4, <1>5

\* Reading ends, or the device is rebooted.
LEMMA EndGoesOn ==
    ASSUME NEW t \in Threads, NEW l, NEW n, NEW m, Before(t, l, n, m), ReadEnds(t)
    PROVE  \E s \in Plain : /\ Continue(t, s) /\ Fits(t, s, n, m)
                            /\ \A k : Holds(First(s, n), Second(s, n, m), k)'
<1> USE FirstTwo DEF Before
<1>1. /\ l = "read" /\ n \in {"end", "clear"} /\ (n = "clear" => m = "StandbyI") /\ t = "context"
      /\ power /\ mEnabled /\ mCurrentState = "RxMode" /\ (n = "end" => Settled)
      /\ UNCHANGED <<mCurrentState, mInterruptState, power, chipEnable, mode, mEnabled>>
  BY DEF ReadEnds, Reached, Follows, FollowsRead, Holds, HoldsRead, On, pin, device, modes
<1>2. CASE Continue(t, <<>>)
  <2>1. \A k : Holds(n, m, k)'
    BY <1>1 DEF Holds, HoldsCall, HoldsMode, HoldsRead, HoldsWrite, On, Settled, Receiving
  <2> QED
    BY <1>2, <2>1, DoneGoesOn
<1>3. CASE Continue(t, Reboot(mCurrentState))
  <2> DEFINE s == <<"ToPowerDown", "ToRxMode">>
  <2>1. Reboot(mCurrentState) = s
    <3>1. ApplyTo["RxMode"] = <<"ToRxMode">>
      BY DEF ApplyTo
    <3>2. <<"ToPowerDown">> \o <<"ToRxMode">> = <<"ToPowerDown", "ToRxMode">>
      BY PairOfSteps
    <3>3. Reboot("RxMode") = <<"ToPowerDown">> \o <<"ToRxMode">>
      BY <3>1 DEF Reboot
    <3> QED
      BY <1>1, <3>2, <3>3
  <2>2. Continue(t, s)
    BY <1>3, <2>1
  <2>3. s \in Plain
    BY <1>1, <2>1, PlainReboot DEF States
  <2>4. First(s, n) = "ToPowerDown" /\ Second(s, n, m) = "ToRxMode"
    BY DEF First, Second, Joint
  <2>5. Fits(t, s, n, m)
    BY <1>1, FitsAlone DEF Follows, FollowsCall, FollowsMode, FollowsRead, FollowsWrite, Continues
  <2> HIDE DEF s
  <2>6. \A k : Holds("ToPowerDown", "ToRxMode", k)'
    BY <1>1 DEF Holds, HoldsCall, HoldsMode, HoldsRead, HoldsWrite, On
  <2> QED
    BY <2>2, <2>3, <2>4, <2>5, <2>6
<1> QED
  BY <1>2, <1>3 DEF ReadEnds

\* The steps of a write that decide what comes next.
LEMMA WriteGoesOn ==
    ASSUME NEW t \in Threads, NEW l, NEW n, NEW m, Before(t, l, n, m),
           DisablePin(t) \/ TransmitIfLoaded(t) \/ Evaluate(t)
    PROVE  \E s \in Plain : /\ Continue(t, s) /\ Fits(t, s, n, m)
                            /\ \A k : Holds(First(s, n), Second(s, n, m), k)'
<1> USE FirstTwo DEF Before
<1>1. CASE DisablePin(t)
  <2>1. /\ l = "disablePin" /\ n = "PowerDown" /\ mEnabled /\ ~mEnabled'
        /\ Continue(t, <<"joinPin">>)
    BY <1>1 DEF DisablePin, Reached, Follows, FollowsMode, Holds, HoldsMode
  <2> DEFINE s == <<"joinPin">>
  <2>2. Continue(t, s) /\ s \in Plain
    BY <2>1, PlainCalls
  <2>3. First(s, n) = "joinPin" /\ Second(s, n, m) = n
    BY DEF First, Second, Joint
  <2>4. Fits(t, s, n, m)
    BY <2>1, FitsAlone DEF Follows, FollowsCall, FollowsMode, FollowsRead, FollowsWrite, Continues
  <2> HIDE DEF s
  <2>5. \A k : Holds("joinPin", n, k)'
    BY <2>1 DEF Holds, HoldsCall, HoldsMode, HoldsRead, HoldsWrite
  <2> QED
    BY <2>2, <2>3, <2>4, <2>5
<1>2. CASE TransmitIfLoaded(t)
  <2>1. /\ l = "transmitIfLoaded" /\ n = "wait" /\ power /\ mEnabled /\ mCurrentState = "StandbyI"
        /\ UNCHANGED <<mCurrentState, mInterruptState, power, chipEnable, mode, mEnabled>>
    BY <1>2 DEF TransmitIfLoaded, Reached, Follows, FollowsWrite, Holds, HoldsWrite, On, controller,
       pin, device, modes
  <2>2. CASE txFifo = <<>>
    <3>1. Continue(t, <<>>)
      BY <1>2, <2>2 DEF TransmitIfLoaded
    <3>2. \A k : Holds(n, m, k)'
      BY <2>1 DEF Holds, HoldsCall, HoldsMode, HoldsRead, HoldsWrite, On
    <3> QED
      BY <3>1, <3>2, DoneGoesOn
  <2>3. CASE txFifo # <<>>
    <3>1. Continue(t, Transmit) /\ Transmit \in Plain
      BY <1>2, <2>3, PlainSteps DEF TransmitIfLoaded
    <3>2. \A k : Holds("clearIfSet", "Tx", k)'
      BY <2>1 DEF Holds, HoldsCall, HoldsMode, HoldsRead, HoldsWrite, On
    <3>3. Fits(t, Transmit, n, m)
      BY <2>1, FitsTransitions
    <3> QED
      BY <3>1, <3>2, <3>3
  <2> QED
    BY <2>2, <2>3
<1>3. CASE Evaluate(t)
  <2>1. /\ l = "evaluate" /\ n = "restore" /\ power /\ mEnabled /\ mCurrentState = "StandbyI"
        /\ UNCHANGED <<mCurrentState, mInterruptState, power, chipEnable, mode, mEnabled>>
    BY <1>3 DEF Evaluate, Reached, Follows, FollowsWrite, Holds, HoldsWrite, On, controller,
       pin, modes
  <2>2. CASE Continue(t, <<>>)
    <3>2. \A k : Holds(n, m, k)'
      BY <2>1 DEF Holds, HoldsCall, HoldsMode, HoldsRead, HoldsWrite, On
    <3> QED
      BY <2>2, <3>2, DoneGoesOn
  <2>3. CASE Continue(t, <<"flushTransmitFifo">>)
    <3> DEFINE s == <<"flushTransmitFifo">>
    <3>1. Continue(t, s) /\ s \in Plain
      BY <2>3, PlainCalls
    <3>2. First(s, n) = "flushTransmitFifo" /\ Second(s, n, m) = n
      BY DEF First, Second, Joint
    <3>3. Fits(t, s, n, m)
      BY <2>1, FitsAlone DEF Follows, FollowsCall, FollowsMode, FollowsRead, FollowsWrite, Continues
    <3> HIDE DEF s
    <3>4. \A k : Holds("flushTransmitFifo", n, k)'
      BY <2>1 DEF Holds, HoldsCall, HoldsMode, HoldsRead, HoldsWrite, On
    <3> QED
      BY <3>1, <3>2, <3>3, <3>4
  <2> QED
    BY <1>3, <2>2, <2>3 DEF Evaluate
<1> QED
  BY <1>1, <1>2, <1>3

\* Each step goes on: with none, some or all of the steps of a call in front.
LEMMA StepGoesOn ==
    ASSUME TypeOK, NEW t \in Threads, NEW l, NEW n, NEW m, Before(t, l, n, m), Step(t)
    PROVE  \E s \in Plain : /\ Continue(t, s) /\ Fits(t, s, n, m)
                            /\ \/ \A k : Holds(First(s, n), Second(s, n, m), k)'
                               \/ Len(s) = 2 /\ Holds(First(s, n), Second(s, n, m), n)'
<1>1. CASE Call(t)
  BY <1>1, CallGoesOn
<1>2. CASE Enter(t) \/ SetInterruptState(t) \/ SetMode(t)
  BY <1>2, ModeGoesOn, DoneGoesOn
<1>3. CASE \/ SetCallback(t) \/ Clear(t) \/ Flush(t) \/ ConfigureDevice(t)
           \/ EnablePin(t) \/ JoinPin(t) \/ Prepare(t) \/ Load(t) \/ Wait(t) \/ Restore(t)
  BY <1>3, DeviceGoesOn, DoneGoesOn
<1>4. CASE DrainIfSet(t) \/ ReadReceiveData(t)
  BY <1>4, ReadGoesOn
<1>5. CASE Read(t)
  BY <1>5, RoundGoesOn
<1>6. CASE ReadEnds(t)
  BY <1>6, EndGoesOn
<1>7. CASE DisablePin(t) \/ TransmitIfLoaded(t) \/ Evaluate(t)
  BY <1>7, WriteGoesOn
<1> QED
  BY <1>1, <1>2, <1>3, <1>4, <1>5, <1>6, <1>7 DEF Step

\* The steps before each thread's first one are pushed in front of its second.
LEMMA FirstOfPushed ==
    ASSUME NEW q \in Seq(Steps), q # <<>>, NEW s \in Seq(Steps)
    PROVE  /\ At(s \o Tail(q), 1) = First(s, At(q, 2))
           /\ At(s \o Tail(q), 2) = Second(s, At(q, 2), At(q, 3))
           /\ Len(s) = 2 => At(s \o Tail(q), 3) = At(q, 2)
<1> DEFINE r == s \o Tail(q)
<1>0. Len(s) \in Nat /\ (Len(s) = 0 <=> s = <<>>) /\ 1 \in Nat \ {0} /\ 2 \in Nat \ {0} /\ 3 \in Nat \ {0}
  OBVIOUS
<1>1. /\ At(r, 1) = IF 1 <= Len(s) THEN s[1] ELSE At(q, 1 - Len(s) + 1)
      /\ At(r, 2) = IF 2 <= Len(s) THEN s[2] ELSE At(q, 2 - Len(s) + 1)
      /\ At(r, 3) = IF 3 <= Len(s) THEN s[3] ELSE At(q, 3 - Len(s) + 1)
  BY <1>0, AtPushed
<1> HIDE DEF r
<1>2. CASE Len(s) = 0
  BY <1>0, <1>1, <1>2 DEF r, First, Second
<1>3. CASE Len(s) = 1
  BY <1>0, <1>1, <1>3 DEF r, First, Second, Joint
<1>4. CASE Len(s) >= 2
  <2>1. At(r, 1) = s[1] /\ At(r, 2) = s[2] /\ 1 < Len(s) /\ s # <<>>
    BY <1>0, <1>1, <1>4
  <2>2. Len(s) = 2 => At(r, 3) = At(q, 2)
    BY <1>1
  <2>3. 1 + 1 = 2
    OBVIOUS
  <2> QED
    BY <2>1, <2>2, <2>3 DEF r, First, Second, Joint
<1>5. Len(s) = 0 \/ Len(s) = 1 \/ Len(s) >= 2
  <2>1. \A k \in Nat : k = 0 \/ k = 1 \/ k >= 2
    OBVIOUS
  <2> QED
    BY <1>0, <2>1
<1> QED
  BY <1>2, <1>3, <1>4, <1>5

LEMMA BeforeFirst ==
    ASSUME TodoType, NEW t \in Threads, todo[t] # <<>>, Linked(t, todo[t]), HoldsBefore(todo[t])
    PROVE  Before(t, At(todo[t], 1), At(todo[t], 2), At(todo[t], 3))
<1> DEFINE q == todo[t]
<1>1. q \in Seq(Steps) /\ 1 \in DOMAIN q /\ Head(q) = q[1] /\ At(q, 1) = q[1]
  BY DEF TodoType, Steps, At
<1>2. Reached(t, At(q, 1))
  BY <1>1 DEF Reached
<1>3. Follows(t, q[1], At(q, 2)) /\ Continues(q[1], At(q, 2), At(q, 3))
  <2>1. 1 + 1 = 2 /\ 1 + 2 = 3
    OBVIOUS
  <2> QED
    BY <1>1, <2>1 DEF Linked
<1>5. ASSUME At(q, 2) # "end"
      PROVE  Follows(t, At(q, 2), At(q, 3)) /\ (At(q, 2) = "clear" => At(q, 3) = "StandbyI")
  <2>1. 2 \in DOMAIN q /\ At(q, 2) = q[2]
    BY <1>5 DEF At
  <2>2. 2 + 1 = 3 /\ 2 > 1
    OBVIOUS
  <2> QED
    BY <2>1, <2>2 DEF Linked
<1> QED
  BY <1>1, <1>2, <1>3, <1>5 DEF Before, HoldsBefore

\* What a thread that drives the device does next finds what it needs.
LEMMA ThreadGoesOn ==
    ASSUME TypeInv, NEW t \in Threads, Step(t), Linked(t, todo[t]), HoldsBefore(todo[t])
    PROVE  /\ \E s \in Plain : Continue(t, s)
           /\ Linked(t, todo'[t]) /\ HoldsBefore(todo[t])'
<1>1. TodoType /\ TypeOK /\ todo[t] # <<>>
  BY StepContinues DEF TypeInv
<1>2. PICK q \in Seq(Steps) : q = todo[t]
  BY <1>1 DEF TodoType, Steps
<1>3. PICK l, n, m : l = At(q, 1) /\ n = At(q, 2) /\ m = At(q, 3)
  OBVIOUS
<1>4. Before(t, l, n, m)
  BY <1>1, <1>2, <1>3, BeforeFirst
<1>5. PICK s \in Plain : /\ Continue(t, s) /\ Fits(t, s, n, m)
                         /\ \/ \A k : Holds(First(s, n), Second(s, n, m), k)'
                            \/ Len(s) = 2 /\ Holds(First(s, n), Second(s, n, m), n)'
  BY <1>1, <1>4, StepGoesOn
<1>6. s \in Seq(Steps) /\ q \in Seq(Steps) /\ q # <<>>
  BY <1>1, <1>2, <1>5 DEF Plain, Steps
<1>7. PICK r : r = s \o Tail(q)
  OBVIOUS
<1>8. todo'[t] = r
  BY <1>1, <1>2, <1>5, <1>7 DEF Continue, TodoType
<1>9. Linked(t, r)
  BY <1>2, <1>3, <1>5, <1>6, <1>7, LinkedPushed
<1>10. At(r, 1) = First(s, n) /\ At(r, 2) = Second(s, n, m) /\ (Len(s) = 2 => At(r, 3) = n)
  BY <1>3, <1>6, <1>7, FirstOfPushed
<1>11. PICK a, b, c : a = At(r, 1) /\ b = At(r, 2) /\ c = At(r, 3)
  OBVIOUS
<1>12. Holds(a, b, c)'
  <2>1. a = First(s, n) /\ b = Second(s, n, m) /\ (Len(s) = 2 => c = n)
    BY <1>10, <1>11
  <2> QED
    BY <1>5, <2>1
<1>13. HoldsBefore(todo[t])'
  BY <1>8, <1>11, <1>12 DEF HoldsBefore
<1> QED
  BY <1>5, <1>8, <1>9, <1>13

(* What happened during the start stays in the history.                    *)
LEMMA EarlyStays ==
    ASSUME [Next]_vars, ~early' PROVE ~early
<1>1. ASSUME NEW t \in Threads, Step(t) PROVE ~early
  <2>1. CASE ReadEnds(t)
    <3>1. early' = early \/ early' = (early \/ ~Idle("main"))
      BY <2>1, Zenon DEF ReadEnds
    <3> QED
      BY <3>1, Zenon
  <2>2. CASE ~ReadEnds(t)
    BY <1>1, <2>2 DEF Step, Call, Enter, SetInterruptState, SetCallback, SetMode, Clear,
       Flush, ConfigureDevice, EnablePin, DisablePin, JoinPin, DrainIfSet, ReadReceiveData, Read,
       Prepare, Load, TransmitIfLoaded, Wait, Evaluate, Restore, history
  <2> QED
    BY <2>1, <2>2
<1>2. CASE TakeTask
  <2>1. early' = early \/ early' = (early \/ ~Idle("main"))
    BY <1>2, Zenon DEF TakeTask, HandleReceiveData, StartWrite
  <2> QED
    BY <2>1, Zenon
<1>3. CASE \/ Send \/ PollWakes \/ OnInterrupt \/ PollEnds
           \/ (\E valid \in BOOLEAN : Arrive(valid)) \/ Transmits \/ DataSent \/ RetransmitsExceeded
           \/ UNCHANGED vars
  BY <1>3 DEF Send, PollWakes, OnInterrupt, PollEnds, Arrive, Transmits, DataSent,
     RetransmitsExceeded, vars, history
<1> QED
  BY <1>1, <1>2, <1>3 DEF Next

\* The steps of the context while main starts the device.
LEMMA ReadSteps ==
    /\ \A t : Linked(t, <<>>)
    /\ Linked("context", <<"readReceiveData">>) /\ Linked("context", <<"read">>)
    /\ Linked("context", <<"clear", "read">>)
<1>1. \A t : Linked(t, <<>>)
  BY DEF Linked
<1>2. Linked("context", <<"readReceiveData">>) /\ Linked("context", <<"read">>)
  BY DEF Linked, Follows, FollowsCall, FollowsMode, FollowsRead, FollowsWrite, Continues, At
<1>3. Linked("context", <<"clear", "read">>)
  <2> DEFINE q == <<"clear", "read">>
  <2>1. Len(q) = 2 /\ DOMAIN q = 1 .. 2 /\ q[1] = "clear" /\ q[2] = "read"
    OBVIOUS
  <2> HIDE DEF q
  <2>2. At(q, 2) = "read" /\ At(q, 3) = "end" /\ At(q, 4) = "end"
    BY <2>1 DEF At
  <2>3. \A i \in DOMAIN q : (i = 1 /\ i + 1 = 2 /\ i + 2 = 3) \/ (i = 2 /\ i + 1 = 3 /\ i + 2 = 4)
    <3>1. \A i \in 1 .. 2 : (i = 1 /\ i + 1 = 2 /\ i + 2 = 3) \/ (i = 2 /\ i + 1 = 3 /\ i + 2 = 4)
      OBVIOUS
    <3> QED
      BY <2>1, <3>1
  <2>4. Linked("context", q)
    BY <2>1, <2>2, <2>3 DEF Linked, Follows, FollowsCall, FollowsMode, FollowsRead, FollowsWrite,
       Continues
  <2> QED
    BY <2>4 DEF q
<1> QED
  BY <1>1, <1>2, <1>3

LEMMA ReadStepEquations ==
    /\ \A x : Head(<<x>>) = x /\ \A s \in Plain : s \o Tail(<<x>>) = s
    /\ \A x, y : Head(<<x, y>>) = x /\ <<>> \o Tail(<<x, y>>) = <<y>>
<1>1. \A s \in Plain : s \o <<>> = s
  BY DEF Plain
<1>2. \A x : Head(<<x>>) = x /\ Tail(<<x>>) = <<>>
  OBVIOUS
<1>3. \A x, y : Head(<<x, y>>) = x /\ Tail(<<x, y>>) = <<y>>
  OBVIOUS
<1>4. \A x : <<>> \o <<x>> = <<x>>
  OBVIOUS
<1> QED
  BY <1>1, <1>2, <1>3, <1>4

\* Then the context reads, and does not reboot.
LEMMA ContextWhileStarting ==
    ASSUME TypeInv, ~early', OnlyReads, ~Idle("main"), Step("context")
    PROVE  /\ OnlyReads'
           /\ \/ ReadReceiveData("context") \/ Read("context") \/ Clear("context")
              \/ ReadEnds("context") /\ ~Idle("context") /\ Idle("context")' /\ rebooted' = rebooted
<1> DEFINE t == "context"
           q == todo[t]
<1>1. q # <<>> /\ t \in Threads /\ TodoType
  BY StepContinues DEF Threads, TypeInv
<1>2. q \in {<<"readReceiveData">>, <<"read">>, <<"clear", "read">>}
  BY <1>1 DEF OnlyReads
<1>3. Head(q) \in {"readReceiveData", "read", "clear"}
  BY <1>2, ReadStepEquations
<1>4. ReadReceiveData(t) \/ Read(t) \/ Clear(t) \/ ReadEnds(t)
  BY <1>3 DEF Step, Call, Transition, Enter, States, SetInterruptState, SetCallback, SetMode, Flush,
     ConfigureDevice, EnablePin, DisablePin, JoinPin, DrainIfSet, Prepare, Load, TransmitIfLoaded,
     Wait, Evaluate, Restore, Reached
<1>5. \A s : Continue(t, s) => todo'[t] = s \o Tail(q)
  BY <1>1 DEF Continue, TodoType
<1>6. CASE ReadReceiveData(t)
  <2>1. q = <<"readReceiveData">>
    BY <1>2, <1>6, ReadStepEquations DEF ReadReceiveData, Reached
  <2>2. todo'[t] = <<"read">>
    BY <1>5, <1>6, <2>1, ReadStepEquations, PlainCalls DEF ReadReceiveData
  <2> QED
    BY <1>6, <2>2 DEF OnlyReads
<1>7. CASE Read(t)
  <2>1. q = <<"read">>
    BY <1>2, <1>7, ReadStepEquations DEF Read, Reached
  <2>2. todo'[t] = <<"clear", "read">>
    BY <1>5, <1>7, <2>1, ReadStepEquations, PlainCalls DEF Read
  <2> QED
    BY <1>7, <2>2 DEF OnlyReads
<1>8. CASE Clear(t)
  <2>1. q = <<"clear", "read">>
    BY <1>2, <1>8, ReadStepEquations DEF Clear, Reached
  <2>2. todo'[t] = <<"read">>
    BY <1>5, <1>8, <2>1, ReadStepEquations DEF Clear
  <2> QED
    BY <1>8, <2>2 DEF OnlyReads
<1>9. CASE ReadEnds(t)
  <2>1. q = <<"read">>
    BY <1>2, <1>9, ReadStepEquations DEF ReadEnds, Reached
  <2>3. Continue(t, <<>>) /\ rebooted' = rebooted
    <3>1. ~(early' = (early \/ ~Idle("main")))
      OBVIOUS
    <3> QED
      BY <1>9, <3>1 DEF ReadEnds
  <2>4. todo'[t] = <<>>
    BY <1>5, <2>1, <2>3, ReadStepEquations, PlainSteps
  <2> QED
    BY <1>1, <1>9, <2>3, <2>4 DEF OnlyReads, Idle
<1> QED
  BY <1>4, <1>6, <1>7, <1>8, <1>9
-----------------------------------------------------------------------------
(* Where the threads are, and what they find there. *)

\* What holds before a step depends on these variables only.
hardware == <<mCurrentState, mInterruptState, mEnabled, power, chipEnable, mode, pipe0>>

LEMMA HoldsStays ==
    ASSUME NEW t \in Threads, HoldsBefore(todo[t]), UNCHANGED hardware, todo'[t] = todo[t]
    PROVE  HoldsBefore(todo[t])'
<1>1. PICK l, n, m : l = At(todo[t], 1) /\ n = At(todo[t], 2) /\ m = At(todo[t], 3)
  OBVIOUS
<1>2. Holds(l, n, m)
  BY <1>1 DEF HoldsBefore
<1>3. Holds(l, n, m)'
  BY <1>2 DEF hardware, Holds, HoldsCall, HoldsMode, HoldsRead, HoldsWrite, On, Settled, Receiving
<1> QED
  BY <1>1, <1>3 DEF HoldsBefore

LEMMA StepsStay ==
    ASSUME StepsInv, UNCHANGED hardware, UNCHANGED todo
    PROVE  StepsInv'
<1>1. HoldsBefore(todo[Driver])'
  <2>1. Driver \in Threads /\ Driver' = Driver
    BY DEF Driver, Idle, Threads
  <2>2. PICK d \in Threads : d = Driver
    BY <2>1
  <2>3. HoldsBefore(todo[d])'
    BY <2>2, HoldsStays DEF StepsInv
  <2> QED
    BY <2>1, <2>2, <2>3
<1> QED
  BY <1>1 DEF StepsInv, OnlyReads, Idle

LEMMA MainStepHolds ==
    ASSUME TypeInv, StepsInv, Step("main")
    PROVE  StepsInv'
<1>1. /\ "main" \in Threads /\ "context" \in Threads /\ ~Idle("main") /\ Driver = "main"
      /\ TodoType /\ OnlyReads
  BY StepContinues DEF Threads, Driver, Idle, TypeInv, StepsInv
<1>2. /\ \E s \in Plain : Continue("main", s)
      /\ Linked("main", todo'["main"]) /\ HoldsBefore(todo["main"])'
  BY <1>1, ThreadGoesOn DEF StepsInv
<1>3. todo'["context"] = todo["context"]
  BY <1>1, <1>2 DEF Continue, TodoType
<1>4. OnlyReads'
  BY <1>1, <1>3 DEF OnlyReads
<1>5. Linked("context", todo'["context"])
  BY <1>1, <1>3 DEF StepsInv
<1>6. HoldsBefore(todo[Driver])'
  <2>1. CASE Idle("main")'
    <3>1. todo'["main"] = <<>> /\ Driver' = "context"
      BY <2>1 DEF Idle, Driver
    <3>2. Settled'
      <4>1. HoldsCall("end", At(todo["main"], 2))' /\ At(todo["main"], 1)' = "end"
        BY <1>2, <3>1 DEF HoldsBefore, Holds, At
      <4> QED
        BY <4>1 DEF HoldsCall
    <3>3. HoldsBefore(todo["context"])'
      <4>1. PICK q : q = todo'["context"]
        OBVIOUS
      <4>2. PICK l, n, m : l = At(q, 1) /\ n = At(q, 2) /\ m = At(q, 3)
        OBVIOUS
      <4>3. \/ l = "end" /\ n = "end"
            \/ l \in {"readReceiveData", "read"} /\ n = "end"
            \/ l = "clear" /\ n = "read" /\ m = "end"
        BY <1>4, <4>1, <4>2 DEF OnlyReads, At
      <4>4. Holds(l, n, m)'
        BY <3>2, <4>3 DEF Holds, HoldsCall, HoldsMode, HoldsRead, HoldsWrite, Settled
      <4> QED
        BY <4>1, <4>2, <4>4 DEF HoldsBefore
    <3> QED
      BY <3>1, <3>3
  <2>2. CASE ~Idle("main")'
    BY <1>2, <2>2 DEF Driver
  <2> QED
    BY <2>1, <2>2
<1> QED
  BY <1>2, <1>4, <1>5, <1>6 DEF StepsInv, Threads

LEMMA ContextStepHolds ==
    ASSUME TypeInv, StepsInv, ~early', Step("context")
    PROVE  StepsInv'
<1>1. "main" \in Threads /\ "context" \in Threads /\ TodoType
  BY DEF Threads, TypeInv
<1>0. todo'["main"] = todo["main"]
  BY <1>1, StepContinues DEF TypeInv, Continue, TodoType
<1>2. CASE Idle("main")
  <2>1. Driver = "context" /\ Driver' = "context" /\ Idle("main")'
    BY <1>0, <1>2 DEF Driver, Idle
  <2>2. Linked("context", todo'["context"]) /\ HoldsBefore(todo["context"])'
    BY <1>1, <2>1, ThreadGoesOn DEF StepsInv
  <2>3. Linked("main", todo'["main"])
    BY <1>0, <1>1 DEF StepsInv
  <2> QED
    BY <2>1, <2>2, <2>3 DEF StepsInv, Threads
<1>3. CASE ~Idle("main")
  <2>1. /\ OnlyReads'
        /\ ReadReceiveData("context") \/ Read("context") \/ Clear("context") \/ ReadEnds("context")
    BY <1>3, ContextWhileStarting DEF StepsInv
  <2>2. UNCHANGED hardware
    BY <2>1 DEF ReadReceiveData, Read, Clear, ReadEnds, hardware, controller, pin, device, modes
  <2>3. Linked("context", todo'["context"])
    <3>1. todo'["context"] \in {<<>>, <<"readReceiveData">>, <<"read">>, <<"clear", "read">>}
      BY <2>1 DEF OnlyReads
    <3> QED
      BY <3>1, ReadSteps
  <2>4. HoldsBefore(todo["main"])' /\ Driver' = "main"
    <3>1. HoldsBefore(todo["main"])
      BY <1>3 DEF StepsInv, Driver
    <3> QED
      BY <1>0, <1>1, <1>3, <2>2, <3>1, HoldsStays DEF Driver, Idle
  <2>5. Linked("main", todo'["main"])
    BY <1>0, <1>1 DEF StepsInv
  <2> QED
    BY <2>1, <2>3, <2>4, <2>5 DEF StepsInv, Threads
<1> QED
  BY <1>2, <1>3

\* The steps of transmitPacket.
LEMMA WriteElements ==
    LET q == TransmitPacket("RxMode")
    IN  /\ q \in Seq(Steps) /\ Len(q) = 9
        /\ q[1] = "ToStandbyI" /\ q[2] = "prepare" /\ q[3] = "load" /\ q[4] = "ToTxMode"
        /\ q[5] = "wait" /\ q[6] = "ToStandbyI" /\ q[7] = "evaluate" /\ q[8] = "restore"
        /\ q[9] = "ToRxMode"
<1> DEFINE s == <<"ToStandbyI", "prepare", "load", "ToTxMode", "wait", "ToStandbyI", "evaluate", "restore">>
           r == <<"ToRxMode">>
<1>1. TransmitPacket("RxMode") = s \o r
  <2>1. ApplyTo["RxMode"] = r
    BY DEF ApplyTo
  <2> QED
    BY <2>1 DEF TransmitPacket
<1>2. /\ s \in Seq(Steps) /\ Len(s) = 8
      /\ s[1] = "ToStandbyI" /\ s[2] = "prepare" /\ s[3] = "load" /\ s[4] = "ToTxMode"
      /\ s[5] = "wait" /\ s[6] = "ToStandbyI" /\ s[7] = "evaluate" /\ s[8] = "restore"
  BY DEF Steps, Other, Write
<1>3. r \in Seq(Steps) /\ Len(r) = 1 /\ r[1] = "ToRxMode"
  BY DEF Steps, Other
<1> HIDE DEF s, r
<1>4. /\ s \o r \in Seq(Steps) /\ Len(s \o r) = 9
      /\ \A i \in 1 .. 9 : (s \o r)[i] = IF i <= 8 THEN s[i] ELSE r[i - 8]
  <2>1. /\ s \o r \in Seq(Steps) /\ Len(s \o r) = Len(s) + Len(r)
        /\ \A i \in 1 .. Len(s) + Len(r) :
              (s \o r)[i] = IF i <= Len(s) THEN s[i] ELSE r[i - Len(s)]
    BY <1>2, <1>3, ConcatProperties
  <2>2. Len(s) = 8 /\ Len(s) + Len(r) = 9
    BY <1>2, <1>3
  <2> QED
    BY <2>1, <2>2
<1>5. /\ \A i \in 1 .. 8 : i \in 1 .. 9 /\ i <= 8
      /\ 9 \in 1 .. 9 /\ ~(9 <= 8) /\ 9 - 8 = 1
      /\ 1 \in 1 .. 8 /\ 2 \in 1 .. 8 /\ 3 \in 1 .. 8 /\ 4 \in 1 .. 8
      /\ 5 \in 1 .. 8 /\ 6 \in 1 .. 8 /\ 7 \in 1 .. 8 /\ 8 \in 1 .. 8
  OBVIOUS
<1>6. (\A i \in 1 .. 8 : (s \o r)[i] = s[i]) /\ (s \o r)[9] = "ToRxMode"
  BY <1>3, <1>4, <1>5
<1>7. PICK q : q = s \o r
  OBVIOUS
<1>8. q = TransmitPacket("RxMode") /\ q \in Seq(Steps) /\ Len(q) = 9 /\ q[9] = "ToRxMode"
  BY <1>1, <1>4, <1>6, <1>7
<1>9. q[1] = s[1] /\ q[2] = s[2] /\ q[3] = s[3] /\ q[4] = s[4]
      /\ q[5] = s[5] /\ q[6] = s[6] /\ q[7] = s[7] /\ q[8] = s[8]
  BY <1>5, <1>6, <1>7, Zenon
<1> QED
  BY <1>2, <1>8, <1>9

LEMMA WriteSteps == Linked("context", TransmitPacket("RxMode"))
<1>1. PICK q : q = TransmitPacket("RxMode")
  OBVIOUS
<1>2. /\ Len(q) = 9 /\ DOMAIN q = 1 .. 9
      /\ q[1] = "ToStandbyI" /\ q[2] = "prepare" /\ q[3] = "load" /\ q[4] = "ToTxMode"
      /\ q[5] = "wait" /\ q[6] = "ToStandbyI" /\ q[7] = "evaluate" /\ q[8] = "restore"
      /\ q[9] = "ToRxMode"
  BY <1>1, WriteElements
<1>3. /\ At(q, 2) = "prepare" /\ At(q, 3) = "load" /\ At(q, 4) = "ToTxMode"
      /\ At(q, 5) = "wait" /\ At(q, 6) = "ToStandbyI" /\ At(q, 7) = "evaluate" /\ At(q, 8) = "restore"
      /\ At(q, 9) = "ToRxMode" /\ At(q, 10) = "end" /\ At(q, 11) = "end"
  BY <1>2 DEF At
<1>4. /\ \A i \in 1 .. 9 : \/ i = 1 \/ i = 2 \/ i = 3 \/ i = 4 \/ i = 5 \/ i = 6 \/ i = 7 \/ i = 8 \/ i = 9
      /\ 1 + 1 = 2 /\ 2 + 1 = 3 /\ 3 + 1 = 4 /\ 4 + 1 = 5 /\ 5 + 1 = 6 /\ 6 + 1 = 7 /\ 7 + 1 = 8
      /\ 8 + 1 = 9 /\ 9 + 1 = 10 /\ 1 + 2 = 3 /\ 2 + 2 = 4 /\ 3 + 2 = 5 /\ 4 + 2 = 6
      /\ 5 + 2 = 7 /\ 6 + 2 = 8 /\ 7 + 2 = 9 /\ 8 + 2 = 10 /\ 9 + 2 = 11
  OBVIOUS
<1>5. ASSUME NEW i \in 1 .. 9
      PROVE  /\ Follows("context", q[i], At(q, i + 1))
             /\ q[i] # "clear"
             /\ Continues(q[i], At(q, i + 1), At(q, i + 2))
  <2> USE DEF Follows, FollowsCall, FollowsMode, FollowsRead, FollowsWrite, Continues
  <2>1. CASE i = 1 \/ i = 2 \/ i = 3
    BY <1>2, <1>3, <1>4, <2>1
  <2>2. CASE i = 4 \/ i = 5 \/ i = 6
    BY <1>2, <1>3, <1>4, <2>2
  <2>3. CASE i = 7 \/ i = 8 \/ i = 9
    BY <1>2, <1>3, <1>4, <2>3
  <2> QED
    BY <1>4, <2>1, <2>2, <2>3
<1> QED
  BY <1>1, <1>2, <1>5 DEF Linked

\* A write begins when the device listens.
LEMMA WriteBegins ==
    ASSUME TypeInv, StepsInv, Idle("context"), ~early', NEW nr, StartWrite(nr)
    PROVE  /\ Idle("main") /\ mCurrentState = "RxMode" /\ writing' = nr
           /\ todo'["context"] = TransmitPacket("RxMode")
<1>1. Idle("main")
  BY DEF StartWrite
<1>2. HoldsBefore(<<>>) /\ At(<<>>, 1) = "end"
  BY <1>1 DEF StepsInv, Driver, At, Idle
<1>3. mCurrentState = "RxMode"
  BY <1>2 DEF HoldsBefore, Holds, HoldsCall, Settled
<1> QED
  BY <1>1, <1>3 DEF StartWrite, TypeInv, TodoType, Threads

LEMMA TakeTaskStepHolds ==
    ASSUME TypeInv, StepsInv, ~early', TakeTask
    PROVE  StepsInv'
<1>1. /\ "main" \in Threads /\ "context" \in Threads /\ TodoType /\ UNCHANGED hardware
      /\ Idle("context") /\ todo["context"] = <<>>
  BY DEF Threads, TypeInv, TakeTask, Idle, hardware, controller, pin, device, modes
<1>2. /\ todo'["main"] = todo["main"]
      /\ \/ Idle("main") /\ todo'["context"] = TransmitPacket("RxMode")
         \/ todo'["context"] \in {<<"readReceiveData">>, <<>>}
  <2>1. CASE \E nr \in 1 .. MaxSends : StartWrite(nr)
    BY <1>1, <2>1, WriteBegins DEF StartWrite, TodoType
  <2>2. CASE todo' \in {todo, [todo EXCEPT !["context"] = <<"readReceiveData">>]}
    BY <1>1, <2>2 DEF TodoType
  <2> QED
    BY <2>1, <2>2, TaskTaken
<1>3. Linked("main", todo'["main"])
  BY <1>1, <1>2 DEF StepsInv
<1>4. CASE Idle("main")
  <2>1. Settled
    <3>1. HoldsBefore(<<>>) /\ At(<<>>, 1) = "end"
      BY <1>1, <1>4 DEF StepsInv, Driver, At
    <3> QED
      BY <3>1 DEF HoldsBefore, Holds, HoldsCall
  <2>3. Linked("context", todo'["context"])
    BY <1>2, WriteSteps, ReadSteps
  <2>4. HoldsBefore(todo["context"])'
    <3>1. PICK q : q = todo'["context"]
      OBVIOUS
    <3>2. PICK l, n, m : l = At(q, 1) /\ n = At(q, 2) /\ m = At(q, 3)
      OBVIOUS
    <3>3. \/ l = "ToStandbyI" /\ n = "prepare"
          \/ l = "readReceiveData" /\ n = "end"
          \/ l = "end" /\ n = "end"
      <4>1. CASE q = TransmitPacket("RxMode")
        <5>1. q[1] = "ToStandbyI" /\ q[2] = "prepare" /\ DOMAIN q = 1 .. 9
          BY <4>1, WriteElements
        <5> QED
          BY <3>2, <5>1 DEF At
      <4>2. CASE q = <<"readReceiveData">> \/ q = <<>>
        BY <3>2, <4>2 DEF At
      <4> QED
        BY <1>2, <3>1, <4>1, <4>2
    <3>4. Settled'
      BY <1>1, <2>1 DEF Settled, On, Receiving, hardware
    <3>5. Holds(l, n, m)'
      BY <3>3, <3>4 DEF Holds, HoldsCall, HoldsMode, HoldsRead, HoldsWrite, Settled
    <3> QED
      BY <3>1, <3>2, <3>5 DEF HoldsBefore
  <2>5. Idle("main")' /\ Driver' = "context"
    BY <1>2, <1>4 DEF Idle, Driver
  <2> QED
    BY <1>3, <2>3, <2>4, <2>5 DEF StepsInv, Threads
<1>5. CASE ~Idle("main")
  <2>1. todo'["context"] \in {<<"readReceiveData">>, <<>>}
    BY <1>2, <1>5
  <2>2. OnlyReads' /\ Linked("context", todo'["context"])
    BY <2>1, ReadSteps DEF OnlyReads
  <2>3. ~Idle("main")' /\ Driver' = "main" /\ HoldsBefore(todo["main"])
    BY <1>2, <1>5 DEF Idle, Driver, StepsInv
  <2>4. HoldsBefore(todo["main"])'
    BY <1>1, <1>2, <2>3, HoldsStays
  <2> QED
    BY <1>3, <2>2, <2>3, <2>4 DEF StepsInv, Threads
<1> QED
  BY <1>4, <1>5

LEMMA StepsStep == TypeInv /\ StepsInv /\ ~early' /\ [Next]_vars => StepsInv'
<1> SUFFICES ASSUME TypeInv, StepsInv, ~early', [Next]_vars PROVE StepsInv'
  OBVIOUS
<1>1. CASE \E t \in Threads : Step(t)
  BY <1>1, MainStepHolds, ContextStepHolds DEF Threads
<1>2. CASE TakeTask
  BY <1>2, TakeTaskStepHolds
<1>3. CASE \/ Send \/ PollWakes \/ OnInterrupt \/ PollEnds \/ (\E valid \in BOOLEAN : Arrive(valid))
           \/ Transmits \/ DataSent \/ RetransmitsExceeded \/ UNCHANGED vars
  <2>1. UNCHANGED hardware /\ UNCHANGED todo
    BY <1>3 DEF Send, PollWakes, OnInterrupt, PollEnds, Arrive, Transmits, DataSent,
       RetransmitsExceeded, vars, hardware, controller, pin, device, modes
  <2> QED
    BY <2>1, StepsStay
<1> QED
  BY <1>1, <1>2, <1>3 DEF Next
-----------------------------------------------------------------------------
(* The start: nothing is written.                                          *)
\* Pipe 0 gets its address before the pin is enabled.
LEMMA MainKeepsPipe ==
    ASSUME TypeInv, StepsInv, StartInv, Step("main")
    PROVE  mEnabled' => pipe0' = "own"
<1> DEFINE t == "main"
<1>1. t \in Threads /\ "context" \in Threads /\ TodoType /\ todo[t] # <<>> /\ ~Idle(t) /\ Driver = t
  BY StepContinues DEF Threads, TypeInv, Idle, Driver
<1>2. PICK l, n, m : Before(t, l, n, m)
  BY <1>1, BeforeFirst DEF StepsInv
<1>3. l = Head(todo[t]) /\ l \notin Write
  <2>1. Head(todo[t]) = todo[t][1] /\ 1 \in DOMAIN todo[t]
    BY <1>1 DEF TodoType
  <2> QED
    BY <1>2, <2>1 DEF TypeInv, LoadIsInWrite, Before, Reached
<1>4. ~Read(t) /\ ~ReadEnds(t) /\ ~ReadReceiveData(t)
  BY <1>2, <1>3 DEF Read, ReadEnds, ReadReceiveData, Reached, Before, Follows, FollowsRead
<1>5. ~Prepare(t) /\ ~Load(t) /\ ~Restore(t)
  BY <1>3 DEF Prepare, Load, Restore, Reached, Write
<1>6. CASE EnablePin(t)
  <2>1. pipe0' = pipe0 /\ Reached(t, "enablePin")
    BY <1>6 DEF EnablePin, device, modes
  <2>2. pipe0 = "own"
    BY <1>2, <1>3, <2>1 DEF Before, Reached, Holds, HoldsMode
  <2> QED
    BY <2>1, <2>2
<1>7. CASE ~EnablePin(t)
  <2>1. /\ pipe0' = pipe0 \/ pipe0' = "own"
        /\ mEnabled' => mEnabled
    BY <1>4, <1>5, <1>7 DEF Step, Call, Enter, SetInterruptState, SetCallback, SetMode, Clear,
       Flush, ConfigureDevice, DisablePin, JoinPin, DrainIfSet, TransmitIfLoaded, Wait, Evaluate,
       pin, modes, device
  <2> QED
    BY <1>1, <2>1 DEF StartInv
<1> QED
  BY <1>6, <1>7

LEMMA StartOfMainStep ==
    ASSUME TypeInv, StepsInv, StartInv, Step("main")
    PROVE  StartInv'
<1> DEFINE t == "main"
<1>1. t \in Threads /\ TodoType /\ todo[t] # <<>> /\ ~Idle(t) /\ Driver = t
  BY StepContinues DEF Threads, TypeInv, Idle, Driver
<1>2. PICK l, n, m : Before(t, l, n, m)
  BY <1>1, BeforeFirst DEF StepsInv
<1>3. l = Head(todo[t]) /\ l \notin Write
  <2>1. Head(todo[t]) = todo[t][1] /\ 1 \in DOMAIN todo[t]
    BY <1>1 DEF TodoType
  <2> QED
    BY <1>2, <2>1 DEF TypeInv, LoadIsInWrite, Before, Reached
<1>4. ~Load(t) /\ ~Restore(t)
  BY <1>3 DEF Load, Restore, Reached, Write
<1>5. writing' = writing /\ txFifo' \in {txFifo, <<>>}
  BY <1>4 DEF Step, Call, Enter, SetInterruptState, SetCallback, SetMode, Clear, Flush,
     ConfigureDevice, EnablePin, DisablePin, JoinPin, DrainIfSet, ReadReceiveData, Read, ReadEnds,
     Prepare, TransmitIfLoaded, Wait, Evaluate, fifos, device, history
<1>6. mEnabled' => pipe0' = "own"
  BY MainKeepsPipe
<1> QED
  BY <1>1, <1>5, <1>6 DEF StartInv

\* Who else moves while main starts the device neither writes nor touches the pin.
LEMMA StartOfOthers ==
    ASSUME TypeInv, StepsInv, StartInv, ~early', ~Idle("main"), [Next]_vars, ~Step("main")
    PROVE  UNCHANGED <<writing, txFifo, mEnabled, pipe0>>
<1>1. CASE Step("context")
  <2>1. \/ ReadReceiveData("context") \/ Read("context") \/ Clear("context") \/ ReadEnds("context")
    BY <1>1, ContextWhileStarting DEF StepsInv
  <2> QED
    BY <2>1 DEF ReadReceiveData, Read, Clear, ReadEnds, pin, modes, fifos, device, history
<1>2. CASE TakeTask
  <2>1. writing' = writing
    BY <1>2, TaskTaken, WriteBegins DEF TakeTask
  <2> QED
    BY <1>2, <2>1 DEF TakeTask, pin, modes, fifos, device
<1>3. ~DataSent
  BY DEF DataSent, StartInv, TypeInv, OnAirIsLoaded
<1>4. CASE \/ Send \/ PollWakes \/ OnInterrupt \/ PollEnds \/ (\E valid \in BOOLEAN : Arrive(valid))
           \/ Transmits \/ RetransmitsExceeded \/ UNCHANGED vars
  BY <1>4 DEF Send, PollWakes, OnInterrupt, PollEnds, Arrive, Transmits, RetransmitsExceeded, vars,
     pin, modes, fifos, device, history
<1> QED
  BY <1>1, <1>2, <1>3, <1>4 DEF Next, Threads

LEMMA StartStep == TypeInv /\ StepsInv /\ StartInv /\ ~early' /\ [Next]_vars => StartInv'
<1> SUFFICES ASSUME TypeInv, StepsInv, StartInv, ~early', [Next]_vars, ~Idle("main")' PROVE StartInv'
  BY DEF StartInv
<1>1. ~Idle("main")
  <2>1. todo'["main"] = todo["main"] \/ Step("main")
    <3>1. CASE \E t \in Threads : Step(t)
      <4>1. CASE Step("context")
        BY <4>1, StepContinues DEF TypeInv, Continue, TodoType, Threads
      <4> QED
        BY <3>1, <4>1 DEF Threads
    <3>2. CASE TakeTask
      BY <3>2, TaskTaken DEF StartWrite, TypeInv, TodoType, Threads
    <3>3. CASE \/ Send \/ PollWakes \/ OnInterrupt \/ PollEnds \/ (\E valid \in BOOLEAN : Arrive(valid))
               \/ Transmits \/ DataSent \/ RetransmitsExceeded \/ UNCHANGED vars
      BY <3>3 DEF Send, PollWakes, OnInterrupt, PollEnds, Arrive, Transmits, DataSent,
         RetransmitsExceeded, vars
    <3> QED
      BY <3>1, <3>2, <3>3 DEF Next
  <2> QED
    BY <2>1, StepContinues DEF Idle, TypeInv, Threads
<1>2. CASE ~Step("main")
  BY <1>1, <1>2, StartOfOthers DEF StartInv
<1> QED
  BY <1>2, StartOfMainStep
-----------------------------------------------------------------------------
(* A write's own steps stay below what they call.                          *)
LEMMA AheadPushed ==
    ASSUME NEW q \in Seq(Steps), q # <<>>, NEW s \in Plain, NEW r, r = s \o Tail(q)
    PROVE  /\ \A x \in Write : (\E i \in DOMAIN r : r[i] = x) <=> (\E i \in DOMAIN q : i > 1 /\ q[i] = x)
           /\ \A i \in DOMAIN r : r[i] \in Write =>
                 /\ i - Len(s) + 1 \in DOMAIN q /\ i - Len(s) + 1 > 1 /\ r[i] = q[i - Len(s) + 1]
           /\ Len(s) \in Nat /\ DOMAIN r \subseteq Nat
<1>1. s \in Seq(Steps) /\ Len(s) \in Nat /\ Len(q) \in Nat /\ DOMAIN q = 1 .. Len(q)
  BY DEF Plain, Steps
<1>2. \A i \in DOMAIN r : r[i] \in Write =>
         /\ i - Len(s) + 1 \in DOMAIN q /\ i - Len(s) + 1 > 1 /\ r[i] = q[i - Len(s) + 1]
  BY ContinuedSteps DEF Steps
<1>3. ASSUME NEW x \in Write, NEW k \in DOMAIN q, k > 1, q[k] = x
      PROVE  \E i \in DOMAIN r : r[i] = x
  <2>1. PICK i : i = k + Len(s) - 1
    OBVIOUS
  <2>2. i \in 1 .. Len(s) + Len(q) - 1 /\ i > Len(s) /\ i - Len(s) + 1 = k
    BY <1>1, <1>3, <2>1
  <2>3. r[i] = q[i - Len(s) + 1] /\ DOMAIN r = 1 .. Len(s) + Len(q) - 1
    BY <1>1, <2>2, Pushed
  <2> QED
    BY <1>3, <2>2, <2>3
<1>4. DOMAIN r \subseteq Nat
  <2>1. r \in Seq(Steps)
    BY <1>1, Pushed
  <2> QED
    BY <2>1
<1>5. ASSUME NEW x \in Write
      PROVE  (\E i \in DOMAIN r : r[i] = x) <=> (\E i \in DOMAIN q : i > 1 /\ q[i] = x)
  <2>1. ASSUME NEW i \in DOMAIN r, r[i] = x PROVE \E k \in DOMAIN q : k > 1 /\ q[k] = x
    BY <1>2, <2>1
  <2> QED
    BY <1>3, <2>1
<1> QED
  BY <1>1, <1>2, <1>4, <1>5

\* The context goes on, nothing is thrown; a step of a write is taken by its action.
LEMMA ContextContinues ==
    ASSUME TypeInv, StepsInv, ~early', Step("context")
    PROVE  \E s \in Plain : Continue("context", s)
<1>1. "context" \in Threads
  BY DEF Threads
<1>2. CASE Idle("main")
  BY <1>1, <1>2, ThreadGoesOn DEF StepsInv, Driver
<1>3. CASE ~Idle("main")
  <2>1. ReadReceiveData("context") \/ Read("context") \/ Clear("context") \/ ReadEnds("context")
    BY <1>3, ContextWhileStarting DEF StepsInv
  <2> QED
    BY <2>1, PlainSteps, PlainCalls, PlainReboot DEF ReadReceiveData, Read, Clear, ReadEnds, TypeInv,
       TypeOK
<1> QED
  BY <1>2, <1>3

LEMMA WriteActions ==
    ASSUME TypeInv, NEW t \in Threads, Step(t)
    PROVE  /\ Head(todo[t]) = "restore" <=> Restore(t)
           /\ Head(todo[t]) = "prepare" <=> Prepare(t)
           /\ ~Restore(t) => writing' = writing
           /\ ~Prepare(t) => backupPipe0' = backupPipe0
           /\ t = "main" => ~Restore(t) /\ ~Prepare(t)
<1>1. todo[t] # <<>>
  BY StepContinues DEF TypeInv
<1>2. Head(todo[t]) = "restore" <=> Restore(t)
  BY <1>1 DEF Step, Call, Transition, Enter, States, SetInterruptState, SetCallback, SetMode, Clear,
     Flush, ConfigureDevice, EnablePin, DisablePin, JoinPin, DrainIfSet, ReadReceiveData, Read,
     ReadEnds, Prepare, Load, TransmitIfLoaded, Wait, Evaluate, Restore, Reached
<1>3. Head(todo[t]) = "prepare" <=> Prepare(t)
  BY <1>1 DEF Step, Call, Transition, Enter, States, SetInterruptState, SetCallback, SetMode, Clear,
     Flush, ConfigureDevice, EnablePin, DisablePin, JoinPin, DrainIfSet, ReadReceiveData, Read,
     ReadEnds, Prepare, Load, TransmitIfLoaded, Wait, Evaluate, Restore, Reached
<1>4. ~Restore(t) => writing' = writing
  BY DEF Step, Call, Enter, SetInterruptState, SetCallback, SetMode, Clear, Flush,
     ConfigureDevice, EnablePin, DisablePin, JoinPin, DrainIfSet, ReadReceiveData, Read, ReadEnds,
     Prepare, Load, TransmitIfLoaded, Wait, Evaluate, history
<1>5. ~Prepare(t) => backupPipe0' = backupPipe0
  BY DEF Step, Call, Enter, SetInterruptState, SetCallback, SetMode, Clear, Flush,
     ConfigureDevice, EnablePin, DisablePin, JoinPin, DrainIfSet, ReadReceiveData, Read, ReadEnds,
     Load, TransmitIfLoaded, Wait, Evaluate, Restore, locals
<1>6. t = "main" => ~Restore(t) /\ ~Prepare(t)
  <2>1. Head(todo[t]) = todo[t][1] /\ 1 \in DOMAIN todo[t]
    BY <1>1 DEF TypeInv, TodoType
  <2>2. t = "main" => Head(todo[t]) \notin Write
    BY <2>1 DEF TypeInv, LoadIsInWrite
  <2> QED
    BY <1>2, <1>3, <2>2 DEF Write
<1> QED
  BY <1>2, <1>3, <1>4, <1>5, <1>6

LEMMA WriteOfStep ==
    ASSUME TypeInv, StepsInv, ~early', WriteInv, NEW t \in Threads, Step(t)
    PROVE  WriteInv'
<1>1. TodoType /\ todo[t] # <<>> /\ "context" \in Threads
  BY StepContinues DEF TypeInv, Threads
<1>2. CASE t = "main"
  <2>1. todo'["context"] = todo["context"] /\ writing' = writing
    BY <1>1, <1>2, StepContinues, WriteActions DEF TypeInv, Continue, TodoType
  <2> QED
    BY <2>1 DEF WriteInv, Ahead
<1>3. CASE t = "context"
  <2>1. PICK s \in Plain : Continue("context", s)
    BY <1>3, ContextContinues
  <2>2. PICK q \in Seq(Steps) : q = todo["context"]
    BY <1>1 DEF TodoType, Steps
  <2>3. PICK r : r = s \o Tail(q)
    OBVIOUS
  <2>4. todo'["context"] = r /\ q # <<>> /\ q \in Seq(Steps) /\ s \in Plain
    BY <1>1, <1>3, <2>1, <2>2, <2>3 DEF Continue, TodoType
  <2>5. /\ \A x \in Write : (\E i \in DOMAIN r : r[i] = x) <=> (\E i \in DOMAIN q : i > 1 /\ q[i] = x)
        /\ \A i \in DOMAIN r : r[i] \in Write =>
              /\ i - Len(s) + 1 \in DOMAIN q /\ i - Len(s) + 1 > 1 /\ r[i] = q[i - Len(s) + 1]
        /\ Len(s) \in Nat /\ DOMAIN r \subseteq Nat
    BY <2>3, <2>4, AheadPushed
  <2>6. Head(q) = q[1] /\ 1 \in DOMAIN q /\ \A i \in DOMAIN q : i > 1 \/ i = 1
    BY <2>4
  <2>7. /\ (\E i \in DOMAIN q : q[i] = "restore") <=> writing # 0
        /\ (\E i \in DOMAIN q : q[i] = "prepare") => writing # 0
        /\ \A i, j \in DOMAIN q : q[i] = q[j] /\ q[i] \in Write => i = j
        /\ \A i, j \in DOMAIN q : q[i] = "restore" /\ q[j] = "prepare" => j < i
    BY <2>2 DEF WriteInv, Ahead
  <2>8. ASSUME NEW i \in DOMAIN r, NEW j \in DOMAIN r
        PROVE  /\ r[i] = r[j] /\ r[i] \in Write => i = j
               /\ r[i] = "restore" /\ r[j] = "prepare" => j < i
    <3>1. i \in Nat /\ j \in Nat /\ Len(s) \in Nat
      BY <2>5
    <3>2. ASSUME r[i] = r[j], r[i] \in Write PROVE i = j
      <4>1. i - Len(s) + 1 = j - Len(s) + 1
        BY <2>5, <2>7, <3>2
      <4> QED
        BY <3>1, <4>1
    <3>3. ASSUME r[i] = "restore", r[j] = "prepare" PROVE j < i
      <4>1. j - Len(s) + 1 < i - Len(s) + 1
        BY <2>5, <2>7, <3>3 DEF Write
      <4> QED
        BY <3>1, <4>1
    <3> QED
      BY <3>2, <3>3
  <2>9. /\ (\E i \in DOMAIN r : r[i] = "restore") <=> writing' # 0
        /\ (\E i \in DOMAIN r : r[i] = "prepare") => writing' # 0
    <3>1. CASE Restore(t)
      <4>1. writing' = 0 /\ q[1] = "restore"
        BY <1>1, <1>3, <2>2, <2>6, <3>1, WriteActions DEF Restore
      <4>2. \A i \in DOMAIN q : i > 1 => q[i] # "restore" /\ q[i] # "prepare"
        <5>1. \A i \in DOMAIN q : i \in Nat
          BY <2>4
        <5> QED
          BY <2>6, <2>7, <4>1, <5>1 DEF Write
      <4> QED
        BY <2>5, <4>1, <4>2 DEF Write
    <3>2. CASE ~Restore(t)
      <4>1. writing' = writing /\ q[1] # "restore"
        BY <1>1, <1>3, <2>2, <2>6, <3>2, WriteActions
      <4> QED
        BY <2>5, <2>6, <2>7, <4>1 DEF Write
    <3> QED
      BY <3>1, <3>2
  <2> QED
    BY <2>4, <2>8, <2>9 DEF WriteInv, Ahead
<1> QED
  BY <1>2, <1>3 DEF Threads

LEMMA WriteOfTakeTask ==
    ASSUME TypeInv, StepsInv, ~early', WriteInv, TakeTask
    PROVE  /\ WriteInv' /\ writing = 0 /\ UNCHANGED <<pipe0, backupPipe0>>
           /\ writing' # 0 => Idle("main") /\ Ahead("prepare")'
           /\ todo'["main"] = todo["main"]
<1>1. /\ Idle("context") /\ todo["context"] = <<>> /\ TodoType /\ UNCHANGED <<pipe0, backupPipe0>>
      /\ todo'["main"] = todo["main"]
  <2>1. todo'["main"] = todo["main"]
    BY TaskTaken DEF StartWrite, TypeInv, TodoType, Threads
  <2> QED
    BY <2>1 DEF TakeTask, Idle, TypeInv, locals, device, modes
<1>2. writing = 0
  BY <1>1 DEF WriteInv, Ahead
<1>3. ASSUME NEW nr \in 1 .. MaxSends, StartWrite(nr)
      PROVE  WriteInv' /\ Idle("main") /\ Ahead("prepare")'
  <2>1. /\ Idle("main") /\ writing' = nr
        /\ todo'["context"] = TransmitPacket("RxMode")
    BY <1>1, <1>3, WriteBegins
  <2>2. PICK q : q = TransmitPacket("RxMode")
    OBVIOUS
  <2>3. /\ DOMAIN q = 1 .. 9
        /\ q[1] = "ToStandbyI" /\ q[2] = "prepare" /\ q[3] = "load" /\ q[4] = "ToTxMode"
        /\ q[5] = "wait" /\ q[6] = "ToStandbyI" /\ q[7] = "evaluate" /\ q[8] = "restore"
        /\ q[9] = "ToRxMode"
    BY <2>2, WriteElements
  <2>4. \A i \in 1 .. 9 : i = 1 \/ i = 2 \/ i = 3 \/ i = 4 \/ i = 5 \/ i = 6 \/ i = 7 \/ i = 8 \/ i = 9
    OBVIOUS
  <2>5. \A i \in 1 .. 9 : /\ q[i] \in Write => i \in {2, 3, 8}
                          /\ q[i] = "restore" => i = 8
                          /\ q[i] = "prepare" => i = 2
                          /\ q[i] = "load" => i = 3
    BY <2>3, <2>4 DEF Write
  <2>6. writing' # 0
    BY <2>1, Bounds
  <2>7. todo'["context"] = q
    BY <2>1, <2>2
  <2>8. Ahead("prepare")' /\ Ahead("restore")'
    <3>1. 2 \in DOMAIN q /\ 8 \in DOMAIN q
      BY <2>3
    <3> QED
      BY <2>3, <2>7, <3>1 DEF Ahead
  <2>9. /\ \A i, j \in DOMAIN q : q[i] = q[j] /\ q[i] \in Write => i = j
        /\ \A i, j \in DOMAIN q : q[i] = "restore" /\ q[j] = "prepare" => j < i
    BY <2>3, <2>5 DEF Write
  <2> QED
    BY <2>1, <2>6, <2>7, <2>8, <2>9 DEF WriteInv
<1>4. CASE todo'["context"] \in {<<"readReceiveData">>, <<>>} /\ writing' = writing
  <2>1. \A i \in DOMAIN todo'["context"] : todo'["context"][i] = "readReceiveData" /\ i = 1
    BY <1>4
  <2>2. ~Ahead("restore")' /\ ~Ahead("prepare")'
    BY <2>1 DEF Ahead
  <2> QED
    BY <1>1, <1>2, <1>4, <2>1, <2>2 DEF WriteInv, Write
<1> QED
  <2>1. \/ \E nr \in 1 .. MaxSends : StartWrite(nr)
        \/ todo'["context"] \in {<<"readReceiveData">>, <<>>} /\ writing' = writing
    BY <1>1, TaskTaken DEF TodoType, Threads
  <2> QED
    BY <1>1, <1>2, <1>3, <1>4, <2>1

LEMMA WriteStep == TypeInv /\ StepsInv /\ ~early' /\ WriteInv /\ [Next]_vars => WriteInv'
<1> SUFFICES ASSUME TypeInv, StepsInv, ~early', WriteInv, [Next]_vars PROVE WriteInv'
  OBVIOUS
<1>1. CASE \/ Send \/ PollWakes \/ OnInterrupt \/ PollEnds \/ (\E valid \in BOOLEAN : Arrive(valid))
           \/ Transmits \/ DataSent \/ RetransmitsExceeded \/ UNCHANGED vars
  <2>1. UNCHANGED <<todo, writing>>
    BY <1>1 DEF Send, PollWakes, OnInterrupt, PollEnds, Arrive, Transmits, DataSent,
       RetransmitsExceeded, vars, history
  <2> QED
    BY <2>1 DEF WriteInv, Ahead
<1> QED
  BY <1>1, WriteOfStep, WriteOfTakeTask DEF Next

-----------------------------------------------------------------------------
(* Pipe 0 has its own address again when a write ends.                     *)
LEMMA PipeOfContextStep ==
    ASSUME TypeInv, StepsInv, StartInv, ~early', WriteInv, PipeInv, Step("context")
    PROVE  PipeInv'
<1> DEFINE t == "context"
<1>1. TodoType /\ todo[t] # <<>> /\ t \in Threads
  BY StepContinues DEF TypeInv, Threads
<1>2. PICK s \in Plain : Continue(t, s)
  BY ContextContinues
<1>3. PICK q \in Seq(Steps) : q = todo[t]
  BY <1>1 DEF TodoType, Steps
<1>4. PICK r : r = s \o Tail(q)
  OBVIOUS
<1>5. todo'[t] = r /\ q # <<>> /\ q \in Seq(Steps) /\ s \in Plain /\ todo'["main"] = todo["main"]
  BY <1>1, <1>2, <1>3, <1>4 DEF Continue, TodoType
<1>6. (\E i \in DOMAIN r : r[i] = "prepare") <=> (\E i \in DOMAIN q : i > 1 /\ q[i] = "prepare")
  <2>1. /\ \A x \in Write : (\E i \in DOMAIN r : r[i] = x) <=> (\E i \in DOMAIN q : i > 1 /\ q[i] = x)
        /\ \A i \in DOMAIN r : r[i] \in Write =>
              /\ i - Len(s) + 1 \in DOMAIN q /\ i - Len(s) + 1 > 1 /\ r[i] = q[i - Len(s) + 1]
        /\ Len(s) \in Nat /\ DOMAIN r \subseteq Nat
    BY <1>4, <1>5, AheadPushed
  <2>2. "prepare" \in Write
    BY DEF Write
  <2> QED
    BY <2>1, <2>2
<1>7. /\ Head(q) = q[1] /\ 1 \in DOMAIN q
      /\ \A i \in DOMAIN q : i \in Nat /\ (i > 1 \/ i = 1)
  BY <1>5
<1>8. /\ Ahead("prepare")' <=> (\E i \in DOMAIN q : i > 1 /\ q[i] = "prepare")
      /\ Ahead("prepare") <=> (\E i \in DOMAIN q : q[i] = "prepare")
      /\ \A i, j \in DOMAIN q : q[i] = "prepare" /\ q[j] = "prepare" => i = j
      /\ \A i, j \in DOMAIN q : q[i] = "restore" /\ q[j] = "prepare" => j < i
      /\ (\E i \in DOMAIN q : q[i] = "restore") <=> writing # 0
      /\ (\E i \in DOMAIN q : q[i] = "prepare") => writing # 0
  BY <1>3, <1>5, <1>6 DEF WriteInv, Ahead, Write
<1>9. Idle("main")' <=> Idle("main")
  BY <1>5 DEF Idle
<1>10. CASE Prepare(t)
  <2>1. q[1] = "prepare" /\ writing' = writing /\ backupPipe0' = pipe0
    BY <1>1, <1>3, <1>7, <1>10, WriteActions DEF Prepare, history
  <2>2. Ahead("prepare") /\ writing # 0 /\ ~Ahead("prepare")'
    BY <1>7, <1>8, <2>1
  <2>3. Idle("main")
    BY <2>2 DEF StartInv
  <2> QED
    BY <2>1, <2>2, <2>3 DEF PipeInv
<1>11. CASE Restore(t)
  <2>1. q[1] = "restore" /\ writing' = 0 /\ pipe0' = backupPipe0
    BY <1>1, <1>3, <1>7, <1>11, WriteActions DEF Restore
  <2>2. ~Ahead("prepare") /\ writing # 0
    <3>1. \A j \in DOMAIN q : q[j] = "prepare" => j < 1
      BY <1>7, <1>8, <2>1
    <3> QED
      BY <1>7, <1>8, <2>1, <3>1
  <2> QED
    BY <2>1, <2>2 DEF PipeInv
<1>12. CASE ~Prepare(t) /\ ~Restore(t)
  <2>1. /\ q[1] # "prepare" /\ q[1] # "restore" /\ writing' = writing
        /\ backupPipe0' = backupPipe0 /\ pipe0' \in {pipe0, "own"}
    <3>1. pipe0' \in {pipe0, "own"}
      BY <1>12 DEF Step, Call, Enter, SetInterruptState, SetCallback, SetMode, Clear, Flush,
         ConfigureDevice, EnablePin, DisablePin, JoinPin, DrainIfSet, ReadReceiveData, Read, ReadEnds,
         Load, TransmitIfLoaded, Wait, Evaluate, modes, device
    <3> QED
      BY <1>1, <1>3, <1>7, <1>12, <3>1, WriteActions
  <2>2. Ahead("prepare")' <=> Ahead("prepare")
    BY <1>7, <1>8, <2>1
  <2> QED
    BY <1>9, <2>1, <2>2 DEF PipeInv
<1> QED
  BY <1>10, <1>11, <1>12

\* The start ends when the pin is enabled.
LEMMA PipeOfMainStep ==
    ASSUME TypeInv, StepsInv, StartInv, Step("main")
    PROVE  PipeInv'
<1>1. ~Idle("main") /\ "main" \in Threads /\ TodoType
  BY StepContinues DEF TypeInv, Idle, Threads
<1>2. todo'["context"] = todo["context"] /\ writing' = 0
  <2>1. writing = 0 /\ writing' = writing
    BY <1>1, WriteActions DEF StartInv
  <2> QED
    BY <1>1, <2>1, StepContinues DEF TypeInv, Continue, TodoType, Threads
<1>3. Idle("main")' => pipe0' = "own"
  <2>1. PICK s \in Plain : Continue("main", s)
    BY <1>1, ThreadGoesOn DEF StepsInv, Driver
  <2> SUFFICES ASSUME Idle("main")' PROVE pipe0' = "own"
    OBVIOUS
  <2>2. HoldsBefore(todo["main"])'
    BY <1>1, ThreadGoesOn DEF StepsInv, Driver
  <2>3. mEnabled'
    <3>1. HoldsCall("end", At(todo["main"], 2))' /\ At(todo["main"], 1)' = "end"
      BY <2>2 DEF HoldsBefore, Holds, At, Idle
    <3> QED
      BY <3>1 DEF HoldsCall, Settled, On
  <2> QED
    BY <1>1, <2>3, MainKeepsPipe
<1> QED
  BY <1>2, <1>3 DEF PipeInv

LEMMA PipeStep ==
    TypeInv /\ StepsInv /\ StartInv /\ ~early' /\ WriteInv /\ PipeInv /\ [Next]_vars => PipeInv'
<1> SUFFICES ASSUME TypeInv, StepsInv, StartInv, ~early', WriteInv, PipeInv, [Next]_vars PROVE PipeInv'
  OBVIOUS
<1>1. CASE \/ Send \/ PollWakes \/ OnInterrupt \/ PollEnds \/ (\E valid \in BOOLEAN : Arrive(valid))
           \/ Transmits \/ DataSent \/ RetransmitsExceeded \/ UNCHANGED vars
  <2>1. UNCHANGED <<todo, writing, pipe0, backupPipe0>>
    BY <1>1 DEF Send, PollWakes, OnInterrupt, PollEnds, Arrive, Transmits, DataSent,
       RetransmitsExceeded, vars, locals, device, modes, history
  <2> QED
    BY <2>1 DEF PipeInv, Ahead, Idle
<1>2. CASE TakeTask
  <2>1. /\ writing = 0 /\ UNCHANGED <<pipe0, backupPipe0>>
        /\ writing' # 0 => Idle("main") /\ Ahead("prepare")'
        /\ todo'["main"] = todo["main"]
    BY <1>2, WriteOfTakeTask
  <2> QED
    BY <2>1 DEF PipeInv, Idle
<1> QED
  BY <1>1, <1>2, PipeOfMainStep, PipeOfContextStep DEF Next, Threads

-----------------------------------------------------------------------------
(* The start: configureDevice in PowerDown, then startListening.           *)
LEMMA FirstSteps ==
    LET q == Configure("PowerDown") \o StartListening
    IN  /\ DOMAIN q = 1 .. 4 /\ q[1] = "ToPowerDown" /\ q[2] = "ToPowerDown"
        /\ q[3] = "setCallback" /\ q[4] = "ToRxMode"
<1> DEFINE s == <<"ToPowerDown">>
           r == <<"setCallback", "ToRxMode">>
<1>1. Configure("PowerDown") = s \o s /\ StartListening = r
  <2>1. ApplyTo["PowerDown"] = s
    BY DEF ApplyTo
  <2> QED
    BY <2>1 DEF Configure, StartListening
<1>2. /\ s \in Seq(Steps) /\ Len(s) = 1 /\ s[1] = "ToPowerDown"
      /\ r \in Seq(Steps) /\ Len(r) = 2 /\ r[1] = "setCallback" /\ r[2] = "ToRxMode"
  BY DEF Steps, Other
<1> HIDE DEF s, r
<1>3. PICK p \in Seq(Steps) : p = s \o s /\ Len(p) = 2 /\ p[1] = "ToPowerDown" /\ p[2] = "ToPowerDown"
  <2>1. /\ s \o s \in Seq(Steps) /\ Len(s \o s) = Len(s) + Len(s)
        /\ \A i \in 1 .. Len(s) + Len(s) : (s \o s)[i] = IF i <= Len(s) THEN s[i] ELSE s[i - Len(s)]
    BY <1>2, ConcatProperties
  <2>2. Len(s) = 1 /\ Len(s) + Len(s) = 2 /\ 2 - Len(s) = 1
    BY <1>2
  <2>3. (s \o s)[1] = s[1] /\ (s \o s)[2] = s[1] /\ Len(s \o s) = 2
    BY <2>1, <2>2
  <2> QED
    BY <1>2, <2>1, <2>3
<1>4. PICK q \in Seq(Steps) :
          /\ q = p \o r /\ Len(q) = 4 /\ q[1] = "ToPowerDown" /\ q[2] = "ToPowerDown"
          /\ q[3] = "setCallback" /\ q[4] = "ToRxMode"
  <2>1. /\ p \o r \in Seq(Steps) /\ Len(p \o r) = Len(p) + Len(r)
        /\ \A i \in 1 .. Len(p) + Len(r) : (p \o r)[i] = IF i <= Len(p) THEN p[i] ELSE r[i - Len(p)]
    BY <1>2, <1>3, ConcatProperties
  <2>2. Len(p) = 2 /\ Len(p) + Len(r) = 4 /\ 3 - Len(p) = 1 /\ 4 - Len(p) = 2
    BY <1>2, <1>3
  <2>3. /\ (p \o r)[1] = p[1] /\ (p \o r)[2] = p[2] /\ (p \o r)[3] = r[1] /\ (p \o r)[4] = r[2]
        /\ Len(p \o r) = 4
    BY <2>1, <2>2
  <2> QED
    BY <1>2, <1>3, <2>1, <2>3
<1>5. DOMAIN q = 1 .. 4
  BY <1>4
<1> QED
  BY <1>1, <1>3, <1>4, <1>5

LEMMA ListenInit == Init => StepsInv /\ StartInv /\ WriteInv /\ PipeInv
<1> SUFFICES ASSUME Init PROVE StepsInv /\ StartInv /\ WriteInv /\ PipeInv
  OBVIOUS
<1>1. PICK q : q = todo["main"]
  OBVIOUS
<1>2. /\ DOMAIN q = 1 .. 4 /\ q[1] = "ToPowerDown" /\ q[2] = "ToPowerDown"
      /\ q[3] = "setCallback" /\ q[4] = "ToRxMode"
  BY <1>1, FirstSteps DEF Init
<1>3. todo["context"] = <<>> /\ ~Idle("main") /\ Driver = "main"
  <2>1. q # <<>>
    BY <1>2
  <2> QED
    BY <1>1, <2>1 DEF Init, Idle, Driver
<1>4. /\ At(q, 1) = "ToPowerDown" /\ At(q, 2) = "ToPowerDown" /\ At(q, 3) = "setCallback"
      /\ At(q, 4) = "ToRxMode" /\ At(q, 5) = "end" /\ At(q, 6) = "end"
  BY <1>2 DEF At
<1>5. Linked("main", q)
  <2>1. /\ \A i \in 1 .. 4 : i = 1 \/ i = 2 \/ i = 3 \/ i = 4
        /\ 1 + 1 = 2 /\ 2 + 1 = 3 /\ 3 + 1 = 4 /\ 4 + 1 = 5
        /\ 1 + 2 = 3 /\ 2 + 2 = 4 /\ 3 + 2 = 5 /\ 4 + 2 = 6
    OBVIOUS
  <2>2. \A i \in 1 .. 4 : /\ Follows("main", q[i], At(q, i + 1)) /\ q[i] # "clear"
                          /\ Continues(q[i], At(q, i + 1), At(q, i + 2))
    BY <1>2, <1>4, <2>1 DEF Follows, FollowsCall, FollowsMode, FollowsRead, FollowsWrite, Continues
  <2> QED
    BY <1>2, <2>2 DEF Linked
<1>6. HoldsBefore(q)
  BY <1>4 DEF Init, HoldsBefore, Holds, HoldsCall, HoldsMode, HoldsRead, HoldsWrite
<1>7. StepsInv
  BY <1>1, <1>3, <1>5, <1>6, ReadSteps DEF StepsInv, OnlyReads, Threads
<1>8. StartInv
  BY DEF Init, StartInv
<1>9. WriteInv /\ PipeInv
  BY <1>3 DEF Init, WriteInv, PipeInv, Ahead
<1> QED
  BY <1>7, <1>8, <1>9

(* Whatever steps the two threads had taken, when the context is done the  *)
(* device listens at its own addresses and its interrupts are let through: *)
(* neither a write that failed nor a reboot in the middle of a transition  *)
(* (readReceiveData in RxMode::ToStandbyI) leaves it deaf, for every limit *)
(* of empty reads; except for good after a write, that is a forwarded      *)
(* packet, or a reboot that began between chipEnable and the declaration   *)
(* of RxMode in startListening (StandbyI::ToRxMode).                       *)
THEOREM AlwaysListensWhenIdle == Spec => []IdleListens
<1> DEFINE Undisturbed == StepsInv /\ StartInv /\ WriteInv /\ PipeInv
           Inv == TypeInv /\ (early \/ Undisturbed)
<1>1. Init => Inv
  BY TypeInit, ListenInit
<1>2. Inv /\ [Next]_vars => Inv'
  <2> SUFFICES ASSUME Inv, [Next]_vars, ~early' PROVE Undisturbed'
    BY TypeStep
  <2>1. TypeInv /\ Undisturbed
    BY EarlyStays
  <2> QED
    BY <2>1, StepsStep, StartStep, WriteStep, PipeStep
<1>3. Inv => IdleListens
  <2> SUFFICES ASSUME Undisturbed, Idle("main"), Idle("context") PROVE
          /\ mCurrentState = "RxMode" /\ Receiving /\ pipe0 = "own"
          /\ mInterruptState = "Rx" /\ mEnabled
    BY DEF IdleListens, Started
  <2>1. HoldsBefore(<<>>) /\ At(<<>>, 1) = "end"
    BY DEF StepsInv, Driver, At, Idle
  <2>2. Settled
    BY <2>1 DEF HoldsBefore, Holds, HoldsCall
  <2>3. pipe0 = "own"
    BY DEF PipeInv, WriteInv, Ahead, Idle
  <2> QED
    BY <2>2, <2>3 DEF Settled, On
<1> QED
  BY <1>1, <1>2, <1>3, PTL DEF Spec
(***************************************************************************)
(* The device during a write that was not disturbed by a reboot.           *)
(***************************************************************************)
RebootSteps ==
    {"ToPowerDown", "PowerDown", "powerDown", "disablePin", "joinPin", "flush",
     "configureDevice", "enablePin", "powerUp", "ToRxMode", "RxMode"}

\* A write leaves the device on, and listens again only when it is done.
NoReboot ==
    LET q == todo["context"]
    IN  writing # 0 =>
            \A i \in DOMAIN q : q[i] \in RebootSteps => \E j \in DOMAIN q : j < i /\ q[j] = "restore"

\* From the loading of the packet to the evaluation of the status.
Loaded(l, n) ==
    \/ l \in {"ToTxMode", "transmitIfLoaded", "clearIfSet", "Tx"}
    \/ l = "transmitMode" /\ n = "chipEnable"
    \/ l = "chipEnable" /\ n = "TxMode"
Sending(l, n) ==
    \/ l \in {"TxMode", "wait", "evaluate"}
    \/ l \in {"ToStandbyI", "StandbyI"} /\ n = "evaluate"
    \/ l = "chipDisable" /\ n = "StandbyI"

Quiet == ~chipEnable /\ mode = "transmit"
Empty == txFifo = <<>> /\ ~onAir

SendingHolds ==
    /\ mode = "transmit"
    /\ flags \subseteq {"dataSent", "retransmitsExceeded"}
    /\ Empty \/ txFifo = <<writing>>
    /\ "dataSent" \in flags => Empty /\ writing \in acknowledged

HoldsWhileSending(l, n) ==
    /\ Loaded(l, n) => /\ Quiet /\ txFifo = <<writing>> /\ ~onAir
                       /\ l \in {"Tx", "transmitMode", "chipEnable"} => flags = {}
    /\ Sending(l, n) => /\ SendingHolds
                        /\ l \notin {"TxMode", "wait"} => timedOut \/ flags # {}
    /\ ~Loaded(l, n) /\ ~Sending(l, n) /\ l # "flushTransmitFifo" => Empty
    /\ l = "transmitMode" /\ n = "Ignore" => ~chipEnable
    /\ l \in {"prepare", "load"} => Quiet
    /\ l \in {"Ignore", "drainIfSet", "readReceiveData", "read", "clear", "StandbyI"}
           /\ n # "evaluate" /\ writing # 0 => Quiet

SentInv ==
    /\ SuccessMeansSent
    /\ ~rebooted => /\ NoReboot
                    /\ HoldsWhileSending(At(todo["context"], 1), At(todo["context"], 2))
-----------------------------------------------------------------------------
(* A write that no reboot disturbs.  What a pair of steps stands for. *)
sending == <<chipEnable, mode, txFifo, onAir, flags, acknowledged, writing, timedOut>>

LEMMA SendingStays ==
    ASSUME UNCHANGED sending
    PROVE  \A x, y : HoldsWhileSending(x, y)' <=> HoldsWhileSending(x, y)
  BY DEF sending, HoldsWhileSending, SendingHolds, Quiet, Empty, PinHigh

\* Steps that need no more than that nothing is sent.
Bare(x, y) ==
    \/ x \in {"end", "ToPowerDown", "ToRxMode", "PowerDown", "RxMode", "Rx", "receiveMode", "powerUp",
              "powerDown", "disablePin", "joinPin", "flush", "configureDevice", "enablePin",
              "setCallback", "restore"}
    \/ x = "chipDisable" /\ y = "transmitMode"
    \/ x = "chipEnable" /\ y = "RxMode"
    \/ x = "ToStandbyI" /\ y = "prepare"

Reading(x, y) ==
    x \in {"Ignore", "drainIfSet", "readReceiveData", "read", "clear", "StandbyI"} /\ y # "evaluate"

LEMMA BareHolds ==
    /\ \A x, y : Bare(x, y) => (HoldsWhileSending(x, y) <=> Empty)
    /\ \A x, y : Bare(x, y) => (HoldsWhileSending(x, y)' <=> Empty')
  BY DEF Bare, HoldsWhileSending, Loaded, Sending

LEMMA ReadingHolds ==
    /\ \A x, y : Reading(x, y) =>
          (HoldsWhileSending(x, y) <=> Empty /\ (writing # 0 => Quiet))
    /\ \A x, y : Reading(x, y) =>
          (HoldsWhileSending(x, y)' <=> Empty' /\ (writing' # 0 => Quiet'))
  BY DEF Reading, HoldsWhileSending, Loaded, Sending

\* Before a step of the context.
BeforeInWrite(l, n, m) ==
    /\ Before("context", l, n, m)
    /\ HoldsWhileSending(l, n)
    /\ writing # 0 => l \notin RebootSteps
    /\ n = "prepare" => writing # 0

GoesOnInWrite(n, m) ==
    \E s \in Plain : /\ Continue("context", s)
                     /\ HoldsWhileSending(First(s, n), Second(s, n, m))'
                     /\ writing' # 0 => \A i \in 1 .. Len(s) : s[i] \notin RebootSteps

LEMMA DoneInWrite ==
    ASSUME NEW n, NEW m, Continue("context", <<>>), HoldsWhileSending(n, m)'
    PROVE  GoesOnInWrite(n, m)
<1>1. First(<<>>, n) = n /\ Second(<<>>, n, m) = m /\ <<>> \in Plain
  BY FirstTwo, PlainSteps
<1>2. \A i \in 1 .. Len(<<>>) : <<>>[i] \notin RebootSteps
  OBVIOUS
<1>3. HoldsWhileSending(First(<<>>, n), Second(<<>>, n, m))'
  BY <1>1
<1> QED
  BY <1>1, <1>2, <1>3 DEF GoesOnInWrite

LEMMA NoRebootSteps ==
    /\ \A i \in 1 .. Len(StopListen) : StopListen[i] \notin RebootSteps
    /\ \A i \in 1 .. Len(Transmit) : Transmit[i] \notin RebootSteps
    /\ \A i \in 1 .. Len(StopTransmit) : StopTransmit[i] \notin RebootSteps
<1>1. /\ \A i \in 1 .. 5 : i = 1 \/ i = 2 \/ i = 3 \/ i = 4 \/ i = 5
      /\ \A i \in 1 .. 2 : i = 1 \/ i = 2
  OBVIOUS
<1> QED
  BY <1>1, Elements DEF RebootSteps

\* Calls.
LEMMA CallInWrite ==
    ASSUME TypeOK, NEW l, NEW n, NEW m, BeforeInWrite(l, n, m), Call("context")
    PROVE  GoesOnInWrite(n, m)
<1> DEFINE t == "context"
<1> USE FirstTwo DEF BeforeInWrite, Before
<1>1. /\ l = Head(todo[t]) /\ l \in {"ToPowerDown", "ToStandbyI", "ToRxMode", "ToTxMode"}
      /\ Continue(t, Transition[mCurrentState][l]) /\ UNCHANGED sending
  BY DEF Call, Transition, Reached, controller, locals, pin, device, modes, fifos, history, sending
<1>2. \A x, y : HoldsWhileSending(x, y)' <=> HoldsWhileSending(x, y)
  BY <1>1, SendingStays
<1>3. CASE l = "ToPowerDown" \/ l = "ToRxMode"
  <2>1. writing = 0 /\ writing' = 0 /\ Empty
    <3>1. writing = 0 /\ Bare(l, n)
      BY <1>3 DEF RebootSteps, Bare
    <3> QED
      BY <1>1, <3>1, BareHolds DEF sending
  <2>2. PICK s \in Plain : /\ Continue(t, s)
                           /\ \/ Bare(First(s, n), Second(s, n, m))
                              \/ Reading(First(s, n), Second(s, n, m))
    <3>1. CASE l = "ToPowerDown"
      <4>1. n = "ToRxMode" /\ mCurrentState \in {"RxMode", "StandbyI"}
        BY <3>1 DEF Follows, FollowsCall, Holds, HoldsCall
      <4>2. CASE mCurrentState = "RxMode"
        <5>1. Transition[mCurrentState][l] = StopListen \o <<"ToPowerDown">>
          BY <3>1, <4>2 DEF Transition
        <5>2. StopListen \o <<"ToPowerDown">> \in Plain
          BY PlainSteps, PlainCalls, PlainConcat
        <5>3. Bare("chipDisable", "transmitMode")
          BY DEF Bare
        <5> QED
          BY <1>1, <5>1, <5>2, <5>3
      <4>3. CASE mCurrentState = "StandbyI"
        <5>1. Transition[mCurrentState][l] = Shutdown
          BY <3>1, <4>3 DEF Transition
        <5>2. Bare("powerDown", "disablePin")
          BY DEF Bare
        <5> QED
          BY <1>1, <5>1, <5>2, PlainSteps
      <4> QED
        BY <4>1, <4>2, <4>3
    <3>2. CASE l = "ToRxMode"
      <4>1. mCurrentState \in {"PowerDown", "StandbyI"}
        BY <3>2 DEF Holds, HoldsCall
      <4>2. CASE mCurrentState = "PowerDown"
        <5>1. Transition[mCurrentState][l] = Boot \o <<"ToRxMode">>
          BY <3>2, <4>2 DEF Transition
        <5>2. Boot \o <<"ToRxMode">> \in Plain
          BY PlainSteps, PlainCalls, PlainConcat
        <5>3. Bare("flush", "configureDevice")
          BY DEF Bare
        <5> QED
          BY <1>1, <5>1, <5>2, <5>3
      <4>3. CASE mCurrentState = "StandbyI"
        <5>1. Transition[mCurrentState][l] = Listen
          BY <3>2, <4>3 DEF Transition
        <5>2. Reading("clear", "Rx")
          BY DEF Reading
        <5> QED
          BY <1>1, <5>1, <5>2, PlainSteps
      <4> QED
        BY <4>1, <4>2, <4>3
    <3> QED
      BY <1>3, <3>1, <3>2
  <2>3. PICK x, y : x = First(s, n) /\ y = Second(s, n, m)
    OBVIOUS
  <2>4. HoldsWhileSending(x, y)
    BY <2>1, <2>2, <2>3, BareHolds, ReadingHolds
  <2> QED
    BY <1>2, <2>1, <2>2, <2>3, <2>4 DEF GoesOnInWrite
<1>4. CASE l = "ToStandbyI"
  <2>1. \/ n = "prepare" /\ mCurrentState = "RxMode"
        \/ n = "evaluate" /\ mCurrentState \in {"StandbyI", "TxMode"}
    BY <1>4 DEF Follows, FollowsCall, Holds, HoldsCall
  <2>2. CASE n = "prepare" /\ mCurrentState = "RxMode"
    <3>1. Transition[mCurrentState][l] = StopListen
      BY <1>4, <2>2 DEF Transition
    <3>2. Bare(l, n) /\ Bare("chipDisable", "transmitMode")
      BY <1>4, <2>2 DEF Bare
    <3>3. HoldsWhileSending("chipDisable", "transmitMode")
      BY <3>2, BareHolds
    <3> QED
      BY <1>1, <1>2, <3>1, <3>3, PlainSteps, NoRebootSteps DEF GoesOnInWrite
  <2>3. CASE n = "evaluate" /\ mCurrentState = "StandbyI"
    <3>1. Continue(t, <<>>)
      BY <1>1, <1>4, <2>3 DEF Transition
    <3>2. HoldsWhileSending(n, m)
      BY <1>4, <2>3 DEF HoldsWhileSending, Loaded, Sending
    <3> QED
      BY <1>2, <3>1, <3>2, DoneInWrite
  <2>4. CASE n = "evaluate" /\ mCurrentState = "TxMode"
    <3>1. Transition[mCurrentState][l] = StopTransmit
      BY <1>4, <2>4 DEF Transition
    <3>2. HoldsWhileSending("chipDisable", "StandbyI")
      BY <1>4, <2>4 DEF HoldsWhileSending, Loaded, Sending
    <3> QED
      BY <1>1, <1>2, <3>1, <3>2, PlainSteps, NoRebootSteps DEF GoesOnInWrite
  <2> QED
    BY <2>1, <2>2, <2>3, <2>4
<1>5. CASE l = "ToTxMode"
  <2>1. mCurrentState = "StandbyI"
    BY <1>5 DEF Holds, HoldsWrite
  <2> DEFINE s == <<"transmitIfLoaded">>
  <2>2. Continue(t, s) /\ s \in Plain
    BY <1>1, <1>5, <2>1, PlainCalls DEF Transition
  <2>3. First(s, n) = "transmitIfLoaded" /\ Second(s, n, m) = n
    BY DEF First, Second, Joint
  <2>4. \A i \in 1 .. Len(s) : s[i] \notin RebootSteps
    BY DEF RebootSteps
  <2> HIDE DEF s
  <2>5. HoldsWhileSending("transmitIfLoaded", n)
    BY <1>5 DEF HoldsWhileSending, Loaded, Sending
  <2> QED
    BY <1>2, <2>2, <2>3, <2>4, <2>5 DEF GoesOnInWrite
<1> QED
  BY <1>1, <1>3, <1>4, <1>5

LEMMA EnterInWrite ==
    ASSUME NEW l, NEW n, NEW m, BeforeInWrite(l, n, m),
           Enter("context") \/ SetInterruptState("context") \/ SetCallback("context")
    PROVE  GoesOnInWrite(n, m)
<1> DEFINE t == "context"
<1> USE DEF BeforeInWrite, Before
<1>1. /\ l = Head(todo[t]) /\ Continue(t, <<>>) /\ UNCHANGED sending
      /\ l \in {"PowerDown", "StandbyI", "RxMode", "TxMode", "Ignore", "Rx", "Tx", "setCallback"}
  BY DEF Enter, States, SetInterruptState, SetCallback, Reached, locals, pin, device, modes, fifos,
     history, sending
<1>2. \A x, y : HoldsWhileSending(x, y)' <=> HoldsWhileSending(x, y)
  BY <1>1, SendingStays
<1> SUFFICES HoldsWhileSending(n, m)
  BY <1>1, <1>2, DoneInWrite
<1>3. CASE l \in {"PowerDown", "RxMode", "Rx", "setCallback"}
  <2>1. Empty /\ (l \in {"PowerDown", "RxMode"} => writing = 0)
    <3>1. Bare(l, n) /\ (l \in {"PowerDown", "RxMode"} => l \in RebootSteps)
      BY <1>3 DEF Bare, RebootSteps
    <3> QED
      BY <3>1, BareHolds
  <2>2. Bare(n, m) \/ (Reading(n, m) /\ writing = 0)
    <3>1. \/ n \in {"ToRxMode", "end", "receiveMode"}
          \/ n = "clear" /\ m = "StandbyI" /\ l = "RxMode"
      BY <1>3 DEF Follows, FollowsCall, FollowsMode, FollowsWrite
    <3> QED
      BY <2>1, <3>1 DEF Bare, Reading
  <2> QED
    BY <2>1, <2>2, BareHolds, ReadingHolds
<1>4. CASE l = "StandbyI" /\ n # "evaluate"
  <2>1. Empty /\ (writing # 0 => Quiet)
    BY <1>4, ReadingHolds DEF Reading
  <2>2. n \in {"prepare", "ToPowerDown", "ToRxMode"}
    BY <1>4 DEF Follows, FollowsCall
  <2>3. CASE n = "prepare"
    BY <2>1, <2>3 DEF HoldsWhileSending, Loaded, Sending
  <2>4. CASE n # "prepare"
    <3>1. Bare(n, m)
      BY <2>2, <2>4 DEF Bare
    <3> QED
      BY <2>1, <3>1, BareHolds
  <2> QED
    BY <2>3, <2>4
<1>5. CASE l = "StandbyI" /\ n = "evaluate"
  BY <1>5 DEF HoldsWhileSending, Loaded, Sending
<1>6. CASE l = "TxMode"
  <2>1. n = "wait"
    BY <1>6 DEF Follows, FollowsCall
  <2> QED
    BY <1>6, <2>1 DEF HoldsWhileSending, Loaded, Sending
<1>7. CASE l = "Ignore"
  <2>1. n = "drainIfSet" /\ m = "StandbyI"
    BY <1>7 DEF Follows, FollowsMode, FollowsRead
  <2>2. Reading(l, n) /\ Reading(n, m)
    BY <1>7, <2>1 DEF Reading
  <2> QED
    BY <2>2, ReadingHolds
<1>8. CASE l = "Tx"
  <2>1. n = "transmitMode" /\ m = "chipEnable"
    BY <1>8 DEF Follows, FollowsMode, Continues
  <2> QED
    BY <1>8, <2>1 DEF HoldsWhileSending, Loaded, Sending
<1> QED
  BY <1>1, <1>3, <1>4, <1>5, <1>6, <1>7, <1>8

LEMMA ModeInWrite ==
    ASSUME NEW l, NEW n, NEW m, BeforeInWrite(l, n, m), SetMode("context")
    PROVE  GoesOnInWrite(n, m)
<1> DEFINE t == "context"
<1> USE DEF BeforeInWrite, Before
<1>1. /\ l = Head(todo[t]) /\ Continue(t, <<>>)
      /\ l \in {"powerUp", "powerDown", "chipEnable", "chipDisable", "receiveMode", "transmitMode"}
      /\ chipEnable' = IF l \in {"chipEnable", "chipDisable"} THEN l = "chipEnable" ELSE chipEnable
      /\ mode' = CASE l = "receiveMode" -> "receive"
                   [] l = "transmitMode" -> "transmit"
                   [] OTHER -> mode
      /\ onAir' = (onAir /\ l # "powerDown")
      /\ UNCHANGED <<txFifo, flags, acknowledged, writing, timedOut>>
  BY DEF SetMode, Reached, locals, history
<1> SUFFICES HoldsWhileSending(n, m)'
  BY <1>1, DoneInWrite
<1>e. Empty => Empty'
  BY <1>1 DEF Empty
<1>2. CASE l \in {"powerUp", "powerDown"}
  <2>1. Empty' /\ writing' = 0
    <3>1. Bare(l, n) /\ l \in RebootSteps
      BY <1>2 DEF Bare, RebootSteps
    <3> QED
      BY <1>1, <1>e, <3>1, BareHolds
  <2>2. Bare(n, m) \/ Reading(n, m)
    <3>1. n = "disablePin" \/ (n = "StandbyI" /\ m = "ToRxMode")
      BY <1>2 DEF Follows, FollowsMode, Continues
    <3> QED
      BY <3>1 DEF Bare, Reading
  <2> QED
    BY <2>1, <2>2, BareHolds, ReadingHolds
<1>3. CASE l = "chipEnable"
  <2>0. chipEnable' /\ UNCHANGED mode /\ (onAir' <=> onAir)
    BY <1>1, <1>3
  <2>1. CASE n = "RxMode"
    <3>1. Bare(l, n) /\ Bare(n, m)
      BY <1>3, <2>1 DEF Bare
    <3> QED
      BY <1>e, <3>1, BareHolds
  <2>2. CASE n = "TxMode"
    <3>1. Quiet /\ txFifo = <<writing>> /\ ~onAir /\ flags = {}
      BY <1>3, <2>2 DEF HoldsWhileSending, Loaded
    <3>2. SendingHolds'
      BY <1>1, <2>0, <3>1 DEF SendingHolds, Quiet
    <3> QED
      BY <2>2, <3>2 DEF HoldsWhileSending, Loaded, Sending
  <2> QED
    BY <1>3, <2>1, <2>2 DEF Follows, FollowsMode
<1>4. CASE l = "chipDisable"
  <2>0. ~chipEnable' /\ UNCHANGED mode /\ (onAir' <=> onAir)
    BY <1>1, <1>4
  <2>1. CASE n = "transmitMode"
    <3>1. m = "Ignore" /\ Empty
      <4>1. Bare(l, n)
        BY <1>4, <2>1 DEF Bare
      <4> QED
        BY <1>4, <2>1, <4>1, BareHolds DEF Continues
    <3> QED
      BY <1>e, <2>0, <2>1, <3>1 DEF HoldsWhileSending, Loaded, Sending
  <2>2. CASE n = "StandbyI"
    <3>1. m = "evaluate"
      BY <1>4, <2>2 DEF Continues
    <3>2. SendingHolds /\ (timedOut \/ flags # {})
      BY <1>4, <2>2 DEF HoldsWhileSending, Sending
    <3>3. SendingHolds' /\ (timedOut \/ flags # {})'
      BY <1>1, <2>0, <3>2 DEF SendingHolds, Empty
    <3> QED
      BY <2>2, <3>1, <3>3 DEF HoldsWhileSending, Loaded, Sending
  <2> QED
    BY <1>4, <2>1, <2>2 DEF Follows, FollowsMode
<1>5. CASE l = "receiveMode"
  <2>1. Bare(l, n) /\ Bare(n, m)
    BY <1>5 DEF Bare, Follows, FollowsMode, Continues
  <2> QED
    BY <1>e, <2>1, BareHolds
<1>6. CASE l = "transmitMode"
  <2>0. mode' = "transmit" /\ UNCHANGED chipEnable /\ (onAir' <=> onAir)
    BY <1>1, <1>6
  <2>1. CASE n = "Ignore"
    <3>1. Empty /\ ~chipEnable
      BY <1>6, <2>1 DEF HoldsWhileSending, Loaded, Sending
    <3>2. Reading(n, m)
      BY <1>6, <2>1 DEF Reading, Follows, FollowsMode
    <3> QED
      BY <1>e, <2>0, <3>1, <3>2, ReadingHolds DEF Quiet
  <2>2. CASE n = "chipEnable"
    <3>1. m = "TxMode"
      BY <1>6, <2>2 DEF Continues
    <3>2. Quiet /\ txFifo = <<writing>> /\ ~onAir /\ flags = {}
      BY <1>6, <2>2 DEF HoldsWhileSending, Loaded
    <3>3. Quiet' /\ txFifo' = <<writing'>> /\ ~onAir' /\ flags' = {}
      BY <1>1, <2>0, <3>2 DEF Quiet
    <3> QED
      BY <2>2, <3>1, <3>3 DEF HoldsWhileSending, Loaded, Sending
  <2> QED
    BY <1>6, <2>1, <2>2 DEF Follows, FollowsMode
<1> QED
  BY <1>1, <1>2, <1>3, <1>4, <1>5, <1>6

LEMMA DeviceInWrite ==
    ASSUME NEW l, NEW n, NEW m, BeforeInWrite(l, n, m), TypeInv,
           \/ Clear("context") \/ Flush("context") \/ ConfigureDevice("context")
           \/ EnablePin("context") \/ JoinPin("context") \/ Prepare("context")
    PROVE  GoesOnInWrite(n, m)
<1> DEFINE t == "context"
<1> USE DEF BeforeInWrite, Before
<1>0. l = Head(todo[t])
  BY DEF Reached
<1>1. CASE ConfigureDevice(t) \/ EnablePin(t) \/ JoinPin(t)
  <2>1. l \in {"configureDevice", "enablePin", "joinPin"} /\ UNCHANGED sending
    BY <1>0, <1>1 DEF ConfigureDevice, EnablePin, JoinPin, Reached, locals, device, modes, fifos,
       history, sending
  <2>2. Continue(t, <<>>)
    <3>1. EnablePin(t) => ~mEnabled
      BY <1>0 DEF EnablePin, Reached, Holds, HoldsMode
    <3> QED
      BY <1>1, <3>1 DEF ConfigureDevice, EnablePin, JoinPin
  <2>3. Bare(l, n) /\ Bare(n, m)
    BY <2>1 DEF Bare, Follows, FollowsMode
  <2>4. HoldsWhileSending(n, m)'
    BY <2>1, <2>3, SendingStays, BareHolds
  <2> QED
    BY <2>2, <2>4, DoneInWrite
<1>2. CASE Prepare(t)
  <2>1. l = "prepare" /\ n = "load" /\ Continue(t, <<>>) /\ UNCHANGED sending
    BY <1>0, <1>2 DEF Prepare, Reached, Follows, FollowsWrite, fifos, history, sending
  <2>2. HoldsWhileSending(n, m)
    BY <2>1 DEF HoldsWhileSending, Loaded, Sending
  <2> QED
    BY <2>1, <2>2, SendingStays, DoneInWrite
<1>3. CASE Clear(t)
  <2>1. /\ l \in {"clear", "clearIfSet"} /\ Continue(t, <<>>) /\ flags' = {}
        /\ UNCHANGED <<chipEnable, mode, txFifo, onAir, acknowledged, writing, timedOut>>
    BY <1>0, <1>3 DEF Clear, Reached, locals, modes, history
  <2>2. CASE l = "clear"
    <3>1. n \in {"read", "Rx", "StandbyI"} /\ (n = "StandbyI" => m # "evaluate")
      BY <2>2 DEF Follows, FollowsRead, Continues
    <3>2. n = "read" => m \in {"end", "clear"}
      BY DEF Follows, FollowsRead
    <3>3. Reading(l, n) /\ (Bare(n, m) \/ Reading(n, m))
      BY <2>2, <3>1, <3>2 DEF Reading, Bare
    <3>4. Empty' /\ (writing' # 0 => Quiet')
      BY <2>1, <3>3, ReadingHolds DEF Empty, Quiet
    <3> QED
      BY <2>1, <3>3, <3>4, BareHolds, ReadingHolds, DoneInWrite
  <2>3. CASE l = "clearIfSet"
    <3>1. n = "Tx"
      BY <2>3 DEF Follows, FollowsWrite
    <3>2. Quiet /\ txFifo = <<writing>> /\ ~onAir
      BY <2>3 DEF HoldsWhileSending, Loaded
    <3>3. HoldsWhileSending(n, m)'
      BY <2>1, <3>1, <3>2 DEF HoldsWhileSending, Loaded, Sending, Quiet
    <3> QED
      BY <2>1, <3>3, DoneInWrite
  <2> QED
    BY <2>1, <2>2, <2>3
<1>4. CASE Flush(t)
  <2>1. l \in {"flush", "flushTransmitFifo"} /\ Continue(t, <<>>) /\ Empty'
    BY <1>0, <1>4 DEF Flush, Reached, Empty
  <2>2. Bare(n, m)
    BY <2>1 DEF Bare, Follows, FollowsMode, FollowsWrite
  <2> QED
    BY <2>1, <2>2, BareHolds, DoneInWrite
<1> QED
  BY <1>1, <1>2, <1>3, <1>4

LEMMA PayloadInWrite ==
    ASSUME NEW l, NEW n, NEW m, BeforeInWrite(l, n, m), TypeInv,
           Load("context") \/ Wait("context") \/ Restore("context")
    PROVE  GoesOnInWrite(n, m)
<1> DEFINE t == "context"
<1> USE DEF BeforeInWrite, Before
<1>0. l = Head(todo[t])
  BY DEF Reached
<1>1. CASE Load(t)
  <2>1. /\ l = "load" /\ n = "ToTxMode" /\ Continue(t, <<>>)
        /\ txFifo' = IF Len(txFifo) < 3 THEN Append(txFifo, writing) ELSE txFifo
        /\ UNCHANGED <<chipEnable, mode, onAir, flags, acknowledged, writing>>
    BY <1>0, <1>1 DEF Load, Reached, Follows, FollowsWrite, modes, history
  <2>2. Quiet /\ Empty
    BY <2>1 DEF HoldsWhileSending, Loaded, Sending
  <2>3. txFifo' = <<writing>>
    <3>1. Len(<<>>) < 3 /\ Append(<<>>, writing) = <<writing>>
      OBVIOUS
    <3> QED
      BY <2>1, <2>2, <3>1 DEF Empty
  <2>4. HoldsWhileSending(n, m)'
    BY <2>1, <2>2, <2>3 DEF HoldsWhileSending, Loaded, Sending, Quiet, Empty
  <2> QED
    BY <2>1, <2>4, DoneInWrite
<1>2. CASE Wait(t)
  <2>1. /\ l = "wait" /\ n = "ToStandbyI" /\ m = "evaluate" /\ Continue(t, <<>>)
        /\ timedOut' = (flags = {})
        /\ UNCHANGED <<chipEnable, mode, txFifo, onAir, flags, acknowledged, writing>>
    BY <1>0, <1>2 DEF Wait, PinHigh, Reached, Follows, FollowsWrite, Continues, device, modes, fifos,
       history
  <2>2. SendingHolds'
    BY <2>1 DEF HoldsWhileSending, Sending, SendingHolds, Empty
  <2>3. HoldsWhileSending(n, m)'
    BY <2>1, <2>2 DEF HoldsWhileSending, Loaded, Sending
  <2> QED
    BY <2>1, <2>3, DoneInWrite
<1>3. CASE Restore(t)
  <2>1. /\ l = "restore" /\ n = "ToRxMode" /\ Continue(t, <<>>)
        /\ UNCHANGED <<txFifo, onAir>>
    BY <1>0, <1>3 DEF Restore, Reached, Follows, FollowsWrite, fifos
  <2>2. Bare(l, n) /\ Bare(n, m)
    BY <2>1 DEF Bare
  <2>3. Empty'
    BY <2>1, <2>2, BareHolds DEF Empty
  <2> QED
    BY <2>1, <2>2, <2>3, BareHolds, DoneInWrite
<1> QED
  BY <1>1, <1>2, <1>3

\* Reading.
LEMMA ReadInWrite ==
    ASSUME TypeInv, NEW l, NEW n, NEW m, BeforeInWrite(l, n, m), ~rebooted',
           DrainIfSet("context") \/ ReadReceiveData("context") \/ Read("context") \/ ReadEnds("context")
    PROVE  GoesOnInWrite(n, m)
<1> DEFINE t == "context"
<1> USE DEF BeforeInWrite, Before
<1>1. l = Head(todo[t]) /\ UNCHANGED sending /\ l \in {"drainIfSet", "readReceiveData", "read"}
  BY DEF DrainIfSet, ReadReceiveData, Read, ReadEnds, Reached, locals, device, modes, fifos, history,
     sending
<1>2. \A x, y : HoldsWhileSending(x, y)' <=> HoldsWhileSending(x, y)
  BY <1>1, SendingStays
<1>3. /\ l = "drainIfSet" => n = "StandbyI" /\ m # "evaluate"
      /\ l \in {"readReceiveData", "read"} => n \in {"end", "clear"} /\ (n = "clear" => m = "StandbyI")
  BY DEF Follows, FollowsRead, Continues
<1>4. Empty /\ (writing # 0 => Quiet)
  <2>1. Reading(l, n)
    BY <1>1, <1>3 DEF Reading
  <2> QED
    BY <2>1, ReadingHolds
<1>5. \A x, y : Bare(x, y) \/ Reading(x, y) => HoldsWhileSending(x, y)'
  BY <1>2, <1>4, BareHolds, ReadingHolds
<1>6. Bare(n, m) \/ Reading(n, m)
  BY <1>1, <1>3 DEF Bare, Reading
<1>7. CASE Continue(t, <<>>)
  BY <1>5, <1>6, <1>7, DoneInWrite
<1>8. CASE Continue(t, <<"readReceiveData", "clear">>)
  <2> DEFINE s == <<"readReceiveData", "clear">>
  <2>1. s \in Plain /\ Continue(t, s) /\ First(s, n) = "readReceiveData" /\ Second(s, n, m) = "clear"
    BY <1>8, PlainCalls DEF First, Second, Joint
  <2>2. \A i \in 1 .. Len(s) : s[i] \notin RebootSteps
    BY DEF RebootSteps
  <2>3. Reading("readReceiveData", "clear")
    BY DEF Reading
  <2> HIDE DEF s
  <2> QED
    BY <1>5, <2>1, <2>2, <2>3 DEF GoesOnInWrite
<1>9. CASE Continue(t, <<"read">>)
  <2> DEFINE s == <<"read">>
  <2>1. s \in Plain /\ Continue(t, s) /\ First(s, n) = "read" /\ Second(s, n, m) = n
    BY <1>9, PlainCalls DEF First, Second, Joint
  <2>2. \A i \in 1 .. Len(s) : s[i] \notin RebootSteps
    BY DEF RebootSteps
  <2>3. Reading("read", n)
    BY <1>1, <1>3 DEF Reading
  <2> HIDE DEF s
  <2> QED
    BY <1>5, <2>1, <2>2, <2>3 DEF GoesOnInWrite
<1>10. CASE Continue(t, <<"clear", "read">>)
  <2> DEFINE s == <<"clear", "read">>
  <2>1. s \in Plain /\ Continue(t, s) /\ First(s, n) = "clear" /\ Second(s, n, m) = "read"
    BY <1>10, PlainCalls DEF First, Second, Joint
  <2>2. \A i \in 1 .. Len(s) : s[i] \notin RebootSteps
    BY DEF RebootSteps
  <2>3. Reading("clear", "read")
    BY DEF Reading
  <2> HIDE DEF s
  <2> QED
    BY <1>5, <2>1, <2>2, <2>3 DEF GoesOnInWrite
<1>11. CASE ReadEnds(t) /\ Continue(t, Reboot(mCurrentState)) /\ (rebooted' = (rebooted \/ writing # 0))
  <2>1. writing = 0 /\ writing' = 0
    BY <1>1, <1>11 DEF sending
  <2> DEFINE s == Reboot(mCurrentState)
  <2>2. mCurrentState = "RxMode"
    BY <1>11 DEF ReadEnds, Reached, Holds, HoldsRead
  <2>3. s = <<"ToPowerDown", "ToRxMode">>
    <3>1. ApplyTo["RxMode"] = <<"ToRxMode">>
      BY DEF ApplyTo
    <3> QED
      BY <2>2, <3>1, PairOfSteps DEF Reboot
  <2>4. First(s, n) = "ToPowerDown" /\ Second(s, n, m) = "ToRxMode"
    BY <2>3 DEF First, Second, Joint
  <2>5. s \in Plain
    BY <2>2, PlainReboot DEF States
  <2>6. Bare("ToPowerDown", "ToRxMode")
    BY DEF Bare
  <2>7. Continue(t, s)
    BY <1>11
  <2> HIDE DEF s
  <2> QED
    BY <1>5, <2>1, <2>4, <2>5, <2>6, <2>7 DEF GoesOnInWrite
<1> QED
  BY <1>7, <1>8, <1>9, <1>10, <1>11 DEF DrainIfSet, ReadReceiveData, Read, ReadEnds

LEMMA OthersInWrite ==
    ASSUME TypeInv, NEW l, NEW n, NEW m, BeforeInWrite(l, n, m),
           DisablePin("context") \/ TransmitIfLoaded("context")
    PROVE  GoesOnInWrite(n, m)
<1> DEFINE t == "context"
<1> USE DEF BeforeInWrite, Before
<1>1. /\ l = Head(todo[t]) /\ UNCHANGED sending /\ l \in {"disablePin", "transmitIfLoaded"}
  BY DEF DisablePin, TransmitIfLoaded, Reached, locals, device, modes, fifos, history, sending
<1>2. \A x, y : HoldsWhileSending(x, y)' <=> HoldsWhileSending(x, y)
  BY <1>1, SendingStays
<1>3. CASE DisablePin(t)
  <2>1. l = "disablePin" /\ n = "PowerDown" /\ writing' = 0
    BY <1>1, <1>3 DEF DisablePin, Reached, Follows, FollowsMode, RebootSteps, sending
  <2>2. Bare(l, n) /\ Bare(n, m) /\ Bare("joinPin", n)
    BY <2>1 DEF Bare
  <2>3. HoldsWhileSending(n, m)' /\ HoldsWhileSending("joinPin", n)'
    BY <1>2, <2>2, BareHolds
  <2>4. CASE Continue(t, <<>>)
    BY <2>3, <2>4, DoneInWrite
  <2>5. CASE Continue(t, <<"joinPin">>)
    <3> DEFINE s == <<"joinPin">>
    <3>1. s \in Plain /\ Continue(t, s) /\ First(s, n) = "joinPin" /\ Second(s, n, m) = n
      BY <2>5, PlainCalls DEF First, Second, Joint
    <3> HIDE DEF s
    <3> QED
      BY <2>1, <2>3, <3>1 DEF GoesOnInWrite
  <2> QED
    BY <1>3, <2>4, <2>5 DEF DisablePin
<1>4. CASE TransmitIfLoaded(t)
  <2>1. l = "transmitIfLoaded" /\ n = "wait"
    BY <1>1, <1>4 DEF TransmitIfLoaded, Reached, Follows, FollowsWrite
  <2>2. Quiet /\ txFifo = <<writing>> /\ ~onAir
    BY <2>1 DEF HoldsWhileSending, Loaded
  <2>3. Continue(t, Transmit)
    <3>1. <<writing>> # <<>>
      OBVIOUS
    <3> QED
      BY <1>4, <2>2, <3>1 DEF TransmitIfLoaded
  <2>4. HoldsWhileSending("clearIfSet", "Tx")'
    <3>1. HoldsWhileSending("clearIfSet", "Tx")
      BY <2>2 DEF HoldsWhileSending, Loaded, Sending
    <3> QED
      BY <1>2, <3>1
  <2> QED
    BY <2>3, <2>4, FirstTwo, PlainSteps, NoRebootSteps DEF GoesOnInWrite
<1> QED
  BY <1>3, <1>4

LEMMA EvaluateInWrite ==
    ASSUME TypeInv, NEW l, NEW n, NEW m, BeforeInWrite(l, n, m), Evaluate("context")
    PROVE  GoesOnInWrite(n, m) /\ SuccessMeansSent'
<1> DEFINE t == "context"
<1> USE DEF BeforeInWrite, Before
<1>1. /\ l = "evaluate" /\ n = "restore"
      /\ UNCHANGED <<chipEnable, mode, txFifo, onAir, acknowledged, writing, timedOut>>
  BY DEF Evaluate, Reached, Follows, FollowsWrite, locals, modes
<1>2. SendingHolds /\ (timedOut \/ flags # {})
  BY <1>1 DEF HoldsWhileSending, Sending
<1>3. CASE timedOut \/ "retransmitsExceeded" \in flags
  <2> DEFINE s == <<"flushTransmitFifo">>
  <2>1. s \in Plain /\ Continue(t, s) /\ First(s, n) = "flushTransmitFifo" /\ Second(s, n, m) = n
    BY <1>3, PlainCalls DEF Evaluate, First, Second, Joint
  <2>2. \A i \in 1 .. Len(s) : s[i] \notin RebootSteps
    BY DEF RebootSteps
  <2>3. HoldsWhileSending("flushTransmitFifo", n)'
    BY DEF HoldsWhileSending, Loaded, Sending
  <2>4. SuccessMeansSent'
    BY <1>3 DEF Evaluate, SuccessMeansSent
  <2> HIDE DEF s
  <2> QED
    BY <2>1, <2>2, <2>3, <2>4 DEF GoesOnInWrite
<1>4. CASE ~(timedOut \/ "retransmitsExceeded" \in flags)
  <2>1. Empty /\ writing \in acknowledged
    BY <1>2, <1>4 DEF SendingHolds
  <2>2. Continue(t, <<>>) /\ lastWrite'.nr = writing
    BY <1>4 DEF Evaluate
  <2>3. Bare(n, m) /\ Empty'
    BY <1>1, <2>1 DEF Bare, Empty
  <2>4. SuccessMeansSent'
    BY <1>1, <2>1, <2>2 DEF SuccessMeansSent
  <2> QED
    BY <2>2, <2>3, <2>4, BareHolds, DoneInWrite
<1> QED
  BY <1>3, <1>4

\* The result of a write is set by its evaluation only.
LEMMA SuccessStays ==
    ASSUME SuccessMeansSent, [Next]_vars, ~Evaluate("main"), ~Evaluate("context")
    PROVE  SuccessMeansSent'
<1>1. ASSUME NEW t \in Threads, Step(t)
      PROVE  lastWrite' = lastWrite /\ acknowledged' = acknowledged /\ (rebooted => rebooted')
  <2>1. ~Evaluate(t)
    BY <1>1 DEF Threads
  <2>2. CASE ReadEnds(t)
    <3>1. lastWrite' = lastWrite /\ acknowledged' = acknowledged
      BY <2>2 DEF ReadEnds
    <3>2. rebooted' = rebooted \/ rebooted' = (rebooted \/ writing # 0)
      BY <2>2, Zenon DEF ReadEnds
    <3>3. rebooted => rebooted'
      BY <3>2, Zenon
    <3> QED
      BY <3>1, <3>3
  <2>3. CASE ~ReadEnds(t)
    BY <1>1, <2>1, <2>3 DEF Step, Call, Enter, SetInterruptState, SetCallback, SetMode, Clear,
       Flush, ConfigureDevice, EnablePin, DisablePin, JoinPin, DrainIfSet, ReadReceiveData, Read,
       Prepare, Load, TransmitIfLoaded, Wait, Restore, history
  <2> QED
    BY <2>2, <2>3
<1>2. ASSUME \/ TakeTask \/ Send \/ PollWakes \/ OnInterrupt \/ PollEnds
             \/ (\E valid \in BOOLEAN : Arrive(valid)) \/ Transmits \/ RetransmitsExceeded
             \/ UNCHANGED vars
      PROVE  lastWrite' = lastWrite /\ acknowledged' = acknowledged /\ rebooted' = rebooted
  BY <1>2 DEF TakeTask, Send, PollWakes, OnInterrupt, PollEnds, Arrive, Transmits,
     RetransmitsExceeded, vars, history
<1>3. ASSUME DataSent
      PROVE  /\ lastWrite' = lastWrite /\ acknowledged \subseteq acknowledged'
             /\ rebooted => rebooted'
  BY <1>3 DEF DataSent
<1>4. /\ lastWrite' = lastWrite /\ acknowledged \subseteq acknowledged'
      /\ rebooted => rebooted'
  <2>1. CASE Next
    BY <1>1, <1>2, <1>3, <2>1 DEF Next
  <2>2. CASE UNCHANGED vars
    BY <1>2, <2>2
  <2> QED
    BY <2>1, <2>2
<1> QED
  BY <1>4, EarlyStays DEF SuccessMeansSent

LEMMA StepInWrite ==
    ASSUME TypeInv, NEW l, NEW n, NEW m, BeforeInWrite(l, n, m), Step("context"), ~rebooted'
    PROVE  GoesOnInWrite(n, m)
<1>1. TypeOK
  BY DEF TypeInv
<1> QED
  BY <1>1, CallInWrite, EnterInWrite, ModeInWrite, DeviceInWrite, PayloadInWrite, ReadInWrite,
     OthersInWrite, EvaluateInWrite DEF Step

LEMMA RebootedStays ==
    ASSUME [Next]_vars, ~rebooted' PROVE ~rebooted
<1>1. ASSUME NEW t \in Threads, Step(t) PROVE ~rebooted
  <2>1. CASE ReadEnds(t)
    <3>1. rebooted' = rebooted \/ rebooted' = (rebooted \/ writing # 0)
      BY <2>1, Zenon DEF ReadEnds
    <3> QED
      BY <3>1, Zenon
  <2>2. CASE ~ReadEnds(t)
    BY <1>1, <2>2 DEF Step, Call, Enter, SetInterruptState, SetCallback, SetMode, Clear,
       Flush, ConfigureDevice, EnablePin, DisablePin, JoinPin, DrainIfSet, ReadReceiveData, Read,
       Prepare, Load, TransmitIfLoaded, Wait, Evaluate, Restore, history
  <2> QED
    BY <2>1, <2>2
<1>2. CASE \/ TakeTask \/ Send \/ PollWakes \/ OnInterrupt \/ PollEnds
           \/ (\E valid \in BOOLEAN : Arrive(valid)) \/ Transmits \/ DataSent \/ RetransmitsExceeded
           \/ UNCHANGED vars
  BY <1>2 DEF TakeTask, Send, PollWakes, OnInterrupt, PollEnds, Arrive, Transmits, DataSent,
     RetransmitsExceeded, vars, history
<1> QED
  BY <1>1, <1>2 DEF Next

\* A step of a write takes the context to where it holds again.
LEMMA SentOfContextStep ==
    ASSUME TypeInv, StepsInv, WriteInv, SentInv, Step("context"), Idle("main")
    PROVE  SentInv'
<1> DEFINE t == "context"
<1>0. t \in Threads /\ [Next]_vars
  BY DEF Threads, Next
<1>1. TodoType /\ TypeOK /\ todo[t] # <<>> /\ ~Evaluate("main")
  BY <1>0, StepContinues DEF TypeInv, Evaluate, Reached, Idle
<1>2. CASE rebooted'
  BY <1>2 DEF SentInv, SuccessMeansSent
<1>3. CASE ~rebooted'
  <2>1. PICK q \in Seq(Steps) : q = todo[t]
    BY <1>0, <1>1 DEF TodoType, Steps
  <2>2. PICK l, n, m : l = At(q, 1) /\ n = At(q, 2) /\ m = At(q, 3)
    OBVIOUS
  <2>3. NoReboot /\ HoldsWhileSending(l, n)
    BY <1>0, <1>3, <2>1, <2>2, RebootedStays DEF SentInv
  <2>4. q # <<>> /\ 1 \in DOMAIN q /\ Head(q) = q[1] /\ l = q[1] /\ DOMAIN q = 1 .. Len(q) /\ Len(q) \in Nat
    BY <1>1, <2>1, <2>2 DEF At
  <2>5. BeforeInWrite(l, n, m)
    <3>1. Before(t, l, n, m)
      BY <1>0, <1>1, <2>1, <2>2, BeforeFirst DEF StepsInv, Driver
    <3>2. writing # 0 => l \notin RebootSteps
      <4>1. \A j \in DOMAIN q : ~(j < 1)
        BY <2>4
      <4> QED
        BY <2>1, <2>3, <2>4, <4>1 DEF NoReboot
    <3>3. n = "prepare" => writing # 0
      BY <2>1, <2>2 DEF WriteInv, Ahead, At
    <3> QED
      BY <2>3, <3>1, <3>2, <3>3 DEF BeforeInWrite
  <2>6. PICK s \in Plain : /\ Continue(t, s)
                           /\ HoldsWhileSending(First(s, n), Second(s, n, m))'
                           /\ writing' # 0 => \A i \in 1 .. Len(s) : s[i] \notin RebootSteps
    BY <1>3, <2>5, StepInWrite DEF GoesOnInWrite
  <2>7. s \in Seq(Steps) /\ q \in Seq(Steps) /\ Len(s) \in Nat
    BY <2>6 DEF Plain, Steps
  <2>8. PICK r : r = s \o Tail(q)
    OBVIOUS
  <2>9. todo'[t] = r
    BY <1>0, <1>1, <2>1, <2>6, <2>8 DEF Continue, TodoType
  <2>10. HoldsWhileSending(At(todo[t], 1), At(todo[t], 2))'
    <3>1. At(r, 1) = First(s, n) /\ At(r, 2) = Second(s, n, m)
      BY <2>2, <2>4, <2>7, <2>8, FirstOfPushed
    <3>2. PICK x, y : x = At(r, 1) /\ y = At(r, 2)
      OBVIOUS
    <3>3. HoldsWhileSending(x, y)'
      BY <2>6, <3>1, <3>2
    <3> QED
      BY <2>9, <3>2, <3>3
  <2>11. NoReboot'
    <3> SUFFICES ASSUME writing' # 0, NEW i \in DOMAIN r, r[i] \in RebootSteps
                 PROVE  \E j \in DOMAIN r : j < i /\ r[j] = "restore"
      BY <2>9 DEF NoReboot
    <3>1. /\ DOMAIN r = 1 .. Len(s) + Len(q) - 1
          /\ \A k \in 1 .. Len(s) : r[k] = s[k]
          /\ \A k \in 1 .. Len(s) + Len(q) - 1 :
                k > Len(s) => k - Len(s) + 1 \in 2 .. Len(q) /\ r[k] = q[k - Len(s) + 1]
      BY <2>4, <2>7, <2>8, Pushed
    <3>2. i > Len(s)
      <4>1. i \in 1 .. Len(s) \/ i > Len(s)
        BY <2>4, <2>7, <3>1
      <4>2. i \notin 1 .. Len(s)
        BY <2>6, <3>1
      <4> QED
        BY <4>1, <4>2
    <3>3. PICK k : k = i - Len(s) + 1
      OBVIOUS
    <3>4. k \in 2 .. Len(q) /\ q[k] \in RebootSteps
      BY <3>1, <3>2, <3>3
    <3>5. writing # 0 /\ q[1] # "restore"
      BY <1>0, <2>1, <2>4, WriteActions DEF Restore
    <3>6. PICK j \in DOMAIN q : j < k /\ q[j] = "restore"
      <4>1. k \in DOMAIN q
        BY <2>4, <3>4
      <4> QED
        BY <2>1, <2>3, <3>4, <3>5, <4>1 DEF NoReboot
    <3>7. j \in 2 .. Len(q)
      BY <2>4, <3>5, <3>6
    <3>8. PICK p : p = j + Len(s) - 1
      OBVIOUS
    <3>9. p \in 1 .. Len(s) + Len(q) - 1 /\ p > Len(s) /\ p - Len(s) + 1 = j /\ p < i
      BY <2>4, <2>7, <3>1, <3>3, <3>6, <3>7, <3>8
    <3> QED
      BY <3>1, <3>6, <3>9
  <2>12. SuccessMeansSent'
    <3>1. CASE Evaluate(t)
      BY <2>5, <3>1, EvaluateInWrite
    <3>2. CASE ~Evaluate(t)
      BY <1>0, <1>1, <3>2, SuccessStays DEF SentInv
    <3> QED
      BY <3>1, <3>2
  <2> QED
    BY <2>10, <2>11, <2>12 DEF SentInv
<1> QED
  BY <1>2, <1>3

\* While main starts the device nothing is sent.
LEMMA SentReads ==
    TypeInv /\ OnlyReads /\ writing = 0 /\ txFifo = <<>> /\ SuccessMeansSent => SentInv
<1> SUFFICES ASSUME TypeInv, OnlyReads, writing = 0, txFifo = <<>>, SuccessMeansSent PROVE SentInv
  OBVIOUS
<1>1. Empty
  BY DEF TypeInv, OnAirIsLoaded, Empty
<1>2. PICK x, y : x = At(todo["context"], 1) /\ y = At(todo["context"], 2)
  OBVIOUS
<1>3. Bare(x, y) \/ Reading(x, y)
  <2>1. \/ x = "end"
        \/ x \in {"readReceiveData", "read"} /\ y = "end"
        \/ x = "clear" /\ y = "read"
    BY <1>2 DEF OnlyReads, At
  <2> QED
    BY <2>1 DEF Bare, Reading
<1>4. HoldsWhileSending(x, y)
  BY <1>1, <1>3, BareHolds, ReadingHolds
<1> QED
  BY <1>2, <1>4 DEF SentInv, NoReboot

LEMMA SentReadsNext ==
    (TypeInv /\ OnlyReads /\ writing = 0 /\ txFifo = <<>> /\ SuccessMeansSent => SentInv)'
  BY SentReads, PTL

LEMMA NoWriteWhileStarting ==
    ASSUME TypeInv, StepsInv, ~Idle("main")
    PROVE  ~Evaluate("main") /\ ~Load("main") /\ ~Restore("main") /\ ~Evaluate("context")
<1> DEFINE t == "main"
<1>0. t \in Threads /\ "context" \in Threads
  BY DEF Threads
<1>1. TodoType /\ todo[t] # <<>> /\ Driver = t
  BY <1>0 DEF TypeInv, Idle, Driver
<1>2. PICK l, n, m : Before(t, l, n, m) /\ n = At(todo[t], 2)
  BY <1>0, <1>1, BeforeFirst DEF StepsInv
<1>3. l = Head(todo[t]) /\ l \notin Write /\ n \notin Write
  <2>1. Head(todo[t]) = todo[t][1] /\ 1 \in DOMAIN todo[t]
    BY <1>0, <1>1 DEF TodoType
  <2>2. l \notin Write
    BY <1>2, <2>1 DEF TypeInv, LoadIsInWrite, Before, Reached
  <2>3. n \notin Write
    <3>1. "end" \notin Write
      BY DEF Write
    <3> QED
      BY <1>2, <3>1 DEF TypeInv, LoadIsInWrite, At
  <2> QED
    BY <1>2, <2>2, <2>3 DEF Before, Reached
<1>4. ~Evaluate(t) /\ ~Load(t) /\ ~Restore(t) /\ ~Evaluate("context")
  <2>1. l = "evaluate" => n = "restore"
    BY <1>2 DEF Before, Follows, FollowsWrite
  <2>2. ~Evaluate(t) /\ ~Load(t) /\ ~Restore(t)
    BY <1>3, <2>1 DEF Evaluate, Load, Restore, Reached, Write
  <2>3. ~Evaluate("context")
    <3>1. Head(todo["context"]) # "evaluate" \/ todo["context"] = <<>>
      BY <1>1, ReadStepEquations DEF StepsInv, OnlyReads
    <3> QED
      BY <3>1 DEF Evaluate, Reached
  <2> QED
    BY <2>2, <2>3
<1> QED
  BY <1>4

LEMMA SentOfMainStep ==
    ASSUME TypeInv, StepsInv, StartInv, SentInv, TypeInv', Step("main")
    PROVE  SentInv'
<1> DEFINE t == "main"
<1>0. t \in Threads /\ "context" \in Threads /\ [Next]_vars
  BY DEF Threads, Next
<1>1. TodoType /\ todo[t] # <<>> /\ ~Idle(t)
  BY <1>0, StepContinues DEF TypeInv, Idle
<1>4. ~Evaluate(t) /\ ~Load(t) /\ ~Restore(t) /\ ~Evaluate("context")
  BY <1>1, NoWriteWhileStarting
<1>5. writing' = 0 /\ txFifo' = <<>>
  <2>1. writing' = writing /\ txFifo' \in {txFifo, <<>>}
    BY <1>4 DEF Step, Call, Enter, SetInterruptState, SetCallback, SetMode, Clear, Flush,
       ConfigureDevice, EnablePin, DisablePin, JoinPin, DrainIfSet, ReadReceiveData, Read, ReadEnds,
       Prepare, TransmitIfLoaded, Wait, fifos, device, history
  <2> QED
    BY <1>1, <2>1 DEF StartInv
<1>6. OnlyReads'
  <2>1. todo'["context"] = todo["context"]
    BY <1>0, <1>1, StepContinues DEF TypeInv, Continue, TodoType
  <2> QED
    BY <1>1, <2>1 DEF StepsInv, OnlyReads
<1>7. SuccessMeansSent'
  BY <1>0, <1>4, SuccessStays DEF SentInv
<1> QED
  BY <1>5, <1>6, <1>7, SentReadsNext

\* A device that sends does not change what holds before the context's step.
LEMMA DeviceKeepsSending ==
    ASSUME NEW x, NEW y, HoldsWhileSending(x, y),
           (\E valid \in BOOLEAN : Arrive(valid)) \/ Transmits \/ DataSent \/ RetransmitsExceeded
    PROVE  HoldsWhileSending(x, y)'
<1>1. CASE \E valid \in BOOLEAN : Arrive(valid)
  <2>1. /\ mode = "receive" /\ chipEnable
        /\ UNCHANGED <<chipEnable, mode, txFifo, onAir, writing>>
    BY <1>1 DEF Arrive, Receiving, modes
  <2>2. ~Quiet /\ ~SendingHolds
    BY <2>1 DEF Quiet, SendingHolds
  <2> QED
    BY <2>1, <2>2 DEF HoldsWhileSending, Quiet, Empty
<1>2. CASE Transmits
  <2>1. /\ chipEnable /\ txFifo # <<>> /\ ~onAir
        /\ UNCHANGED <<chipEnable, mode, txFifo, flags, acknowledged, writing, timedOut>>
    BY <1>2 DEF Transmits, locals, modes, history
  <2>2. ~Quiet /\ ~Empty
    BY <2>1 DEF Quiet, Empty
  <2>3. SendingHolds => SendingHolds'
    BY <2>1, <2>2 DEF SendingHolds
  <2> QED
    BY <2>1, <2>2, <2>3 DEF HoldsWhileSending, Quiet
<1>3. CASE DataSent
  <2>1. /\ onAir /\ ~onAir' /\ txFifo' = Tail(txFifo) /\ flags' = flags \cup {"dataSent"}
        /\ acknowledged' = acknowledged \cup {Head(txFifo)}
        /\ UNCHANGED <<chipEnable, mode, writing, timedOut>>
    BY <1>3 DEF DataSent, Raise, locals, modes
  <2>2. ~Empty
    BY <2>1 DEF Empty
  <2>3. SendingHolds => SendingHolds'
    <3> SUFFICES ASSUME SendingHolds PROVE SendingHolds'
      OBVIOUS
    <3>1. txFifo = <<writing>>
      BY <2>2 DEF SendingHolds
    <3>2. txFifo' = <<>> /\ writing \in acknowledged'
      BY <2>1, <3>1
    <3> QED
      BY <2>1, <3>2 DEF SendingHolds, Empty
  <2>4. flags' # {}
    BY <2>1
  <2> QED
    BY <2>1, <2>2, <2>3, <2>4 DEF HoldsWhileSending, Quiet
<1>4. CASE RetransmitsExceeded
  <2>1. /\ onAir /\ ~onAir' /\ flags' = flags \cup {"retransmitsExceeded"}
        /\ UNCHANGED <<chipEnable, mode, txFifo, acknowledged, writing, timedOut>>
    BY <1>4 DEF RetransmitsExceeded, Raise, locals, modes, history
  <2>2. ~Empty
    BY <2>1 DEF Empty
  <2>3. SendingHolds => SendingHolds'
    BY <2>1, <2>2 DEF SendingHolds
  <2>4. flags' # {}
    BY <2>1
  <2> QED
    BY <2>1, <2>2, <2>3, <2>4 DEF HoldsWhileSending, Quiet
<1> QED
  BY <1>1, <1>2, <1>3, <1>4

LEMMA SentOfOthers ==
    ASSUME SentInv,
           \/ Send \/ PollWakes \/ OnInterrupt \/ PollEnds \/ (\E valid \in BOOLEAN : Arrive(valid))
           \/ Transmits \/ DataSent \/ RetransmitsExceeded \/ UNCHANGED vars
    PROVE  SentInv'
<1>1. UNCHANGED todo /\ UNCHANGED <<rebooted, early, writing>>
  BY DEF Send, PollWakes, OnInterrupt, PollEnds, Arrive, Transmits, DataSent, RetransmitsExceeded, vars,
     history
<1>2. SuccessMeansSent'
  <2>1. lastWrite' = lastWrite /\ acknowledged \subseteq acknowledged'
    <3>1. CASE DataSent
      BY <3>1 DEF DataSent
    <3>2. CASE ~DataSent
      BY <3>2 DEF Send, PollWakes, OnInterrupt, PollEnds, Arrive, Transmits, RetransmitsExceeded, vars,
         history
    <3> QED
      BY <3>1, <3>2
  <2> QED
    BY <1>1, <2>1 DEF SentInv, SuccessMeansSent
<1>3. PICK x, y : x = At(todo["context"], 1) /\ y = At(todo["context"], 2)
  OBVIOUS
<1>4. HoldsWhileSending(x, y) => HoldsWhileSending(x, y)'
  <2>1. CASE Send \/ PollWakes \/ OnInterrupt \/ PollEnds \/ UNCHANGED vars
    <3>1. UNCHANGED sending
      BY <2>1 DEF Send, PollWakes, OnInterrupt, PollEnds, vars, locals, device, modes, fifos, history,
         sending
    <3> QED
      BY <3>1, SendingStays
  <2> QED
    BY <2>1, DeviceKeepsSending
<1>5. (NoReboot => NoReboot') /\ (rebooted' <=> rebooted)
  BY <1>1 DEF NoReboot
<1>6. HoldsWhileSending(x, y)' => HoldsWhileSending(At(todo["context"], 1), At(todo["context"], 2))'
  BY <1>1, <1>3
<1> QED
  BY <1>2, <1>3, <1>4, <1>5, <1>6 DEF SentInv

LEMMA SentOfTakeTask ==
    ASSUME TypeInv, StepsInv, ~early, ~early', WriteInv, SentInv, TakeTask
    PROVE  SentInv'
<1>0. TodoType /\ "context" \in Threads /\ Idle("context") /\ todo["context"] = <<>> /\ writing = 0
  BY WriteOfTakeTask DEF TypeInv, Threads, TakeTask, Idle
<1>1. /\ rebooted' = rebooted /\ lastWrite' = lastWrite /\ acknowledged' = acknowledged
      /\ UNCHANGED <<txFifo, onAir>>
  BY DEF TakeTask, device, fifos
<1>2. SuccessMeansSent'
  BY <1>1 DEF SentInv, SuccessMeansSent
<1> SUFFICES ASSUME ~rebooted PROVE NoReboot' /\ HoldsWhileSending(At(todo["context"], 1), At(todo["context"], 2))'
  BY <1>1, <1>2 DEF SentInv
<1>3. Empty'
  <2>1. At(todo["context"], 1) = "end"
    BY <1>0 DEF At
  <2>2. PICK y : y = At(todo["context"], 2)
    OBVIOUS
  <2>3. HoldsWhileSending("end", y) /\ Bare("end", y)
    BY <2>1, <2>2 DEF SentInv, Bare
  <2>4. Empty
    BY <2>3, BareHolds
  <2> QED
    BY <1>1, <2>4 DEF Empty
<1>4. PICK q, x, y : q = todo'["context"] /\ x = At(q, 1) /\ y = At(q, 2)
  OBVIOUS
<1> SUFFICES NoReboot' /\ HoldsWhileSending(x, y)'
  BY <1>4
<1>5. CASE \E nr \in 1 .. MaxSends : StartWrite(nr)
  <2>1. q = TransmitPacket("RxMode")
    BY <1>0, <1>4, <1>5, WriteBegins
  <2>2. /\ DOMAIN q = 1 .. 9
        /\ q[1] = "ToStandbyI" /\ q[2] = "prepare" /\ q[3] = "load" /\ q[4] = "ToTxMode"
        /\ q[5] = "wait" /\ q[6] = "ToStandbyI" /\ q[7] = "evaluate" /\ q[8] = "restore"
        /\ q[9] = "ToRxMode"
    BY <2>1, WriteElements
  <2>3. Bare(x, y)
    BY <1>4, <2>2 DEF Bare, At
  <2>4. \A i \in DOMAIN q : q[i] \in RebootSteps => i = 9
    <3>1. \A i \in 1 .. 9 : i = 1 \/ i = 2 \/ i = 3 \/ i = 4 \/ i = 5 \/ i = 6 \/ i = 7 \/ i = 8 \/ i = 9
      OBVIOUS
    <3> QED
      BY <2>2, <3>1 DEF RebootSteps
  <2>5. NoReboot'
    <3>1. 8 \in DOMAIN q /\ 8 < 9
      BY <2>2
    <3> QED
      BY <1>4, <2>2, <2>4, <3>1 DEF NoReboot
  <2> QED
    BY <1>3, <2>3, <2>5, BareHolds
<1>6. CASE /\ todo' \in {todo, [todo EXCEPT !["context"] = <<"readReceiveData">>]}
           /\ UNCHANGED <<writing, early>>
  <2>1. writing' = 0 /\ q \in {<<"readReceiveData">>, <<>>}
    BY <1>0, <1>4, <1>6 DEF TodoType
  <2>2. Bare(x, y) \/ Reading(x, y)
    <3>1. x = "end" \/ (x = "readReceiveData" /\ y = "end")
      BY <1>4, <2>1 DEF At
    <3> QED
      BY <3>1 DEF Bare, Reading
  <2> QED
    BY <1>3, <2>1, <2>2, BareHolds, ReadingHolds DEF NoReboot
<1> QED
  BY <1>5, <1>6, TaskTaken

LEMMA SentStep ==
    TypeInv /\ StepsInv /\ StartInv /\ ~early' /\ WriteInv /\ SentInv /\ [Next]_vars => SentInv'
<1> SUFFICES ASSUME TypeInv, StepsInv, StartInv, ~early', ~early, WriteInv, SentInv, [Next]_vars
             PROVE  SentInv'
  BY EarlyStays
<1>0. TypeInv' /\ StepsInv' /\ StartInv'
  BY TypeStep, StepsStep, StartStep
<1>1. CASE ~Idle("main") /\ (Step("context") \/ TakeTask)
  <2>1. ~Idle("main")'
    <3>1. todo'["main"] = todo["main"]
      <4>1. CASE TakeTask
        BY <4>1, WriteOfTakeTask
      <4>2. CASE Step("context")
        <5>1. PICK s \in Plain : Continue("context", s)
          BY <4>2, ContextContinues
        <5> QED
          BY <5>1 DEF Continue, TypeInv, TodoType, Threads
      <4> QED
        BY <1>1, <4>1, <4>2
    <3> QED
      BY <1>1, <3>1 DEF Idle
  <2>2. OnlyReads' /\ writing' = 0 /\ txFifo' = <<>>
    BY <1>0, <2>1 DEF StepsInv, StartInv
  <2>3. SuccessMeansSent'
    BY <1>1, NoWriteWhileStarting, SuccessStays DEF SentInv
  <2> QED
    BY <1>0, <2>2, <2>3, SentReadsNext
<1>2. CASE \/ Send \/ PollWakes \/ OnInterrupt \/ PollEnds \/ (\E valid \in BOOLEAN : Arrive(valid))
           \/ Transmits \/ DataSent \/ RetransmitsExceeded \/ UNCHANGED vars
  BY <1>2, SentOfOthers
<1> QED
  BY <1>0, <1>1, <1>2, SentOfMainStep, SentOfContextStep, SentOfTakeTask DEF Next, Threads

\* Init, and the property.
LEMMA SentInit == Init => SentInv
<1> SUFFICES ASSUME Init PROVE SentInv
  OBVIOUS
<1>1. TypeInv
  BY TypeInit
<1>2. OnlyReads /\ writing = 0 /\ txFifo = <<>> /\ SuccessMeansSent
  BY DEF Init, OnlyReads, SuccessMeansSent
<1> QED
  BY <1>1, <1>2, SentReads

(* As long as no reboot fell into a write, and no write or reboot began    *)
(* while main was in startListening, a write returns a size only when the  *)
(* device got the acknowledgement of this very packet (transmitPacket),    *)
(* whatever arrived meanwhile and however often the device tried: the      *)
(* packet is alone in the FIFO of a quiet device before the chip is        *)
(* enabled, and a write that fails or times out empties the FIFO again.    *)
THEOREM SuccessAlwaysMeansSent == Spec => []SuccessMeansSent
<1> DEFINE Undisturbed == StepsInv /\ StartInv /\ WriteInv /\ SentInv
           Inv == TypeInv /\ (early \/ Undisturbed)
<1>1. Init => Inv
  BY TypeInit, ListenInit, SentInit
<1>2. Inv /\ [Next]_vars => Inv'
  <2> SUFFICES ASSUME Inv, [Next]_vars, ~early' PROVE Undisturbed'
    BY TypeStep
  <2>1. TypeInv /\ Undisturbed
    BY EarlyStays
  <2> QED
    BY <2>1, StepsStep, StartStep, WriteStep, SentStep
<1>3. Inv => SuccessMeansSent
  BY DEF SentInv, SuccessMeansSent
<1> QED
  BY <1>1, <1>2, <1>3, PTL DEF Spec
===============================================================================
