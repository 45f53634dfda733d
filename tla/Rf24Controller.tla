---------------------------- MODULE Rf24Controller ----------------------------
(***************************************************************************)
(* Bt::Rf24::Rf24DeviceController: the mode machine of the radio, sending, *)
(* reading and rebooting, with the nRF24 device and the interrupt pin.     *)
(*                                                                         *)
(* Four actors meet.  The execution context runs the tasks; the main       *)
(* thread configures the device and starts listening, and the context may  *)
(* already run the first task before it is done; the thread of the         *)
(* interrupt pin turns edges of the IRQ line into tasks; and the device    *)
(* receives, sends and raises flags whenever its mode lets it.             *)
(*                                                                         *)
(* The controller's methods call each other through the state machine, and *)
(* reading may reboot in the middle of a transition.  So each thread has a *)
(* list of what it still has to do, one access to the device at a time: a  *)
(* call puts the steps of its body in front.                               *)
(***************************************************************************)
EXTENDS Naturals, Sequences

CONSTANTS
    MaxEmpty,       \* 10: more empty reads in a row reboot the device
    MaxSends,       \* bound: writes
    MaxArrivals,    \* bound: packets on the air for this node
    MaxInvalid,     \* bound: those of them that arrive with an invalid length
    MaxTasks        \* bound: the interrupt thread sleeps while so many tasks wait

ASSUME Rf24ControllerAssumption ==
    /\ MaxEmpty \in Nat \ {0}
    /\ {MaxSends, MaxArrivals, MaxInvalid, MaxTasks} \subseteq Nat

VARIABLES
    \* the controller
    mCurrentState, mInterruptState, mEmptyReceiveCounter, mCallback,
    \* the threads that call it
    todo,               \* the steps before each of the two
    receivedAny,        \* readReceiveData's receivedCounter > 0
    timedOut, backupPipe0,      \* transmitPacket's local variables
    tasks,
    \* the interrupt pin
    mEnabled, edge, poll,
    \* the device
    power, chipEnable, mode, pipe0, rxFifo, txFifo, flags, onAir,
    \* what an observer saw
    sends, arrived, invalid, delivered,
    writing,            \* the number of the packet in transmitPacket
    acknowledged,       \* the numbers of the packets the device had acknowledged
    rebooted,           \* a reboot happened in the middle of a write
    early,              \* the context began a write or a reboot while main was starting
    lastWrite           \* the last packet written and the result

controller == <<mCurrentState, mInterruptState, mEmptyReceiveCounter, mCallback>>
locals == <<receivedAny, timedOut, backupPipe0>>
pin == <<mEnabled, edge, poll>>
modes == <<power, chipEnable, mode, pipe0>>
fifos == <<rxFifo, txFifo, flags, onAir>>
device == <<modes, fifos>>
history == <<sends, arrived, invalid, delivered, writing, acknowledged, rebooted, early,
             lastWrite>>
vars == <<controller, todo, locals, tasks, pin, device, history>>

Threads == {"context", "main"}
States == {"PowerDown", "StandbyI", "RxMode", "TxMode"}

-----------------------------------------------------------------------------
(* The steps of the transitions. *)

\* ApplyTo: back to the state a method found.
ApplyTo == [PowerDown |-> <<"ToPowerDown">>, StandbyI |-> <<"ToStandbyI">>,
            RxMode |-> <<"ToRxMode">>, TxMode |-> <<"ToTxMode">>]

Boot == <<"flush", "configureDevice", "enablePin", "powerUp", "StandbyI">>
\* Mutant: interrupts are let through when the device already listens.
ListenThenRx == <<"clear", "receiveMode", "chipEnable", "Rx", "RxMode">>

Listen == <<"clear", "Rx", "receiveMode", "chipEnable", "RxMode">>
StopListen == <<"chipDisable", "transmitMode", "Ignore", "drainIfSet", "StandbyI">>
Transmit == <<"clearIfSet", "Tx", "transmitMode", "chipEnable", "TxMode">>
StopTransmit == <<"chipDisable", "StandbyI">>
Shutdown == <<"powerDown", "disablePin", "PowerDown">>

Transition == [
    PowerDown |-> [ToPowerDown |-> <<>>, ToStandbyI |-> Boot,
                   ToRxMode |-> Boot \o <<"ToRxMode">>, ToTxMode |-> Boot \o <<"ToTxMode">>],
    StandbyI |-> [ToPowerDown |-> Shutdown, ToStandbyI |-> <<>>,
                  ToRxMode |-> Listen, ToTxMode |-> <<"transmitIfLoaded">>],
    RxMode |-> [ToPowerDown |-> StopListen \o <<"ToPowerDown">>, ToStandbyI |-> StopListen,
                ToRxMode |-> <<>>, ToTxMode |-> StopListen \o <<"ToTxMode">>],
    TxMode |-> [ToPowerDown |-> StopTransmit \o <<"ToPowerDown">>, ToStandbyI |-> StopTransmit,
                ToRxMode |-> StopTransmit \o <<"ToRxMode">>, ToTxMode |-> <<>>]]

\* The steps of the other methods; a state is the one they found.
Configure(state) == <<"ToPowerDown">> \o ApplyTo[state]
StartListening == <<"setCallback", "ToRxMode">>
TransmitPacket(state) ==
    <<"ToStandbyI", "prepare", "load", "ToTxMode", "wait", "ToStandbyI", "evaluate", "restore">>
        \o ApplyTo[state]
Reboot(state) == <<"ToPowerDown">> \o ApplyTo[state]

-----------------------------------------------------------------------------
Init ==
    /\ mCurrentState = "PowerDown" /\ mInterruptState = "Ignore"
    /\ mEmptyReceiveCounter = 0 /\ mCallback = FALSE
    /\ todo = [context |-> <<>>, main |-> Configure("PowerDown") \o StartListening]
    /\ receivedAny = [t \in Threads |-> FALSE]
    /\ timedOut = FALSE /\ backupPipe0 = "own"
    /\ tasks = <<>>
    /\ mEnabled = FALSE /\ edge = FALSE /\ poll = "off"
    /\ power = FALSE /\ chipEnable = FALSE /\ mode = "transmit" /\ pipe0 = "none"
    /\ rxFifo = <<>> /\ txFifo = <<>> /\ flags = {} /\ onAir = FALSE
    /\ sends = 0 /\ arrived = 0 /\ invalid = 0 /\ delivered = <<>>
    /\ writing = 0 /\ acknowledged = {}
    /\ rebooted = FALSE /\ early = FALSE /\ lastWrite = [nr |-> 0, result |-> FALSE]

\* The pin is low while a flag is up.
PinHigh == flags = {}

Idle(t) == todo[t] = <<>>
Reached(t, step) == todo[t] # <<>> /\ Head(todo[t]) = step
Continue(t, steps) == todo' = [todo EXCEPT ![t] = steps \o Tail(@)]

-----------------------------------------------------------------------------
(* Steps that change one thing. *)

\* A virtual call: the state at the moment of the call decides.
Call(t) ==
    /\ todo[t] # <<>> /\ Head(todo[t]) \in DOMAIN Transition.PowerDown
    /\ Continue(t, Transition[mCurrentState][Head(todo[t])])
    /\ UNCHANGED <<controller, locals, tasks, pin, device, history>>

Enter(t) ==
    /\ todo[t] # <<>> /\ Head(todo[t]) \in States
    /\ mCurrentState' = Head(todo[t])
    /\ Continue(t, <<>>)
    /\ UNCHANGED <<mInterruptState, mEmptyReceiveCounter, mCallback, locals, tasks,
                   pin, device, history>>

SetInterruptState(t) ==
    /\ todo[t] # <<>> /\ Head(todo[t]) \in {"Ignore", "Rx", "Tx"}
    /\ mInterruptState' = Head(todo[t])
    /\ Continue(t, <<>>)
    /\ UNCHANGED <<mCurrentState, mEmptyReceiveCounter, mCallback, locals, tasks,
                   pin, device, history>>

SetCallback(t) ==
    /\ Reached(t, "setCallback")
    /\ mCallback' = TRUE
    /\ Continue(t, <<>>)
    /\ UNCHANGED <<mCurrentState, mInterruptState, mEmptyReceiveCounter, locals, tasks,
                   pin, device, history>>

\* The registers and pins that set the device's mode; without power it is silent.
SetMode(t) ==
    /\ todo[t] # <<>>
    /\ LET step == Head(todo[t])
       IN  /\ step \in {"powerUp", "powerDown", "chipEnable", "chipDisable", "receiveMode",
                         "transmitMode"}
           /\ power' = IF step \in {"powerUp", "powerDown"} THEN step = "powerUp" ELSE power
           /\ chipEnable' = IF step \in {"chipEnable", "chipDisable"} THEN step = "chipEnable"
                            ELSE chipEnable
           /\ mode' = CASE step = "receiveMode" -> "receive"
                        [] step = "transmitMode" -> "transmit"
                        [] OTHER -> mode
           /\ onAir' = (onAir /\ step # "powerDown")
    /\ Continue(t, <<>>)
    /\ UNCHANGED <<controller, locals, tasks, pin, pipe0, rxFifo, txFifo, flags, history>>

\* Each clear method writes back the flags it read: it clears them all.
Clear(t) ==
    /\ Reached(t, "clear") \/ Reached(t, "clearIfSet")
    /\ flags' = {}
    /\ Continue(t, <<>>)
    /\ UNCHANGED <<controller, locals, tasks, pin, modes, rxFifo, txFifo, onAir, history>>

Flush(t) ==
    /\ Reached(t, "flush") \/ Reached(t, "flushTransmitFifo")
    /\ rxFifo' = IF Head(todo[t]) = "flush" THEN <<>> ELSE rxFifo
    /\ txFifo' = <<>> /\ onAir' = FALSE
    /\ Continue(t, <<>>)
    /\ UNCHANGED <<controller, locals, tasks, pin, modes, flags, history>>

ConfigureDevice(t) ==
    /\ Reached(t, "configureDevice")
    /\ pipe0' = "own"
    /\ Continue(t, <<>>)
    /\ UNCHANGED <<controller, locals, tasks, pin, power, chipEnable, mode, fifos, history>>

-----------------------------------------------------------------------------
(* The interrupt pin, as the controller calls it. *)

\* InterruptPin::enable throws when it is enabled: the caller is abandoned.
EnablePin(t) ==
    /\ Reached(t, "enablePin")
    /\ IF mEnabled
       THEN todo' = [todo EXCEPT ![t] = <<>>] /\ UNCHANGED pin
       ELSE /\ mEnabled' = TRUE /\ edge' = FALSE /\ poll' = "waiting"
            /\ Continue(t, <<>>)
    /\ UNCHANGED <<controller, locals, tasks, device, history>>

DisablePin(t) ==
    /\ Reached(t, "disablePin")
    /\ mEnabled' = FALSE
    /\ Continue(t, IF mEnabled THEN <<"joinPin">> ELSE <<>>)
    /\ UNCHANGED <<controller, locals, tasks, edge, poll, device, history>>

JoinPin(t) ==
    /\ Reached(t, "joinPin")
    /\ poll = "ended"
    /\ poll' = "off"
    /\ Continue(t, <<>>)
    /\ UNCHANGED <<controller, locals, tasks, mEnabled, edge, device, history>>

-----------------------------------------------------------------------------
(* Reading what was received. *)

\* RxMode::ToStandbyI reads when the pin is low, and clears.
DrainIfSet(t) ==
    /\ Reached(t, "drainIfSet")
    /\ Continue(t, IF PinHigh THEN <<>> ELSE <<"readReceiveData", "clear">>)
    /\ UNCHANGED <<controller, locals, tasks, pin, device, history>>

ReadReceiveData(t) ==
    /\ Reached(t, "readReceiveData")
    /\ receivedAny' = [receivedAny EXCEPT ![t] = FALSE]
    /\ Continue(t, <<"read">>)
    /\ UNCHANGED <<controller, timedOut, backupPipe0, tasks, pin, device, history>>

\* Mutant: a packet is handled before the tasks that wait.
ReadToFront(t) ==
    /\ Reached(t, "read") /\ rxFifo # <<>>
    /\ \/ /\ Head(rxFifo).valid
          /\ tasks' = <<[op |-> "handle", nr |-> Head(rxFifo).nr]>> \o tasks
          /\ receivedAny' = [receivedAny EXCEPT ![t] = TRUE]
          /\ rxFifo' = Tail(rxFifo)
       \/ /\ ~Head(rxFifo).valid
          /\ rxFifo' = <<>>
          /\ UNCHANGED <<tasks, receivedAny>>
    /\ Continue(t, <<"clear", "read">>)
    /\ UNCHANGED <<controller, timedOut, backupPipe0, pin, modes, txFifo, flags, onAir, history>>

\* One round of the loop; a packet of invalid length empties the FIFO.
Read(t) ==
    /\ Reached(t, "read") /\ rxFifo # <<>>
    /\ \/ /\ Head(rxFifo).valid
          /\ tasks' = Append(tasks, [op |-> "handle", nr |-> Head(rxFifo).nr])
          /\ receivedAny' = [receivedAny EXCEPT ![t] = TRUE]
          /\ rxFifo' = Tail(rxFifo)
       \/ /\ ~Head(rxFifo).valid
          /\ rxFifo' = <<>>
          /\ UNCHANGED <<tasks, receivedAny>>
    /\ Continue(t, <<"clear", "read">>)
    /\ UNCHANGED <<controller, timedOut, backupPipe0, pin, modes, txFifo, flags, onAir, history>>

\* Mutant: one empty read more.
ReadEndsOneTooLate(t) ==
    /\ Reached(t, "read") /\ rxFifo = <<>>
    /\ \/ /\ receivedAny[t] \/ mEmptyReceiveCounter <= MaxEmpty
          /\ mEmptyReceiveCounter' = IF receivedAny[t] THEN 0 ELSE mEmptyReceiveCounter + 1
          /\ Continue(t, <<>>)
          /\ UNCHANGED <<rebooted, early>>
       \/ /\ ~receivedAny[t] /\ mEmptyReceiveCounter > MaxEmpty
          /\ mEmptyReceiveCounter' = 0
          /\ Continue(t, Reboot(mCurrentState))
          /\ rebooted' = (rebooted \/ writing # 0)
          /\ early' = (early \/ ~Idle("main"))
    /\ UNCHANGED <<mCurrentState, mInterruptState, mCallback, locals, tasks, pin, device,
                   sends, arrived, invalid, delivered, writing, acknowledged, lastWrite>>

\* The counter goes up before it is compared with the limit.
ReadEnds(t) ==
    /\ Reached(t, "read") /\ rxFifo = <<>>
    /\ \/ /\ receivedAny[t] \/ mEmptyReceiveCounter < MaxEmpty
          /\ mEmptyReceiveCounter' = IF receivedAny[t] THEN 0 ELSE mEmptyReceiveCounter + 1
          /\ Continue(t, <<>>)
          /\ UNCHANGED <<rebooted, early>>
       \/ /\ ~receivedAny[t] /\ mEmptyReceiveCounter >= MaxEmpty
          /\ mEmptyReceiveCounter' = 0
          /\ Continue(t, Reboot(mCurrentState))
          /\ rebooted' = (rebooted \/ writing # 0)
          /\ early' = (early \/ ~Idle("main"))
    /\ UNCHANGED <<mCurrentState, mInterruptState, mCallback, locals, tasks, pin, device,
                   sends, arrived, invalid, delivered, writing, acknowledged, lastWrite>>

-----------------------------------------------------------------------------
(* transmitPacket. *)

Prepare(t) ==
    /\ Reached(t, "prepare")
    /\ backupPipe0' = pipe0 /\ pipe0' = "other"
    /\ Continue(t, <<>>)
    /\ UNCHANGED <<controller, receivedAny, timedOut, tasks, pin, power, chipEnable, mode,
                   fifos, history>>

\* The payload is written until the FIFO is not empty; a full one ignores it.
Load(t) ==
    /\ Reached(t, "load")
    /\ txFifo' = IF Len(txFifo) < 3 THEN Append(txFifo, writing) ELSE txFifo
    /\ timedOut' = FALSE
    /\ Continue(t, <<>>)
    /\ UNCHANGED <<controller, receivedAny, backupPipe0, tasks, pin, modes, rxFifo, flags,
                   onAir, history>>

TransmitIfLoaded(t) ==
    /\ Reached(t, "transmitIfLoaded")
    /\ Continue(t, IF txFifo = <<>> THEN <<>> ELSE Transmit)
    /\ UNCHANGED <<controller, locals, tasks, pin, device, history>>

\* Mutant: no timeout.
WaitForIrq(t) ==
    /\ Reached(t, "wait")
    /\ ~PinHigh
    /\ Continue(t, <<>>)
    /\ UNCHANGED <<controller, locals, tasks, pin, device, history>>

\* The loop ends when the pin is low or, looked at next, the 100 ms are over.
Wait(t) ==
    /\ Reached(t, "wait")
    /\ timedOut' = PinHigh
    /\ Continue(t, <<>>)
    /\ UNCHANGED <<controller, receivedAny, backupPipe0, tasks, pin, device, history>>

\* Mutant: the timeout is not looked at.
EvaluateStatusOnly(t) ==
    /\ Reached(t, "evaluate")
    /\ LET failed == "retransmitsExceeded" \in flags
       IN  /\ lastWrite' = [nr |-> writing, result |-> ~failed]
           /\ Continue(t, IF failed THEN <<"flushTransmitFifo">> ELSE <<>>)
    /\ flags' = IF flags \cap {"retransmitsExceeded", "dataSent"} # {} THEN {} ELSE flags
    /\ UNCHANGED <<controller, locals, tasks, pin, modes, rxFifo, txFifo, onAir,
                   sends, arrived, invalid, delivered, writing, acknowledged, rebooted, early>>

\* From reading the status to clearing it.
Evaluate(t) ==
    /\ Reached(t, "evaluate")
    /\ LET failed == timedOut \/ "retransmitsExceeded" \in flags
       IN  /\ lastWrite' = [nr |-> writing, result |-> ~failed]
           /\ Continue(t, IF failed THEN <<"flushTransmitFifo">> ELSE <<>>)
    /\ flags' = IF flags \cap {"retransmitsExceeded", "dataSent"} # {} THEN {} ELSE flags
    /\ UNCHANGED <<controller, locals, tasks, pin, modes, rxFifo, txFifo, onAir,
                   sends, arrived, invalid, delivered, writing, acknowledged, rebooted, early>>

\* Mutant: pipe 0 keeps the address of the write.
RestoreNothing(t) ==
    /\ Reached(t, "restore")
    /\ writing' = 0
    /\ Continue(t, <<>>)
    /\ UNCHANGED <<controller, locals, tasks, pin, device,
                   sends, arrived, invalid, delivered, acknowledged, lastWrite, rebooted, early>>

Restore(t) ==
    /\ Reached(t, "restore")
    /\ pipe0' = backupPipe0
    /\ writing' = 0
    /\ Continue(t, <<>>)
    /\ UNCHANGED <<controller, locals, tasks, pin, power, chipEnable, mode, fifos,
                   sends, arrived, invalid, delivered, acknowledged, lastWrite, rebooted, early>>

-----------------------------------------------------------------------------
(* The users and the execution context. *)

Started == Idle("main") /\ mCallback

\* RfPacketSocket::send: a write as a task, for who has the constructed socket.
\* RfNetworkSocket::sendInternal repeats a write that failed within its task, as
\* if that were the next to wait.
Send ==
    /\ sends < MaxSends
    /\ Started
    /\ sends' = sends + 1
    /\ tasks' = Append(tasks, [op |-> "send", nr |-> sends + 1])
    /\ UNCHANGED <<controller, todo, locals, pin, device, arrived, invalid, delivered,
                   writing, acknowledged, lastWrite, rebooted, early>>

\* transmitPacket, called in a task.
StartWrite(nr) ==
    /\ todo' = [todo EXCEPT !["context"] = TransmitPacket(mCurrentState)]
    /\ writing' = nr
    /\ early' = (early \/ ~Idle("main"))

\* The callback, RfNetworkSocket's, keeps a packet for this node, or forwards it:
\* a write in the same task, whether main is done with startListening or not.
HandleReceiveData(nr) ==
    /\ delivered' = IF mCallback THEN Append(delivered, nr) ELSE delivered
    /\ \/ UNCHANGED <<todo, sends, writing, early>>
       \/ /\ mCallback /\ sends < MaxSends
          /\ sends' = sends + 1
          /\ StartWrite(sends + 1)

TakeTask ==
    /\ Idle("context") /\ tasks # <<>>
    /\ tasks' = Tail(tasks)
    /\ LET task == Head(tasks)
       IN  \/ /\ task.op = "send"
              /\ StartWrite(task.nr)
              /\ UNCHANGED <<sends, delivered>>
           \/ /\ task.op = "read"
              /\ todo' = [todo EXCEPT !["context"] = <<"readReceiveData">>]
              /\ UNCHANGED <<sends, writing, delivered, early>>
           \/ /\ task.op = "handle"
              /\ HandleReceiveData(task.nr)
    /\ UNCHANGED <<controller, locals, pin, device, arrived, invalid, acknowledged,
                   rebooted, lastWrite>>

-----------------------------------------------------------------------------
(* The thread of the interrupt pin. *)

\* poll returns for an edge, or after 30 seconds for none, longer than a start takes.
PollWakes ==
    /\ poll = "waiting" /\ mEnabled
    /\ edge \/ Idle("main")
    /\ Len(tasks) < MaxTasks
    /\ edge' = FALSE
    /\ poll' = "handling"
    /\ UNCHANGED <<controller, todo, locals, tasks, mEnabled, device, history>>

OnInterrupt ==
    /\ poll = "handling"
    /\ poll' = "waiting"
    /\ tasks' = IF mInterruptState = "Rx" THEN Append(tasks, [op |-> "read", nr |-> 0]) ELSE tasks
    /\ UNCHANGED <<controller, todo, locals, mEnabled, edge, device, history>>

PollEnds ==
    /\ poll = "waiting" /\ ~mEnabled
    /\ poll' = "ended"
    /\ UNCHANGED <<controller, todo, locals, tasks, mEnabled, edge, device, history>>

-----------------------------------------------------------------------------
(* The device. *)

Raise(flag) ==
    /\ flags' = flags \cup {flag}
    /\ edge' = (edge \/ PinHigh)

Receiving == power /\ chipEnable /\ mode = "receive"

Arrive(valid) ==
    /\ Receiving /\ Len(rxFifo) < 3 /\ arrived < MaxArrivals
    /\ ~valid => invalid < MaxInvalid
    /\ arrived' = arrived + 1
    /\ invalid' = IF valid THEN invalid ELSE invalid + 1
    /\ rxFifo' = Append(rxFifo, [nr |-> arrived + 1, valid |-> valid])
    /\ Raise("dataReady")
    /\ UNCHANGED <<controller, todo, locals, tasks, mEnabled, poll, modes, txFifo, onAir,
                   sends, delivered, writing, acknowledged, lastWrite, rebooted, early>>

\* A transmission goes on when the chip is disabled in its middle.
Transmits ==
    /\ power /\ chipEnable /\ mode = "transmit" /\ txFifo # <<>>
    /\ ~onAir /\ "retransmitsExceeded" \notin flags
    /\ onAir' = TRUE
    /\ UNCHANGED <<controller, todo, locals, tasks, pin, modes, rxFifo, txFifo, flags, history>>

DataSent ==
    /\ onAir
    /\ onAir' = FALSE
    /\ txFifo' = Tail(txFifo)
    /\ acknowledged' = acknowledged \cup {Head(txFifo)}
    /\ Raise("dataSent")
    /\ UNCHANGED <<controller, todo, locals, tasks, mEnabled, poll, modes, rxFifo,
                   sends, arrived, invalid, delivered, writing, lastWrite, rebooted, early>>

RetransmitsExceeded ==
    /\ onAir
    /\ onAir' = FALSE
    /\ Raise("retransmitsExceeded")
    /\ UNCHANGED <<controller, todo, locals, tasks, mEnabled, poll, modes, rxFifo, txFifo,
                   history>>

-----------------------------------------------------------------------------
Step(t) ==
    \/ Call(t) \/ Enter(t) \/ SetInterruptState(t) \/ SetCallback(t) \/ SetMode(t) \/ Clear(t)
    \/ Flush(t) \/ ConfigureDevice(t) \/ EnablePin(t) \/ DisablePin(t) \/ JoinPin(t)
    \/ DrainIfSet(t) \/ ReadReceiveData(t) \/ Read(t) \/ ReadEnds(t)
    \/ Prepare(t) \/ Load(t) \/ TransmitIfLoaded(t) \/ Wait(t) \/ Evaluate(t) \/ Restore(t)

Next ==
    \/ \E t \in Threads : Step(t)
    \/ TakeTask \/ Send
    \/ PollWakes \/ OnInterrupt \/ PollEnds
    \/ \E valid \in BOOLEAN : Arrive(valid)
    \/ Transmits \/ DataSent \/ RetransmitsExceeded

Spec == Init /\ [][Next]_vars

\* The threads run, and the interrupt thread wakes for an edge; the device and
\* the 30 s timeout owe nothing.
FairSpec ==
    /\ Spec
    /\ \A t \in Threads : WF_vars(Step(t))
    /\ WF_vars(TakeTask)
    /\ WF_vars(edge /\ PollWakes) /\ WF_vars(OnInterrupt) /\ WF_vars(PollEnds)

-----------------------------------------------------------------------------
(* Properties. *)

\* Types; the counter of empty reads stays within its limit (readReceiveData).
TypeOK ==
    /\ mCurrentState \in States /\ mInterruptState \in {"Ignore", "Rx", "Tx"}
    /\ mEmptyReceiveCounter \in 0 .. MaxEmpty
    /\ delivered \in Seq(1 .. MaxArrivals)
    /\ poll \in {"off", "waiting", "handling", "ended"}
    /\ Len(txFifo) <= 3 /\ Len(rxFifo) <= 3
    /\ acknowledged \subseteq 1 .. MaxSends

\* Whatever the context just did (a write that failed, a reboot in the middle
\* of a transition), when it is done the device listens at its own addresses
\* and its interrupts are let through.  Not so when it forwarded a packet, or
\* rebooted, after main enabled the chip in startListening and before main
\* declared RxMode: transmitPacket then takes StandbyI for the state to return to.
IdleListens ==
    Started /\ Idle("context") /\ ~early
        => /\ mCurrentState = "RxMode" /\ Receiving /\ pipe0 = "own"
           /\ mInterruptState = "Rx" /\ mEnabled

\* A write returns a size only when the device got the acknowledgement of this
\* very packet.  Not so once the transition to StandbyI of some write rebooted
\* the device, which then listens while transmitPacket takes it to be in standby:
\* a packet received now ends the wait, the one written stays in the FIFO, and
\* each later write sends the packet before it.  Nor when a write began while main
\* was starting: main declares RxMode over TxMode, and the transition that ends
\* the write clears the flags before transmitPacket reads the status.
SuccessMeansSent ==
    lastWrite.result /\ ~rebooted /\ ~early => lastWrite.nr \in acknowledged

Handles == {i \in DOMAIN tasks : tasks[i].op = "handle"}
InOrder(packets, indices) ==
    \A i, j \in indices : i < j => packets[i].nr < packets[j].nr

\* Packets reach the callback once and in the order of their arrival, also
\* those read in the transition that starts a write: what is in the FIFO comes
\* after what waits as a task, and that after what was handed over.
DeliveredInOrder ==
    /\ \A i, j \in DOMAIN delivered : i < j => delivered[i] < delivered[j]
    /\ InOrder(tasks, Handles) /\ InOrder(rxFifo, DOMAIN rxFifo)
    /\ \A d \in DOMAIN delivered, h \in Handles : delivered[d] < tasks[h].nr
    /\ \A d \in DOMAIN delivered, f \in DOMAIN rxFifo : delivered[d] < rxFifo[f].nr
    /\ \A h \in Handles, f \in DOMAIN rxFifo : tasks[h].nr < rxFifo[f].nr

\* Every task comes to its end: a write whose packet is never acknowledged, and
\* a reboot, which joins the thread of the interrupt pin.
TaskReturns == todo["context"] # <<>> ~> todo["context"] = <<>>

\* What the device received is read although edges are dropped during writes
\* and every clear clears all flags.  After a reboot in the middle of a write
\* only the 30 s of the interrupt pin, or the next packet, see to it; after a
\* write while main was starting the radio may stay in StandbyI.
ReceivedIsRead == rxFifo # <<>> ~> rxFifo = <<>> \/ rebooted \/ early
===============================================================================
