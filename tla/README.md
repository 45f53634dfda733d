# TLA+ models of the BtEmbedded MQTT-SN gateway

The repository is an MQTT-SN gateway for the Raspberry Pi. Sensor nodes talk to
it over nRF24L01 radios; for every node it keeps a session at an MQTT broker.
This directory models the parts of the gateway where threads, queues, timeouts
and an unreliable radio meet, checks the models with TLC on small instances,
and proves their main invariants with TLAPS for instances of every size.

`PROJECT.json` lists components, runs, mutants, the source lines of every
definition, hazards, findings and theorems. This file explains them.

Paths below are short: `BC/` is `src/BtCore/source/main/`, `GW/` is
`src/BtMqttSnGateway/source/main/`, and `Bt/` directories are under their `src`
and `inc`.

## 1. Inventory

### Threads and how they meet

| thread | started by | runs | talks to the others through |
|---|---|---|---|
| main | `main` | waits for a signal, `SnGateway::stop`, destructors | `mRunning`, `mStopping`, `RfPacketSocket::close`, the repository's mutex |
| gateway loop | `Main.cpp` | `SnGateway::run` | `RfPacketSocket::receive` (a queue), the repository |
| worker | `ExecutionContext` in `SnGateway` | removals of connections | its task queue, the repository |
| one per node | `GatewayConnection` | `workcycle` | its `mQueue` |
| radio | `ExecutionContext` in `RfPacketSocketFactory` | sending, reading the radio | its task queue, futures, the receive queue |
| interrupt | `InterruptPinPlatform` | `poll` on the IRQ line | tasks for the radio thread |
| broker library | paho MQTT C | callbacks | `mQueue` of the connection |

Almost all of it is threads with mailboxes, so what is hard is: who destroys
what while whose message is on its way, what a blocked thread keeps others from
doing, what a timeout does at a bad moment, and which of two tables is stale.

### Components

| component | state | operations | properties that make it correct |
|---|---|---|---|
| `TopicStorage` | a vector and a map | look up, get or create, clear | the two are inverse; an id stays with its name |
| `GatewayConnection` | state machine, mailbox, timeouts, buffer, broker client | handlers of ten messages, broker callbacks, timeouts, destruction | truthful CONNACK, no lost or overtaken message through sleeps, resolvable topic ids, silent clients dropped, the destructor returns |
| `BlockingQueue` | queue, mutex, condition variable | push, pop, tryPop, timed tryPop | no lost wake-up, it is a FIFO queue |
| `SnGateway`, `Repository` | flags, map of connections, worker queue | receive loop, add, look up, remove, clear, stop | one thread per node, no message to a dying connection, complete shutdown, stop returns |
| `RfNetworkSocket`, `RfNetworkRoutingAlgorithm`, `RfNode` | packet ids, callback | send with retries, forward, deliver | packets stay on the path of the tree, sends return, accepted packets arrive or are given up by a node |
| `Rf24DeviceController` | mode machine, interrupt state, counter of empty reads | configure, write, listen, read, reboot | device and mode agree, received packets are read, a write ends |
| `Rf24Device`, `InterruptPin` | registers, FIFOs, IRQ line | SPI transfers, `poll` | a flag is never lost, the thread joins; modelled with the controller |
| `MqttClient` | map of delivery tokens and promises | connect, publish, disconnect, callbacks, destruction | true means delivered, a delivery answers its call, only an overtaken report breaks a future |
| `ExecutionContext` | task queue, a flag | invoke, invokeTask, run, destruction | an exception of a task reaches its caller or nobody, and never ends the thread |
| `RfPacketSocket` | receive queue, the two callbacks below it | send, receive, close, destruction by the wrapper of `RfPacketSocketFactory` | close releases the receiver, at most one packet after it, no task with a packet of a sender that is gone |
| MQTT-SN messages | buffers with an 8 bit length | write, parse | a message is handled as it was written or not at all; the parser stays inside the packet |
| `Workcycle`, `PeriodicWorkcycle`, `IntrusiveList`, `Timeout`, `CountdownLatch`, `RmiProxyStreamSocket` | list of runnables, time stamps, counters | add, remove, run; count down, wait | not modelled: examples and tests use them, the gateway does not (`Timeout`: see `Rf24Controller`) |
| logging, settings, pins, SPI, buffers, examples, build, vendored code | - | - | not modelled: no behaviour other parts depend on, or third-party |

### Hard behaviours

`PROJECT.json` has them under `hazards`, each at its line. The main ones:
removal, replacement and destruction of a connection (three threads may drop
its last pointer); the shutdown from a second thread; a publish that blocks the
connection's thread; a session that sleeps, wakes and receives in between; the
timed wait against a late push; the 16 bit topic ids and the 8 bit packet ids,
addresses and message lengths; a lost acknowledgement on the radio; the mode
machine of the radio that is re-entered by its own reboot; callbacks that the main
thread empties while the radio's thread tests and calls them; a delivery that the
broker library reports before the promise for it is stored.

## 2. Modules

| module | extends, uses | models |
|---|---|---|
| `TopicStorage` | | `GW/Bt/Mqtt/TopicStorage.cpp` |
| `GatewayConnection` | instance of `TopicStorage` | `GW/Bt/Mqtt/GatewayConnection.cpp` |
| `FifoQueue` | | the promise of `BlockingQueue` |
| `BlockingQueue` | refines `FifoQueue` | `BC/Bt/Concurrency/BlockingQueue.hpp` |
| `SnGateway` | | `GW/Bt/Mqtt/SnGateway.cpp`, `Bt/Util/Repository.hpp`, `Main.cpp`, the worker |
| `RfRouting` | | `RfNetworkRoutingAlgorithm.cpp`, `RfNode.cpp` |
| `RfNetwork` | extends `RfRouting` | a network of `RfNetworkSocket`s |
| `Rf24Controller` | | `BC/Bt/Rf24/Rf24Controller.cpp` with `Rf24Device.cpp`, `InterruptPinPlatform.cpp` and the chip |
| `RfPacketSocket` | | `BC/Bt/Rf24/RfPacketSocket.cpp`, `BC/Bt/Concurrency/ExecutionContext.cpp`, the callbacks and `stopListening` of the layers below |
| `MqttClient` | | `BC/Bt/Net/Mqtt/MqttClient.cpp` and the paho library |
| `MqttSnMessages` | | `BC/Bt/Net/MqttSn/Message.cpp`, `Messages.hpp`, the packets they travel in |
| `MC...` | | instances for TLC |
| `...Proofs` | | theorems and their proofs |

Variables carry the names of the members they model (`mQueue`,
`mCurrentState`, `mNameToId`); the others say where a thread is (`pc`, `run`,
`worker`, `main`) or what an observer saw. Actions carry the names of methods.
Definitions whose comment begins with `Mutant:` are not part of a specification:
each is a plausible bug (a dropped guard, a missing reset, a swapped order), and
substituting it for the definition after it makes some property fail.

**TopicStorage.** `GetOrCreateTopicId` and `Clear` are single steps, as each
method holds `mMutex`. An id is a position of the vector narrowed to 16 bits:
`NextId` is `Len % IdModulus`.

**GatewayConnection.** One action per handler, for the whole of it: what it
sends, the state it enters, what it clears. It is legitimate to take a handler
as one step because the other threads can only append to `mQueue` meanwhile. Two
handlers stay in the middle, with a `pc`: `publishing` (the thread blocks on a
future of the broker client) and `flushing` (a waking client is sent its buffer
message by message). Time passes in seconds (`elapsed`) and only while the
thread waits for its queue.

**BlockingQueue.** The mutex, the waiting on the condition variable, the notify
and the expiry of the timed wait are separate steps, with spurious wake-ups.

**SnGateway.** One step per statement of the loop between which another thread
can act. The `shared_ptr`s to a connection are the repository's entry and the
local variable of the loop. Whoever drops the last one runs the destructor: a
step that queues the stop (`BeginDestroy`) and a step when the thread has ended
(`Joined`), the repository meanwhile under its own lock.

**RfRouting, RfNetwork.** Node ids form a tree with five children each. Each
node runs its socket in its execution context, a queue of tasks; a send blocks
that thread for up to five writes per hop. A write is heard by any subset of
those that listen on the address, and may be reported as failed though heard
(the acknowledgement was lost). Who listens is computed from the pipes the nodes
configure, so an address that wraps would be seen.

**Rf24Controller.** The controller's methods are virtual calls on the current
mode, and reading may reboot in the middle of a transition. Each of the two
threads that call it (the context, and main while it starts) therefore has a
list `todo` of the accesses to members and device it still has to make; a call
puts the steps of its body in front (`Transition[mCurrentState][...]`), and every
step is one that the interrupt thread and the device interleave with. The chip
is modelled from what the controller relies on: it receives and sends when power,
chip enable and mode let it, raises flags, pulls the IRQ line, and finishes a
transmission that is on the air. A clear writes back the flags it read, and
so clears them all. The 100 ms of a write may be over at any time; the 30 s
of the pin too, but not while main still starts. A packet that is read is handed
to `RfNetworkSocket`, which keeps it or forwards it: a write in the same task of the
context (`HandleReceiveData`, `StartWrite`), and main may still be between two
statements of `startListening` then. `early` records that a write or a reboot began
there.

**RfPacketSocket.** Five kinds of threads: senders, which wait for the future of
their task; the execution context; the receiver; main, which closes and destroys;
the interrupt. A task is what the source's lambda does, in steps: the two
`std::function` members on the way of a packet are emptied by main without a lock,
so testing one, calling it and what it calls are steps of their own, and the call
of one that was emptied in between throws. The exception goes to the sender's
future or is caught by `workcycle`. `Close` follows `close()` through both
`stopListening` methods; the transition to standby in it may read a packet in
main's thread, and a write that is under way restores listening, so interrupts
come until the end. A torn read of a `std::function` is not modelled, nor is what
a late task does to members already destroyed: the wrapper destroys the context
last, and what such a task does is heard by nobody.

**MqttClient.** A call of `publish` is taken by the library (`Publish`), which
answers with a token, and later stores its promise under the token (`Store`); in
between the library's thread may report the delivery (`overtaken`). Nobody then
fulfils that promise: the caller waits for ever, or until the next message with
this token overwrites the promise, which breaks the future. This, a lost connection
and a message that is not acknowledged are why the liveness properties of
`GatewayConnection` and `SnGateway` except a publish that never completes.

**MqttSnMessages.** Bytes with their real widths: a packet holds 29 and a length
byte wraps at 256. A writer's length, the cut of `writePayload`, the check of the
length in `SnGateway::run` and the reading of each field are translated; a field
that is missing at the end leaves an uninitialised variable, a choice over `Stale`.
`MessagesAssumption` says what a message is (`IsMessage`: a type and a value for each
of its fields) and that a packet is at most 29 bytes; no message is assumed to fit.

## 3. Runs

| run | instance | states | shows |
|---|---|---|---|
| `topic_storage` | 5 names, ids 0..3 | 326 | the tables agree below the limit of the ids; ids are stable |
| `topic_storage_wrap` | the same | | **finding**: id 0 is given beyond the limit |
| `gateway_connection` | 2 topics, 1 filter, 2 sessions, 2 broker messages, queue of 2 | 5.3M | seven invariants of a connection |
| `gateway_connection_live` | 1 topic, 1 session, 1 message | 157k | silent clients are dropped, the destructor returns |
| `gateway_connection_sleep` | keep alive 1 s, sleep 2 s | | **finding**: a sleeping client is dropped too early |
| `blocking_queue` | 3 threads, 2 values, length 3 | 159k | exclusion, no lost wake-up, refinement of `FifoQueue` |
| `sn_gateway` | 2 nodes, 3 connections, 3 packets, one request waiting | 125k | safety of removal and shutdown; stop returns, removals happen |
| `rf_network` | nodes 0, 1, 2, 6, 11; a route of 3 hops and one to oneself | 32k | packets stay on the path; sends return, accepted packets arrive |
| `rf24_controller` | 2 writes, 2 packets received, each valid or not, reboot after 2 empty reads | 652k | the radio comes back to listening; success is truthful; packets are read, in order; tasks end |
| `rf_packet_socket` | 2 senders, 1 call each, 2 interrupts | 267k | captured packets are alive, one packet at most after `close()`, sends and the shutdown end |
| `mqtt_client` | 3 publishes, 2 tokens | 78k | true means delivered; only an overtaken report leaves or breaks a future |
| `mqttsn_messages` | ten messages with strings around both limits, foreign packets of up to 4 bytes | 12k | handled as written or not at all; the parser's result is defined |

Symmetry is used in `blocking_queue` and `gateway_connection` only, which check
safety, and only over model values that no definition tells apart.

### Bounds

Every bound is a CONSTANT that guards an action of the environment; none guards
what the code does.

- `IdModulus` stands for 2^16. With 4 and five names the vector outgrows the
  ids. The theorems hold for any value.
- `MaxQueue` (`GatewayConnection`): the client and the broker push no more into
  a queue of this length. Two suffice for every order of two actions, a stop
  behind a message, and a push during a handler; a longer queue only repeats.
- `MaxMessages`, `MaxSessions`: two messages show an overtaking, two sessions a
  leftover of the first in the second.
- `MaxLength` (`BlockingQueue`): with three threads two can wait while the third
  pushes, or one waits while two push.
- `MaxConnections`, `MaxPackets`, `MaxRequests` (`SnGateway`): three connections
  and two nodes let one node be served, removed and served anew while another is
  alive, and while the worker handles one request another waits, which may be a
  stale one of the same connection. There are as many packets as connections, so
  that the loop is never stuck for want of an object. The safety properties are
  proved for all bounds.
- `MaxSends`, `MaxStops`, `MaxQueue` (`RfNetwork`): one packet over three hops, up
  and down the tree, and one to the sender itself; one node that stops, one task
  waiting per node. A node whose queue is full hears nothing, which is a loss like
  another. Node 6 is the child of node 1 that would hear a packet meant for node 11
  if it were sent down. Safety is proved for all bounds and all nodes.
- `MaxSends`, `MaxInterrupts` (`RfPacketSocket`): two tasks that wait while a third
  runs, of any two kinds; two packets could come through after a close.
- `Publishes`, tokens (`MqttClient`): two tokens for three messages force a token to
  be given again beside one in use.
- `Messages`, `ForeignPackets` (`MqttSnMessages`): strings that make a message about
  as long as a packet (29 bytes) or 251 to 289 bytes, where the length byte wraps
  and may equal the size of the cut packet; all packets of up to four bytes out of
  seven values. The properties are proved for every message and packet.
- `MaxEmpty` (`Rf24Controller`) is the limit of 10 of the code, here 1; a reboot
  is then reached in every phase of a task. `MaxTasks`: the interrupt thread
  wakes only while fewer than two tasks wait. More of its tasks only read an
  empty FIFO again. Packets arrive, are forwarded and cost empty reads at any time,
  also before main has left `startListening`.

`CHECK_DEADLOCK FALSE` stands where the system may really stop: after the
destruction of a connection or a socket, the shutdown of the gateway, or the last
packet or message.

### Fairness

- The connection's thread is scheduled, and time passes while it waits
  (`gateway_connection_live`). Nothing is assumed of the broker library: the
  properties except the case that a publish never completes.
- Each thread of the gateway is scheduled, no packet need arrive
  (`sn_gateway`). Nothing is assumed of the order in which a mutex is
  granted (weak fairness only): there are finitely many packets and removals, so
  the others stop competing.
- Some node's thread that has work is scheduled (`rf_network`). This is weaker than
  fairness for each node, and enough, since each has finitely much to do. The radio
  owes nothing: a write may fail for ever.
- The context, the receiver, main once it has been told to stop, and a sender that
  has its answer are scheduled (`rf_packet_socket`); nobody has to send, to
  interrupt or to stop.
- A call of `publish` goes on, and the library reports a delivery
  (`mqtt_client`). No acknowledgement need come from the broker.
- The context, main and the interrupt thread are scheduled, and the latter wakes
  for an edge (`rf24_controller`). The chip owes nothing, and neither does the
  30 s timeout of the pin: that received packets are read does not rest on it.

## 4. Findings

- `topic_storage_wrap`: `TopicStorage.cpp:33` narrows the size of the vector to
  16 bits. The 65536th name gets id 0, which the constructor marks as reserved
  (`TopicStorage.cpp:20`), and later names share ids with earlier ones.
- `gateway_connection_sleep`: `GatewayConnection.cpp:324` waits with
  `mKeepAliveTimeout` in every state, while its log (line 320) and the state's
  own `timeout()` say that a sleeping client is waited for as long as it sleeps.
  A client that sleeps longer than one and a half keep alive intervals is
  dropped.

The model of the controller shows two more behaviours, which no text of the
repository contradicts and which are therefore listed as hazards.

The first: when the transition out of `RxMode` reads only an invalid packet and the counter of empty
reads is at its limit, it reboots in its middle: the device listens again while
the transition goes on to declare standby. A packet received before the chip
transmits can then end the wait in `transmitPacket`, which reports success; the
packet written stays in the FIFO, and each later write sends the one before it.
`SuccessMeansSent` is stated for runs without such a reboot, and after one
`ReceivedIsRead` depends on the next packet or the 30 s timeout of the pin.

The second: `startListening` enables the chip (`Rf24Controller.cpp:313`) before it
declares `RxMode` (line 315), and both callbacks are stored by then. One packet to
forward that arrives and is handled in between makes the context call
`transmitPacket` while the declared state is still `StandbyI`, so that is the state
it restores: the radio stays in standby, deaf. Or main declares `RxMode` over
`TxMode`, the transition that ends the write is then the one out of `RxMode`, which
clears the flags before `transmitPacket` reads the status: a write that failed
returns a size. A packet that was in the receive FIFO stays there. A reboot in the
same place, which takes eleven empty reads, leaves the radio in standby too.
`IdleListens`, `SuccessMeansSent` and `ReceivedIsRead` except a write or a reboot
that began during the start (`early`); each of the three is violated in this very
instance when that exception is removed. What they cover of the start is reading.

## 5. Theorems

All proofs hold for every value of the constants under the named assumptions of
each module (bounds are natural numbers, ids fit in 8 bits, null is no object).

| module | theorem | argument |
|---|---|---|
| `TopicStorageProofs` | `TypeCorrect`, `TablesAlwaysAgree`, `IdsStayStable` | types are inductive; `IndInv` adds that each entry of the vector is mapped back to its position as long as ids fit, and that each mapped name is stored; agreement of the tables follows |
| `GatewayConnectionProofs` | `TypeCorrect`, `BrokerLinkAlwaysMatches`, `EndedIsAlwaysDisposed`, `ConnackIsAlwaysTruthful`, `IdsAlwaysAgree`, `PublishIsAlwaysResolvable`, `SessionIsAlwaysFifo` | the types, then `LifeInv` (broker link, end and waking fit the state), whose steps fall into five kinds (quiet, losing the link, waking, accepting, ending). The topic table is used only through its own methods (`StorageSteps`), so it inherits the invariant of `TopicStorageProofs`; with it, whatever the connection tells the client agrees with what it told before. The order of a session's messages is stated by positions: what was delivered precedes what is buffered, which precedes what is queued, and each step moves a message from one of the three to the end of the next |
| `BlockingQueueProofs` | `TypeCorrect`, `WakeupsAreNotLost`, `RefinesFifo` | invariant: the mutex belongs to the one thread inside, and a thread's place fits its call; the wake-up invariant counts threads on their way, with lemmas on the cardinality of their set; each step maps to a step of `FifoQueue` or to none |
| `SnGatewayProofs` | `TypeCorrect`, `NodesHaveOneThread`, `ReferencedIsAlwaysAlive`, `DownAlwaysMeansDown` | invariant `IInv`: every live connection is accounted for, as the repository's entry of its node, as the loop's local pointer, or as the victim of exactly one destroying thread, and who destroys under the lock keeps the loop from looking the node up; the order of the shutdown's steps is `ShutdownOK` |
| `RfNetworkProofs` | `TypeCorrect`, `StayOnPath`, `NextOnPath` | lemmas on the tree (a parent is one level up, one node per level is above an id, the chosen child is above the destination, only an id and its parent listen on an address) show that whoever hears a write is the next node on the path; the invariant carries that through queues and retries |
| `RfPacketSocketProofs` | `TypeCorrect`, `CapturedPacketIsAlwaysAlive`, `AtMostOneAfterClose` | for each sender: at most one of its tasks is queued or runs, and then it waits and the socket is open, carried through appending to and taking from the queue (`QueuedAppend`, `QueuedTail`); `CloseInv`: once the item of `close()` is pushed the callback is empty, so only a task past its test can still push, and there is one context |
| `MqttProofs` | `AlwaysHandledAsWritten`, `ParseIsAlwaysDefined` | a field that is appended to some bytes is read again at their end and moves nothing before it (`OneMore`, `Beginning`); hence bodies of each number of fields are read back (`BodyOfOne`, `BodyOfThree`, `BodyOfFour`), and with the header every message of every type (`EveryMessage`). What is cut keeps a length byte that is not its size (`LengthByte`, `CutIsNoticed`). The invariant `OnItsWay` says that the bytes of each stage are those of the message |
| | `TypeCorrect`, `TrueAlwaysMeansDelivered`, `BrokenIsAlwaysOvertaken` | about `MqttClient`; invariant: messages the library has not done with have distinct tokens (`TokensAreDistinct`), and what the map still holds under a token given again was overtaken (`LeftoversWereOvertaken`), so overwriting and erasing break nothing else |
| `Rf24ControllerProofs` | `TypeCorrect`, `AlwaysDeliveredInOrder` | the steps a thread has left are those of a write in their order, mixed with others (`LoadIsInWrite`; a step puts only others in front, `StepContinues`), so a payload is loaded only within its write; for the order, FIFO, tasks and what was handed over are one increasing sequence below the number of arrivals (`OrderInv`) |
| | `AlwaysListensWhenIdle` | below |
| | `SuccessAlwaysMeansSent` | below |

The proofs about the mode machine of `Rf24Controller` need what is left of each
thread's nested calls at every moment. `AlwaysListensWhenIdle` rests on these parts:

- `StepsInv`: in what a thread has left, each step determines the next ones
  (`Follows`, `Continues`, together `Linked`), and before a step of the driving
  thread the device, the line and the declared mode are as that step needs them
  (`HoldsBefore`); what the context does while the main thread starts the controller
  is read (`OnlyReads`). A step that does anything else there sets `early`, so the
  invariant is `early \/ ...`, and what follows is about the steps that leave it
  unset.
- `StartInv`: while the main thread starts the controller nothing is written or
  loaded, and pipe 0 is its own once the pin is enabled.
- `WriteInv`: the steps of a write lie below what they call, and a task is writing
  exactly while its `restore` is ahead.
- `PipeInv`: pipe 0 has another node's address only between `prepare` and `restore`.

`SuccessAlwaysMeansSent` adds `SentInv`. As long as no reboot came in the middle of
a transition, a reboot is ahead only after a write's `restore` (`NoReboot`), and from
`load` to the end of the wait the packet is alone in the FIFO of a device that does
not listen, with the flags saying what became of it (`HoldsWhileSending`). Hence the
wait of a write can only be ended by its own packet. This too is for runs that are
not `early`.

Checked by TLC only:

- Liveness (`SilentClientDropped`, `DestructorReturns`, `StopReturns`,
  `AskedIsRemoved`, `SendReturns` of the network and of the socket,
  `AcceptedArrives`, `TaskReturns`, `ReceivedIsRead`, `StopEnds`,
  `DeliveredIsAnswered`): ENABLED and fairness are out of the prover's reach.

No module uses a RECURSIVE operator: no body of a message has more than four fields,
so `MqttSnMessages` reads and writes them one by one.

## 6. What is left out of the models

- `GatewayConnection`: payloads, message ids and formatting. Of a message only
  what decides the handling is kept. Messages with a QoS of -1, will topics and
  gateway discovery end in the code's rejections.
- `SnGateway`: a second signal (it ends the process) and an exception out of
  `run()` (which ends the loop's thread). The destructor destroys `mConnections`
  before `mWorker` (`SnGateway.hpp:47-50`): a removal that is still queued then works
  on a destroyed repository, where the model has an empty one.
- `RfNetwork`: the payload and its size; reading and writing the device, which
  belong to the controller. A write that returns success is taken to have been heard:
  `SuccessMeansSent` of `Rf24Controller` says so except after a reboot within a write
  or a write during the start.
- `Rf24Controller`: `stopListening` and the destruction of the radio, which race
  with the tasks of the context (`RfPacketSocket` has their effect on callbacks and
  tasks, the controller's mode after them is a hazard without property); payload
  bytes and the registers that are written once.
- `RfPacketSocket`: `hasPendingPacket` and `pendingPacketSize`, which change nothing
  and which the gateway does not call.
- `MqttClient`: `subscribe` and `messageArrived` pass their arguments on and keep no
  state; a client connects once, as `GatewayConnection` uses it.
- `MqttSnMessages`: the bits of the flags, and printing.
- `Workcycle`, `PeriodicWorkcycle`, `IntrusiveList`, `RmiProxyStreamSocket` and
  `CountdownLatch`: no program of the gateway runs them.
- Logging, settings, pins, SPI, containers and the stubs of unfinished
  transports have no behaviour the others rely on. Vendored libraries,
  examples and the build framework are out of scope.

## 7. Plan

In this order, the most important behaviour first; 1 to 9 are done.

1. `TopicStorage`, proofs.
2. `GatewayConnection`, proofs.
3. `FifoQueue`, `BlockingQueue`, the refinement and its proof.
4. `SnGateway` with the repository and the worker, proofs.
5. `RfRouting`, `RfNetwork`, proofs.
6. `Rf24Controller` with the device and the interrupt line, proofs.
7. `MqttClient` with its delivery tokens, proofs (in `MqttProofs`).
8. `RfPacketSocket` on its `ExecutionContext`, with the shutdown, proofs.
9. `MqttSnMessages`: writing and parsing with the 8 bit length, proofs (in `MqttProofs`,
   with those of `MqttClient`).
10. Left: `stopListening` against a task in the mode machine of `Rf24Controller`.
11. Left: refinements between the layers, such as the connection as `SnGateway` sees
    it (a mailbox that may ask for its removal) implemented by `GatewayConnection`.
